--------------------------- MODULE GenerationProofs --------------------------
(***************************************************************************)
(* Proofs about Generation for every vocabulary, model, prompt, context,   *)
(* page size, number of pages, chunk size and number of heads.             *)
(*                                                                         *)
(* The first part has lemmas about the operators of KvCache, for any cache *)
(* record: what an update leaves in a buffer, and that reserving and       *)
(* writing keep a paged cache sound and append to its view.                *)
(*                                                                         *)
(* Embeds is a reading from the left; Within says that there is some way   *)
(* to read one sequence in another, which is what concatenation keeps.     *)
(***************************************************************************)
EXTENDS Generation, SequenceTheorems, WellFoundedInduction, TLAPS

Buffer == [filled : Seq(Entry), cap : Nat]

(* A buffer is not shorter than what it holds, and none means empty. *)
BufferSound(c) ==
  /\ c \in Buffer
  /\ Len(c.filled) <= c.cap

(* A typed cache whose pages are all accounted for, once each. *)
PagedSound(c) ==
  /\ c \in PagedType
  /\ PagesPartitioned(c) /\ TableCovers(c)
  /\ Len(c.free) + Len(c.table) = MaxPages

-----------------------------------------------------------------------------
(* Division by the page size.                                              *)

LEMMA DivMod ==
  ASSUME NEW x \in Nat, NEW p \in Nat \ {0}
  PROVE  /\ x \div p \in Nat /\ x % p \in 0 .. p - 1
         /\ x = p * (x \div p) + (x % p)
<1>1. x \div p \in Nat
  OBVIOUS
<1>2. x % p \in 0 .. p - 1
  OBVIOUS
<1>3. x = p * (x \div p) + (x % p)
  OBVIOUS
<1> QED BY <1>1, <1>2, <1>3

LEMMA TimesMonotonic ==
  ASSUME NEW p \in Nat, NEW m \in Int, NEW n \in Int, m <= n
  PROVE  p * m <= p * n
<1>1. PICK k \in Nat : n = m + k
  <2>1. n - m \in Nat /\ n = m + (n - m)
    OBVIOUS
  <2> QED BY <2>1
<1>2. p * n = p * m + p * k /\ p * k \in Nat /\ p * m \in Int
  BY <1>1
<1> QED BY <1>2

LEMMA DivUnique ==
  ASSUME NEW x \in Nat, NEW p \in Nat \ {0}, NEW q \in Nat, NEW r \in 0 .. p - 1,
         x = p * q + r
  PROVE  x \div p = q
<1> DEFINE d == x \div p
           e == x % p
<1>1. d \in Nat /\ e \in 0 .. p - 1 /\ x = p * d + e
  BY DivMod
<1> HIDE DEF d, e
<1>2. p * d \in Nat /\ p * q \in Nat /\ p * (d + 1) = p * d + p /\ p * (q + 1) = p * q + p
  BY <1>1
<1>3. ~(d + 1 <= q)
  <2>1. SUFFICES ASSUME d + 1 <= q PROVE FALSE
    OBVIOUS
  <2>2. p * (d + 1) <= p * q
    BY <1>1, <2>1, TimesMonotonic
  <2> QED BY <1>1, <1>2, <2>2
<1>4. ~(q + 1 <= d)
  <2>1. SUFFICES ASSUME q + 1 <= d PROVE FALSE
    OBVIOUS
  <2>2. p * (q + 1) <= p * d
    BY <1>1, <2>1, TimesMonotonic
  <2> QED BY <1>1, <1>2, <2>2
<1>5. d = q
  BY <1>1, <1>3, <1>4
<1> QED BY <1>5 DEF d

LEMMA DivMonotonic ==
  ASSUME NEW p \in Nat \ {0}, NEW x \in Nat, NEW y \in Nat, x <= y
  PROVE  x \div p <= y \div p
<1> DEFINE d == x \div p
           e == y \div p
           r == x % p
           s == y % p
<1>1. d \in Nat /\ e \in Nat /\ r \in 0 .. p - 1 /\ s \in 0 .. p - 1
      /\ x = p * d + r /\ y = p * e + s
  BY DivMod
<1> HIDE DEF d, e, r, s
<1>2. ~(e + 1 <= d)
  <2>1. SUFFICES ASSUME e + 1 <= d PROVE FALSE
    OBVIOUS
  <2>2. p * (e + 1) <= p * d
    BY <1>1, <2>1, TimesMonotonic
  <2>3. p * (e + 1) = p * e + p /\ p * e \in Nat /\ p * d \in Nat
    BY <1>1
  <2> QED BY <1>1, <2>2, <2>3
<1>3. d <= e
  BY <1>1, <1>2
<1> QED BY <1>3 DEF d, e

LEMMA BlocksForNat ==
  ASSUME NEW l \in Nat
  PROVE  BlocksFor(l) \in Nat /\ BlocksFor(0) = 0
<1>1. PageSize \in Nat \ {0}
  BY CacheAssumption
<1>2. l + PageSize - 1 \in Nat /\ 0 + PageSize - 1 \in Nat /\ 0 + PageSize - 1 = PageSize * 0 + (PageSize - 1)
      /\ PageSize - 1 \in 0 .. PageSize - 1
  BY <1>1
<1>3. (l + PageSize - 1) \div PageSize \in Nat
  BY <1>1, <1>2, DivMod
<1>4. (0 + PageSize - 1) \div PageSize = 0
  BY <1>1, <1>2, DivUnique
<1> QED BY <1>3, <1>4 DEF BlocksFor

LEMMA BlocksForMonotonic ==
  ASSUME NEW l \in Nat, NEW n \in Nat, l <= n
  PROVE  BlocksFor(l) <= BlocksFor(n)
<1>1. PageSize \in Nat \ {0}
  BY CacheAssumption
<1>2. l + PageSize - 1 \in Nat /\ n + PageSize - 1 \in Nat /\ l + PageSize - 1 <= n + PageSize - 1
  BY <1>1
<1> QED BY <1>1, <1>2, DivMonotonic DEF BlocksFor

(* A position below the cursor lies in a page of the table. *)
LEMMA PositionInTable ==
  ASSUME NEW g \in Nat, NEW l \in Nat, g < l
  PROVE  g \div PageSize + 1 \in 1 .. BlocksFor(l) /\ SlotOf(g) \in Slots
<1> DEFINE q == g \div PageSize
           r == g % PageSize
<1>1. PageSize \in Nat \ {0}
  BY CacheAssumption
<1>2. q \in Nat /\ r \in 0 .. PageSize - 1 /\ g = PageSize * q + r
  BY <1>1, DivMod
<1>3. BlocksFor(g + 1) = q + 1
  <2> HIDE DEF q, r
  <2>1. PageSize * (q + 1) = PageSize * q + PageSize /\ PageSize * q \in Nat
    BY <1>1, <1>2
  <2>2. g + 1 + PageSize - 1 \in Nat /\ g + 1 + PageSize - 1 = PageSize * (q + 1) + r /\ q + 1 \in Nat
    BY <1>1, <1>2, <2>1
  <2>3. (g + 1 + PageSize - 1) \div PageSize = q + 1
    BY <1>1, <1>2, <2>2, DivUnique
  <2> QED BY <2>3 DEF BlocksFor
<1>4. BlocksFor(g + 1) <= BlocksFor(l) /\ BlocksFor(l) \in Nat
  <2>1. g + 1 \in Nat /\ g + 1 <= l
    OBVIOUS
  <2> QED BY <2>1, BlocksForMonotonic, BlocksForNat
<1>5. q + 1 \in 1 .. BlocksFor(l)
  <2> HIDE DEF q
  <2> QED BY <1>2, <1>3, <1>4
<1> QED BY <1>2, <1>5 DEF SlotOf, Slots

(* Page and slot tell positions apart. *)
LEMMA PositionUnique ==
  ASSUME NEW g \in Nat, NEW h \in Nat, g \div PageSize = h \div PageSize, SlotOf(g) = SlotOf(h)
  PROVE  g = h
<1>1. PageSize \in Nat \ {0}
  BY CacheAssumption
<1>2. g = PageSize * (g \div PageSize) + (g % PageSize)
  BY <1>1, DivMod
<1>3. h = PageSize * (h \div PageSize) + (h % PageSize)
  BY <1>1, DivMod
<1>4. g % PageSize = h % PageSize
  BY DEF SlotOf
<1> QED BY <1>2, <1>3, <1>4, Zenon

-----------------------------------------------------------------------------
(* The growing buffer.                                                     *)

LEMMA EmptyBufferSound == BufferSound(EmptyBuffer)
  BY DEF EmptyBuffer, BufferSound, Buffer

LEMMA UpdateSound ==
  ASSUME NEW c, BufferSound(c), NEW new \in Seq(Entry), c.cap = 0 => Len(new) <= BufferLen
  PROVE  /\ BufferSound(Update(c, new))
         /\ Update(c, new).filled = c.filled \o new
         /\ Len(Update(c, new).filled) = Len(c.filled) + Len(new)
         /\ Update(c, new).cap # 0
<1> DEFINE u == Update(c, new)
           need == Len(c.filled) + Len(new)
<1>1. /\ c.filled \in Seq(Entry) /\ c.cap \in Nat /\ Len(c.filled) \in Nat
      /\ Len(c.filled) <= c.cap /\ Len(new) \in Nat /\ BufferLen \in Nat \ {0}
  BY CacheAssumption DEF BufferSound, Buffer
<1>2. u = [filled |-> c.filled \o new,
           cap |-> IF c.cap = 0 THEN BufferLen
                   ELSE IF need <= c.cap THEN c.cap ELSE Larger(2 * c.cap, need)]
  BY DEF Update
<1>3. c.filled \o new \in Seq(Entry) /\ Len(c.filled \o new) = need
  BY <1>1
<1>4. u.filled = c.filled \o new
  BY <1>2
<1>5. u.cap \in Nat /\ need <= u.cap /\ u.cap # 0
  <2>1. CASE c.cap = 0
    BY <1>1, <1>2, <2>1
  <2>2. CASE c.cap # 0 /\ need <= c.cap
    BY <1>1, <1>2, <2>2
  <2>3. CASE c.cap # 0 /\ ~(need <= c.cap)
    BY <1>1, <1>2, <2>3 DEF Larger
  <2> QED BY <2>1, <2>2, <2>3
<1>6. u \in Buffer
  BY <1>2, <1>3, <1>5 DEF Buffer
<1> HIDE DEF u
<1>7. BufferSound(u)
  BY <1>3, <1>4, <1>5, <1>6 DEF BufferSound
<1> QED BY <1>3, <1>4, <1>5, <1>7 DEF u

LEMMA TruncateSound ==
  ASSUME NEW c, BufferSound(c), NEW len \in Int
  PROVE  /\ BufferSound(Truncate(c, len))
         /\ len > 0 /\ c.filled # << >> =>
              Truncate(c, len).filled # << >> /\ Truncate(c, len).cap = c.cap
<1>1. c \in Buffer /\ c.filled \in Seq(Entry) /\ c.cap \in Nat /\ Len(c.filled) \in Nat /\ Len(c.filled) <= c.cap
  BY DEF BufferSound, Buffer
<1>2. CASE len <= 0
  BY <1>2, EmptyBufferSound DEF Truncate
<1>3. CASE len > 0 /\ len < Len(c.filled)
  <2> DEFINE t == SubSeq(c.filled, 1, len)
  <2>1. t \in Seq(Entry) /\ Len(t) = len /\ t # << >>
    BY <1>1, <1>3
  <2> HIDE DEF t
  <2>2. Truncate(c, len) = [c EXCEPT !.filled = t]
    BY <1>3 DEF Truncate, t
  <2>3. /\ [c EXCEPT !.filled = t] \in Buffer
        /\ [c EXCEPT !.filled = t].filled = t /\ [c EXCEPT !.filled = t].cap = c.cap
    BY <1>1, <2>1 DEF Buffer
  <2> QED BY <1>1, <1>3, <2>1, <2>2, <2>3 DEF BufferSound
<1>4. CASE len > 0 /\ ~(len < Len(c.filled))
  BY <1>4 DEF Truncate
<1> QED BY <1>2, <1>3, <1>4

-----------------------------------------------------------------------------
(* The paged cache.                                                        *)

(* The type, field by field. *)
LEMMA PagedFields ==
  ASSUME NEW c, PagedSound(c)
  PROVE  /\ c.free \in Seq(Pages) /\ c.table \in Seq(Pages)
         /\ c.slot \in [Pages -> [Slots -> Entry \cup {Blank}]]
         /\ c.len \in Nat /\ c.external \in BOOLEAN
         /\ Len(c.free) \in Nat /\ Len(c.table) = BlocksFor(c.len) /\ BlocksFor(c.len) \in Nat
<1>1. c \in PagedType
  BY DEF PagedSound
<1>2. c.free \in Seq(Pages) /\ c.table \in Seq(Pages) /\ c.len \in Nat /\ c.external \in BOOLEAN
  BY <1>1 DEF PagedType
<1>3. c.slot \in [Pages -> [Slots -> Entry \cup {Blank}]]
  BY <1>1 DEF PagedType
<1>4. Len(c.table) = BlocksFor(c.len)
  BY DEF PagedSound, TableCovers
<1>5. BlocksFor(c.len) \in Nat
  BY <1>2, BlocksForNat
<1>6. Len(c.free) \in Nat
  BY <1>2
<1> QED BY <1>2, <1>3, <1>4, <1>5, <1>6

(* Free list and page table partition the pages, index by index. *)
LEMMA Partitioned ==
  ASSUME NEW c, c.free \in Seq(Pages), c.table \in Seq(Pages)
  PROVE  PagesPartitioned(c) <=>
           /\ \A k, l \in 1 .. Len(c.table) : c.table[k] = c.table[l] => k = l
           /\ \A k, l \in 1 .. Len(c.free) : c.free[k] = c.free[l] => k = l
           /\ \A k \in 1 .. Len(c.table), l \in 1 .. Len(c.free) : c.table[k] # c.free[l]
           /\ \A p \in Pages : \/ \E k \in 1 .. Len(c.table) : c.table[k] = p
                               \/ \E l \in 1 .. Len(c.free) : c.free[l] = p
<1>1. DOMAIN c.free = 1 .. Len(c.free) /\ DOMAIN c.table = 1 .. Len(c.table)
  OBVIOUS
<1>2. Range(c.free) \subseteq Pages /\ Range(c.table) \subseteq Pages
  BY DEF Range
<1>3. Range(c.table) \cap Range(c.free) = {} <=>
        \A k \in 1 .. Len(c.table), l \in 1 .. Len(c.free) : c.table[k] # c.free[l]
  BY <1>1 DEF Range
<1>4. Range(c.table) \cup Range(c.free) = Pages <=>
        \A p \in Pages : \/ \E k \in 1 .. Len(c.table) : c.table[k] = p
                        \/ \E l \in 1 .. Len(c.free) : c.free[l] = p
  BY <1>1, <1>2 DEF Range
<1> QED BY <1>1, <1>3, <1>4 DEF PagesPartitioned, IsInjective

LEMMA EmptyPagedSound ==
  /\ PagedSound(EmptyPaged) /\ EmptyPaged.len = 0 /\ ~EmptyPaged.external
  /\ View(EmptyPaged) = << >>
<1> DEFINE c == EmptyPaged
           f == [i \in 1 .. MaxPages |-> MaxPages - i]
<1>1. MaxPages \in Nat \ {0}
  BY CacheAssumption
<1>2. f \in Seq(Pages) /\ Len(f) = MaxPages
  BY <1>1 DEF Pages
<1>3. c.free = f /\ c.table = << >> /\ c.len = 0 /\ c.external = FALSE
  BY DEF EmptyPaged
<1>4. c \in PagedType
  BY <1>2 DEF EmptyPaged, PagedType
<1>5. TableCovers(c)
  BY <1>3, BlocksForNat DEF TableCovers
<1>6. PagesPartitioned(c)
  <2>1. \A k, l \in 1 .. MaxPages : f[k] = f[l] => k = l
    BY <1>1
  <2>2. \A p \in Pages : \E l \in 1 .. MaxPages : f[l] = p
    <3> SUFFICES ASSUME NEW p \in Pages PROVE \E l \in 1 .. MaxPages : f[l] = p
      OBVIOUS
    <3>1. MaxPages - p \in 1 .. MaxPages /\ MaxPages - (MaxPages - p) = p
      BY <1>1 DEF Pages
    <3> QED BY <3>1
  <2> HIDE DEF c, f
  <2>3. c.free \in Seq(Pages) /\ c.table \in Seq(Pages) /\ Len(c.free) = MaxPages /\ Len(c.table) = 0
    BY <1>2, <1>3
  <2>4. \A k, l \in 1 .. Len(c.free) : c.free[k] = c.free[l] => k = l
    BY <1>3, <2>1, <2>3
  <2>5. \A p \in Pages : \E l \in 1 .. Len(c.free) : c.free[l] = p
    BY <1>3, <2>2, <2>3
  <2>6. 1 .. Len(c.table) = {}
    BY <2>3
  <2> QED BY <2>3, <2>4, <2>5, <2>6, Partitioned
<1>7. View(c) = << >>
  BY <1>3 DEF View
<1>8. Len(c.free) + Len(c.table) = MaxPages
  BY <1>1, <1>2, <1>3
<1> QED BY <1>3, <1>4, <1>5, <1>6, <1>7, <1>8 DEF PagedSound

(* Handing out pages and moving the cursor. *)
LEMMA ReserveSound ==
  ASSUME NEW c, PagedSound(c), NEW n \in Nat, CanReserve(c, n)
  PROVE  /\ PagedSound(Reserve(c, n))
         /\ Reserve(c, n).len = c.len + n
         /\ Reserve(c, n).slot = c.slot
         /\ Reserve(c, n).external = c.external
         /\ BlocksFor(c.len) <= BlocksFor(c.len + n)
         /\ \A k \in 1 .. BlocksFor(c.len) : Reserve(c, n).table[k] = c.table[k]
<1> DEFINE m == Missing(c, n)
           T == BlocksFor(c.len)
           L == Len(c.free)
           f == SubSeq(c.free, 1, L - m)
           t == c.table \o Popped(c, m)
           r == Reserve(c, n)
<1>1. /\ c.free \in Seq(Pages) /\ c.table \in Seq(Pages)
      /\ c.len \in Nat /\ L \in Nat /\ Len(c.free) = L /\ Len(c.table) = T /\ T \in Nat
  BY PagedFields
<1>2. BlocksFor(c.len + n) \in Nat /\ T <= BlocksFor(c.len + n)
  <2>1. c.len + n \in Nat /\ c.len <= c.len + n
    BY <1>1
  <2>2. BlocksFor(c.len + n) \in Nat
    BY <2>1, BlocksForNat
  <2> QED BY <1>1, <2>1, <2>2, BlocksForMonotonic
<1>3. m \in Nat /\ m <= L /\ T + m = BlocksFor(c.len + n)
  BY <1>1, <1>2 DEF Missing, Larger, CanReserve
<1>4. r = [c EXCEPT !.free = f, !.table = t, !.len = c.len + n]
  BY DEF Reserve
<1>5. c \in PagedType /\ T = BlocksFor(c.len)
  BY DEF PagedSound
<1> HIDE DEF m, T, L
<1>6. f \in Seq(Pages) /\ Len(f) = L - m /\ \A k \in 1 .. L - m : f[k] = c.free[k]
  BY <1>1, <1>3
<1>7. /\ Popped(c, m) \in Seq(Pages) /\ Len(Popped(c, m)) = m
      /\ \A i \in 1 .. m : Popped(c, m)[i] = c.free[L + 1 - i]
  BY <1>1, <1>3 DEF Popped
<1>8. /\ t \in Seq(Pages) /\ Len(t) = T + m
      /\ \A k \in 1 .. T : t[k] = c.table[k]
      /\ \A k \in T + 1 .. T + m : t[k] = c.free[L + 1 + T - k]
  <2> DEFINE q == Popped(c, m)
  <2>1. q \in Seq(Pages) /\ Len(q) = m /\ \A i \in 1 .. m : q[i] = c.free[L + 1 - i]
    BY <1>7
  <2> HIDE DEF q
  <2>2. /\ c.table \o q \in Seq(Pages)
        /\ Len(c.table \o q) = Len(c.table) + Len(q)
        /\ \A k \in 1 .. Len(c.table) + Len(q) :
             (c.table \o q)[k] = IF k <= Len(c.table) THEN c.table[k] ELSE q[k - Len(c.table)]
    <3>1. c.table \in Seq(Pages)
      BY <1>1
    <3> QED BY <2>1, <3>1, ConcatProperties
  <2>3. Len(c.table) = T /\ Len(q) = m /\ T \in Nat /\ m \in Nat
    BY <1>1, <1>3, <2>1
  <2>4. /\ Len(c.table \o q) = T + m
        /\ \A k \in 1 .. T : (c.table \o q)[k] = c.table[k]
        /\ \A k \in T + 1 .. T + m : (c.table \o q)[k] = q[k - T]
    <3> DEFINE w == c.table \o q
    <3>1. Len(w) = T + m /\ \A k \in 1 .. T + m : w[k] = IF k <= T THEN c.table[k] ELSE q[k - T]
      BY <2>2, <2>3
    <3> HIDE DEF w
    <3>2. \A k \in 1 .. T : k \in 1 .. T + m /\ k <= T
      BY <2>3
    <3>3. \A k \in T + 1 .. T + m : k \in 1 .. T + m /\ ~(k <= T)
      BY <2>3
    <3>4. Len(w) = T + m /\ (\A k \in 1 .. T : w[k] = c.table[k])
          /\ (\A k \in T + 1 .. T + m : w[k] = q[k - T])
      BY <3>1, <3>2, <3>3
    <3> QED BY <3>4 DEF w
  <2>5. ASSUME NEW k \in T + 1 .. T + m PROVE q[k - T] = c.free[L + 1 + T - k]
    <3>1. k - T \in 1 .. m /\ L + 1 - (k - T) = L + 1 + T - k
      BY <1>1, <1>3
    <3> QED BY <2>1, <3>1
  <2> QED BY <2>2, <2>4, <2>5 DEF q
<1> HIDE DEF f, t, r
<1>9. r.free = f /\ r.table = t /\ r.len = c.len + n /\ r.slot = c.slot /\ r.external = c.external
      /\ r \in PagedType
  <2>1. c.len + n \in Nat
    BY <1>1
  <2> QED BY <1>4, <1>5, <1>6, <1>8, <2>1 DEF PagedType
<1>10. TableCovers(r)
  BY <1>3, <1>8, <1>9 DEF TableCovers
<1>11. PagesPartitioned(r)
  <2>1. /\ \A k, l \in 1 .. T : c.table[k] = c.table[l] => k = l
        /\ \A k, l \in 1 .. L : c.free[k] = c.free[l] => k = l
        /\ \A k \in 1 .. T, l \in 1 .. L : c.table[k] # c.free[l]
        /\ \A p \in Pages : (\E k \in 1 .. T : c.table[k] = p) \/ (\E l \in 1 .. L : c.free[l] = p)
    <3>1. PagesPartitioned(c)
      BY DEF PagedSound
    <3> QED BY <1>1, <3>1, Partitioned
  <2>2. ASSUME NEW k \in 1 .. T + m, NEW l \in 1 .. T + m, t[k] = t[l] PROVE k = l
    <3>1. \A i \in T + 1 .. T + m : L + 1 + T - i \in 1 .. L /\ t[i] = c.free[L + 1 + T - i]
      BY <1>1, <1>3, <1>8
    <3>2. CASE k \in 1 .. T /\ l \in 1 .. T
      BY <1>8, <2>1, <2>2, <3>2
    <3>3. CASE k \in 1 .. T /\ l \in T + 1 .. T + m
      BY <1>8, <2>1, <2>2, <3>1, <3>3
    <3>4. CASE k \in T + 1 .. T + m /\ l \in 1 .. T
      <4>1. c.table[l] = c.free[L + 1 + T - k] /\ L + 1 + T - k \in 1 .. L
        BY <1>8, <2>2, <3>1, <3>4
      <4> QED BY <2>1, <3>4, <4>1
    <3>5. CASE k \in T + 1 .. T + m /\ l \in T + 1 .. T + m
      <4>1. L + 1 + T - k = L + 1 + T - l
        BY <2>1, <2>2, <3>1, <3>5
      <4> QED BY <1>1, <3>5, <4>1
    <3> QED BY <1>1, <1>3, <3>2, <3>3, <3>4, <3>5
  <2>3. \A k, l \in 1 .. L - m : f[k] = f[l] => k = l
    <3>1. \A k \in 1 .. L - m : k \in 1 .. L /\ f[k] = c.free[k]
      BY <1>1, <1>3, <1>6
    <3> QED BY <2>1, <3>1
  <2>4. ASSUME NEW k \in 1 .. T + m, NEW l \in 1 .. L - m PROVE t[k] # f[l]
    <3>1. l \in 1 .. L /\ f[l] = c.free[l]
      BY <1>1, <1>3, <1>6
    <3>2. CASE k \in 1 .. T
      BY <1>8, <2>1, <3>1, <3>2
    <3>3. CASE k \in T + 1 .. T + m
      <4>1. t[k] = c.free[L + 1 + T - k] /\ L + 1 + T - k \in 1 .. L /\ L + 1 + T - k # l
        BY <1>1, <1>3, <1>8, <3>3
      <4> QED BY <2>1, <3>1, <4>1
    <3> QED BY <1>1, <1>3, <3>2, <3>3
  <2>5. ASSUME NEW p \in Pages
        PROVE  (\E k \in 1 .. T + m : t[k] = p) \/ (\E l \in 1 .. L - m : f[l] = p)
    <3>1. CASE \E k \in 1 .. T : c.table[k] = p
      <4>1. PICK k \in 1 .. T : c.table[k] = p
        BY <3>1
      <4>2. k \in 1 .. T + m /\ t[k] = p
        BY <1>1, <1>3, <1>8, <4>1
      <4> QED BY <4>2
    <3>2. CASE \E l \in 1 .. L : c.free[l] = p
      <4>1. PICK l \in 1 .. L : c.free[l] = p
        BY <3>2
      <4>2. CASE l \in 1 .. L - m
        BY <1>6, <4>1, <4>2
      <4>3. CASE l \in L - m + 1 .. L
        <5>1. L + 1 + T - l \in T + 1 .. T + m /\ L + 1 + T - (L + 1 + T - l) = l
          BY <1>1, <1>3, <4>3
        <5>2. t[L + 1 + T - l] = p /\ L + 1 + T - l \in 1 .. T + m
          BY <1>1, <1>3, <1>8, <4>1, <5>1
        <5> QED BY <5>2
      <4> QED BY <1>1, <1>3, <4>2, <4>3
    <3> QED BY <2>1, <3>1, <3>2
  <2> QED BY <1>6, <1>8, <1>9, <2>2, <2>3, <2>4, <2>5, Partitioned
<1>12. PagedSound(r)
  <2>1. Len(c.free) + Len(c.table) = MaxPages /\ MaxPages \in Nat
    BY CacheAssumption DEF PagedSound
  <2>2. Len(r.free) = L - m /\ Len(r.table) = T + m /\ L + T = MaxPages
    BY <1>1, <1>6, <1>8, <1>9, <2>1
  <2>3. Len(r.free) + Len(r.table) = MaxPages
    <3>1. L \in Nat /\ T \in Nat /\ m \in Nat /\ (L - m) + (T + m) = L + T
      BY <1>1, <1>3
    <3> QED BY <2>2, <3>1
  <2> QED BY <1>9, <1>10, <1>11, <2>3 DEF PagedSound
<1> QED BY <1>2, <1>5, <1>8, <1>9, <1>12 DEF r

(* "out of pages" means that the tokens outnumber the slots of all pages. *)
LEMMA OutOfPagesMeansFull ==
  ASSUME NEW c, PagedSound(c), NEW n \in Nat, ~CanReserve(c, n)
  PROVE  c.len + n > MaxPages * PageSize
<1> DEFINE x == c.len + n
           q == BlocksFor(x)
           r == (x + PageSize - 1) % PageSize
           P == PageSize
           M == MaxPages
<1>1. P \in Nat \ {0} /\ M \in Nat \ {0}
  BY CacheAssumption
<1>2. /\ Len(c.free) \in Nat /\ Len(c.table) \in Nat /\ x \in Nat
      /\ Len(c.free) + Len(c.table) = M
  <2>1. /\ Len(c.free) \in Nat /\ Len(c.table) = BlocksFor(c.len) /\ BlocksFor(c.len) \in Nat
        /\ c.len \in Nat
    BY PagedFields
  <2>2. Len(c.free) + Len(c.table) = M
    BY DEF PagedSound
  <2> QED BY <2>1, <2>2
<1>3. q \in Nat
  <2> HIDE DEF x
  <2> QED BY <1>2, BlocksForNat
<1>4. M + 1 <= q
  <2> HIDE DEF q, M
  <2> DEFINE T == Len(c.table)
             L == Len(c.free)
  <2>1. ~((IF q - T >= 0 THEN q - T ELSE 0) <= L)
    BY DEF CanReserve, Missing, Larger, q
  <2>2. L \in Nat /\ T \in Nat /\ L + T = M /\ M \in Nat
    BY <1>1, <1>2
  <2> HIDE DEF T, L
  <2> QED BY <1>3, <2>1, <2>2
<1>5. x + P - 1 = P * q + r /\ r \in 0 .. P - 1
  <2>1. x + P - 1 \in Nat
    BY <1>1, <1>2
  <2> QED BY <1>1, <2>1, DivMod DEF BlocksFor
<1> HIDE DEF x, q, r
<1>6. P * (M + 1) <= P * q
  BY <1>1, <1>3, <1>4, TimesMonotonic
<1>7. P * (M + 1) = P * M + P /\ P * M \in Nat /\ P * q \in Nat /\ M * P = P * M
  BY <1>1, <1>3
<1> DEFINE u == P * M
           v == P * q
<1>8. u + P <= v /\ x + P - 1 = v + r /\ u \in Nat /\ v \in Nat
  BY <1>5, <1>6, <1>7
<1> HIDE DEF u, v
<1>9. x > u
  BY <1>1, <1>2, <1>5, <1>8
<1> QED BY <1>7, <1>9 DEF u, x

(* Two positions below the cursor share a slot only if they are one. *)
LEMMA SlotsDistinct ==
  ASSUME NEW c, PagedSound(c), NEW g \in 0 .. c.len - 1, NEW h \in 0 .. c.len - 1,
         PageOf(c, g) = PageOf(c, h), SlotOf(g) = SlotOf(h)
  PROVE  g = h
<1>1. c.table \in Seq(Pages) /\ c.len \in Nat /\ Len(c.table) = BlocksFor(c.len) /\ c.free \in Seq(Pages)
  BY PagedFields
<1>2. g \in Nat /\ h \in Nat /\ g < c.len /\ h < c.len
  BY <1>1
<1>3. /\ g \div PageSize + 1 \in 1 .. Len(c.table)
      /\ h \div PageSize + 1 \in 1 .. Len(c.table)
  BY <1>1, <1>2, PositionInTable
<1>4. \A k, l \in 1 .. Len(c.table) : c.table[k] = c.table[l] => k = l
  <2>1. PagesPartitioned(c)
    BY DEF PagedSound
  <2> QED BY <1>1, <2>1, Partitioned
<1>5. g \div PageSize + 1 = h \div PageSize + 1
  BY <1>3, <1>4 DEF PageOf
<1>6. g \div PageSize \in Nat /\ h \div PageSize \in Nat
  BY <1>2, DivMod, CacheAssumption
<1>7. g \div PageSize = h \div PageSize
  <2> DEFINE q == g \div PageSize
             r == h \div PageSize
  <2>1. q \in Nat /\ r \in Nat /\ q + 1 = r + 1
    BY <1>5, <1>6
  <2> HIDE DEF q, r
  <2>2. q = r
    BY <2>1
  <2> QED BY <2>2 DEF q, r
<1> QED BY <1>2, <1>7, PositionUnique

LEMMA PositionInCache ==
  ASSUME NEW c, PagedSound(c), NEW g \in 0 .. c.len - 1
  PROVE  PageOf(c, g) \in Pages /\ SlotOf(g) \in Slots
<1>1. c.table \in Seq(Pages) /\ c.len \in Nat /\ Len(c.table) = BlocksFor(c.len)
  BY PagedFields
<1>2. g \in Nat /\ g < c.len
  BY <1>1
<1>3. g \div PageSize + 1 \in 1 .. Len(c.table) /\ SlotOf(g) \in Slots
  BY <1>1, <1>2, PositionInTable
<1> QED BY <1>1, <1>3 DEF PageOf

(* Writing fills the last slots below the cursor and no other. *)
LEMMA WriteSound ==
  ASSUME NEW c, PagedSound(c), NEW new \in Seq(Entry), Len(new) <= c.len
  PROVE  /\ PagedSound(Write(c, new))
         /\ Write(c, new).len = c.len /\ Write(c, new).external = c.external
         /\ \A g \in 0 .. c.len - 1 :
              View(Write(c, new))[g + 1] =
                IF g < c.len - Len(new) THEN View(c)[g + 1] ELSE new[g - (c.len - Len(new)) + 1]
<1> DEFINE start == c.len - Len(new)
           Here(p, s, i) == PageOf(c, start + i - 1) = p /\ SlotOf(start + i - 1) = s
           Cell(p, s) == IF \E i \in DOMAIN new : Here(p, s, i)
                         THEN new[CHOOSE i \in DOMAIN new : Here(p, s, i)]
                         ELSE c.slot[p][s]
           slots == [p \in Pages |-> [s \in Slots |-> Cell(p, s)]]
           w == Write(c, new)
<1>1. /\ c \in PagedType /\ c.len \in Nat /\ Len(new) \in Nat /\ start \in Nat
      /\ DOMAIN new = 1 .. Len(new)
      /\ c.slot \in [Pages -> [Slots -> Entry \cup {Blank}]]
  <2>1. c \in PagedType
    BY DEF PagedSound
  <2>2. c.len \in Nat /\ c.slot \in [Pages -> [Slots -> Entry \cup {Blank}]]
    BY PagedFields
  <2> QED BY <2>1, <2>2
<1>2. w = [c EXCEPT !.slot = slots]
  BY DEF Write
<1>3. \A p \in Pages, s \in Slots : Cell(p, s) \in Entry \cup {Blank}
  <2> SUFFICES ASSUME NEW p \in Pages, NEW s \in Slots PROVE Cell(p, s) \in Entry \cup {Blank}
    OBVIOUS
  <2>1. CASE \E i \in DOMAIN new : Here(p, s, i)
    <3> DEFINE i == CHOOSE i \in DOMAIN new : Here(p, s, i)
    <3>1. i \in DOMAIN new /\ Cell(p, s) = new[i]
      BY <2>1
    <3> HIDE DEF i, Cell
    <3> QED BY <1>1, <3>1
  <2>2. CASE ~ \E i \in DOMAIN new : Here(p, s, i)
    BY <1>1, <2>2
  <2> QED BY <2>1, <2>2
<1>4. slots \in [Pages -> [Slots -> Entry \cup {Blank}]]
  <2> HIDE DEF Cell
  <2> QED BY <1>3
<1>5. \A p \in Pages, s \in Slots : slots[p][s] = Cell(p, s)
  <2> HIDE DEF Cell
  <2> QED OBVIOUS
<1> HIDE DEF slots, w
<1>6. /\ w \in PagedType /\ w.slot = slots /\ w.len = c.len /\ w.table = c.table
      /\ w.free = c.free /\ w.external = c.external
  BY <1>1, <1>2, <1>4 DEF PagedType
<1>7. PagedSound(w)
  BY <1>6 DEF PagedSound, PagesPartitioned, TableCovers
<1>8. ASSUME NEW g \in 0 .. c.len - 1
      PROVE  View(w)[g + 1] = IF g < start THEN View(c)[g + 1] ELSE new[g - start + 1]
  <2> DEFINE p == PageOf(c, g)
             s == SlotOf(g)
  <2>1. p \in Pages /\ s \in Slots
    BY PositionInCache
  <2>2. g + 1 \in 1 .. c.len /\ (g + 1) - 1 = g
    BY <1>1
  <2>3. View(w)[g + 1] = Cell(p, s) /\ View(c)[g + 1] = c.slot[p][s]
    <3>1. View(w)[g + 1] = w.slot[PageOf(w, g)][SlotOf(g)] /\ View(c)[g + 1] = c.slot[p][s]
      BY <1>6, <2>2 DEF View
    <3>2. PageOf(w, g) = p
      BY <1>6 DEF PageOf
    <3> QED BY <1>5, <1>6, <2>1, <3>1, <3>2
  <2>4. \A i \in DOMAIN new : Here(p, s, i) => start + i - 1 = g
    <3> SUFFICES ASSUME NEW i \in DOMAIN new, Here(p, s, i) PROVE start + i - 1 = g
      OBVIOUS
    <3>1. start + i - 1 \in 0 .. c.len - 1
      BY <1>1
    <3> QED BY <3>1, SlotsDistinct
  <2>5. CASE g < start
    <3>1. ~ \E i \in DOMAIN new : Here(p, s, i)
      <4> SUFFICES ASSUME NEW i \in DOMAIN new, Here(p, s, i) PROVE FALSE
        OBVIOUS
      <4>1. start + i - 1 = g
        BY <2>4
      <4> QED BY <1>1, <2>5, <4>1
    <3> QED BY <2>3, <2>5, <3>1
  <2>6. CASE ~(g < start)
    <3> DEFINE e == g - start + 1
               i == CHOOSE i \in DOMAIN new : Here(p, s, i)
    <3>1. e \in DOMAIN new /\ start + e - 1 = g
      <4>1. start + Len(new) = c.len /\ start \in Nat /\ Len(new) \in Nat /\ g \in Nat /\ g < c.len
        BY <1>1
      <4> HIDE DEF start
      <4>2. g - start + 1 \in 1 .. Len(new) /\ start + (g - start + 1) - 1 = g
        BY <2>6, <4>1
      <4> QED BY <1>1, <4>2
    <3>2. Here(p, s, e)
      BY <3>1
    <3> HIDE DEF e
    <3>3. i \in DOMAIN new /\ Here(p, s, i)
      BY <3>1, <3>2
    <3>4. Cell(p, s) = new[i]
      BY <3>1, <3>2
    <3>5. start + i - 1 = g
      BY <2>4, <3>3
    <3> HIDE DEF i, Here, Cell
    <3>6. i = e
      BY <1>1, <3>1, <3>3, <3>5
    <3> QED BY <2>3, <2>6, <3>4, <3>6 DEF e
  <2> QED BY <2>5, <2>6
<1> QED BY <1>6, <1>7, <1>8 DEF w

(* The view has one entry per position. *)
LEMMA ViewIsSeq ==
  ASSUME NEW c, PagedSound(c)
  PROVE  View(c) \in Seq(Entry \cup {Blank}) /\ Len(View(c)) = c.len
<1>1. c.len \in Nat /\ c.slot \in [Pages -> [Slots -> Entry \cup {Blank}]]
  BY PagedFields
<1>2. ASSUME NEW i \in 1 .. c.len PROVE c.slot[PageOf(c, i - 1)][SlotOf(i - 1)] \in Entry \cup {Blank}
  <2>1. i - 1 \in 0 .. c.len - 1
    BY <1>1
  <2>2. PageOf(c, i - 1) \in Pages /\ SlotOf(i - 1) \in Slots
    BY <2>1, PositionInCache
  <2> QED BY <1>1, <2>2
<1> DEFINE n == c.len
           e(i) == c.slot[PageOf(c, i - 1)][SlotOf(i - 1)]
<1>3. View(c) = [i \in 1 .. n |-> e(i)]
  BY DEF View
<1>4. n \in Nat /\ \A i \in 1 .. n : e(i) \in Entry \cup {Blank}
  BY <1>1, <1>2
<1> HIDE DEF n, e
<1>5. [i \in 1 .. n |-> e(i)] \in Seq(Entry \cup {Blank}) /\ Len([i \in 1 .. n |-> e(i)]) = n
  BY <1>4
<1> QED BY <1>3, <1>5 DEF n

(* What was visible stays visible when pages are added. *)
LEMMA ReserveKeepsView ==
  ASSUME NEW c, PagedSound(c), NEW n \in Nat, CanReserve(c, n), NEW g \in 0 .. c.len - 1
  PROVE  View(Reserve(c, n))[g + 1] = View(c)[g + 1]
<1> DEFINE r == Reserve(c, n)
<1>1. /\ r.len = c.len + n /\ r.slot = c.slot /\ c.len \in Nat
      /\ \A k \in 1 .. BlocksFor(c.len) : r.table[k] = c.table[k]
  BY ReserveSound, PagedFields
<1> HIDE DEF r
<1>2. g + 1 \in 1 .. c.len /\ g + 1 \in 1 .. c.len + n /\ (g + 1) - 1 = g
  BY <1>1
<1>3. PageOf(r, g) = PageOf(c, g)
  <2>1. g \in Nat /\ g < c.len
    BY <1>1
  <2>2. g \div PageSize + 1 \in 1 .. BlocksFor(c.len)
    BY <1>1, <2>1, PositionInTable
  <2> QED BY <1>1, <2>2 DEF PageOf
<1>4. View(c)[g + 1] = c.slot[PageOf(c, g)][SlotOf(g)]
  BY <1>2 DEF View
<1>5. View(r)[g + 1] = r.slot[PageOf(r, g)][SlotOf(g)]
  BY <1>1, <1>2 DEF View
<1> QED BY <1>1, <1>3, <1>4, <1>5 DEF r

(* append() is Append: the entries join the view, in their order, whatever *)
(* pages they lie in.                                                      *)
LEMMA AppendPagedSound ==
  ASSUME NEW c, PagedSound(c), ~c.external, NEW new \in Seq(Entry), CanReserve(c, Len(new))
  PROVE  /\ PagedSound(AppendPaged(c, new))
         /\ AppendPaged(c, new).len = c.len + Len(new)
         /\ ~AppendPaged(c, new).external
         /\ View(AppendPaged(c, new)) = View(c) \o new
<1> DEFINE n == Len(new)
           r == Reserve(c, n)
           w == Write(r, new)
           E == Entry \cup {Blank}
<1>1. n \in Nat /\ c.len \in Nat
  BY PagedFields
<1>2. AppendPaged(c, new) = w
  BY DEF AppendPaged
<1>3. PagedSound(r) /\ r.len = c.len + n /\ ~r.external
  BY <1>1, ReserveSound
<1>4. r.len - n = c.len /\ n <= r.len
  BY <1>1, <1>3
<1>5. /\ PagedSound(w) /\ w.len = c.len + n /\ ~w.external
      /\ \A g \in 0 .. r.len - 1 :
           View(w)[g + 1] = IF g < c.len THEN View(r)[g + 1] ELSE new[g - c.len + 1]
  <2> HIDE DEF r
  <2>1. /\ PagedSound(w) /\ w.len = r.len /\ w.external = r.external
        /\ \A g \in 0 .. r.len - 1 :
             View(w)[g + 1] = IF g < r.len - n THEN View(r)[g + 1] ELSE new[g - (r.len - n) + 1]
    BY <1>3, <1>4, WriteSound
  <2> QED BY <1>3, <1>4, <2>1
<1>6. \A g \in 0 .. c.len - 1 : View(r)[g + 1] = View(c)[g + 1]
  BY <1>1, ReserveKeepsView
<1>7. View(w) \in Seq(E) /\ Len(View(w)) = c.len + n /\ View(c) \in Seq(E) /\ Len(View(c)) = c.len
  BY <1>5, ViewIsSeq
<1>8. /\ new \in Seq(E)
      /\ View(c) \o new \in Seq(E) /\ Len(View(c) \o new) = c.len + n
      /\ \A i \in 1 .. c.len + n : (View(c) \o new)[i] = IF i <= c.len THEN View(c)[i] ELSE new[i - c.len]
  <2>1. new \in Seq(E)
    BY SeqMonotonic
  <2>2. View(c) \in Seq(E) /\ Len(View(c)) = c.len /\ Len(new) = n
    BY <1>7
  <2> HIDE DEF w, r, E, n
  <2>3. \A v \in Seq(E) : /\ v \o new \in Seq(E) /\ Len(v \o new) = Len(v) + Len(new)
                           /\ \A i \in 1 .. Len(v) + Len(new) :
                                (v \o new)[i] = IF i <= Len(v) THEN v[i] ELSE new[i - Len(v)]
    BY <2>1, ConcatProperties
  <2> QED BY <2>1, <2>2, <2>3
<1>9. ASSUME NEW i \in 1 .. c.len + n PROVE View(w)[i] = (View(c) \o new)[i]
  <2> HIDE DEF w, r, E
  <2>1. i - 1 \in 0 .. r.len - 1 /\ (i - 1) + 1 = i /\ (i - 1) - c.len + 1 = i - c.len
    BY <1>1, <1>3
  <2>2. View(w)[i] = IF i - 1 < c.len THEN View(r)[i] ELSE new[i - c.len]
    BY <1>5, <2>1
  <2>3. CASE i <= c.len
    <3>1. i - 1 < c.len /\ i - 1 \in 0 .. c.len - 1
      BY <1>1, <2>3
    <3>2. View(r)[i] = View(c)[i]
      BY <1>6, <2>1, <3>1
    <3> QED BY <1>8, <2>2, <2>3, <3>1, <3>2
  <2>4. CASE ~(i <= c.len)
    <3>1. ~(i - 1 < c.len)
      BY <1>1, <2>4
    <3> QED BY <1>8, <2>2, <2>4, <3>1
  <2> QED BY <2>3, <2>4
<1>10. View(w) = View(c) \o new
  <2> HIDE DEF w, r, E
  <2> QED BY <1>7, <1>8, <1>9, SeqEqual
<1> QED BY <1>2, <1>5, <1>10

(* Under external_advance_ the entries overwrite the last positions. *)
LEMMA AppendExternal ==
  ASSUME NEW c, PagedSound(c), c.external, NEW new \in Seq(Entry), Len(new) <= c.len
  PROVE  /\ PagedSound(AppendPaged(c, new))
         /\ AppendPaged(c, new).len = c.len
         /\ AppendPaged(c, new).external
<1>1. AppendPaged(c, new) = Write(c, new)
  BY DEF AppendPaged
<1> QED BY <1>1, WriteSound

-----------------------------------------------------------------------------
(* A model ranks some token of the vocabulary first, whatever it sees.     *)
TargetTyped == \A m, seen : Target(m, seen) \in Tokens

-----------------------------------------------------------------------------
(* Every nonempty set of natural numbers has a least element.              *)
Before == {p \in Nat \X Nat : p[1] < p[2]}

LEMMA LeastNatural ==
  ASSUME NEW S, S \subseteq Nat, S # {}
  PROVE  \E m \in S : \A n \in S : m <= n
<1>1. OpToRel(<, Nat) = Before
  BY DEF OpToRel, Before
<1>2. IsWellFoundedOn(Before, Nat)
  BY <1>1, NatLessThanWellFounded
<1>3. PICK m \in S : \A n \in S : <<n, m>> \notin Before
  BY <1>2, WFMin
<1>4. ASSUME NEW n \in S PROVE m <= n
  <2>1. m \in Nat /\ n \in Nat /\ ~(n < m)
    BY <1>3 DEF Before
  <2> QED BY <2>1
<1> QED BY <1>3, <1>4

-----------------------------------------------------------------------------
(* Sequences and their last elements.                                      *)

LEMMA FrontAppend ==
  ASSUME NEW S, NEW s \in Seq(S), NEW e \in S
  PROVE  /\ Append(s, e) \in Seq(S) /\ Append(s, e) # << >>
         /\ Len(Append(s, e)) = Len(s) + 1
         /\ Front(Append(s, e)) = s /\ Last(Append(s, e)) = e
<1> DEFINE t == Append(s, e)
<1>1. /\ t \in Seq(S) /\ t # << >> /\ Len(t) = Len(s) + 1 /\ Len(s) \in Nat
      /\ \A i \in 1 .. Len(s) : t[i] = s[i]
      /\ t[Len(s) + 1] = e
  BY AppendProperties
<1> HIDE DEF t
<1>2. Front(t) \in Seq(S) /\ Len(Front(t)) = Len(s) /\ \A i \in 1 .. Len(s) : Front(t)[i] = t[i]
  BY <1>1 DEF Front
<1>3. Front(t) = s
  BY <1>1, <1>2, SeqEqual
<1> QED BY <1>1, <1>3 DEF t, Last

(* Front, item by item. *)
LEMMA FrontIs ==
  ASSUME NEW S, NEW s \in Seq(S), s # << >>
  PROVE  /\ Front(s) \in Seq(S) /\ Len(Front(s)) = Len(s) - 1 /\ Len(s) \in Nat \ {0}
         /\ \A i \in 1 .. Len(s) - 1 : Front(s)[i] = s[i]
<1> DEFINE m == Len(s) - 1
<1>1. Len(s) \in Nat \ {0}
  BY EmptySeq
<1>2. m \in Nat /\ 1 \in Int /\ \A i \in 1 .. m : s[i] \in S
  BY <1>1
<1> HIDE DEF m
<1>3. /\ SubSeq(s, 1, m) \in Seq(S) /\ Len(SubSeq(s, 1, m)) = IF 1 <= m THEN m - 1 + 1 ELSE 0
      /\ \A i \in 1 .. m - 1 + 1 : SubSeq(s, 1, m)[i] = s[1 + i - 1]
  BY <1>2, SubSeqProperties
<1>4. \A i \in 1 .. m : i \in 1 .. m - 1 + 1 /\ 1 + i - 1 = i
  BY <1>2
<1>5. Len(SubSeq(s, 1, m)) = m /\ \A i \in 1 .. m : SubSeq(s, 1, m)[i] = s[i]
  BY <1>2, <1>3, <1>4
<1> QED BY <1>1, <1>3, <1>5 DEF Front, m

LEMMA FrontLast ==
  ASSUME NEW S, NEW s \in Seq(S), s # << >>
  PROVE  /\ Front(s) \in Seq(S) /\ Len(Front(s)) = Len(s) - 1 /\ Len(s) \in Nat \ {0}
         /\ Last(s) \in S
         /\ Front(s) \o <<Last(s)>> = s
<1>1. Len(s) \in Nat \ {0}
  BY EmptySeq
<1>2. s[Len(s)] \in S
  BY <1>1
<1>3. Front(s) \in Seq(S) /\ Len(Front(s)) = Len(s) - 1 /\ \A i \in 1 .. Len(s) - 1 : Front(s)[i] = s[i]
  BY FrontIs
<1> DEFINE f == Front(s)
           w == f \o <<s[Len(s)]>>
<1>4. /\ w \in Seq(S) /\ Len(w) = Len(s)
      /\ \A i \in 1 .. Len(s) : w[i] = IF i <= Len(s) - 1 THEN f[i] ELSE s[Len(s)]
  <2> HIDE DEF f
  <2> DEFINE l == <<s[Len(s)]>>
  <2>1. l \in Seq(S) /\ Len(l) = 1 /\ l[1] = s[Len(s)]
    BY <1>2
  <2> HIDE DEF l
  <2>2. /\ f \o l \in Seq(S) /\ Len(f \o l) = Len(f) + Len(l)
        /\ \A i \in 1 .. Len(f) + Len(l) : (f \o l)[i] = IF i <= Len(f) THEN f[i] ELSE l[i - Len(f)]
    BY <1>3, <2>1, ConcatProperties DEF f
  <2>3. Len(f) = Len(s) - 1
    BY <1>3 DEF f
  <2>4. \A i \in 1 .. Len(s) : (f \o l)[i] = IF i <= Len(s) - 1 THEN f[i] ELSE s[Len(s)]
    BY <1>1, <2>1, <2>2, <2>3
  <2>5. Len(f) + Len(l) = Len(s)
    BY <1>1, <2>1, <2>3
  <2> QED BY <2>2, <2>4, <2>5 DEF l
<1>5. w = s
  <2>1. \A i \in 1 .. Len(s) : w[i] = s[i]
    <3> SUFFICES ASSUME NEW i \in 1 .. Len(s) PROVE w[i] = s[i]
      OBVIOUS
    <3> HIDE DEF w
    <3>1. CASE i <= Len(s) - 1
      <4>1. i \in 1 .. Len(s) - 1
        BY <1>1, <3>1
      <4> QED BY <1>3, <1>4, <3>1, <4>1 DEF f
    <3>2. CASE ~(i <= Len(s) - 1)
      <4>1. i = Len(s)
        BY <1>1, <3>2
      <4> QED BY <1>4, <3>2, <4>1
    <3> QED BY <3>1, <3>2
  <2> HIDE DEF w
  <2> QED BY <1>4, <2>1, SeqEqual
<1> QED BY <1>1, <1>2, <1>3, <1>5 DEF Last

(* Front takes from the second sequence. *)
LEMMA FrontConcat ==
  ASSUME NEW S, NEW s \in Seq(S), NEW g \in Seq(S), g # << >>
  PROVE  Front(s \o g) = s \o Front(g)
<1> DEFINE a == Len(s)
           b == Len(g)
           f == Front(g)
           w == s \o g
           v == s \o f
<1>1. /\ f \in Seq(S) /\ Len(f) = b - 1 /\ b \in Nat \ {0} /\ a \in Nat
      /\ \A i \in 1 .. b - 1 : f[i] = g[i]
  BY FrontIs
<1>2. /\ w \in Seq(S) /\ Len(w) = a + b
      /\ \A i \in 1 .. a + b : w[i] = IF i <= a THEN s[i] ELSE g[i - a]
  BY ConcatProperties
<1> HIDE DEF f
<1>3. /\ v \in Seq(S) /\ Len(v) = a + (b - 1)
      /\ \A i \in 1 .. a + (b - 1) : v[i] = IF i <= a THEN s[i] ELSE f[i - a]
  <2> DEFINE l == Len(f)
  <2>1. /\ v \in Seq(S) /\ Len(v) = a + l
        /\ \A i \in 1 .. a + l : v[i] = IF i <= a THEN s[i] ELSE f[i - a]
    <3>1. f \in Seq(S)
      BY <1>1
    <3> QED BY <3>1, ConcatProperties
  <2>2. l = b - 1
    BY <1>1
  <2> HIDE DEF a, b, l, v
  <2> QED BY <2>1, <2>2
<1> HIDE DEF a, b, w, v
<1>4. w # << >>
  BY <1>1, <1>2
<1>5. /\ Front(w) \in Seq(S) /\ Len(Front(w)) = a + b - 1
      /\ \A i \in 1 .. a + b - 1 : Front(w)[i] = w[i]
  <2> DEFINE l == Len(w)
  <2>1. /\ Front(w) \in Seq(S) /\ Len(Front(w)) = l - 1
        /\ \A i \in 1 .. l - 1 : Front(w)[i] = w[i]
    BY <1>2, <1>4, FrontIs
  <2>2. l = a + b
    BY <1>2
  <2>3. l - 1 = a + b - 1
    BY <1>1, <2>2
  <2> HIDE DEF l
  <2> QED BY <2>1, <2>3
<1>6. ASSUME NEW i \in 1 .. a + b - 1 PROVE Front(w)[i] = v[i]
  <2>1. i \in 1 .. a + b /\ i \in 1 .. a + (b - 1) /\ (~(i <= a) => i - a \in 1 .. b - 1)
    BY <1>1
  <2> QED BY <1>1, <1>2, <1>3, <1>5, <2>1
<1>7. Front(w) = v
  <2>1. Len(v) = a + b - 1
    BY <1>1, <1>3
  <2> HIDE DEF Front
  <2> QED BY <1>3, <1>5, <1>6, <2>1, SeqEqual
<1> QED BY <1>7 DEF w, v, f

-----------------------------------------------------------------------------
(* Entries.                                                                *)

LEMMA IdealIsSeq ==
  ASSUME NEW h \in Seq(Tokens)
  PROVE  /\ Ideal(h) \in Seq(Entry) /\ Len(Ideal(h)) = Len(h) /\ Len(h) \in Nat
         /\ \A i \in 1 .. Len(h) : Ideal(h)[i] = [tok |-> h[i], pos |-> i - 1, sees |-> i]
<1>1. DOMAIN h = 1 .. Len(h) /\ Len(h) \in Nat /\ \A i \in 1 .. Len(h) : h[i] \in Tokens
  OBVIOUS
<1>2. \A i \in 1 .. Len(h) : [tok |-> h[i], pos |-> i - 1, sees |-> i] \in Entry
  BY <1>1 DEF Entry
<1> DEFINE n == Len(h)
           e(i) == [tok |-> h[i], pos |-> i - 1, sees |-> i]
<1>3. Ideal(h) = [i \in 1 .. n |-> e(i)]
  BY <1>1 DEF Ideal
<1>4. n \in Nat /\ \A i \in 1 .. n : e(i) \in Entry
  BY <1>1, <1>2
<1> HIDE DEF n, e
<1>5. [i \in 1 .. n |-> e(i)] \in Seq(Entry) /\ Len([i \in 1 .. n |-> e(i)]) = n
      /\ \A i \in 1 .. n : [j \in 1 .. n |-> e(j)][i] = e(i)
  BY <1>4
<1> QED BY <1>1, <1>3, <1>5 DEF n, e

LEMMA PagedEntriesIsSeq ==
  ASSUME NEW start \in Nat, NEW g \in Seq(Tokens)
  PROVE  /\ PagedEntries(start, g) \in Seq(Entry) /\ Len(PagedEntries(start, g)) = Len(g)
         /\ Len(g) \in Nat
         /\ \A i \in 1 .. Len(g) :
              PagedEntries(start, g)[i] = [tok |-> g[i], pos |-> start + i - 1, sees |-> start + i]
<1>1. DOMAIN g = 1 .. Len(g) /\ Len(g) \in Nat /\ \A i \in 1 .. Len(g) : g[i] \in Tokens
  OBVIOUS
<1>2. \A i \in 1 .. Len(g) : [tok |-> g[i], pos |-> start + i - 1, sees |-> start + i] \in Entry
  BY <1>1 DEF Entry
<1> DEFINE n == Len(g)
           e(i) == [tok |-> g[i], pos |-> start + i - 1, sees |-> start + i]
<1>3. PagedEntries(start, g) = [i \in 1 .. n |-> e(i)]
  BY <1>1 DEF PagedEntries
<1>4. n \in Nat /\ \A i \in 1 .. n : e(i) \in Entry
  BY <1>1, <1>2
<1> HIDE DEF n, e
<1>5. [i \in 1 .. n |-> e(i)] \in Seq(Entry) /\ Len([i \in 1 .. n |-> e(i)]) = n
      /\ \A i \in 1 .. n : [j \in 1 .. n |-> e(j)][i] = e(i)
  BY <1>4
<1> QED BY <1>1, <1>3, <1>5 DEF n, e

(* Causal entries after causal entries are the causal entries of the whole. *)
LEMMA IdealGrows ==
  ASSUME NEW h \in Seq(Tokens), NEW g \in Seq(Tokens)
  PROVE  Ideal(h) \o PagedEntries(Len(h), g) = Ideal(h \o g)
<1> DEFINE a == Ideal(h)
           b == PagedEntries(Len(h), g)
           w == h \o g
           l == Len(h)
           n == Len(g)
<1>1. /\ a \in Seq(Entry) /\ Len(a) = l /\ l \in Nat
      /\ \A i \in 1 .. l : a[i] = [tok |-> h[i], pos |-> i - 1, sees |-> i]
  BY IdealIsSeq
<1>2. /\ b \in Seq(Entry) /\ Len(b) = n /\ n \in Nat
      /\ \A i \in 1 .. n : b[i] = [tok |-> g[i], pos |-> l + i - 1, sees |-> l + i]
  BY <1>1, PagedEntriesIsSeq
<1>3. /\ w \in Seq(Tokens) /\ Len(w) = l + n
      /\ \A i \in 1 .. l + n : w[i] = IF i <= l THEN h[i] ELSE g[i - l]
  BY ConcatProperties
<1> HIDE DEF a, b, w
<1>4. /\ Ideal(w) \in Seq(Entry) /\ Len(Ideal(w)) = l + n
      /\ \A i \in 1 .. l + n : Ideal(w)[i] = [tok |-> w[i], pos |-> i - 1, sees |-> i]
  BY <1>3, IdealIsSeq
<1> HIDE DEF l, n
<1>5. /\ a \o b \in Seq(Entry) /\ Len(a \o b) = l + n
      /\ \A i \in 1 .. l + n : (a \o b)[i] = IF i <= l THEN a[i] ELSE b[i - l]
  <2>1. /\ a \o b \in Seq(Entry) /\ Len(a \o b) = Len(a) + Len(b)
        /\ \A i \in 1 .. Len(a) + Len(b) : (a \o b)[i] = IF i <= Len(a) THEN a[i] ELSE b[i - Len(a)]
    <3>1. a \in Seq(Entry) /\ b \in Seq(Entry)
      BY <1>1, <1>2
    <3> QED BY <3>1, ConcatProperties
  <2>2. Len(a) = l /\ Len(b) = n
    BY <1>1, <1>2
  <2> QED BY <2>1, <2>2
<1>6. ASSUME NEW i \in 1 .. l + n PROVE (a \o b)[i] = Ideal(w)[i]
  <2>1. CASE i <= l
    <3>1. i \in 1 .. l
      BY <1>1, <1>2, <2>1
    <3>2. a[i] = [tok |-> h[i], pos |-> i - 1, sees |-> i]
      BY <1>1, <3>1
    <3>3. w[i] = h[i] /\ (a \o b)[i] = a[i]
      BY <1>3, <1>5, <2>1
    <3>4. Ideal(w)[i] = [tok |-> w[i], pos |-> i - 1, sees |-> i]
      BY <1>4
    <3> QED BY <3>2, <3>3, <3>4
  <2>2. CASE ~(i <= l)
    <3>1. i - l \in 1 .. n /\ l + (i - l) = i
      BY <1>1, <1>2, <2>2
    <3>2. b[i - l] = [tok |-> g[i - l], pos |-> i - 1, sees |-> i]
      <4>1. b[i - l] = [tok |-> g[i - l], pos |-> l + (i - l) - 1, sees |-> l + (i - l)]
        BY <1>2, <3>1
      <4>2. l + (i - l) - 1 = i - 1
        BY <1>1, <1>2
      <4> QED BY <3>1, <4>1, <4>2
    <3>3. w[i] = g[i - l] /\ (a \o b)[i] = b[i - l]
      BY <1>3, <1>5, <2>2
    <3>4. Ideal(w)[i] = [tok |-> w[i], pos |-> i - 1, sees |-> i]
      BY <1>4
    <3> QED BY <3>2, <3>3, <3>4
  <2> QED BY <2>1, <2>2
<1>7. a \o b = Ideal(w)
  BY <1>4, <1>5, <1>6, SeqEqual
<1> QED BY <1>7 DEF a, b, w

LEMMA EntriesIsSeq ==
  ASSUME NEW len \in Nat, NEW new \in Seq(Tokens)
  PROVE  Entries(len, new) \in Seq(Entry) /\ Len(Entries(len, new)) = Len(new)
<1>1. DOMAIN new = 1 .. Len(new) /\ Len(new) \in Nat /\ \A i \in 1 .. Len(new) : new[i] \in Tokens
  OBVIOUS
<1>2. \A i \in 1 .. Len(new) :
        [tok |-> new[i], pos |-> len + i - 1, sees |-> Sees(len, Len(new), i)] \in Entry
  BY <1>1 DEF Entry, Sees
<1> DEFINE n == Len(new)
           e(i) == [tok |-> new[i], pos |-> len + i - 1, sees |-> Sees(len, Len(new), i)]
<1>3. Entries(len, new) = [i \in 1 .. n |-> e(i)]
  BY <1>1 DEF Entries
<1>4. n \in Nat /\ \A i \in 1 .. n : e(i) \in Entry
  BY <1>1, <1>2
<1> HIDE DEF n, e
<1>5. [i \in 1 .. n |-> e(i)] \in Seq(Entry) /\ Len([i \in 1 .. n |-> e(i)]) = n
  BY <1>4
<1> QED BY <1>3, <1>5 DEF n

(* A first batch and a batch of one token are causal in a KVCache. *)
LEMMA EntriesCausal ==
  ASSUME NEW new \in Seq(Tokens)
  PROVE  /\ Entries(0, new) = Ideal(new)
         /\ \A len \in Nat : Len(new) = 1 => Entries(len, new) = PagedEntries(len, new)
<1>1. Len(new) \in Nat /\ DOMAIN new = 1 .. Len(new)
  OBVIOUS
<1>2. \A i \in DOMAIN new : 0 + i - 1 = i - 1 /\ Sees(0, Len(new), i) = i
  BY <1>1 DEF Sees
<1>3. Entries(0, new) = Ideal(new)
  BY <1>2 DEF Entries, Ideal
<1>4. ASSUME NEW len \in Nat, Len(new) = 1 PROVE Entries(len, new) = PagedEntries(len, new)
  <2>1. \A i \in DOMAIN new : Sees(len, Len(new), i) = len + i
    BY <1>1, <1>4 DEF Sees
  <2> QED BY <2>1 DEF Entries, PagedEntries
<1> QED BY <1>3, <1>4

-----------------------------------------------------------------------------
(* Forward passes.                                                         *)

(* A buffer that holds something. *)
Ready(c) == BufferSound(c) /\ c.filled # << >>

LEMMA ReadyAllocated ==
  ASSUME NEW c, Ready(c)
  PROVE  /\ c.cap # 0 /\ c.filled \in Seq(Entry) /\ Len(c.filled) \in Nat \ {0}
         /\ c.cap \in Nat /\ Len(c.filled) <= c.cap
<1>1. c.filled \in Seq(Entry) /\ c.cap \in Nat /\ Len(c.filled) <= c.cap
  BY DEF Ready, BufferSound, Buffer
<1>2. Len(c.filled) \in Nat \ {0}
  BY <1>1, EmptySeq DEF Ready
<1> QED BY <1>1, <1>2

LEMMA UpdateReady ==
  ASSUME NEW c, Ready(c), NEW new \in Seq(Entry)
  PROVE  /\ Ready(Update(c, new))
         /\ Len(Update(c, new).filled) = Len(c.filled) + Len(new)
<1>1. c.cap # 0 /\ Len(c.filled) \in Nat \ {0} /\ BufferSound(c) /\ Len(new) \in Nat
  BY ReadyAllocated DEF Ready
<1>2. BufferSound(Update(c, new)) /\ Len(Update(c, new).filled) = Len(c.filled) + Len(new)
  BY <1>1, UpdateSound
<1>3. Update(c, new).filled # << >>
  BY <1>1, <1>2
<1> QED BY <1>2, <1>3 DEF Ready

LEMMA ForwardReady ==
  ASSUME NEW c, Ready(c), NEW new \in Seq(Tokens)
  PROVE  /\ Ready(Forward(c, new))
         /\ Len(Forward(c, new).filled) = Len(c.filled) + Len(new)
<1>1. Len(c.filled) \in Nat
  BY ReadyAllocated
<1>2. Entries(Len(c.filled), new) \in Seq(Entry) /\ Len(Entries(Len(c.filled), new)) = Len(new)
  BY <1>1, EntriesIsSeq
<1> QED BY <1>2, UpdateReady DEF Forward

(* A prompt fed to an empty cache leaves its causal entries. *)
LEMMA ForwardPrompt ==
  ASSUME NEW h \in Seq(Tokens), h # << >>, Len(h) <= MaxContext
  PROVE  Ready(Forward(EmptyBuffer, h)) /\ Forward(EmptyBuffer, h).filled = Ideal(h)
<1> DEFINE c == EmptyBuffer
           e == Ideal(h)
<1>1. c.filled = << >> /\ c.cap = 0 /\ BufferSound(c) /\ Len(c.filled) = 0
  BY EmptyBufferSound DEF EmptyBuffer
<1>2. Forward(c, h) = Update(c, e)
  BY <1>1, EntriesCausal DEF Forward
<1>3. e \in Seq(Entry) /\ Len(e) = Len(h) /\ Len(h) \in Nat \ {0}
  BY IdealIsSeq, EmptySeq
<1>4. Len(e) <= BufferLen
  <2>1. BufferLen >= MaxContext /\ MaxContext \in Nat /\ BufferLen \in Nat
    BY GenerationAssumption, CacheAssumption
  <2> QED BY <1>3, <2>1
<1> HIDE DEF c, e
<1>5. BufferSound(Update(c, e)) /\ Update(c, e).filled = c.filled \o e
  BY <1>1, <1>3, <1>4, UpdateSound
<1>6. c.filled \o e = e
  BY <1>1, <1>3, ConcatEmptySeq
<1>7. e # << >>
  BY <1>3
<1> QED BY <1>2, <1>5, <1>6, <1>7 DEF c, e, Ready

(* One token fed to a causal cache leaves a causal cache. *)
LEMMA ForwardOne ==
  ASSUME NEW c, Ready(c), NEW h \in Seq(Tokens), c.filled = Ideal(h), NEW t \in Tokens
  PROVE  /\ Ready(Forward(c, <<t>>))
         /\ Forward(c, <<t>>).filled = Ideal(h \o <<t>>)
         /\ Len(Forward(c, <<t>>).filled) = Len(c.filled) + 1
<1> DEFINE g == <<t>>
<1>1. g \in Seq(Tokens) /\ Len(g) = 1
  OBVIOUS
<1> HIDE DEF g
<1>2. c.filled \in Seq(Entry) /\ Len(c.filled) = Len(h) /\ Len(h) \in Nat
  BY IdealIsSeq
<1>3. Forward(c, g) = Update(c, PagedEntries(Len(h), g))
  BY <1>1, <1>2, EntriesCausal DEF Forward
<1>4. PagedEntries(Len(h), g) \in Seq(Entry)
  BY <1>1, <1>2, PagedEntriesIsSeq
<1>5. Update(c, PagedEntries(Len(h), g)).filled = Ideal(h) \o PagedEntries(Len(h), g)
  BY DEF Update
<1>6. Forward(c, g).filled = Ideal(h \o g)
  BY <1>1, <1>3, <1>5, IdealGrows
<1>7. Ready(Forward(c, g)) /\ Len(Forward(c, g).filled) = Len(c.filled) + 1
  BY <1>1, ForwardReady
<1> QED BY <1>6, <1>7 DEF g

(* The same over pages. *)
LEMMA ForwardPagedSound ==
  ASSUME NEW c, PagedSound(c), ~c.external, NEW new \in Seq(Tokens), CanReserve(c, Len(new))
  PROVE  /\ PagedSound(ForwardPaged(c, new))
         /\ ~ForwardPaged(c, new).external
         /\ ForwardPaged(c, new).len = c.len + Len(new)
         /\ \A h \in Seq(Tokens) : View(c) = Ideal(h) /\ c.len = Len(h) =>
              View(ForwardPaged(c, new)) = Ideal(h \o new)
<1> DEFINE e == PagedEntries(c.len, new)
<1>1. c.len \in Nat
  BY PagedFields
<1>2. e \in Seq(Entry) /\ Len(e) = Len(new)
  BY <1>1, PagedEntriesIsSeq
<1>3. /\ PagedSound(AppendPaged(c, e)) /\ ~AppendPaged(c, e).external
      /\ AppendPaged(c, e).len = c.len + Len(e)
      /\ View(AppendPaged(c, e)) = View(c) \o e
  <2> HIDE DEF e
  <2>1. CanReserve(c, Len(e))
    BY <1>2
  <2> QED BY <1>2, <2>1, AppendPagedSound
<1>4. ASSUME NEW h \in Seq(Tokens), View(c) = Ideal(h), c.len = Len(h)
      PROVE  View(c) \o e = Ideal(h \o new)
  BY <1>4, IdealGrows
<1> QED BY <1>2, <1>3, <1>4 DEF ForwardPaged

(* The model's choices are tokens. *)
LEMMA RowsTyped ==
  ASSUME TargetTyped, NEW c, NEW new \in Seq(Tokens)
  PROVE  /\ Rows(c, new) \in Seq(Tokens) /\ Len(Rows(c, new)) = Len(new)
         /\ \A len, n, i : Choice(c, len, n, i) \in Tokens
<1>1. \A d, len, n, i : Choice(d, len, n, i) \in Tokens
  BY DEF TargetTyped, Choice
<1>2. DOMAIN new = 1 .. Len(new) /\ Len(new) \in Nat
  OBVIOUS
<1> DEFINE m == Len(new)
           e(i) == Choice(Forward(c, new), Len(c.filled), Len(new), i)
<1>3. Rows(c, new) = [i \in 1 .. m |-> e(i)]
  BY <1>2 DEF Rows
<1>4. m \in Nat /\ \A i \in 1 .. m : e(i) \in Tokens
  BY <1>1, <1>2
<1> HIDE DEF m, e
<1>5. [i \in 1 .. m |-> e(i)] \in Seq(Tokens) /\ Len([i \in 1 .. m |-> e(i)]) = m
  BY <1>4
<1> QED BY <1>1, <1>3, <1>5 DEF m

-----------------------------------------------------------------------------
(* Where a reply stops.                                                    *)

(* The first position of a scan, or none. *)
LEMMA FirstOfLeast ==
  ASSUME NEW S, S \subseteq Nat, NEW none
  PROVE  \/ S = {} /\ FirstOf(S, none) = none
         \/ FirstOf(S, none) \in S /\ \A n \in S : FirstOf(S, none) <= n
<1>1. CASE S = {}
  BY <1>1 DEF FirstOf
<1>2. CASE S # {}
  <2>1. \E m \in S : \A n \in S : m <= n
    BY <1>2, LeastNatural
  <2>2. Min(S) \in S /\ \A n \in S : Min(S) <= n
    BY <2>1 DEF Min
  <2> QED BY <1>2, <2>2 DEF FirstOf
<1> QED BY <1>1, <1>2

(* No end token in a reply but the last token. *)
EosOnlyLast(s, from) == \A i \in from + 1 .. Len(s) - 1 : s[i] # Eos

LEMMA AppendBatch ==
  ASSUME NEW s \in Seq(Tokens), NEW new \in Seq(Tokens), NEW from \in Nat,
         EosOnlyLast(s, from), from = Len(s) \/ Last(s) # Eos,
         \A i \in 1 .. Len(new) - 1 : new[i] # Eos
  PROVE  EosOnlyLast(s \o new, from)
<1> DEFINE w == s \o new
<1>1. /\ w \in Seq(Tokens) /\ Len(w) = Len(s) + Len(new)
      /\ \A i \in 1 .. Len(s) + Len(new) : w[i] = IF i <= Len(s) THEN s[i] ELSE new[i - Len(s)]
      /\ Len(s) \in Nat /\ Len(new) \in Nat
  BY ConcatProperties
<1> HIDE DEF w
<1>2. ASSUME NEW i \in from + 1 .. Len(w) - 1 PROVE w[i] # Eos
  <2>1. i \in 1 .. Len(s) + Len(new)
    BY <1>1
  <2>2. CASE i < Len(s)
    <3>1. i \in from + 1 .. Len(s) - 1 /\ w[i] = s[i]
      BY <1>1, <2>1, <2>2
    <3> QED BY <3>1 DEF EosOnlyLast
  <2>3. CASE i = Len(s)
    <3>1. from # Len(s) /\ w[i] = Last(s)
      BY <1>1, <2>1, <2>3 DEF Last
    <3> QED BY <3>1
  <2>4. CASE i > Len(s)
    <3>1. i - Len(s) \in 1 .. Len(new) - 1 /\ w[i] = new[i - Len(s)]
      BY <1>1, <2>1, <2>4
    <3> QED BY <3>1
  <2> QED BY <1>1, <2>1, <2>2, <2>3, <2>4
<1> QED BY <1>2 DEF EosOnlyLast, w

LEMMA AppendOne ==
  ASSUME NEW s \in Seq(Tokens), NEW t \in Tokens, NEW from \in Nat,
         EosOnlyLast(s, from), from = Len(s) \/ Last(s) # Eos
  PROVE  EosOnlyLast(Append(s, t), from)
<1> DEFINE g == <<t>>
<1>1. g \in Seq(Tokens) /\ Len(g) = 1 /\ Append(s, t) = s \o g
  BY AppendIsConcat
<1>2. \A i \in 1 .. Len(g) - 1 : g[i] # Eos
  BY <1>1
<1> HIDE DEF g
<1> QED BY <1>1, <1>2, AppendBatch

(* What is kept of a conversation: its end. *)
LEMMA KeptIsEnd ==
  ASSUME NEW s \in Seq(Tokens), s # << >>, NEW n \in Nat \ {0}
  PROVE  /\ Kept(s, n) \in Seq(Tokens) /\ Kept(s, n) # << >>
         /\ Len(Kept(s, n)) \in 1 .. n /\ Last(Kept(s, n)) = Last(s)
<1> DEFINE l == Len(s)
           m == Smaller(n, l)
           k == SubSeq(s, l - m + 1, l)
<1>1. l \in Nat \ {0}
  BY EmptySeq
<1>2. m \in 1 .. n /\ m <= l
  BY <1>1 DEF Smaller
<1> HIDE DEF m
<1>3. \A i \in l - m + 1 .. l : s[i] \in Tokens
  BY <1>1, <1>2
<1> HIDE DEF l
<1>4. /\ k \in Seq(Tokens)
      /\ Len(k) = IF l - m + 1 <= l THEN l - (l - m + 1) + 1 ELSE 0
      /\ \A i \in 1 .. l - (l - m + 1) + 1 : k[i] = s[l - m + 1 + i - 1]
  <2>1. l - m + 1 \in Int /\ l \in Int
    BY <1>1, <1>2
  <2> QED BY <1>3, <2>1, SubSeqProperties
<1> HIDE DEF k
<1>5. Len(k) = m /\ m \in 1 .. l - (l - m + 1) + 1 /\ l - m + 1 + m - 1 = l
  BY <1>1, <1>2, <1>4
<1>6. k[m] = s[l]
  <2>1. k[m] = s[l - m + 1 + m - 1]
    BY <1>4, <1>5
  <2> QED BY <1>5, <2>1
<1>7. k # << >>
  BY <1>2, <1>5
<1>8. Kept(s, n) = k
  BY DEF Kept, k, l, m
<1> QED BY <1>2, <1>4, <1>5, <1>6, <1>7, <1>8 DEF Last, l

LEMMA ConcatLast ==
  ASSUME NEW s \in Seq(Tokens), NEW p \in Seq(Tokens), p # << >>
  PROVE  s \o p \in Seq(Tokens) /\ s \o p # << >> /\ Last(s \o p) = Last(p)
<1> DEFINE w == s \o p
<1>1. /\ w \in Seq(Tokens) /\ Len(w) = Len(s) + Len(p)
      /\ \A i \in 1 .. Len(s) + Len(p) : w[i] = IF i <= Len(s) THEN s[i] ELSE p[i - Len(s)]
  BY ConcatProperties
<1>2. Len(s) \in Nat /\ Len(p) \in Nat \ {0}
  BY EmptySeq
<1> HIDE DEF w
<1>3. Len(w) \in 1 .. Len(s) + Len(p) /\ ~(Len(w) <= Len(s)) /\ Len(w) - Len(s) = Len(p) /\ w # << >>
  BY <1>1, <1>2
<1>4. w[Len(w)] = p[Len(p)]
  BY <1>1, <1>3
<1> QED BY <1>1, <1>3, <1>4 DEF Last, w

-----------------------------------------------------------------------------
(* The inductive invariant.                                                *)

Typed ==
  /\ mode \in Modes /\ model \in Models
  /\ pc \in {"idle", "prefill", "decode", "replay", "failed", "quit"}
  /\ tokens \in Seq(Tokens)
  /\ promptLen \in Nat /\ maxTotal \in Nat /\ off \in Nat /\ graphPos \in Nat
  /\ current \in Tokens
  /\ BufferSound(kv) /\ BufferSound(draftKv) /\ PagedSound(paged)
  /\ "k" \in DOMAIN dyn /\ dyn.k \in 1 .. Heads

(* Before the first token: a prompt that fits, and caches that hold what   *)
(* of it was prefilled.                                                    *)
Prefilling ==
  pc = "prefill" =>
    /\ tokens # << >> /\ Back # Eos
    /\ promptLen = Len(tokens) /\ promptLen < maxTotal /\ promptLen <= MaxContext
    /\ kv = EmptyBuffer /\ draftKv = EmptyBuffer
    /\ ~paged.external /\ paged.len = off /\ off < promptLen
    /\ View(paged) = Ideal(SubSeq(tokens, 1, off))
    /\ off = 0 \/ (ChunkSize > 0 /\ ChunkSize < promptLen)

BufferModes == {"concat", "mtp", "tree", "draft", "library"}
PagedModes == {"paged", "graph"}

(* While tokens are decoded: the cache of the mode is in use, and one      *)
(* token behind the conversation where one is decoded at a time.           *)
Decoding ==
  /\ pc \in {"decode", "replay"} =>
       /\ tokens # << >>
       /\ mode \in PagedModes => paged.len = Len(tokens) - 1
  /\ pc = "decode" =>
       /\ ~paged.external
       /\ mode \in PagedModes => View(paged) = Ideal(Front(tokens))
       /\ mode = "concat" => kv.filled = Ideal(Front(tokens))
       /\ mode \in BufferModes => kv.filled # << >>
       /\ mode = "draft" => draftKv.filled # << >>
  /\ pc = "replay" => mode = "graph" /\ paged.external

IInv == /\ TargetTyped
        /\ Typed /\ Prefilling /\ Decoding
        /\ EosEndsReply /\ FailsOnlyWhenFull

LEMMA InitInv == TargetTyped /\ Init => IInv
<1> SUFFICES ASSUME TargetTyped, Init PROVE IInv
  OBVIOUS
<1>1. << >> \in Seq(Tokens) /\ Len(<< >>) = 0
  BY EmptySeq
<1>2. "k" \in DOMAIN FreshDyn /\ FreshDyn.k \in 1 .. Heads
  BY GenerationAssumption DEF FreshDyn, Smaller
<1>3. Typed
  BY <1>1, <1>2, EmptyBufferSound, EmptyPagedSound, GenerationAssumption DEF Init, Typed
<1>4. Prefilling /\ Decoding /\ FailsOnlyWhenFull
  BY DEF Init, Prefilling, Decoding, FailsOnlyWhenFull
<1>5. EosEndsReply
  BY <1>1 DEF Init, EosEndsReply
<1> QED BY <1>3, <1>4, <1>5 DEF IInv

-----------------------------------------------------------------------------
(* The REPL keeps it.                                                      *)

LEMMA ReadPromptKeepsInv ==
  ASSUME IInv, NEW p \in Prompts, ReadPrompt(p)
  PROVE  IInv'
<1> DEFINE begin == IF Instruct /\ tokens = << >> THEN <<Eos>> ELSE << >>
           n == Larger(MaxContext - MaxTokens, 1)
           conv == Kept(tokens \o begin \o p, n)
<1>1. tokens \in Seq(Tokens) /\ p \in Seq(Tokens) /\ p # << >> /\ Last(p) # Eos
      /\ Len(p) \in Nat
  BY GenerationAssumption DEF IInv, Typed, Last
<1>2. begin \in Seq(Tokens)
  BY GenerationAssumption
<1>3. MaxContext \in Nat /\ MaxTokens \in Nat \ {0} /\ n \in Nat \ {0} /\ n = MaxContext - MaxTokens
  BY GenerationAssumption DEF Larger
<1> HIDE DEF begin, n
<1>4. tokens \o begin \in Seq(Tokens)
  BY <1>1, <1>2
<1>5. /\ tokens \o begin \o p \in Seq(Tokens) /\ tokens \o begin \o p # << >>
      /\ Last(tokens \o begin \o p) = Last(p)
  BY <1>1, <1>4, ConcatLast
<1>6. /\ conv \in Seq(Tokens) /\ conv # << >> /\ Len(conv) \in 1 .. n
      /\ Last(conv) = Last(p)
  BY <1>3, <1>5, KeptIsEnd
<1> HIDE DEF conv
<1>7. /\ tokens' = conv /\ promptLen' = Len(conv)
      /\ maxTotal' = Smaller(Len(conv) + MaxTokens, MaxContext)
      /\ pc' = "prefill" /\ off' = 0
      /\ kv' = EmptyBuffer /\ draftKv' = EmptyBuffer /\ paged' = EmptyPaged
      /\ graphPos' = 0 /\ dyn' = FreshDyn
      /\ mode' = mode /\ model' = model /\ current' = current
  BY DEF ReadPrompt, config, conv, n, begin
<1>8. Len(conv) < maxTotal' /\ Len(conv) <= MaxContext /\ maxTotal' \in Nat /\ Len(conv) \in Nat \ {0}
  BY <1>3, <1>6, <1>7 DEF Smaller
<1>9. "k" \in DOMAIN FreshDyn /\ FreshDyn.k \in 1 .. Heads
  BY GenerationAssumption DEF FreshDyn, Smaller
<1>10. Typed'
  BY <1>6, <1>7, <1>8, <1>9, EmptyBufferSound, EmptyPagedSound DEF IInv, Typed
<1>11. Prefilling'
  <2>1. SubSeq(conv, 1, 0) = << >>
    BY SubSeqEmpty
  <2>2. Ideal(<< >>) = << >>
    BY DEF Ideal
  <2>3. Last(conv) # Eos
    BY <1>1, <1>6
  <2>4. View(EmptyPaged) = Ideal(SubSeq(conv, 1, 0)) /\ EmptyPaged.len = 0 /\ ~EmptyPaged.external
    BY <2>1, <2>2, EmptyPagedSound
  <2>5. Last(tokens') # Eos /\ tokens' # << >> /\ promptLen' = Len(tokens') /\ off' < promptLen'
    BY <1>6, <1>7, <1>8, <2>3
  <2>6. View(paged') = Ideal(SubSeq(tokens', 1, off')) /\ paged'.len = off' /\ ~paged'.external
    BY <1>7, <2>4
  <2> QED BY <1>7, <1>8, <2>5, <2>6 DEF Prefilling, Back
<1>12. Decoding' /\ FailsOnlyWhenFull'
  BY <1>7 DEF Decoding, FailsOnlyWhenFull
<1>13. EosEndsReply'
  BY <1>7, <1>8 DEF EosEndsReply
<1>14. TargetTyped'
  BY DEF IInv, TargetTyped
<1> QED BY <1>10, <1>11, <1>12, <1>13, <1>14 DEF IInv

(* Between replies nothing but pc or the conversation changes. *)
LEMMA ReplKeepsInv ==
  ASSUME IInv, ClearContext \/ Quit \/ EndTurn
  PROVE  IInv'
<1>1. CASE ClearContext
  <2>1. << >> \in Seq(Tokens) /\ Len(<< >>) = 0
    BY EmptySeq
  <2>2. Typed'
    BY <1>1, <2>1 DEF IInv, Typed, ClearContext, config, turn
  <2>3. Prefilling' /\ Decoding' /\ FailsOnlyWhenFull'
    BY <1>1 DEF Prefilling, Decoding, FailsOnlyWhenFull, ClearContext
  <2>4. EosEndsReply'
    <3>1. tokens' = << >> /\ promptLen' = promptLen /\ promptLen \in Nat
      BY <1>1 DEF IInv, Typed, ClearContext, turn
    <3>2. promptLen' + 1 .. Len(tokens') - 1 = {}
      BY <2>1, <3>1
    <3> QED BY <3>2 DEF EosEndsReply
  <2> QED BY <2>2, <2>3, <2>4 DEF IInv, TargetTyped
<1>2. CASE Quit \/ EndTurn
  <2>1. pc' \in {"idle", "quit"}
        /\ UNCHANGED <<config, tokens, turn, off, kv, draftKv, paged, graphPos, current, dyn>>
    BY <1>2 DEF Quit, EndTurn
  <2>2. Typed'
    BY <2>1 DEF IInv, Typed, config, turn
  <2>3. Prefilling' /\ Decoding' /\ FailsOnlyWhenFull'
    BY <2>1 DEF Prefilling, Decoding, FailsOnlyWhenFull
  <2>4. EosEndsReply'
    BY <2>1 DEF IInv, EosEndsReply, config, turn
  <2> QED BY <2>2, <2>3, <2>4 DEF IInv, TargetTyped
<1> QED BY <1>1, <1>2

-----------------------------------------------------------------------------
(* Prefill keeps it.                                                       *)

(* The first token of a reply. *)
LEMMA FirstToken ==
  ASSUME IInv, pc = "prefill", NEW t \in Tokens
  PROVE  /\ Append(tokens, t) \in Seq(Tokens) /\ Append(tokens, t) # << >>
         /\ Len(Append(tokens, t)) = promptLen + 1 /\ Front(Append(tokens, t)) = tokens
         /\ EosOnlyLast(Append(tokens, t), promptLen)
<1>1. tokens \in Seq(Tokens) /\ promptLen = Len(tokens) /\ promptLen \in Nat
  BY DEF IInv, Typed, Prefilling
<1>2. EosOnlyLast(tokens, promptLen)
  BY <1>1 DEF EosOnlyLast
<1>3. EosOnlyLast(Append(tokens, t), promptLen)
  BY <1>1, <1>2, AppendOne
<1> QED BY <1>1, <1>3, FrontAppend

LEMMA PromptFed ==
  ASSUME IInv, pc = "prefill"
  PROVE  /\ Ready(Forward(kv, tokens)) /\ Forward(kv, tokens).filled = Ideal(tokens)
         /\ Ready(Forward(draftKv, tokens))
<1>1. /\ tokens \in Seq(Tokens) /\ tokens # << >> /\ Len(tokens) <= MaxContext
      /\ kv = EmptyBuffer /\ draftKv = EmptyBuffer
  BY DEF IInv, Typed, Prefilling
<1> QED BY <1>1, ForwardPrompt

LEMMA PrefillKeepsInv ==
  ASSUME IInv, PrefillFull \/ PrefillConcat \/ PrefillSpeculative \/ PrefillLibrary
  PROVE  IInv'
<1>1. /\ pc = "prefill" /\ pc' = "decode" /\ mode' = mode /\ model' = model
      /\ promptLen' = promptLen /\ maxTotal' = maxTotal /\ off' = off
      /\ paged' = paged /\ graphPos' = graphPos /\ dyn' = dyn
      /\ mode \notin PagedModes
  BY DEF PrefillFull, PrefillConcat, PrefillSpeculative, PrefillLibrary, config, turn, PagedModes
<1>2. Typed /\ tokens # << >> /\ ~paged.external
  BY <1>1 DEF IInv, Prefilling
<1>3. /\ Ready(Forward(kv, tokens)) /\ Forward(kv, tokens).filled = Ideal(tokens)
      /\ Ready(Forward(draftKv, tokens))
  BY <1>1, PromptFed
<1>4. TargetTyped'
  BY DEF IInv, TargetTyped
<1>5. Prefilling' /\ FailsOnlyWhenFull'
  BY <1>1 DEF Prefilling, FailsOnlyWhenFull
<1>6. CASE PrefillFull \/ PrefillSpeculative
  <2>1. /\ tokens' = tokens /\ current' = current
        /\ mode \in {"full", "mtp", "tree", "draft"}
        /\ mode # "full" => kv' = Forward(kv, tokens)
        /\ mode = "full" => kv' = kv
        /\ mode = "draft" => draftKv' = Forward(draftKv, tokens)
        /\ mode # "draft" => draftKv' = draftKv
    BY <1>6 DEF PrefillFull, PrefillSpeculative
  <2>2. Typed'
    BY <1>1, <1>2, <1>3, <2>1 DEF Typed, Ready
  <2>3. Decoding'
    BY <1>1, <1>2, <1>3, <2>1 DEF Decoding, Ready, PagedModes, BufferModes
  <2>4. EosEndsReply'
    BY <1>1, <2>1 DEF IInv, EosEndsReply
  <2> QED BY <1>4, <1>5, <2>2, <2>3, <2>4 DEF IInv
<1>7. CASE PrefillConcat \/ PrefillLibrary
  <2>1. PICK t \in Tokens : tokens' = Append(tokens, t) /\ current' \in {t, current}
    <3>1. CASE PrefillConcat
      <4>1. Choice(Forward(kv, tokens), 0, promptLen, promptLen) \in Tokens
        BY DEF IInv, TargetTyped, Choice
      <4> QED BY <3>1, <4>1 DEF PrefillConcat
    <3>2. CASE PrefillLibrary
      <4>1. Best(model, tokens) \in Tokens
        BY DEF IInv, TargetTyped, Best
      <4> QED BY <3>2, <4>1 DEF PrefillLibrary
    <3> QED BY <1>7, <3>1, <3>2
  <2>2. kv' = Forward(kv, tokens) /\ draftKv' = draftKv /\ mode \in {"concat", "library"}
    BY <1>7 DEF PrefillConcat, PrefillLibrary
  <2>3. /\ tokens' \in Seq(Tokens) /\ tokens' # << >> /\ Front(tokens') = tokens
        /\ EosOnlyLast(tokens', promptLen)
    BY <1>1, <2>1, FirstToken
  <2>4. Typed'
    BY <1>1, <1>2, <1>3, <2>1, <2>2, <2>3 DEF Typed, Ready
  <2>5. Decoding'
    BY <1>1, <1>2, <1>3, <2>2, <2>3 DEF Decoding, Ready, PagedModes, BufferModes
  <2>6. EosEndsReply'
    BY <1>1, <2>3 DEF EosEndsReply, EosOnlyLast
  <2> QED BY <1>4, <1>5, <2>4, <2>5, <2>6 DEF IInv
<1> QED BY <1>6, <1>7

(* A chunk lies within the prompt. *)
LEMMA ChunkFits ==
  ASSUME IInv, pc = "prefill"
  PROVE  /\ Chunk \in 1 .. promptLen - off /\ off \in Nat /\ promptLen \in Nat
         /\ off + Chunk < promptLen => ChunkSize > 0 /\ ChunkSize < promptLen
<1>1. /\ off \in Nat /\ promptLen \in Nat /\ off < promptLen /\ ChunkSize \in Nat
      /\ off = 0 \/ (ChunkSize > 0 /\ ChunkSize < promptLen)
  BY GenerationAssumption DEF IInv, Typed, Prefilling
<1> QED BY <1>1 DEF Chunk, Smaller

LEMMA ChunkFed ==
  ASSUME IInv, mode \in PagedModes, pc = "prefill", CanReserve(paged, Chunk)
  PROVE  LET fed == SubSeq(tokens, off + 1, off + Chunk)
             c   == ForwardPaged(paged, fed)
         IN  /\ PagedSound(c) /\ ~c.external /\ c.len = off + Chunk
             /\ View(c) = Ideal(SubSeq(tokens, 1, off + Chunk))
             /\ off + Chunk = promptLen => SubSeq(tokens, 1, off + Chunk) = tokens
<1> DEFINE n == Chunk
           fed == SubSeq(tokens, off + 1, off + n)
           done == SubSeq(tokens, 1, off)
<1>1. n \in 1 .. promptLen - off /\ off \in Nat /\ promptLen \in Nat
  BY ChunkFits
<1> HIDE DEF n
<1>2. /\ tokens \in Seq(Tokens) /\ promptLen = Len(tokens) /\ ~paged.external
      /\ PagedSound(paged) /\ paged.len = off /\ View(paged) = Ideal(done)
  BY DEF IInv, Typed, Prefilling
<1>3. fed \in Seq(Tokens) /\ Len(fed) = n
  <2> DEFINE i1 == off + 1
             i2 == off + n
  <2>1. \A i \in i1 .. i2 : tokens[i] \in Tokens
    BY <1>1, <1>2
  <2>2. i1 \in Int /\ i2 \in Int /\ i1 <= i2 /\ i2 - i1 + 1 = n
    BY <1>1
  <2> HIDE DEF i1, i2
  <2>3. SubSeq(tokens, i1, i2) \in Seq(Tokens)
        /\ Len(SubSeq(tokens, i1, i2)) = IF i1 <= i2 THEN i2 - i1 + 1 ELSE 0
    BY <2>1, <2>2, SubSeqProperties
  <2>4. fed = SubSeq(tokens, i1, i2)
    BY DEF i1, i2
  <2> QED BY <2>2, <2>3, <2>4
<1>4. done \in Seq(Tokens) /\ Len(done) = off
  <2>1. off = 0 \/ off \in 1 .. Len(tokens)
    BY <1>1, <1>2
  <2>2. CASE off = 0
    BY <2>2, SubSeqEmpty, EmptySeq
  <2>3. CASE off \in 1 .. Len(tokens)
    BY <1>2, <2>3
  <2> QED BY <2>1, <2>2, <2>3
<1>5. done \o fed = SubSeq(tokens, 1, off + n)
  <2>1. 1 \in 1 .. Len(tokens) + 1 /\ off \in 1 - 1 .. Len(tokens) /\ off + n \in off .. Len(tokens)
    BY <1>1, <1>2
  <2> QED BY <1>2, <2>1, ConcatAdjacentSubSeq
<1>6. CanReserve(paged, Len(fed))
  BY <1>3 DEF n
<1> HIDE DEF fed, done
<1>7. LET c == ForwardPaged(paged, fed)
      IN  /\ PagedSound(c) /\ ~c.external /\ c.len = off + n
          /\ View(c) = Ideal(SubSeq(tokens, 1, off + n))
  BY <1>2, <1>3, <1>4, <1>5, <1>6, ForwardPagedSound
<1>8. off + n = promptLen => SubSeq(tokens, 1, off + n) = tokens
  BY <1>2, SubSeqFull
<1> QED BY <1>7, <1>8 DEF fed, n

LEMMA PrefillChunkKeepsInv ==
  ASSUME IInv, PrefillChunk
  PROVE  IInv'
<1> DEFINE fed == SubSeq(tokens, off + 1, off + Chunk)
           c   == ForwardPaged(paged, fed)
           past == off + Chunk
<1>1. /\ mode \in PagedModes /\ pc = "prefill" /\ CanReserve(paged, Chunk)
      /\ paged' = c /\ off' = past
      /\ IF off' < promptLen
         THEN UNCHANGED <<pc, tokens>>
         ELSE /\ pc' = "decode"
              /\ tokens' = Append(tokens, Target(model, View(c)))
      /\ mode' = mode /\ model' = model /\ promptLen' = promptLen /\ maxTotal' = maxTotal
      /\ kv' = kv /\ draftKv' = draftKv /\ graphPos' = graphPos /\ current' = current /\ dyn' = dyn
  BY DEF PrefillChunk, config, turn, PagedModes
<1>2. /\ PagedSound(c) /\ ~c.external /\ c.len = past
      /\ View(c) = Ideal(SubSeq(tokens, 1, past))
      /\ past = promptLen => SubSeq(tokens, 1, past) = tokens
  BY <1>1, ChunkFed
<1>3. past \in Nat /\ promptLen \in Nat /\ past <= promptLen /\ (past < promptLen => ChunkSize > 0 /\ ChunkSize < promptLen)
  BY <1>1, ChunkFits
<1> HIDE DEF c, fed, past
<1>4. TargetTyped' /\ TargetTyped
  BY DEF IInv, TargetTyped
<1>5. FailsOnlyWhenFull'
  BY <1>1 DEF FailsOnlyWhenFull
<1>6. CASE past < promptLen
  <2>1. tokens' = tokens /\ pc' = "prefill"
    BY <1>1, <1>6
  <2>2. Typed'
    BY <1>1, <1>2, <1>3, <2>1 DEF IInv, Typed
  <2>3. Prefilling'
    BY <1>1, <1>2, <1>3, <1>6, <2>1 DEF IInv, Prefilling, Back
  <2>4. Decoding'
    BY <2>1 DEF Decoding
  <2>5. EosEndsReply'
    BY <1>1, <2>1 DEF IInv, EosEndsReply
  <2> QED BY <1>4, <1>5, <2>2, <2>3, <2>4, <2>5 DEF IInv
<1>7. CASE past = promptLen
  <2>1. PICK t \in Tokens : tokens' = Append(tokens, t)
    BY <1>1, <1>3, <1>4, <1>7 DEF TargetTyped
  <2>2. pc' = "decode"
    BY <1>1, <1>3, <1>7
  <2>3. /\ tokens' \in Seq(Tokens) /\ tokens' # << >> /\ Front(tokens') = tokens
        /\ Len(tokens') = promptLen + 1
        /\ EosOnlyLast(tokens', promptLen)
    BY <1>1, <2>1, FirstToken
  <2>4. Typed'
    BY <1>1, <1>2, <1>3, <2>2, <2>3 DEF IInv, Typed
  <2>5. Prefilling'
    BY <2>2 DEF Prefilling
  <2>6. Decoding'
    <3>1. paged'.len = Len(tokens') - 1 /\ ~paged'.external /\ View(paged') = Ideal(Front(tokens'))
      <4>1. c.len = promptLen /\ promptLen \in Nat /\ Len(tokens') - 1 = promptLen
        BY <1>2, <1>7, <2>3 DEF IInv, Typed
      <4>2. View(c) = Ideal(Front(tokens'))
        BY <1>2, <1>7, <2>3
      <4> QED BY <1>1, <1>2, <4>1, <4>2
    <3>2. mode \notin BufferModes /\ mode # "draft" /\ mode # "concat"
      BY <1>1 DEF PagedModes, BufferModes
    <3> QED BY <1>1, <2>2, <2>3, <3>1, <3>2 DEF Decoding
  <2>7. EosEndsReply'
    BY <1>1, <2>3 DEF EosEndsReply, EosOnlyLast
  <2> QED BY <1>4, <1>5, <2>4, <2>5, <2>6, <2>7 DEF IInv
<1> QED BY <1>1, <1>3, <1>6, <1>7

-----------------------------------------------------------------------------
(* One token per step keeps it.                                            *)

LEMMA NextToken ==
  ASSUME IInv, pc \in {"decode", "replay"}, MoreToDo
  PROVE  /\ tokens \in Seq(Tokens) /\ tokens # << >> /\ Back \in Tokens
         /\ Front(tokens) \in Seq(Tokens) /\ Front(tokens) \o <<Back>> = tokens
         /\ Len(Front(tokens)) = Len(tokens) - 1 /\ Len(tokens) \in Nat \ {0}
         /\ mode # "library" => Back # Eos /\ EosOnlyLast(tokens, promptLen)
         /\ \A t \in Tokens :
              /\ Append(tokens, t) \in Seq(Tokens) /\ Append(tokens, t) # << >>
              /\ Len(Append(tokens, t)) = Len(tokens) + 1 /\ Front(Append(tokens, t)) = tokens
              /\ mode # "library" => EosOnlyLast(Append(tokens, t), promptLen)
<1>1. tokens \in Seq(Tokens) /\ tokens # << >> /\ promptLen \in Nat
  BY DEF IInv, Typed, Decoding
<1>2. /\ Back \in Tokens /\ Front(tokens) \in Seq(Tokens) /\ Front(tokens) \o <<Back>> = tokens
      /\ Len(Front(tokens)) = Len(tokens) - 1 /\ Len(tokens) \in Nat \ {0}
  BY <1>1, FrontLast DEF Back
<1>3. mode # "library" => Back # Eos /\ EosOnlyLast(tokens, promptLen)
  BY DEF IInv, EosEndsReply, EosOnlyLast, MoreToDo, Stopped
<1>4. ASSUME NEW t \in Tokens
      PROVE  /\ Append(tokens, t) \in Seq(Tokens) /\ Append(tokens, t) # << >>
             /\ Len(Append(tokens, t)) = Len(tokens) + 1 /\ Front(Append(tokens, t)) = tokens
             /\ mode # "library" => EosOnlyLast(Append(tokens, t), promptLen)
  BY <1>1, <1>3, FrontAppend, AppendOne DEF Back
<1> QED BY <1>1, <1>2, <1>3, <1>4

LEMMA StepFullKeepsInv ==
  ASSUME IInv, StepFull
  PROVE  IInv'
<1> DEFINE t == Best(model, tokens)
<1>1. /\ mode = "full" /\ pc = "decode" /\ MoreToDo /\ tokens' = Append(tokens, t)
      /\ UNCHANGED <<mode, model, pc, promptLen, maxTotal, off, kv, draftKv, paged, graphPos,
                     current, dyn>>
  BY DEF StepFull, config, turn
<1>2. t \in Tokens
  BY DEF IInv, TargetTyped, Best
<1> HIDE DEF t
<1>3. tokens' \in Seq(Tokens) /\ tokens' # << >> /\ EosOnlyLast(tokens', promptLen)
  BY <1>1, <1>2, NextToken
<1>4. Typed'
  BY <1>1, <1>3 DEF IInv, Typed
<1>5. Prefilling' /\ FailsOnlyWhenFull' /\ TargetTyped'
  BY <1>1 DEF IInv, Prefilling, FailsOnlyWhenFull, TargetTyped
<1>6. Decoding'
  BY <1>1, <1>3 DEF IInv, Decoding, PagedModes, BufferModes
<1>7. EosEndsReply'
  BY <1>1, <1>3 DEF EosEndsReply, EosOnlyLast
<1> QED BY <1>4, <1>5, <1>6, <1>7 DEF IInv

LEMMA ConcatFed ==
  ASSUME IInv, mode = "concat", pc = "decode", MoreToDo
  PROVE  /\ Ready(Forward(kv, <<Back>>)) /\ Forward(kv, <<Back>>).filled = Ideal(tokens)
         /\ Choice(Forward(kv, <<Back>>), Len(kv.filled), 1, 1) = Best(model, tokens)
<1> DEFINE c == Forward(kv, <<Back>>)
           h == Front(tokens)
<1>1. /\ tokens \in Seq(Tokens) /\ Back \in Tokens /\ h \in Seq(Tokens) /\ h \o <<Back>> = tokens
  BY NextToken
<1>2. Ready(kv) /\ kv.filled = Ideal(h)
  BY DEF IInv, Typed, Decoding, Ready, BufferModes
<1> HIDE DEF h
<1>3. Ready(c) /\ c.filled = Ideal(tokens) /\ Len(c.filled) = Len(kv.filled) + 1
  BY <1>1, <1>2, ForwardOne
<1> HIDE DEF c
<1>4. Len(kv.filled) \in Nat \ {0} /\ c.filled \in Seq(Entry)
  BY <1>2, <1>3, ReadyAllocated
<1>5. Sees(Len(kv.filled), 1, 1) = Len(c.filled)
  BY <1>3, <1>4 DEF Sees
<1>6. SubSeq(c.filled, 1, Len(c.filled)) = c.filled
  BY <1>4, SubSeqFull
<1>7. Choice(c, Len(kv.filled), 1, 1) = Best(model, tokens)
  BY <1>3, <1>5, <1>6 DEF Choice, Best
<1> QED BY <1>3, <1>7 DEF c

LEMMA StepConcatKeepsInv ==
  ASSUME IInv, StepConcat
  PROVE  IInv'
<1> DEFINE c == Forward(kv, <<Back>>)
           t == Best(model, tokens)
<1>1. /\ mode = "concat" /\ pc = "decode" /\ MoreToDo /\ kv' = c
      /\ tokens' = Append(tokens, Choice(c, Len(kv.filled), 1, 1))
      /\ UNCHANGED <<mode, model, pc, promptLen, maxTotal, off, draftKv, paged, graphPos,
                     current, dyn>>
  BY DEF StepConcat, config, turn
<1>2. Ready(c) /\ c.filled = Ideal(tokens) /\ tokens' = Append(tokens, t)
  BY <1>1, ConcatFed
<1>3. t \in Tokens
  BY DEF IInv, TargetTyped, Best
<1> HIDE DEF t, c
<1>4. /\ tokens' \in Seq(Tokens) /\ tokens' # << >> /\ Front(tokens') = tokens
      /\ EosOnlyLast(tokens', promptLen)
  BY <1>1, <1>2, <1>3, NextToken
<1>5. Typed'
  BY <1>1, <1>2, <1>4 DEF IInv, Typed, Ready
<1>6. Prefilling' /\ FailsOnlyWhenFull' /\ TargetTyped'
  BY <1>1 DEF IInv, Prefilling, FailsOnlyWhenFull, TargetTyped
<1>7. Decoding'
  BY <1>1, <1>2, <1>4 DEF IInv, Decoding, PagedModes, Ready
<1>8. EosEndsReply'
  BY <1>1, <1>4 DEF EosEndsReply, EosOnlyLast
<1> QED BY <1>5, <1>6, <1>7, <1>8 DEF IInv

LEMMA PagedFed ==
  ASSUME IInv, mode \in PagedModes, pc = "decode", MoreToDo, CanReserve(paged, 1)
  PROVE  LET c == ForwardPaged(paged, <<Back>>)
         IN  /\ PagedSound(c) /\ ~c.external /\ c.len = paged.len + 1
             /\ View(c) = Ideal(tokens)
<1> DEFINE g == <<Back>>
           h == Front(tokens)
<1>1. /\ tokens \in Seq(Tokens) /\ Back \in Tokens /\ h \in Seq(Tokens) /\ h \o g = tokens
      /\ Len(h) = Len(tokens) - 1
  BY NextToken
<1>2. /\ PagedSound(paged) /\ ~paged.external /\ View(paged) = Ideal(h)
      /\ paged.len = Len(h)
  BY <1>1 DEF IInv, Typed, Decoding
<1>3. g \in Seq(Tokens) /\ Len(g) = 1
  BY <1>1
<1> HIDE DEF g, h
<1> DEFINE c == ForwardPaged(paged, g)
<1>4. /\ PagedSound(c) /\ ~c.external /\ c.len = paged.len + 1 /\ View(c) = Ideal(h \o g)
  BY <1>1, <1>2, <1>3, ForwardPagedSound
<1> QED BY <1>1, <1>4 DEF g

LEMMA StepPagedKeepsInv ==
  ASSUME IInv, StepPaged
  PROVE  IInv'
<1> DEFINE c == ForwardPaged(paged, <<Back>>)
           t == Target(model, View(c))
<1>1. /\ mode \in PagedModes /\ pc = "decode" /\ MoreToDo /\ CanReserve(paged, 1)
      /\ paged' = c /\ tokens' = Append(tokens, t)
      /\ UNCHANGED <<mode, model, pc, promptLen, maxTotal, off, kv, draftKv, graphPos,
                     current, dyn>>
  BY DEF StepPaged, config, turn, PagedModes
<1>2. /\ PagedSound(c) /\ ~c.external /\ c.len = paged.len + 1 /\ View(c) = Ideal(tokens)
  BY <1>1, PagedFed
<1>3. t \in Tokens
  BY DEF IInv, TargetTyped
<1> HIDE DEF t, c
<1>4. /\ tokens' \in Seq(Tokens) /\ tokens' # << >> /\ Front(tokens') = tokens
      /\ EosOnlyLast(tokens', promptLen) /\ Len(tokens') = Len(tokens) + 1 /\ Len(tokens) \in Nat
  <2>1. mode # "library"
    BY <1>1 DEF PagedModes
  <2> QED BY <1>1, <1>3, <2>1, NextToken
<1>5. Typed'
  BY <1>1, <1>2, <1>4 DEF IInv, Typed
<1>6. Prefilling' /\ FailsOnlyWhenFull' /\ TargetTyped'
  BY <1>1 DEF IInv, Prefilling, FailsOnlyWhenFull, TargetTyped
<1>7. Decoding'
  <2>1. paged.len = Len(tokens) - 1
    BY <1>1 DEF IInv, Decoding
  <2>2. paged'.len = Len(tokens') - 1 /\ ~paged'.external /\ View(paged') = Ideal(Front(tokens'))
    BY <1>1, <1>2, <1>4, <2>1
  <2>3. mode \notin BufferModes /\ mode # "draft" /\ mode # "concat"
    BY <1>1 DEF PagedModes, BufferModes
  <2> QED BY <1>1, <1>4, <2>2, <2>3 DEF Decoding
<1>8. EosEndsReply'
  BY <1>1, <1>4 DEF EosEndsReply, EosOnlyLast
<1> QED BY <1>5, <1>6, <1>7, <1>8 DEF IInv

LEMMA CaptureKeepsInv ==
  ASSUME IInv, Capture
  PROVE  IInv'
<1> DEFINE r == Reserve(paged, 1)
           x == [r EXCEPT !.external = TRUE]
<1>1. /\ mode = "graph" /\ pc = "decode" /\ MoreToDo /\ CanReserve(paged, 1)
      /\ paged' = x /\ graphPos' = r.len /\ pc' = "replay"
      /\ UNCHANGED <<mode, model, promptLen, maxTotal, off, kv, draftKv, current, dyn>>
  BY DEF Capture, config, turn
<1>2. PICK t \in Tokens : tokens' = Append(tokens, t)
  BY DEF Capture
<1>3. PagedSound(r) /\ r.len = paged.len + 1 /\ paged.len = Len(tokens) - 1
  <2>1. PagedSound(paged) /\ paged.len = Len(tokens) - 1
    BY <1>1 DEF IInv, Typed, Decoding, PagedModes
  <2> QED BY <1>1, <2>1, ReserveSound
<1> HIDE DEF r
<1>4. PagedSound(x) /\ x.len = r.len /\ x.external
  <2>1. /\ x \in PagedType /\ x.external = TRUE
        /\ x.free = r.free /\ x.table = r.table /\ x.slot = r.slot /\ x.len = r.len
    BY <1>3 DEF PagedSound, PagedType
  <2> HIDE DEF x
  <2> QED BY <1>3, <2>1 DEF PagedSound, PagesPartitioned, TableCovers
<1> HIDE DEF x
<1>5. /\ tokens' \in Seq(Tokens) /\ tokens' # << >>
      /\ EosOnlyLast(tokens', promptLen) /\ Len(tokens') = Len(tokens) + 1 /\ Len(tokens) \in Nat
  BY <1>1, <1>2, NextToken
<1>6. r.len \in Nat
  BY <1>3, PagedFields
<1>7. Typed'
  BY <1>1, <1>4, <1>5, <1>6 DEF IInv, Typed
<1>8. Prefilling' /\ FailsOnlyWhenFull' /\ TargetTyped'
  BY <1>1 DEF IInv, Prefilling, FailsOnlyWhenFull, TargetTyped
<1>9. Decoding'
  <2>1. paged'.len = Len(tokens') - 1 /\ paged'.external
    BY <1>1, <1>3, <1>4, <1>5
  <2> QED BY <1>1, <1>5, <2>1 DEF Decoding
<1>10. EosEndsReply'
  BY <1>1, <1>5 DEF EosEndsReply, EosOnlyLast
<1> QED BY <1>7, <1>8, <1>9, <1>10 DEF IInv

LEMMA ReplayKeepsInv ==
  ASSUME IInv, Replay
  PROVE  IInv'
<1> DEFINE entry == [tok |-> Back, pos |-> graphPos, sees |-> paged.len + 1]
           r     == Reserve(paged, 1)
           c     == AppendPaged(r, <<entry>>)
           t     == Target(model, View(c))
<1>1. /\ pc = "replay" /\ MoreToDo /\ CanReserve(paged, 1)
      /\ paged' = c /\ tokens' = Append(tokens, t)
      /\ UNCHANGED <<mode, model, pc, promptLen, maxTotal, off, kv, draftKv, graphPos, current, dyn>>
  BY DEF Replay, config, turn
<1>2. /\ PagedSound(paged) /\ paged.external /\ paged.len = Len(tokens) - 1 /\ mode = "graph"
      /\ graphPos \in Nat
  BY <1>1 DEF IInv, Typed, Decoding, PagedModes
<1>3. PagedSound(r) /\ r.len = paged.len + 1 /\ r.external
  BY <1>1, <1>2, ReserveSound
<1>4. paged.len \in Nat /\ Back \in Tokens
  BY <1>1, <1>2, PagedFields, NextToken
<1>5. <<entry>> \in Seq(Entry) /\ Len(<<entry>>) = 1
  BY <1>2, <1>4 DEF Entry
<1> HIDE DEF r, entry
<1>6. PagedSound(c) /\ c.len = r.len /\ c.external
  <2>1. Len(<<entry>>) <= r.len
    BY <1>3, <1>4, <1>5
  <2> QED BY <1>3, <1>5, <2>1, AppendExternal
<1>7. t \in Tokens
  BY DEF IInv, TargetTyped
<1> HIDE DEF t, c
<1>8. /\ tokens' \in Seq(Tokens) /\ tokens' # << >>
      /\ EosOnlyLast(tokens', promptLen) /\ Len(tokens') = Len(tokens) + 1 /\ Len(tokens) \in Nat
  BY <1>1, <1>2, <1>7, NextToken
<1>9. Typed'
  BY <1>1, <1>6, <1>8 DEF IInv, Typed
<1>10. Prefilling' /\ FailsOnlyWhenFull' /\ TargetTyped'
  BY <1>1 DEF IInv, Prefilling, FailsOnlyWhenFull, TargetTyped
<1>11. Decoding'
  <2>1. paged'.len = Len(tokens') - 1 /\ paged'.external
    BY <1>1, <1>2, <1>3, <1>6, <1>8
  <2> QED BY <1>1, <1>2, <1>8, <2>1 DEF Decoding
<1>12. EosEndsReply'
  BY <1>1, <1>8 DEF EosEndsReply, EosOnlyLast
<1> QED BY <1>9, <1>10, <1>11, <1>12 DEF IInv

(* The reply is given up only when no page is left for a token of it.      *)
LEMMA OutOfPagesKeepsInv ==
  ASSUME IInv, OutOfPages
  PROVE  IInv'
<1>1. /\ mode \in PagedModes /\ pc' = "failed"
      /\ UNCHANGED <<mode, model, tokens, promptLen, maxTotal, off, kv, draftKv, paged, graphPos,
                     current, dyn>>
      /\ \/ pc = "prefill" /\ ~CanReserve(paged, Chunk)
         \/ pc \in {"decode", "replay"} /\ ~CanReserve(paged, 1)
  BY DEF OutOfPages, config, turn, PagedModes
<1>2. PagedSound(paged) /\ tokens \in Seq(Tokens) /\ Len(tokens) \in Nat
  BY DEF IInv, Typed
<1>3. MaxPages * PageSize \in Nat
  BY CacheAssumption
<1> DEFINE full == MaxPages * PageSize
<1>4. Len(tokens) > full
  <2>1. CASE pc = "prefill"
    <3>1. Chunk \in 1 .. promptLen - off /\ off \in Nat /\ promptLen \in Nat
      BY <2>1, ChunkFits
    <3>2. paged.len = off /\ promptLen = Len(tokens)
      BY <2>1 DEF IInv, Prefilling
    <3>3. Chunk \in Nat /\ ~CanReserve(paged, Chunk)
      BY <1>1, <2>1, <3>1
    <3>4. paged.len + Chunk > full
      BY <1>2, <3>3, OutOfPagesMeansFull
    <3> HIDE DEF full
    <3> QED BY <1>3, <3>1, <3>2, <3>4 DEF full
  <2>2. CASE pc \in {"decode", "replay"}
    <3>1. paged.len = Len(tokens) - 1 /\ ~CanReserve(paged, 1)
      BY <1>1, <2>2 DEF IInv, Decoding
    <3>2. paged.len + 1 > full
      BY <1>2, <3>1, OutOfPagesMeansFull
    <3> HIDE DEF full
    <3> QED BY <1>2, <3>1, <3>2
  <2> QED BY <1>1, <2>1, <2>2
<1>5. Typed' /\ TargetTyped'
  BY <1>1 DEF IInv, Typed, TargetTyped
<1>6. Prefilling' /\ Decoding'
  BY <1>1 DEF Prefilling, Decoding
<1>7. EosEndsReply'
  BY <1>1 DEF IInv, EosEndsReply
<1>8. FailsOnlyWhenFull'
  BY <1>1, <1>4 DEF FailsOnlyWhenFull
<1> QED BY <1>5, <1>6, <1>7, <1>8 DEF IInv

-----------------------------------------------------------------------------
(* What speculation has cached.                                            *)

(* Induction over a set of numbers. *)
LEMMA Induction ==
  ASSUME NEW S, 0 \in S, \A n \in Nat : n \in S => n + 1 \in S
  PROVE  Nat \subseteq S
<1> SUFFICES ASSUME Nat \ S # {} PROVE FALSE
  OBVIOUS
<1>1. PICK m \in Nat \ S : \A n \in Nat \ S : m <= n
  <2> DEFINE R == Nat \ S
  <2>1. R \subseteq Nat /\ R # {}
    OBVIOUS
  <2> HIDE DEF R
  <2>2. \E m \in R : \A n \in R : m <= n
    BY <2>1, LeastNatural
  <2> QED BY <2>2 DEF R
<1>2. m # 0 /\ m - 1 \in Nat /\ (m - 1) + 1 = m /\ ~(m <= m - 1)
  BY <1>1
<1>3. m - 1 \in S
  BY <1>1, <1>2
<1> QED BY <1>1, <1>2, <1>3

(* s can be read in t at the places f. *)
ReadAt(f, s, t) ==
  /\ f \in [1 .. Len(s) -> 1 .. Len(t)]
  /\ \A i \in 1 .. Len(s) : t[f[i]].tok = s[i]
  /\ \A i, j \in 1 .. Len(s) : i < j => f[i] < f[j]

Within(s, t) == \E f : ReadAt(f, s, t)

(* w begins with t, and its next entries are of the tokens u. *)
Extends(w, t, u) ==
  /\ w \in Seq(Entry) /\ Len(t) + Len(u) <= Len(w)
  /\ \A i \in 1 .. Len(t) : w[i] = t[i]
  /\ \A i \in 1 .. Len(u) : w[Len(t) + i].tok = u[i]

(* Nothing can be read in nothing. *)
LEMMA WithinNone == Within(<< >>, << >>)
<1> DEFINE f == [i \in 1 .. 0 |-> 0]
<1>1. 1 .. 0 = {}
  OBVIOUS
<1>2. f \in [1 .. 0 -> 1 .. 0]
  BY <1>1
<1>3. Len(<< >>) = 0
  OBVIOUS
<1> HIDE DEF f
<1>4. ReadAt(f, << >>, << >>)
  BY <1>1, <1>2, <1>3 DEF ReadAt
<1> QED BY <1>4 DEF Within

(* What follows in both can be read on. *)
LEMMA WithinExtends ==
  ASSUME NEW s \in Seq(Tokens), NEW t \in Seq(Entry), NEW u \in Seq(Tokens), NEW w,
         Within(s, t), Extends(w, t, u)
  PROVE  Within(s \o u, w)
<1> DEFINE a == Len(s)
           b == Len(t)
           c == Len(u)
           v == s \o u
<1>1. PICK f : ReadAt(f, s, t)
  BY DEF Within
<1>2. /\ v \in Seq(Tokens) /\ Len(v) = a + c
      /\ \A i \in 1 .. a + c : v[i] = IF i <= a THEN s[i] ELSE u[i - a]
      /\ a \in Nat /\ b \in Nat /\ c \in Nat
  BY ConcatProperties
<1>3. /\ f \in [1 .. a -> 1 .. b]
      /\ \A i \in 1 .. a : t[f[i]].tok = s[i]
      /\ \A i, j \in 1 .. a : i < j => f[i] < f[j]
  BY <1>1 DEF ReadAt
<1>4. /\ Len(w) \in Nat /\ b + c <= Len(w)
      /\ \A i \in 1 .. b : w[i] = t[i]
      /\ \A i \in 1 .. c : w[b + i].tok = u[i]
  BY DEF Extends
<1> HIDE DEF a, b, c, v
<1> DEFINE g == [i \in 1 .. a + c |-> IF i <= a THEN f[i] ELSE b + (i - a)]
<1>5. ASSUME NEW i \in 1 .. a + c
      PROVE  /\ i <= a => i \in 1 .. a /\ g[i] = f[i] /\ g[i] \in 1 .. b
             /\ ~(i <= a) => i - a \in 1 .. c /\ g[i] = b + (i - a)
             /\ g[i] \in 1 .. Len(w)
             /\ w[g[i]].tok = v[i]
  <2>1. CASE i <= a
    <3>1. i \in 1 .. a /\ g[i] = f[i]
      BY <1>2, <2>1
    <3>2. f[i] \in 1 .. b
      BY <1>3, <3>1
    <3>3. f[i] \in 1 .. Len(w)
      BY <1>2, <1>4, <3>2
    <3>4. w[g[i]].tok = v[i]
      BY <1>2, <1>3, <1>4, <2>1, <3>1, <3>2
    <3> QED BY <2>1, <3>1, <3>2, <3>3, <3>4
  <2>2. CASE ~(i <= a)
    <3>1. i - a \in 1 .. c /\ g[i] = b + (i - a)
      BY <1>2, <2>2
    <3>2. b + (i - a) \in 1 .. Len(w)
      BY <1>2, <1>4, <3>1
    <3>3. w[b + (i - a)].tok = u[i - a] /\ v[i] = u[i - a]
      BY <1>2, <1>4, <2>2, <3>1
    <3> QED BY <2>2, <3>1, <3>2, <3>3
  <2> QED BY <2>1, <2>2
<1>6. g \in [1 .. a + c -> 1 .. Len(w)]
  <2>1. g = [i \in 1 .. a + c |-> g[i]]
    OBVIOUS
  <2> HIDE DEF g
  <2> QED BY <1>5, <2>1
<1> HIDE DEF g
<1>7. ASSUME NEW i \in 1 .. a + c, NEW j \in 1 .. a + c, i < j PROVE g[i] < g[j]
  <2>1. CASE j <= a
    <3>1. i <= a
      BY <1>2, <1>7, <2>1
    <3>2. i \in 1 .. a /\ j \in 1 .. a /\ g[i] = f[i] /\ g[j] = f[j]
      BY <1>5, <2>1, <3>1
    <3> QED BY <1>3, <1>7, <3>2
  <2>2. CASE ~(j <= a) /\ i <= a
    <3>1. g[i] \in 1 .. b /\ j - a \in 1 .. c /\ g[j] = b + (j - a)
      BY <1>5, <2>2
    <3>2. \A x \in 1 .. b : \A y \in 1 .. c : x < b + y
      BY <1>2
    <3> QED BY <3>1, <3>2
  <2>3. CASE ~(j <= a) /\ ~(i <= a)
    <3>1. g[i] = b + (i - a) /\ g[j] = b + (j - a)
      BY <1>5, <2>3
    <3> QED BY <1>2, <1>7, <3>1
  <2> QED BY <2>1, <2>2, <2>3
<1>8. ReadAt(g, v, w)
  BY <1>2, <1>5, <1>6, <1>7 DEF ReadAt
<1> QED BY <1>8 DEF Within, v

(* Embeds reads t from the left: its partial results. *)
Onward(s, e, n) == IF n < Len(s) /\ s[n + 1] = e.tok THEN n + 1 ELSE n

Reads(g, s, t, m) == g = [k \in 0 .. m |-> IF k = 0 THEN 0 ELSE Onward(s, t[k], g[k - 1])]

(* The reading can go on by an entry. *)
LEMMA ReadsNext ==
  ASSUME NEW n \in Nat, NEW g, NEW s, NEW t, Reads(g, s, t, n)
  PROVE  \E h : Reads(h, s, t, n + 1)
<1> DEFINE h == [k \in 0 .. n + 1 |-> IF k = n + 1 THEN Onward(s, t[k], g[n]) ELSE g[k]]
           H == [k \in 0 .. n + 1 |-> IF k = 0 THEN 0 ELSE Onward(s, t[k], h[k - 1])]
<1>1. \A k \in 0 .. n : g[k] = IF k = 0 THEN 0 ELSE Onward(s, t[k], g[k - 1])
  BY DEF Reads
<1>2. ASSUME NEW k \in 0 .. n + 1
      PROVE  h[k] = IF k = 0 THEN 0 ELSE Onward(s, t[k], h[k - 1])
  <2>1. CASE k = n + 1
    <3>1. k # 0 /\ k - 1 = n /\ n \in 0 .. n + 1 /\ n # n + 1
      BY <2>1
    <3>2. h[n] = g[n] /\ h[k] = Onward(s, t[k], g[n])
      BY <2>1, <3>1
    <3> QED BY <3>1, <3>2
  <2>2. CASE k \in 0 .. n
    <3>1. h[k] = g[k]
      BY <2>2
    <3>2. k # 0 => h[k - 1] = g[k - 1]
      <4> SUFFICES ASSUME k # 0 PROVE h[k - 1] = g[k - 1]
        OBVIOUS
      <4>1. k - 1 \in 0 .. n + 1 /\ k - 1 # n + 1
        BY <2>2
      <4> QED BY <4>1
    <3> QED BY <1>1, <2>2, <3>1, <3>2
  <2> QED BY <2>1, <2>2
<1>3. h = [k \in 0 .. n + 1 |-> h[k]]
  OBVIOUS
<1>4. h = H
  <2> HIDE DEF h
  <2> QED BY <1>2, <1>3
<1> QED BY <1>4 DEF Reads

(* The reading of Embeds. *)
LEMMA EmbedsReads ==
  ASSUME NEW s \in Seq(Tokens), NEW t \in Seq(Entry)
  PROVE  \E g : Reads(g, s, t, Len(t)) /\ (Embeds(s, t) <=> g[Len(t)] = Len(s))
<1> DEFINE M == {n \in Nat : \E g : Reads(g, s, t, n)}
<1>1. 0 \in M
  <2> DEFINE g == [k \in 0 .. 0 |-> 0]
             G == [k \in 0 .. 0 |-> IF k = 0 THEN 0 ELSE Onward(s, t[k], g[k - 1])]
  <2>1. g = G
    OBVIOUS
  <2>2. Reads(g, s, t, 0)
    BY <2>1 DEF Reads
  <2> QED BY <2>2
<1>2. \A n \in Nat : n \in M => n + 1 \in M
  BY ReadsNext
<1>3. Len(t) \in M
  <2> HIDE DEF M
  <2>1. Len(t) \in Nat
    OBVIOUS
  <2> QED BY <1>1, <1>2, <2>1, Induction
<1>4. PICK g : Reads(g, s, t, Len(t))
  BY <1>3
<1> DEFINE R(h) == h = [k \in 0 .. Len(t) |->
                     IF k = 0 THEN 0
                     ELSE LET n == h[k - 1]
                          IN  IF n < Len(s) /\ s[n + 1] = t[k].tok THEN n + 1 ELSE n]
           f == CHOOSE h : R(h)
<1>5. \A h : R(h) <=> Reads(h, s, t, Len(t))
  BY Zenon DEF Reads, Onward
<1>6. R(f)
  <2> HIDE DEF R
  <2> QED BY <1>4, <1>5
<1>7. Reads(f, s, t, Len(t))
  <2> HIDE DEF R, f
  <2> QED BY <1>5, <1>6
<1>8. Embeds(s, t) <=> f[Len(t)] = Len(s)
  BY DEF Embeds
<1> HIDE DEF f
<1> QED BY <1>7, <1>8

(* Reading from the left never falls behind another way to read s in t. *)
LEMMA WithinEmbeds ==
  ASSUME NEW s \in Seq(Tokens), NEW t \in Seq(Entry), Within(s, t)
  PROVE  Embeds(s, t)
<1> DEFINE a == Len(s)
           b == Len(t)
<1>1. a \in Nat /\ b \in Nat
  OBVIOUS
<1>2. PICK g : Reads(g, s, t, b) /\ (Embeds(s, t) <=> g[b] = a)
  BY EmbedsReads
<1>3. PICK f : ReadAt(f, s, t)
  BY DEF Within
<1>4. /\ f \in [1 .. a -> 1 .. b]
      /\ \A i \in 1 .. a : t[f[i]].tok = s[i]
      /\ \A i, j \in 1 .. a : i < j => f[i] < f[j]
  BY <1>3 DEF ReadAt
<1>5. \A k \in 0 .. b : g[k] = IF k = 0 THEN 0 ELSE Onward(s, t[k], g[k - 1])
  BY <1>2 DEF Reads
<1> DEFINE Ahead(k) == g[k] \in 0 .. a /\ \A i \in 1 .. a : f[i] <= k => i <= g[k]
           M == {k \in Nat : k <= b => Ahead(k)}
<1>6. 0 \in M
  <2>1. g[0] = 0
    BY <1>1, <1>5
  <2>2. \A i \in 1 .. a : ~(f[i] <= 0)
    BY <1>1, <1>4
  <2> QED BY <1>1, <2>1, <2>2
<1>7. ASSUME NEW k \in Nat, k \in M PROVE k + 1 \in M
  <2> SUFFICES ASSUME k + 1 <= b PROVE Ahead(k + 1)
    OBVIOUS
  <2> DEFINE m == g[k]
  <2>1. Ahead(k)
    BY <1>1, <1>7
  <2>2. g[k + 1] = Onward(s, t[k + 1], m)
    <3>1. k + 1 \in 0 .. b /\ k + 1 # 0 /\ (k + 1) - 1 = k
      BY <1>1
    <3> QED BY <1>5, <3>1
  <2>3. m \in 0 .. a /\ m <= g[k + 1] /\ g[k + 1] \in 0 .. a
    <3>1. Len(s) = a
      OBVIOUS
    <3> HIDE DEF a
    <3> QED BY <1>1, <2>1, <2>2, <3>1 DEF Onward
  <2>4. ASSUME NEW i \in 1 .. a, f[i] <= k + 1 PROVE i <= g[k + 1]
    <3>1. CASE f[i] <= k
      <4>1. i <= m
        BY <2>1, <3>1
      <4> QED BY <2>3, <4>1
    <3>2. CASE f[i] = k + 1
      <4>1. i - 1 <= m
        <5>1. CASE i = 1
          BY <2>3, <5>1
        <5>2. CASE i # 1
          <6>1. i - 1 \in 1 .. a /\ i - 1 < i
            BY <1>1, <5>2
          <6>2. f[i - 1] < k + 1 /\ f[i - 1] \in 1 .. b
            BY <1>4, <3>2, <6>1
          <6>3. f[i - 1] <= k
            BY <1>1, <6>2
          <6> QED BY <2>1, <6>1, <6>3
        <5> QED BY <5>1, <5>2
      <4>2. CASE i <= m
        BY <2>3, <4>2
      <4>3. CASE ~(i <= m)
        <5>1. m + 1 = i /\ m < Len(s)
          BY <1>1, <2>3, <4>1, <4>3
        <5>2. s[m + 1] = t[k + 1].tok
          BY <1>4, <3>2, <5>1
        <5>3. g[k + 1] = m + 1
          BY <2>2, <5>1, <5>2 DEF Onward
        <5> QED BY <5>1, <5>3
      <4> QED BY <4>2, <4>3
    <3>3. f[i] \in 1 .. b
      BY <1>4
    <3> QED BY <1>1, <2>4, <3>1, <3>2, <3>3
  <2> QED BY <2>3, <2>4
<1>8. Ahead(b)
  <2>1. b \in M
    <3> HIDE DEF M, b
    <3> QED BY <1>1, <1>6, <1>7, Induction
  <2> QED BY <1>1, <2>1
<1>9. g[b] = a
  <2>1. CASE a = 0
    BY <1>8, <2>1
  <2>2. CASE a # 0
    <3>1. a \in 1 .. a
      BY <1>1, <2>2
    <3>2. f[a] <= b
      BY <1>1, <1>4, <3>1
    <3>3. a <= g[b] /\ g[b] \in 0 .. a
      BY <1>8, <3>1, <3>2
    <3> HIDE DEF a, b
    <3> QED BY <1>1, <3>3
  <2> QED BY <2>1, <2>2
<1> QED BY <1>2, <1>9

-----------------------------------------------------------------------------
(* Speculation keeps it.                                                   *)

LEMMA PrefixIsSeq ==
  ASSUME NEW S, NEW s \in Seq(S), NEW n \in 0 .. Len(s)
  PROVE  /\ SubSeq(s, 1, n) \in Seq(S) /\ Len(SubSeq(s, 1, n)) = n
         /\ \A i \in 1 .. n : SubSeq(s, 1, n)[i] = s[i]
<1>1. n \in Nat /\ 1 \in Int /\ n \in Int /\ \A i \in 1 .. n : s[i] \in S
  OBVIOUS
<1>2. /\ SubSeq(s, 1, n) \in Seq(S) /\ Len(SubSeq(s, 1, n)) = IF 1 <= n THEN n - 1 + 1 ELSE 0
      /\ \A i \in 1 .. n - 1 + 1 : SubSeq(s, 1, n)[i] = s[1 + i - 1]
  BY <1>1, SubSeqProperties
<1>3. \A i \in 1 .. n : i \in 1 .. n - 1 + 1 /\ 1 + i - 1 = i
  BY <1>1
<1> QED BY <1>1, <1>2, <1>3

LEMMA DraftsTyped ==
  ASSUME NEW n \in Nat, NEW d \in Drafts(n)
  PROVE  /\ d \in Seq(Tokens) /\ Len(d) \in Nat \ {0}
         /\ \A i \in 1 .. Len(d) - 1 : d[i] # Eos
<1>1. PICK k \in 1 .. n : d \in [1 .. k -> Tokens]
  BY DEF Drafts
<1>2. d \in Seq(Tokens) /\ Len(d) = k
  BY <1>1
<1> QED BY <1>1, <1>2 DEF Drafts

(* The controller keeps the draft length within the heads, whatever it     *)
(* counts.                                                                 *)
LEMMA AdjustedTyped ==
  ASSUME Typed, NEW d, NEW a
  PROVE  "k" \in DOMAIN Adjusted(d, a) /\ Adjusted(d, a).k \in 1 .. Heads
<1> DEFINE D == dyn.drafted + d
           A == dyn.accepted + a
           grow == D > 0 /\ 10 * A >= 7 * D
           shrink == D > 0 /\ 10 * A <= 3 * D
<1>1. "k" \in DOMAIN dyn /\ dyn.k \in 1 .. Heads /\ Heads \in Nat
  BY GenerationAssumption DEF Typed
<1>2. CASE dyn.steps + 1 < AdjustEvery
  <2>1. Adjusted(d, a) = [dyn EXCEPT !.steps = @ + 1, !.drafted = D, !.accepted = A]
    BY <1>2 DEF Adjusted
  <2> HIDE DEF D, A
  <2> QED BY <1>1, <2>1
<1>3. CASE ~(dyn.steps + 1 < AdjustEvery)
  <2> DEFINE k == IF grow /\ dyn.k < Heads THEN dyn.k + 1
                  ELSE IF shrink /\ dyn.k > 1 THEN dyn.k - 1
                  ELSE dyn.k
  <2>1. Adjusted(d, a) = [k |-> k, steps |-> 0, drafted |-> 0, accepted |-> 0]
    BY <1>3 DEF Adjusted
  <2> HIDE DEF grow, shrink
  <2>2. k \in 1 .. Heads
    BY <1>1
  <2> HIDE DEF k
  <2> QED BY <2>1, <2>2
<1> QED BY <1>2, <1>3

(* A pass over a batch begins with what was cached, and its entries are of *)
(* the batch's tokens; cutting back as far as u leaves it so.              *)
LEMMA ForwardExtends ==
  ASSUME NEW c, c.filled \in Seq(Entry), NEW bat \in Seq(Tokens), NEW u \in Seq(Tokens),
         Len(u) <= Len(bat), \A i \in 1 .. Len(u) : u[i] = bat[i]
  PROVE  Extends(Forward(c, bat).filled, c.filled, u)
<1> DEFINE t == c.filled
           m == Len(t)
           e == Entries(m, bat)
           w == t \o e
<1>1. t \in Seq(Entry) /\ m \in Nat /\ Len(bat) \in Nat /\ Len(u) \in Nat /\ DOMAIN bat = 1 .. Len(bat)
  OBVIOUS
<1>2. e \in Seq(Entry) /\ Len(e) = Len(bat)
  BY <1>1, EntriesIsSeq
<1>3. \A i \in 1 .. Len(bat) : e[i].tok = bat[i]
  <2> HIDE DEF m
  <2> QED BY <1>1 DEF Entries
<1>4. Forward(c, bat).filled = w
  BY DEF Forward, Update
<1> HIDE DEF e
<1>5. /\ w \in Seq(Entry) /\ Len(w) = m + Len(e)
      /\ \A i \in 1 .. m + Len(e) : w[i] = IF i <= m THEN t[i] ELSE e[i - m]
  <2> HIDE DEF t
  <2> QED BY <1>1, <1>2, ConcatProperties
<1> HIDE DEF w, t, m
<1>6. m + Len(u) <= Len(w)
  BY <1>1, <1>2, <1>5
<1>7. ASSUME NEW i \in 1 .. m PROVE w[i] = t[i]
  <2>1. i \in 1 .. m + Len(e) /\ i <= m
    BY <1>1, <1>2
  <2> QED BY <1>5, <2>1
<1>8. ASSUME NEW i \in 1 .. Len(u) PROVE w[m + i].tok = u[i]
  <2>1. i \in 1 .. Len(bat) /\ m + i \in 1 .. m + Len(e) /\ ~(m + i <= m) /\ (m + i) - m = i
    BY <1>1, <1>2
  <2>2. w[m + i] = e[i]
    BY <1>5, <2>1
  <2> QED BY <1>3, <2>1, <2>2
<1>9. Extends(w, t, u)
  BY <1>5, <1>6, <1>7, <1>8 DEF Extends, m
<1> QED BY <1>4, <1>9 DEF t

LEMMA TruncateExtends ==
  ASSUME NEW c, NEW t \in Seq(Entry), NEW u \in Seq(Tokens), Extends(c.filled, t, u),
         NEW k \in Nat \ {0}, Len(t) + Len(u) <= k, k <= Len(c.filled)
  PROVE  Extends(Truncate(c, k).filled, t, u)
<1> DEFINE w == c.filled
           v == SubSeq(w, 1, k)
<1>1. w \in Seq(Entry) /\ Len(w) \in Nat /\ Len(t) \in Nat /\ Len(u) \in Nat
  BY DEF Extends
<1>2. ~(k <= 0)
  OBVIOUS
<1>3. CASE k < Len(w)
  <2>1. Truncate(c, k).filled = v
    BY <1>2, <1>3 DEF Truncate
  <2>2. k \in 0 .. Len(w)
    BY <1>1
  <2>3. v \in Seq(Entry) /\ Len(v) = k /\ \A i \in 1 .. k : v[i] = w[i]
    BY <1>1, <2>2, PrefixIsSeq
  <2> HIDE DEF v
  <2>4. /\ \A i \in 1 .. Len(t) : i \in 1 .. k
        /\ \A i \in 1 .. Len(u) : Len(t) + i \in 1 .. k
    BY <1>1
  <2>5. Extends(v, t, u)
    BY <2>3, <2>4 DEF Extends
  <2> QED BY <2>1, <2>5
<1>4. CASE ~(k < Len(w))
  BY <1>2, <1>4 DEF Truncate
<1> QED BY <1>3, <1>4

LEMMA ExtendsNothing ==
  ASSUME NEW t \in Seq(Entry), NEW u, Len(u) = 0
  PROVE  Extends(t, t, u)
<1>1. Len(t) \in Nat /\ 1 .. Len(u) = {} /\ Len(t) + Len(u) <= Len(t)
  OBVIOUS
<1> QED BY <1>1 DEF Extends

(* What a step of MTP or tree speculation does: it feeds the last token,   *)
(* appends got, and caches all of got but its last token.                  *)
Accepts(got) ==
  /\ got # << >> /\ tokens' = tokens \o got
  /\ \A i \in 1 .. Len(got) - 1 : got[i] # Eos
  /\ Ready(kv') /\ "k" \in DOMAIN dyn' /\ dyn'.k \in 1 .. Heads
  /\ Extends(kv'.filled, Forward(kv, <<Back>>).filled, Front(got))

(* The common part of the steps that append a batch. *)
LEMMA BatchKeepsInv ==
  ASSUME IInv, pc = "decode", MoreToDo, mode \in BufferModes, mode # "concat",
         NEW got \in Seq(Tokens), tokens' = tokens \o got,
         mode # "library" => \A i \in 1 .. Len(got) - 1 : got[i] # Eos,
         Ready(kv'),
         IF mode = "draft" THEN Ready(draftKv') ELSE draftKv' = draftKv,
         current' \in Tokens, "k" \in DOMAIN dyn', dyn'.k \in 1 .. Heads,
         UNCHANGED <<mode, model, pc, promptLen, maxTotal, off, paged, graphPos>>
  PROVE  IInv'
<1>1. Typed /\ tokens \in Seq(Tokens) /\ tokens # << >> /\ promptLen \in Nat
  BY DEF IInv, Typed, Decoding
<1>2. tokens' \in Seq(Tokens) /\ tokens' # << >>
  BY <1>1, ConcatProperties, ConcatEqualIffEmpty
<1>3. mode # "library" => EosOnlyLast(tokens', promptLen)
  <2>1. mode # "library" => Last(tokens) # Eos /\ EosOnlyLast(tokens, promptLen)
    BY NextToken DEF Back
  <2> QED BY <1>1, <2>1, AppendBatch
<1>4. Typed'
  BY <1>1, <1>2 DEF Typed, Ready
<1>5. Prefilling' /\ FailsOnlyWhenFull' /\ TargetTyped'
  BY DEF IInv, Prefilling, FailsOnlyWhenFull, TargetTyped
<1>6. Decoding'
  <2>1. mode \notin PagedModes
    BY DEF PagedModes, BufferModes
  <2> QED BY <1>2, <2>1 DEF IInv, Decoding, Ready
<1>7. EosEndsReply'
  BY <1>3 DEF EosEndsReply, EosOnlyLast
<1> QED BY <1>4, <1>5, <1>6, <1>7 DEF IInv

LEMMA LastFed ==
  ASSUME IInv, pc = "decode", MoreToDo, mode \in BufferModes, NEW t \in Tokens
  PROVE  /\ Ready(kv) /\ Ready(Forward(kv, <<t>>))
         /\ Len(Forward(kv, <<t>>).filled) = Len(kv.filled) + 1 /\ Len(kv.filled) \in Nat \ {0}
         /\ \A new \in Seq(Tokens) : Ready(Forward(Forward(kv, <<t>>), new))
<1>1. Ready(kv)
  BY DEF IInv, Typed, Decoding, Ready
<1>2. <<t>> \in Seq(Tokens) /\ Len(<<t>>) = 1
  OBVIOUS
<1>3. Ready(Forward(kv, <<t>>)) /\ Len(Forward(kv, <<t>>).filled) = Len(kv.filled) + 1
  BY <1>1, <1>2, ForwardReady
<1>4. Len(kv.filled) \in Nat \ {0}
  BY <1>1, ReadyAllocated
<1> QED BY <1>1, <1>3, <1>4, ForwardReady

(* The batch that verifies the drafts begins with what is accepted. *)
LEMMA StepMtpAccepts ==
  ASSUME IInv, StepMtp
  PROVE  \E got \in Seq(Tokens) : Accepts(got)
<1> DEFINE fed  == Forward(kv, <<Back>>)
           snap == Len(fed.filled)
           main == Choice(fed, snap - 1, 1, 1)
<1>1. /\ mode = "mtp" /\ pc = "decode" /\ MoreToDo
      /\ UNCHANGED <<mode, model, pc, promptLen, maxTotal, off, draftKv, paged, graphPos, current>>
  BY DEF StepMtp, config, turn
<1>2. mode \in BufferModes /\ Back \in Tokens /\ Typed /\ TargetTyped
  BY <1>1, NextToken DEF BufferModes, IInv, Typed
<1>3. /\ Ready(fed) /\ snap \in Nat \ {0}
      /\ \A new \in Seq(Tokens) : Ready(Forward(fed, new))
  BY <1>1, <1>2, LastFed
<1>4. main \in Tokens
  BY <1>2 DEF TargetTyped, Choice
<1> DEFINE Accept(f, m, s, d, own) ==
             LET n    == Len(d)
                 stop == FirstOf({i \in 1 .. n : d[i] = Eos \/ own[i] # d[i]}, n + 1)
                 tail == IF stop > n THEN << >>
                         ELSE IF d[stop] = Eos THEN <<Eos>> ELSE <<own[stop]>>
                 got  == <<m>> \o SubSeq(d, 1, stop - 1) \o tail
                 hits == IF stop <= n /\ d[stop] = Eos THEN stop ELSE stop - 1
             IN  /\ kv' = CutBack(Forward(f, <<m>> \o d), s, got, hits)
                 /\ tokens' = tokens \o got
                 /\ dyn' = Adjusted(n, hits)
<1>5. IF main = Eos
      THEN /\ kv' = fed
           /\ tokens' = Append(tokens, main)
           /\ dyn' = Adjusted(0, 0)
      ELSE \E d \in Drafts(Smaller(dyn.k, Heads)) :
             Accept(fed, main, snap, d, Rows(fed, <<main>> \o d))
  <2> DEFINE Rest(f) ==
               LET s == Len(f.filled)
                   m == Choice(f, s - 1, 1, 1)
               IN  IF m = Eos
                   THEN /\ kv' = f
                        /\ tokens' = Append(tokens, m)
                        /\ dyn' = Adjusted(0, 0)
                   ELSE \E d \in Drafts(Smaller(dyn.k, Heads)) :
                        \E own \in {Rows(f, <<m>> \o d)} : Accept(f, m, s, d, own)
  <2>1. \E f \in {fed} : Rest(f)
    BY DEF StepMtp
  <2> HIDE DEF Accept
  <2>2. Rest(fed)
    <3> HIDE DEF Rest, fed
    <3> QED BY <2>1
  <2>3. CASE main = Eos
    BY <2>2, <2>3
  <2>4. CASE main # Eos
    <3>1. \E d \in Drafts(Smaller(dyn.k, Heads)) :
          \E own \in {Rows(fed, <<main>> \o d)} : Accept(fed, main, snap, d, own)
      BY <2>2, <2>4
    <3> HIDE DEF fed, main, snap
    <3> QED BY <2>4, <3>1
  <2> QED BY <2>3, <2>4
<1> HIDE DEF fed, snap, main
<1>6. CASE main = Eos
  <2> DEFINE got == <<main>>
  <2>1. tokens' = tokens \o got /\ kv' = fed /\ dyn' = Adjusted(0, 0)
    <3>1. tokens \in Seq(Tokens)
      BY <1>2 DEF Typed
    <3> QED BY <1>4, <1>5, <1>6, <3>1, AppendIsConcat
  <2>2. got \in Seq(Tokens) /\ \A i \in 1 .. Len(got) - 1 : got[i] # Eos
    BY <1>4
  <2>3. got # << >> /\ Len(got) = 1
    OBVIOUS
  <2> HIDE DEF got
  <2>4. "k" \in DOMAIN dyn' /\ dyn'.k \in 1 .. Heads
    BY <1>2, <2>1, AdjustedTyped
  <2>5. Ready(kv')
    BY <1>3, <2>1
  <2>6. Len(Front(got)) = 0
    BY <2>2, <2>3, FrontIs
  <2>7. Extends(kv'.filled, fed.filled, Front(got))
    <3>1. fed.filled \in Seq(Entry)
      BY <1>3, ReadyAllocated
    <3> QED BY <2>1, <2>6, <3>1, ExtendsNothing
  <2>8. Accepts(got)
    BY <2>1, <2>2, <2>3, <2>4, <2>5, <2>7 DEF Accepts, fed
  <2> QED BY <2>2, <2>8
<1>7. CASE main # Eos
  <2>1. Smaller(dyn.k, Heads) \in Nat
    BY <1>2, GenerationAssumption DEF Typed, Smaller
  <2>2. PICK d \in Drafts(Smaller(dyn.k, Heads)) :
             Accept(fed, main, snap, d, Rows(fed, <<main>> \o d))
    <3> HIDE DEF Accept
    <3> QED BY <1>5, <1>7
  <2> DEFINE bat  == <<main>> \o d
             own  == Rows(fed, bat)
             n    == Len(d)
             stop == FirstOf({i \in 1 .. n : d[i] = Eos \/ own[i] # d[i]}, n + 1)
             tail == IF stop > n THEN << >>
                     ELSE IF d[stop] = Eos THEN <<Eos>> ELSE <<own[stop]>>
             pre  == SubSeq(d, 1, stop - 1)
             got  == <<main>> \o pre \o tail
             hits == IF stop <= n /\ d[stop] = Eos THEN stop ELSE stop - 1
  <2>3. /\ kv' = Truncate(Forward(fed, bat), snap + Len(got))
        /\ tokens' = tokens \o got /\ dyn' = Adjusted(n, hits)
    BY <2>2 DEF CutBack
  <2>4. d \in Seq(Tokens) /\ n \in Nat \ {0}
    BY <2>1, DraftsTyped
  <2>5. <<main>> \in Seq(Tokens) /\ Len(<<main>>) = 1
    BY <1>4
  <2>6. /\ bat \in Seq(Tokens) /\ Len(bat) = 1 + n
        /\ \A i \in 1 .. 1 + n : bat[i] = IF i <= 1 THEN main ELSE d[i - 1]
    <3> DEFINE one == <<main>>
    <3>1. one \in Seq(Tokens) /\ Len(one) = 1 /\ one[1] = main
      BY <2>5
    <3> HIDE DEF one
    <3>2. /\ one \o d \in Seq(Tokens) /\ Len(one \o d) = 1 + n
          /\ \A i \in 1 .. 1 + n : (one \o d)[i] = IF i <= 1 THEN one[i] ELSE d[i - 1]
      BY <2>4, <3>1, ConcatProperties
    <3>3. \A i \in 1 .. 1 + n : i <= 1 => i = 1
      BY <2>4
    <3>4. \A i \in 1 .. 1 + n : (one \o d)[i] = IF i <= 1 THEN main ELSE d[i - 1]
      BY <3>1, <3>2, <3>3
    <3> QED BY <3>2, <3>4 DEF one
  <2>7. "k" \in DOMAIN dyn' /\ dyn'.k \in 1 .. Heads
    <3> HIDE DEF n, hits
    <3> QED BY <1>2, <2>3, AdjustedTyped
  <2> HIDE DEF bat
  <2>8. own \in Seq(Tokens) /\ Len(own) = 1 + n
    BY <1>2, <2>6, RowsTyped
  <2> HIDE DEF own
  <2>9. stop \in 1 .. n + 1 /\ \A i \in 1 .. stop - 1 : d[i] # Eos
    <3> DEFINE S == {i \in 1 .. n : d[i] = Eos \/ own[i] # d[i]}
    <3> HIDE DEF n
    <3>1. S \subseteq Nat /\ S \subseteq 1 .. n
      BY <2>4
    <3>2. \/ S = {} /\ stop = n + 1
          \/ stop \in S /\ \A i \in S : stop <= i
      <4> HIDE DEF S
      <4>1. \/ S = {} /\ FirstOf(S, n + 1) = n + 1
            \/ FirstOf(S, n + 1) \in S /\ \A i \in S : FirstOf(S, n + 1) <= i
        BY <3>1, FirstOfLeast
      <4> QED BY <4>1 DEF S
    <3> HIDE DEF stop
    <3>3. stop \in 1 .. n + 1 /\ \A i \in 1 .. stop - 1 : i \in 1 .. n /\ i \notin S
      BY <2>4, <3>1, <3>2
    <3> QED BY <3>3
  <2> HIDE DEF stop
  <2>10. tail \in Seq(Tokens) /\ Len(tail) \in 0 .. 1 /\ (stop > n => Len(tail) = 0)
    <3>1. CASE stop > n
      BY <3>1
    <3>2. CASE ~(stop > n)
      <4>1. stop \in 1 .. Len(own)
        BY <2>4, <2>8, <2>9, <3>2
      <4>2. own[stop] \in Tokens /\ Eos \in Tokens
        BY <2>8, <4>1, GenerationAssumption
      <4> QED BY <3>2, <4>2
    <3> QED BY <3>1, <3>2
  <2> HIDE DEF tail
  <2>11. pre \in Seq(Tokens) /\ Len(pre) = stop - 1 /\ \A i \in 1 .. stop - 1 : pre[i] = d[i]
    <3>1. stop - 1 \in 0 .. Len(d)
      BY <2>4, <2>9
    <3> QED BY <2>4, <3>1, PrefixIsSeq
  <2> HIDE DEF pre
  <2> DEFINE one == <<main>>
             acc == one \o pre
  <2>12. one \in Seq(Tokens) /\ Len(one) = 1 /\ one[1] = main
    BY <2>5
  <2> HIDE DEF one
  <2>13. /\ acc \in Seq(Tokens) /\ Len(acc) = stop
         /\ \A i \in 1 .. stop : acc[i] # Eos /\ acc[i] = bat[i]
    <3>1. /\ acc \in Seq(Tokens) /\ Len(acc) = Len(one) + Len(pre)
          /\ \A i \in 1 .. Len(one) + Len(pre) :
               acc[i] = IF i <= Len(one) THEN one[i] ELSE pre[i - Len(one)]
      BY <2>11, <2>12, ConcatProperties
    <3> HIDE DEF acc
    <3>2. Len(one) + Len(pre) = stop
      BY <2>9, <2>11, <2>12
    <3>3. ASSUME NEW i \in 1 .. stop PROVE acc[i] # Eos /\ acc[i] = bat[i]
      <4>1. acc[i] = IF i <= 1 THEN one[i] ELSE pre[i - 1]
        BY <2>12, <3>1, <3>2
      <4>2. bat[i] = IF i <= 1 THEN main ELSE d[i - 1]
        <5>1. i \in 1 .. 1 + n
          BY <2>4, <2>9
        <5> QED BY <2>6, <5>1
      <4>3. CASE i = 1
        BY <1>7, <2>12, <4>1, <4>2, <4>3
      <4>4. CASE i # 1
        <5>1. ~(i <= 1) /\ i - 1 \in 1 .. stop - 1
          BY <2>9, <4>4
        <5> QED BY <2>9, <2>11, <4>1, <4>2, <5>1
      <4> QED BY <4>3, <4>4
    <3> QED BY <3>1, <3>2, <3>3
  <2>14. got = acc \o tail
    BY DEF one
  <2> HIDE DEF acc, got
  <2>15. /\ got \in Seq(Tokens) /\ Len(got) = stop + Len(tail) /\ Len(got) \in Nat
         /\ Len(got) <= Len(bat)
         /\ \A i \in 1 .. Len(got) - 1 : got[i] # Eos /\ got[i] = bat[i]
    <3>1. /\ got \in Seq(Tokens) /\ Len(got) = Len(acc) + Len(tail)
          /\ \A i \in 1 .. Len(acc) + Len(tail) :
               got[i] = IF i <= Len(acc) THEN acc[i] ELSE tail[i - Len(acc)]
      BY <2>10, <2>13, <2>14, ConcatProperties
    <3>2. \A i \in 1 .. Len(got) - 1 : i \in 1 .. stop /\ i <= Len(acc) /\ i \in 1 .. Len(acc) + Len(tail)
      BY <2>9, <2>10, <2>13, <3>1
    <3>3. Len(got) <= Len(bat)
      <4>1. Len(got) = stop + Len(tail) /\ Len(bat) = 1 + n
        BY <2>6, <2>13, <3>1
      <4>2. n \in Nat /\ stop \in 1 .. n + 1 /\ Len(tail) \in 0 .. 1 /\ (stop > n => Len(tail) = 0)
        BY <2>4, <2>9, <2>10
      <4>3. \A x, y : \A z \in Nat : x \in 1 .. z + 1 /\ y \in 0 .. 1 /\ (x > z => y = 0) => x + y <= 1 + z
        OBVIOUS
      <4> HIDE DEF n
      <4>4. stop + Len(tail) <= 1 + n
        BY <4>2, <4>3
      <4> QED BY <4>1, <4>4
    <3>4. Len(got) = stop + Len(tail) /\ Len(got) \in Nat
      BY <2>9, <2>10, <2>13, <3>1
    <3>5. \A i \in 1 .. Len(got) - 1 : got[i] = acc[i]
      BY <3>1, <3>2
    <3> QED BY <2>13, <3>1, <3>2, <3>3, <3>4, <3>5
  <2>16. Ready(kv')
    <3>1. Ready(Forward(fed, bat))
      BY <1>3, <2>6
    <3>2. snap + Len(got) \in Int /\ snap + Len(got) > 0
      BY <1>3, <2>15
    <3> QED BY <2>3, <3>1, <3>2, TruncateSound DEF Ready
  <2>17. got # << >> /\ Front(got) \in Seq(Tokens) /\ Len(Front(got)) = Len(got) - 1
         /\ \A i \in 1 .. Len(got) - 1 : Front(got)[i] = got[i]
    <3>1. got # << >>
      BY <2>9, <2>10, <2>15
    <3> QED BY <2>15, <3>1, FrontIs
  <2>18. Extends(kv'.filled, fed.filled, Front(got))
    <3> DEFINE c == Forward(fed, bat)
               k == snap + Len(got)
    <3>1. fed.filled \in Seq(Entry) /\ Len(fed.filled) = snap
      BY <1>3, ReadyAllocated DEF snap
    <3>2. Extends(c.filled, fed.filled, Front(got))
      <4>1. Len(Front(got)) <= Len(bat) /\ \A i \in 1 .. Len(Front(got)) : Front(got)[i] = bat[i]
        BY <2>6, <2>15, <2>17
      <4> QED BY <2>6, <2>17, <3>1, <4>1, ForwardExtends
    <3>3. Len(c.filled) = snap + Len(bat)
      BY <1>3, <2>6, <3>1, ForwardReady
    <3>4. k \in Nat \ {0} /\ Len(fed.filled) + Len(Front(got)) <= k /\ k <= Len(c.filled)
      BY <1>3, <2>6, <2>15, <2>17, <3>1, <3>3
    <3> HIDE DEF c, k
    <3>5. Extends(Truncate(c, k).filled, fed.filled, Front(got))
      BY <2>17, <3>1, <3>2, <3>4, TruncateExtends
    <3> QED BY <2>3, <3>5 DEF c, k
  <2>19. tokens' = tokens \o got
    BY <2>3
  <2>20. Accepts(got)
    BY <2>7, <2>15, <2>16, <2>17, <2>18, <2>19 DEF Accepts, fed
  <2> QED BY <2>15, <2>20
<1> QED BY <1>6, <1>7

LEMMA StepMtpKeepsInv ==
  ASSUME IInv, StepMtp
  PROVE  IInv'
<1>1. /\ mode = "mtp" /\ pc = "decode" /\ MoreToDo
      /\ UNCHANGED <<mode, model, pc, promptLen, maxTotal, off, draftKv, paged, graphPos, current>>
  BY DEF StepMtp, config, turn
<1>2. mode \in BufferModes /\ mode # "concat" /\ mode # "draft" /\ current' \in Tokens
  BY <1>1 DEF BufferModes, IInv, Typed
<1>3. PICK got \in Seq(Tokens) : Accepts(got)
  BY StepMtpAccepts
<1> QED BY <1>1, <1>2, <1>3, BatchKeepsInv DEF Accepts

(* The tokens of the walk are all run through the cache. *)
LEMMA StepTreeAccepts ==
  ASSUME IInv, StepTree
  PROVE  \E got \in Seq(Tokens) : Accepts(got)
<1>1. /\ mode = "tree" /\ pc = "decode" /\ MoreToDo
      /\ UNCHANGED <<mode, model, pc, promptLen, maxTotal, off, draftKv, paged, graphPos, current>>
  BY DEF StepTree, config, turn
<1>2. mode \in BufferModes /\ Back \in Tokens /\ Typed
  BY <1>1, NextToken DEF BufferModes, IInv, Typed
<1> DEFINE fed == Forward(kv, <<Back>>)
<1>3. Ready(fed) /\ \A new \in Seq(Tokens) : Ready(Forward(fed, new))
  BY <1>1, <1>2, LastFed
<1>4. PICK own \in TreeChoices(Back) :
        \E top \in [1 .. Heads -> {S \in SUBSET Tokens : Cardinality(S) = Fanout}] :
          LET got  == SubSeq(own, 1, FirstOf({i \in 1 .. Heads : own[i] \notin top[i]}, Heads + 1))
              upto == FirstOf({i \in DOMAIN got : got[i] = Eos}, Len(got))
          IN  /\ kv' = Forward(fed, got)
              /\ tokens' = tokens \o SubSeq(got, 1, upto)
              /\ dyn' = Adjusted(MapThenSumSet(LAMBDA i : Fanout ^ i, 1 .. Heads), Len(got))
  BY DEF StepTree
<1> HIDE DEF fed
<1>5. PICK top :
          LET got  == SubSeq(own, 1, FirstOf({i \in 1 .. Heads : own[i] \notin top[i]}, Heads + 1))
              upto == FirstOf({i \in DOMAIN got : got[i] = Eos}, Len(got))
          IN  /\ kv' = Forward(fed, got)
              /\ tokens' = tokens \o SubSeq(got, 1, upto)
              /\ dyn' = Adjusted(MapThenSumSet(LAMBDA i : Fanout ^ i, 1 .. Heads), Len(got))
  BY <1>4
<1> DEFINE cut  == FirstOf({i \in 1 .. Heads : own[i] \notin top[i]}, Heads + 1)
           got  == SubSeq(own, 1, cut)
           upto == FirstOf({i \in DOMAIN got : got[i] = Eos}, Len(got))
           new  == SubSeq(got, 1, upto)
           all  == MapThenSumSet(LAMBDA i : Fanout ^ i, 1 .. Heads)
<1>6. kv' = Forward(fed, got) /\ tokens' = tokens \o new /\ dyn' = Adjusted(all, Len(got))
  BY <1>5
<1>7. own \in Seq(Tokens) /\ Len(own) = Heads + 1 /\ Heads \in Nat \ {0}
  <2>1. own \in [1 .. Heads + 1 -> Tokens] /\ Heads \in Nat \ {0}
    BY GenerationAssumption DEF TreeChoices
  <2> QED BY <2>1
<1>8. cut \in 1 .. Heads + 1
  <2> DEFINE S == {i \in 1 .. Heads : own[i] \notin top[i]}
  <2>1. S \subseteq Nat /\ S \subseteq 1 .. Heads
    BY <1>7
  <2> HIDE DEF S
  <2> DEFINE f == FirstOf(S, Heads + 1)
  <2>2. f = Heads + 1 \/ f \in S
    BY <2>1, FirstOfLeast
  <2> HIDE DEF f
  <2>3. f \in 1 .. Heads + 1
    <3>1. Heads \in Nat \ {0}
      BY <1>7
    <3>2. f = Heads + 1 \/ f \in 1 .. Heads
      BY <2>1, <2>2
    <3> QED BY <3>1, <3>2
  <2> QED BY <2>3 DEF f, S
<1> HIDE DEF cut
<1>9. got \in Seq(Tokens) /\ Len(got) = cut
  BY <1>7, <1>8, PrefixIsSeq
<1> HIDE DEF got
<1>10. upto \in 1 .. Len(got) /\ \A i \in 1 .. upto - 1 : got[i] # Eos
  <2> DEFINE S == {i \in DOMAIN got : got[i] = Eos}
             m == Len(got)
  <2>1. DOMAIN got = 1 .. m /\ m \in Nat \ {0} /\ S \subseteq Nat /\ S \subseteq 1 .. m
    BY <1>7, <1>8, <1>9
  <2>2. \/ S = {} /\ upto = m
        \/ upto \in S /\ \A i \in S : upto <= i
    <3> HIDE DEF S, m
    <3>1. \/ S = {} /\ FirstOf(S, m) = m
          \/ FirstOf(S, m) \in S /\ \A i \in S : FirstOf(S, m) <= i
      BY <2>1, FirstOfLeast
    <3> QED BY <3>1 DEF S, m
  <2> HIDE DEF upto, m
  <2>3. upto \in 1 .. m /\ \A i \in 1 .. upto - 1 : i \in 1 .. m /\ i \notin S
    BY <2>1, <2>2
  <2> QED BY <2>1, <2>3 DEF m
<1> HIDE DEF upto
<1>11. /\ new \in Seq(Tokens) /\ Len(new) = upto /\ \A i \in 1 .. upto : new[i] = got[i]
       /\ \A i \in 1 .. Len(new) - 1 : new[i] # Eos
  <2>1. upto \in 0 .. Len(got) /\ upto \in Nat
    BY <1>7, <1>8, <1>9, <1>10
  <2>2. new \in Seq(Tokens) /\ Len(new) = upto /\ \A i \in 1 .. upto : new[i] = got[i]
    BY <1>9, <2>1, PrefixIsSeq
  <2> HIDE DEF new
  <2>3. \A i \in 1 .. Len(new) - 1 : i \in 1 .. upto /\ i \in 1 .. upto - 1
    BY <2>1, <2>2
  <2> QED BY <1>10, <2>2, <2>3
<1> HIDE DEF new, all
<1>12. Ready(kv')
  BY <1>3, <1>6, <1>9
<1>13. "k" \in DOMAIN dyn' /\ dyn'.k \in 1 .. Heads
  BY <1>2, <1>6, AdjustedTyped
<1>14. upto \in Nat \ {0} /\ upto <= Len(got) /\ Len(got) \in Nat
  BY <1>7, <1>8, <1>9, <1>10
<1>15. new # << >> /\ Front(new) \in Seq(Tokens) /\ Len(Front(new)) = upto - 1
       /\ \A i \in 1 .. upto - 1 : Front(new)[i] = new[i]
  <2>1. new # << >>
    BY <1>11, <1>14
  <2> QED BY <1>11, <2>1, FrontIs
<1>16. Extends(kv'.filled, fed.filled, Front(new))
  <2>1. fed.filled \in Seq(Entry)
    BY <1>3, ReadyAllocated
  <2>2. Len(Front(new)) <= Len(got) /\ \A i \in 1 .. Len(Front(new)) : Front(new)[i] = got[i]
    BY <1>11, <1>14, <1>15
  <2> QED BY <1>6, <1>9, <1>15, <2>1, <2>2, ForwardExtends
<1>17. Accepts(new)
  BY <1>6, <1>11, <1>12, <1>13, <1>15, <1>16 DEF Accepts, fed
<1> QED BY <1>11, <1>17

LEMMA StepTreeKeepsInv ==
  ASSUME IInv, StepTree
  PROVE  IInv'
<1>1. /\ mode = "tree" /\ pc = "decode" /\ MoreToDo
      /\ UNCHANGED <<mode, model, pc, promptLen, maxTotal, off, draftKv, paged, graphPos, current>>
  BY DEF StepTree, config, turn
<1>2. mode \in BufferModes /\ mode # "concat" /\ mode # "draft" /\ current' \in Tokens
  BY <1>1 DEF BufferModes, IInv, Typed
<1>3. PICK got \in Seq(Tokens) : Accepts(got)
  BY StepTreeAccepts
<1> QED BY <1>1, <1>2, <1>3, BatchKeepsInv DEF Accepts

LEMMA StepLibraryKeepsInv ==
  ASSUME IInv, StepLibrary
  PROVE  IInv'
<1>1. /\ mode = "library" /\ pc = "decode" /\ MoreToDo
      /\ UNCHANGED <<mode, model, pc, promptLen, maxTotal, off, draftKv, paged, graphPos, dyn>>
  BY DEF StepLibrary, config, turn
<1>2. mode \in BufferModes /\ mode # "concat" /\ mode # "draft"
      /\ Typed /\ current \in Tokens /\ TargetTyped
  BY <1>1 DEF BufferModes, IInv, Typed
<1> DEFINE fed  == Forward(kv, <<current>>)
           main == Choice(fed, Len(kv.filled), 1, 1)
           Cut(own, d) == FirstOf({i \in 1 .. Heads : own[i] # d[i]}, Heads + 1)
           Got(m, own, d) == <<m>> \o SubSeq(own, 1, Cut(own, d))
           Upto(got) == Min({Len(got), maxTotal - Len(tokens)} \cup {i \in DOMAIN got : got[i] = Eos})
           Accept(f, m, d, own) ==
             /\ kv' = Forward(f, <<m>> \o d)
             /\ tokens' = tokens \o SubSeq(Got(m, own, d), 1, Upto(Got(m, own, d)))
             /\ current' = Last(Got(m, own, d))
<1>3. \A new \in Seq(Tokens) : Ready(Forward(fed, new))
  BY <1>1, <1>2, LastFed
<1>4. main \in Tokens
  BY <1>2 DEF TargetTyped, Choice
<1>5. \E f \in {fed} : \E m \in {Choice(f, Len(kv.filled), 1, 1)} :
      \E d \in [1 .. Heads -> Tokens] : \E own \in {Rows(f, <<m>> \o d)} : Accept(f, m, d, own)
  BY DEF StepLibrary
<1> HIDE DEF Accept
<1>6. PICK d \in [1 .. Heads -> Tokens] : Accept(fed, main, d, Rows(fed, <<main>> \o d))
  <2> HIDE DEF fed
  <2>1. \E m \in {main} :
        \E d \in [1 .. Heads -> Tokens] : \E own \in {Rows(fed, <<m>> \o d)} : Accept(fed, m, d, own)
    BY <1>5
  <2> HIDE DEF main
  <2> QED BY <2>1
<1> HIDE DEF fed, main
<1> DEFINE bat == <<main>> \o d
           own == Rows(fed, bat)
           cut == Cut(own, d)
           pre == SubSeq(own, 1, cut)
           got == <<main>> \o pre
           lim == Upto(got)
           new == SubSeq(got, 1, lim)
<1>7. kv' = Forward(fed, bat) /\ tokens' = tokens \o new /\ current' = Last(got)
  BY <1>6 DEF Accept
<1>8. d \in Seq(Tokens) /\ Len(d) = Heads /\ Heads \in Nat \ {0}
  BY GenerationAssumption
<1>9. bat \in Seq(Tokens) /\ Len(bat) = 1 + Heads
  <2>1. <<main>> \in Seq(Tokens) /\ Len(<<main>>) = 1
    BY <1>4
  <2> QED BY <1>8, <2>1, ConcatProperties
<1> HIDE DEF bat
<1>10. own \in Seq(Tokens) /\ Len(own) = 1 + Heads
  BY <1>2, <1>9, RowsTyped
<1> HIDE DEF own
<1>11. cut \in 1 .. Heads + 1
  <2> DEFINE S == {i \in 1 .. Heads : own[i] # d[i]}
  <2>1. S \subseteq Nat /\ S \subseteq 1 .. Heads
    BY <1>8
  <2> HIDE DEF S
  <2> DEFINE f == FirstOf(S, Heads + 1)
  <2>2. f = Heads + 1 \/ f \in S
    BY <2>1, FirstOfLeast
  <2> HIDE DEF f
  <2>3. f \in 1 .. Heads + 1
    <3>1. Heads \in Nat \ {0}
      BY <1>8
    <3>2. f = Heads + 1 \/ f \in 1 .. Heads
      BY <2>1, <2>2
    <3> QED BY <3>1, <3>2
  <2> QED BY <2>3 DEF f, S
<1> HIDE DEF cut
<1>12. pre \in Seq(Tokens) /\ Len(pre) = cut
  <2>1. cut \in 0 .. Len(own)
    BY <1>8, <1>10, <1>11
  <2> QED BY <1>10, <2>1, PrefixIsSeq
<1> HIDE DEF pre
<1>13. got \in Seq(Tokens) /\ Len(got) = 1 + cut
  <2>1. <<main>> \in Seq(Tokens) /\ Len(<<main>>) = 1
    BY <1>4
  <2> QED BY <1>12, <2>1, ConcatProperties
<1> HIDE DEF got
<1>14. Len(got) \in Nat \ {0} /\ DOMAIN got = 1 .. Len(got)
  BY <1>8, <1>11, <1>13
<1>15. Last(got) \in Tokens
  BY <1>13, <1>14 DEF Last
<1>16. lim \in 1 .. Len(got)
  <2> DEFINE room == maxTotal - Len(tokens)
             S == {Len(got), room} \cup {i \in DOMAIN got : got[i] = Eos}
  <2>1. room \in Nat \ {0}
    <3>1. Len(tokens) \in Nat /\ maxTotal \in Nat /\ Len(tokens) < maxTotal
      BY <1>1, <1>2 DEF Typed, MoreToDo, Room
    <3> QED BY <3>1
  <2> HIDE DEF room
  <2>2. S \subseteq Nat \ {0} /\ Len(got) \in S
    BY <1>14, <2>1
  <2>3. lim = Min(S)
    BY DEF room
  <2> HIDE DEF S, lim
  <2>4. \E m \in S : \A k \in S : m <= k
    BY <2>2, LeastNatural
  <2>5. Min(S) \in S /\ \A k \in S : Min(S) <= k
    BY <2>4 DEF Min
  <2>6. lim \in Nat \ {0} /\ lim <= Len(got)
    BY <2>2, <2>3, <2>5
  <2> QED BY <1>14, <2>6
<1> HIDE DEF lim
<1>17. new \in Seq(Tokens)
  <2>1. lim \in 0 .. Len(got)
    BY <1>14, <1>16
  <2> QED BY <1>13, <2>1, PrefixIsSeq
<1> HIDE DEF new
<1>18. Ready(kv')
  BY <1>3, <1>7, <1>9
<1>19. "k" \in DOMAIN dyn' /\ dyn'.k \in 1 .. Heads
  BY <1>1, <1>2 DEF Typed
<1>20. tokens' = tokens \o new /\ current' \in Tokens
  BY <1>7, <1>15
<1> QED BY <1>1, <1>2, <1>17, <1>18, <1>19, <1>20, BatchKeepsInv

LEMMA StepDraftKeepsInv ==
  ASSUME IInv, StepDraft
  PROVE  IInv'
<1>1. /\ mode = "draft" /\ pc = "decode" /\ MoreToDo
      /\ UNCHANGED <<mode, model, pc, promptLen, maxTotal, off, paged, graphPos, current, dyn>>
  BY DEF StepDraft, config, turn
<1>2. /\ mode \in BufferModes /\ mode # "concat" /\ mode # "library" /\ Back \in Tokens
      /\ Typed /\ TargetTyped /\ tokens \in Seq(Tokens)
      /\ current' \in Tokens /\ "k" \in DOMAIN dyn' /\ dyn'.k \in 1 .. Heads
  BY <1>1, NextToken DEF BufferModes, IInv, Typed
<1>3. Ready(kv) /\ Ready(draftKv)
  BY <1>1, <1>2 DEF IInv, Typed, Decoding, Ready
<1> DEFINE Stop(d, own) == FirstOf({k \in 1 .. Len(d) : d[k] = Eos \/ own[k + 1] # d[k]}, Len(d))
           Hits(d, own, s) == IF own[s + 1] = d[s] THEN s ELSE s - 1
           Accept(d, own) ==
             LET snap == Len(kv.filled)
                 ver  == Forward(kv, <<Back>> \o d)
                 fed  == FedSingly(draftKv, <<Back>> \o Front(d))
                 got  == SubSeq(own, 1, Stop(d, own) + 1)
             IN  IF own[1] = Eos
                 THEN /\ tokens' = Append(tokens, Eos)
                      /\ kv' = ver
                      /\ draftKv' = fed
                 ELSE /\ tokens' = tokens \o got
                      /\ kv' = Truncate(ver, snap + Len(got))
                      /\ draftKv' = Truncate(fed, Len(fed.filled) - (Len(d) - Hits(d, own, Stop(d, own))))
<1>4. \E d \in Drafts(DraftLen) : \E own \in {Rows(kv, <<Back>> \o d)} : Accept(d, own)
  BY DEF StepDraft
<1> HIDE DEF Accept
<1>5. PICK d \in Drafts(DraftLen) : Accept(d, Rows(kv, <<Back>> \o d))
  BY <1>4
<1> DEFINE one  == <<Back>>
           n    == Len(d)
           bat  == one \o d
           own  == Rows(kv, bat)
           ver  == Forward(kv, bat)
           lead == one \o Front(d)
           fed  == FedSingly(draftKv, lead)
           stop == Stop(d, own)
           hits == Hits(d, own, stop)
           got  == SubSeq(own, 1, stop + 1)
<1>6. IF own[1] = Eos
      THEN tokens' = Append(tokens, Eos) /\ kv' = ver /\ draftKv' = fed
      ELSE /\ tokens' = tokens \o got
           /\ kv' = Truncate(ver, Len(kv.filled) + Len(got))
           /\ draftKv' = Truncate(fed, Len(fed.filled) - (n - hits))
  BY <1>5 DEF Accept
<1>7. d \in Seq(Tokens) /\ n \in Nat \ {0} /\ d # << >>
  <2>1. DraftLen \in Nat
    BY GenerationAssumption
  <2>2. d \in Seq(Tokens) /\ n \in Nat \ {0}
    BY <2>1, DraftsTyped
  <2> QED BY <2>2
<1>8. one \in Seq(Tokens) /\ Len(one) = 1
  BY <1>2
<1> HIDE DEF one
<1>9. bat \in Seq(Tokens) /\ Len(bat) = 1 + n
  BY <1>7, <1>8, ConcatProperties
<1> HIDE DEF bat
<1>10. own \in Seq(Tokens) /\ Len(own) = 1 + n /\ Ready(ver)
  BY <1>2, <1>3, <1>9, RowsTyped, ForwardReady
<1>11. lead \in Seq(Tokens) /\ Len(lead) = n
  <2>1. Front(d) \in Seq(Tokens) /\ Len(Front(d)) = n - 1
    BY <1>7, FrontLast
  <2>2. lead \in Seq(Tokens) /\ Len(lead) = Len(one) + Len(Front(d))
    BY <1>8, <2>1, ConcatProperties
  <2> QED BY <1>7, <1>8, <2>1, <2>2
<1> HIDE DEF lead, own
<1>12. Ready(fed) /\ Len(fed.filled) = Len(draftKv.filled) + n /\ Len(draftKv.filled) \in Nat \ {0}
  <2>1. Len(draftKv.filled) \in Nat \ {0}
    BY <1>3, ReadyAllocated
  <2> DEFINE e == PagedEntries(Len(draftKv.filled), lead)
  <2>2. e \in Seq(Entry) /\ Len(e) = n
    BY <1>11, <2>1, PagedEntriesIsSeq
  <2>3. fed = Update(draftKv, e)
    BY DEF FedSingly, PagedEntries
  <2> HIDE DEF e
  <2> QED BY <1>3, <2>1, <2>2, <2>3, UpdateReady
<1> HIDE DEF ver, fed
<1>13. CASE own[1] = Eos
  <2> DEFINE new == <<Eos>>
  <2>1. tokens' = tokens \o new /\ new \in Seq(Tokens) /\ Len(new) = 1
    <3>1. Eos \in Tokens
      BY GenerationAssumption
    <3>2. Append(tokens, Eos) = tokens \o new
      BY <1>2, <3>1, AppendIsConcat
    <3> QED BY <1>6, <1>13, <3>1, <3>2
  <2>2. Ready(kv') /\ Ready(draftKv')
    BY <1>6, <1>10, <1>12, <1>13
  <2>3. \A i \in 1 .. Len(new) - 1 : new[i] # Eos
    BY <2>1
  <2> HIDE DEF new
  <2> QED BY <1>1, <1>2, <2>1, <2>2, <2>3, BatchKeepsInv
<1>14. CASE own[1] # Eos
  <2>1. stop \in 1 .. n /\ \A k \in 1 .. stop - 1 : d[k] # Eos /\ own[k + 1] = d[k]
    <3> DEFINE S == {k \in 1 .. n : d[k] = Eos \/ own[k + 1] # d[k]}
    <3>1. S \subseteq Nat /\ S \subseteq 1 .. n
      BY <1>7
    <3>2. \/ S = {} /\ stop = n
          \/ stop \in S /\ \A k \in S : stop <= k
      <4> HIDE DEF S, n
      <4>1. \/ S = {} /\ FirstOf(S, n) = n
            \/ FirstOf(S, n) \in S /\ \A k \in S : FirstOf(S, n) <= k
        BY <3>1, FirstOfLeast
      <4> QED BY <4>1 DEF S, n
    <3> HIDE DEF stop, n
    <3>3. stop \in 1 .. n /\ \A k \in 1 .. stop - 1 : k \in 1 .. n /\ k \notin S
      BY <1>7, <3>1, <3>2
    <3> QED BY <3>3
  <2> HIDE DEF Stop
  <2>2. hits \in Nat /\ n - hits <= n
    BY <1>7, <2>1
  <2> HIDE DEF stop, hits
  <2>3. /\ got \in Seq(Tokens) /\ Len(got) = stop + 1
        /\ \A i \in 1 .. stop + 1 : got[i] = own[i]
    <3>1. stop + 1 \in 0 .. Len(own)
      BY <1>7, <1>10, <2>1
    <3> QED BY <1>10, <3>1, PrefixIsSeq
  <2> HIDE DEF got
  <2>4. \A i \in 1 .. Len(got) - 1 : got[i] # Eos
    <3> SUFFICES ASSUME NEW i \in 1 .. Len(got) - 1 PROVE got[i] # Eos
      OBVIOUS
    <3>1. i \in 1 .. stop /\ got[i] = own[i]
      BY <2>1, <2>3
    <3>2. CASE i = 1
      BY <1>14, <3>1, <3>2
    <3>3. CASE i # 1
      <4>1. i - 1 \in 1 .. stop - 1 /\ (i - 1) + 1 = i
        BY <2>1, <3>1, <3>3
      <4>2. d[i - 1] # Eos /\ own[(i - 1) + 1] = d[i - 1]
        BY <2>1, <4>1
      <4> QED BY <3>1, <4>1, <4>2
    <3> QED BY <3>2, <3>3
  <2>5. Ready(kv') /\ Ready(draftKv')
    <3>1. Len(kv.filled) \in Nat /\ Len(got) \in Nat \ {0}
      BY <1>3, <2>1, <2>3, ReadyAllocated
    <3>2. Len(kv.filled) + Len(got) \in Int /\ Len(kv.filled) + Len(got) > 0
      BY <3>1
    <3>3. Len(fed.filled) - (n - hits) \in Int /\ Len(fed.filled) - (n - hits) > 0
      BY <1>7, <1>12, <2>2
    <3>4. Ready(kv')
      BY <1>6, <1>10, <1>14, <3>2, TruncateSound DEF Ready
    <3>5. Ready(draftKv')
      BY <1>6, <1>12, <1>14, <3>3, TruncateSound DEF Ready
    <3> QED BY <3>4, <3>5
  <2>6. tokens' = tokens \o got
    BY <1>6, <1>14
  <2> QED BY <1>1, <1>2, <2>3, <2>4, <2>5, <2>6, BatchKeepsInv
<1> QED BY <1>13, <1>14

-----------------------------------------------------------------------------
(* Every step keeps it.                                                    *)

LEMMA StepInv == IInv /\ [Next]_vars => IInv'
<1> SUFFICES ASSUME IInv, [Next]_vars PROVE IInv'
  OBVIOUS
<1>1. CASE \E p \in Prompts : ReadPrompt(p)
  BY <1>1, ReadPromptKeepsInv
<1>2. CASE ClearContext \/ Quit \/ EndTurn
  BY <1>2, ReplKeepsInv
<1>3. CASE PrefillFull \/ PrefillConcat \/ PrefillSpeculative \/ PrefillLibrary
  BY <1>3, PrefillKeepsInv
<1>4. CASE PrefillChunk
  BY <1>4, PrefillChunkKeepsInv
<1>5. CASE StepFull \/ StepConcat \/ StepPaged
  BY <1>5, StepFullKeepsInv, StepConcatKeepsInv, StepPagedKeepsInv
<1>6. CASE Capture \/ Replay \/ OutOfPages
  BY <1>6, CaptureKeepsInv, ReplayKeepsInv, OutOfPagesKeepsInv
<1>7. CASE StepMtp \/ StepTree \/ StepDraft \/ StepLibrary
  BY <1>7, StepMtpKeepsInv, StepTreeKeepsInv, StepDraftKeepsInv, StepLibraryKeepsInv
<1>8. CASE UNCHANGED vars
  BY <1>8 DEF vars, config, turn, IInv, TargetTyped, Typed, Prefilling, Decoding, Back,
              EosEndsReply, FailsOnlyWhenFull
<1> QED BY <1>1, <1>2, <1>3, <1>4, <1>5, <1>6, <1>7, <1>8 DEF Next, Repl, Generate, Prefill, Step

(* The inductive invariant holds of every generation loop.                 *)
THEOREM GenerationSound == TargetTyped /\ Spec => []IInv
<1>1. TargetTyped /\ Init => IInv
  BY InitInv
<1>2. IInv /\ [Next]_vars => IInv'
  BY StepInv
<1> QED BY <1>1, <1>2, PTL DEF Spec

(* No mixture of chunked prefill, eager steps, capture, replay and         *)
(* rollback loses a page of PagedKVCache, hands one out twice, leaves the  *)
(* cursor outside the page table or writes past the end of a buffer.       *)
THEOREM CachesStaySound == TargetTyped /\ Spec => []CachesSound
<1>1. IInv => CachesSound
  BY DEF IInv, Typed, CachesSound, PagedSound, BufferSound
<1> QED BY <1>1, GenerationSound, PTL

(* Between two steps of a loop that decodes one token at a time, the cache *)
(* holds the K/V of the conversation without its last token, however the   *)
(* prompt was cut into chunks and whatever pages the entries lie in.       *)
THEOREM CachesMirror == TargetTyped /\ Spec => []CacheMirrorsTokens
<1>1. IInv => CacheMirrorsTokens
  BY DEF IInv, Decoding, CacheMirrorsTokens, PagedModes
<1> QED BY <1>1, GenerationSound, PTL

(* Nothing follows an end token in a reply of the chat loops, drafted,     *)
(* verified or plain.                                                      *)
THEOREM EosStaysLast == TargetTyped /\ Spec => []EosEndsReply
<1>1. IInv => EosEndsReply
  BY DEF IInv
<1> QED BY <1>1, GenerationSound, PTL

(* "out of pages" is thrown only when the conversation has more tokens     *)
(* than all pages have slots.                                              *)
THEOREM FailsOnlyFull == TargetTyped /\ Spec => []FailsOnlyWhenFull
<1>1. IInv => FailsOnlyWhenFull
  BY DEF IInv
<1> QED BY <1>1, GenerationSound, PTL

-----------------------------------------------------------------------------
(* What MTP and tree speculation have cached contains the conversation.    *)

Cached == mode \in {"mtp", "tree"} /\ pc = "decode" => Within(Front(tokens), kv.filled)

(* The prefill caches the whole prompt. *)
LEMMA PromptCached ==
  ASSUME IInv, PrefillSpeculative
  PROVE  Cached'
<1>1. pc = "prefill" /\ kv' = Forward(kv, tokens) /\ tokens' = tokens
  BY DEF PrefillSpeculative
<1>2. tokens \in Seq(Tokens) /\ tokens # << >>
  BY <1>1 DEF IInv, Typed, Prefilling
<1> DEFINE h == tokens
           u == Front(h)
           w == Ideal(h)
<1>3. Forward(kv, tokens).filled = w
  BY <1>1, PromptFed
<1> HIDE DEF h
<1>4. /\ u \in Seq(Tokens) /\ Len(u) = Len(h) - 1 /\ Len(h) \in Nat \ {0}
      /\ \A i \in 1 .. Len(h) - 1 : u[i] = h[i]
  BY <1>2, FrontIs DEF h
<1>5. /\ w \in Seq(Entry) /\ Len(w) = Len(h)
      /\ \A i \in 1 .. Len(h) : w[i] = [tok |-> h[i], pos |-> i - 1, sees |-> i]
  BY <1>2, IdealIsSeq DEF h
<1> HIDE DEF u, w
<1>6. << >> \in Seq(Entry) /\ << >> \in Seq(Tokens) /\ Len(<< >>) = 0 /\ 1 .. 0 = {}
  OBVIOUS
<1>7. ASSUME NEW i \in 1 .. Len(u) PROVE w[0 + i].tok = u[i]
  <2>1. i \in 1 .. Len(h) /\ i \in 1 .. Len(h) - 1 /\ 0 + i = i
    BY <1>4
  <2>2. w[i] = [tok |-> h[i], pos |-> i - 1, sees |-> i] /\ u[i] = h[i]
    BY <1>4, <1>5, <2>1
  <2>3. w[i].tok = h[i]
    BY <2>2
  <2> QED BY <2>1, <2>2, <2>3
<1>8. 0 + Len(u) <= Len(w)
  BY <1>4, <1>5
<1>9. Extends(w, << >>, u)
  BY <1>5, <1>6, <1>7, <1>8 DEF Extends
<1>10. Within(<< >> \o u, w)
  BY <1>4, <1>6, <1>9, WithinNone, WithinExtends
<1>11. << >> \o u = u
  BY <1>4, ConcatEmptySeq
<1> QED BY <1>1, <1>3, <1>10, <1>11 DEF Cached, u, w, h

(* A step caches the last token, then the accepted ones but the last. *)
LEMMA AcceptedCached ==
  ASSUME IInv, Cached, mode \in {"mtp", "tree"}, pc = "decode", MoreToDo,
         NEW got \in Seq(Tokens), Accepts(got)
  PROVE  Cached'
<1> DEFINE h == tokens
           b == Back
           t == kv.filled
           v == Forward(kv, <<b>>).filled
           w == kv'.filled
           u == Front(got)
<1>1. h \in Seq(Tokens) /\ h # << >> /\ b \in Tokens /\ mode \in BufferModes
  BY NextToken DEF IInv, Typed, Decoding, BufferModes
<1>2. t \in Seq(Entry)
  BY <1>1, LastFed, ReadyAllocated
<1>3. Front(h) \in Seq(Tokens) /\ Front(h) \o <<b>> = h
  BY <1>1, FrontLast DEF Back
<1>4. Within(Front(h), t)
  BY DEF Cached
<1>5. Extends(v, t, <<b>>) /\ <<b>> \in Seq(Tokens)
  <2> DEFINE g == <<b>>
  <2>1. g \in Seq(Tokens) /\ Len(g) = 1
    BY <1>1
  <2> HIDE DEF g
  <2>2. Extends(Forward(kv, g).filled, kv.filled, g)
    BY <1>2, <2>1, ForwardExtends
  <2> QED BY <2>1, <2>2 DEF g
<1>6. /\ got # << >> /\ tokens' = h \o got /\ Extends(w, v, u)
  BY DEF Accepts
<1>7. u \in Seq(Tokens)
  BY <1>6, FrontIs
<1>8. Front(h \o got) = h \o u
  BY <1>1, <1>6, FrontConcat
<1>9. v \in Seq(Entry)
  BY <1>5 DEF Extends
<1> HIDE DEF h, b, t, v, w, u
<1>10. Within(h, v)
  BY <1>2, <1>3, <1>4, <1>5, WithinExtends
<1>11. Within(h \o u, w)
  BY <1>1, <1>6, <1>7, <1>9, <1>10, WithinExtends
<1> QED BY <1>6, <1>8, <1>11 DEF Cached, w

(* No other action touches the cache while tokens are decoded. *)
LEMMA CachedStep == IInv /\ Cached /\ [Next]_vars => Cached'
<1> SUFFICES ASSUME IInv, Cached, [Next]_vars PROVE Cached'
  OBVIOUS
<1>1. CASE StepMtp \/ StepTree
  <2>1. mode \in {"mtp", "tree"} /\ pc = "decode" /\ MoreToDo
    BY <1>1 DEF StepMtp, StepTree
  <2>2. PICK got \in Seq(Tokens) : Accepts(got)
    BY <1>1, StepMtpAccepts, StepTreeAccepts
  <2> QED BY <2>1, <2>2, AcceptedCached
<1>2. CASE PrefillSpeculative
  BY <1>2, PromptCached
<1>3. CASE (\E p \in Prompts : ReadPrompt(p)) \/ ClearContext \/ Quit \/ EndTurn \/ OutOfPages \/ Capture
  BY <1>3 DEF ReadPrompt, ClearContext, Quit, EndTurn, OutOfPages, Capture, Cached
<1>4. CASE PrefillFull \/ PrefillConcat \/ PrefillLibrary \/ PrefillChunk
  BY <1>4 DEF PrefillFull, PrefillConcat, PrefillLibrary, PrefillChunk, Cached, config
<1>5. CASE StepFull \/ StepConcat \/ StepPaged \/ Replay \/ StepDraft \/ StepLibrary
  <2>1. (mode \notin {"mtp", "tree"} /\ mode' = mode) \/ pc' # "decode"
    BY <1>5 DEF StepFull, StepConcat, StepPaged, Replay, StepDraft, StepLibrary, config
  <2> QED BY <2>1 DEF Cached
<1>6. CASE UNCHANGED vars
  BY <1>6 DEF vars, config, Cached
<1> QED BY <1>1, <1>2, <1>3, <1>4, <1>5, <1>6 DEF Next, Repl, Generate, Prefill, Step

(* No rollback of MTP or tree speculation drops the K/V of a token that    *)
(* was accepted, whatever was drafted.                                     *)
THEOREM AcceptedKept == TargetTyped /\ Spec => []NothingAcceptedIsLost
<1>1. Init => Cached
  BY DEF Init, Cached
<1>2. IInv /\ Cached /\ [Next]_vars => Cached'
  BY CachedStep
<1>3. IInv /\ Cached => NothingAcceptedIsLost
  <2> SUFFICES ASSUME IInv, Cached, mode \in {"mtp", "tree"}, pc = "decode"
               PROVE  Embeds(Front(tokens), kv.filled)
    BY DEF NothingAcceptedIsLost
  <2> DEFINE s == Front(tokens)
             t == kv.filled
  <2>1. s \in Seq(Tokens)
    BY FrontIs DEF IInv, Typed, Decoding
  <2>2. t \in Seq(Entry)
    BY DEF IInv, Typed, BufferSound, Buffer
  <2>3. Within(s, t)
    BY DEF Cached
  <2> HIDE DEF s, t
  <2>4. Embeds(s, t)
    BY <2>1, <2>2, <2>3, WithinEmbeds
  <2> QED BY <2>4 DEF s, t
<1> QED BY <1>1, <1>2, <1>3, GenerationSound, PTL DEF Spec

-----------------------------------------------------------------------------
(* The loops with an exact cache implement GreedyDecoding.                 *)

Replying == Exact /\ (pc = "prefill" \/ (pc = "decode" /\ MoreToDo))
History == IF Exact THEN tokens ELSE << >>
Limit == IF Exact THEN maxTotal ELSE 0

LEMMA InitIsGreedy == Init => Greedy!Init
  BY DEF Init, Greedy!Init

(* The mapped variables of a step that leaves them alone. *)
LEMMA Stutters ==
  ASSUME model' = model, mode' = mode,
         Exact => tokens' = tokens /\ maxTotal' = maxTotal /\ Replying' = Replying
  PROVE  UNCHANGED Greedy!vars
<1>1. Exact' = Exact
  BY DEF Exact
<1>2. History' = History /\ Limit' = Limit /\ Replying' = Replying
  BY <1>1 DEF History, Limit, Replying
<1> QED BY <1>2 DEF Greedy!vars, History, Limit, Replying

(* A step of an exact loop that appends the best token. *)
LEMMA Emits ==
  ASSUME IInv, Exact, Replying, pc' = "decode",
         UNCHANGED <<mode, model, maxTotal>>,
         tokens' = Append(tokens, Best(model, tokens))
  PROVE  Greedy!Emit
<1> DEFINE t == Best(model, tokens)
<1>1. t \in Tokens /\ tokens \in Seq(Tokens) /\ mode # "library" /\ Exact'
  BY DEF IInv, TargetTyped, Typed, Best, Exact, ExactModes, CachedModes
<1>2. Last(tokens') = t
  BY <1>1, FrontAppend
<1>3. MoreToDo' <=> Len(tokens') < maxTotal' /\ t # Eos
  BY <1>1, <1>2 DEF MoreToDo, Room, Stopped, Back
<1>4. Replying' = (t # Eos /\ Len(tokens') < maxTotal)
  BY <1>1, <1>3 DEF Replying, MoreToDo
<1> QED BY <1>1, <1>4 DEF Greedy!Emit, Replying

LEMMA ReplIsGreedy ==
  ASSUME IInv, (\E p \in Prompts : ReadPrompt(p)) \/ ClearContext \/ Quit \/ EndTurn
  PROVE  [Greedy!Next]_(Greedy!vars)
<1>1. CASE \E p \in Prompts : ReadPrompt(p)
  <2>1. IInv'
    BY <1>1, ReadPromptKeepsInv
  <2>2. pc = "idle" /\ pc' = "prefill" /\ mode' = mode /\ model' = model
    BY <1>1 DEF ReadPrompt, config
  <2>3. tokens' # << >> /\ maxTotal' \in Nat
    BY <2>1, <2>2 DEF IInv, Typed, Prefilling
  <2>4. CASE Exact
    <3>1. Exact' /\ ~Replying /\ Replying' \in BOOLEAN
      BY <2>2, <2>4 DEF Exact, Replying
    <3>2. Greedy!Ask
      BY <2>2, <2>3, <2>4, <3>1 DEF Greedy!Ask, Replying
    <3> QED BY <3>2 DEF Greedy!Next
  <2>5. CASE ~Exact
    BY <2>2, <2>5, Stutters
  <2> QED BY <2>4, <2>5
<1>2. CASE ClearContext
  <2>1. /\ pc = "idle" /\ pc' = pc /\ mode' = mode /\ model' = model /\ maxTotal' = maxTotal
        /\ tokens' = << >>
    BY <1>2 DEF ClearContext, config, turn
  <2>2. CASE Exact
    <3>1. Exact' /\ ~Replying /\ ~Replying'
      BY <2>1, <2>2 DEF Exact, Replying
    <3>2. Greedy!Clear
      BY <2>1, <2>2, <3>1 DEF Greedy!Clear, Replying
    <3> QED BY <3>2 DEF Greedy!Next
  <2>3. CASE ~Exact
    BY <2>1, <2>3, Stutters
  <2> QED BY <2>2, <2>3
<1>3. CASE Quit \/ EndTurn
  <2>1. /\ pc = "idle" \/ (pc \in {"decode", "replay"} /\ ~MoreToDo)
        /\ pc' \in {"idle", "quit"}
        /\ mode' = mode /\ model' = model /\ maxTotal' = maxTotal /\ tokens' = tokens
    BY <1>3 DEF Quit, EndTurn, config, turn
  <2>2. Replying' = Replying
    BY <2>1 DEF Replying
  <2> QED BY <2>1, <2>2, Stutters
<1> QED BY <1>1, <1>2, <1>3

LEMMA PrefillIsGreedy ==
  ASSUME IInv, Prefill
  PROVE  [Greedy!Next]_(Greedy!vars)
<1>1. pc = "prefill" /\ UNCHANGED <<mode, model, promptLen, maxTotal>>
  BY DEF Prefill, PrefillFull, PrefillConcat, PrefillSpeculative, PrefillLibrary, PrefillChunk,
         config, turn
<1>2. /\ tokens \in Seq(Tokens) /\ promptLen = Len(tokens) /\ promptLen < maxTotal /\ Back # Eos
      /\ off \in Nat /\ promptLen \in Nat
  BY <1>1 DEF IInv, Typed, Prefilling
<1>3. CASE PrefillFull
  <2>1. pc' = "decode" /\ tokens' = tokens /\ mode = "full"
    BY <1>3 DEF PrefillFull
  <2>2. MoreToDo'
    BY <1>1, <1>2, <2>1 DEF MoreToDo, Room, Stopped, Back
  <2>3. Replying' = Replying
    BY <1>1, <2>1, <2>2 DEF Replying, Exact
  <2> QED BY <1>1, <2>1, <2>3, Stutters
<1>4. CASE PrefillConcat
  <2> DEFINE c == Forward(kv, tokens)
  <2>1. /\ mode = "concat" /\ pc' = "decode"
        /\ tokens' = Append(tokens, Choice(c, 0, promptLen, promptLen))
    BY <1>4 DEF PrefillConcat
  <2>2. c.filled = Ideal(tokens)
    BY <1>1, PromptFed
  <2> HIDE DEF c
  <2>3. Ideal(tokens) \in Seq(Entry) /\ Len(Ideal(tokens)) = promptLen
    BY <1>2, IdealIsSeq
  <2>4. Choice(c, 0, promptLen, promptLen) = Best(model, tokens)
    BY <2>2, <2>3, SubSeqFull DEF Choice, Best, Sees
  <2>5. Exact /\ Replying
    BY <1>1, <2>1 DEF Exact, ExactModes, CachedModes, Replying
  <2> QED BY <1>1, <2>1, <2>4, <2>5, Emits DEF Greedy!Next
<1>5. CASE PrefillSpeculative \/ PrefillLibrary
  <2>1. ~Exact
    BY <1>5 DEF PrefillSpeculative, PrefillLibrary, Exact, ExactModes, CachedModes
  <2> QED BY <1>1, <2>1, Stutters
<1>6. CASE PrefillChunk
  <2> DEFINE c == ForwardPaged(paged, SubSeq(tokens, off + 1, off + Chunk))
             past == off + Chunk
  <2>1. /\ mode \in PagedModes /\ CanReserve(paged, Chunk)
        /\ IF past < promptLen
           THEN UNCHANGED <<pc, tokens>>
           ELSE pc' = "decode" /\ tokens' = Append(tokens, Target(model, View(c)))
    BY <1>6 DEF PrefillChunk, PagedModes
  <2>2. past \in Nat /\ past <= promptLen
    BY <1>1, <1>2, ChunkFits
  <2>3. View(c) = Ideal(SubSeq(tokens, 1, past)) /\ (past = promptLen => SubSeq(tokens, 1, past) = tokens)
    BY <1>1, <2>1, ChunkFed
  <2> HIDE DEF c, past
  <2>4. CASE mode = "graph"
    <3>1. ~Exact
      BY <2>4 DEF Exact, ExactModes, CachedModes
    <3> QED BY <1>1, <3>1, Stutters
  <2>5. CASE past < promptLen
    <3>1. Replying' = Replying
      BY <1>1, <2>1, <2>5 DEF Replying, Exact
    <3> QED BY <1>1, <2>1, <2>5, <3>1, Stutters
  <2>6. CASE mode = "paged" /\ past = promptLen
    <3>1. pc' = "decode" /\ tokens' = Append(tokens, Best(model, tokens))
      <4>1. View(c) = Ideal(tokens)
        BY <2>3, <2>6
      <4>2. ~(past < promptLen)
        BY <1>2, <2>6
      <4> QED BY <2>1, <4>1, <4>2 DEF Best
    <3>2. Exact /\ Replying
      BY <1>1, <2>6 DEF Exact, ExactModes, CachedModes, Replying
    <3> QED BY <1>1, <3>1, <3>2, Emits DEF Greedy!Next
  <2> QED BY <1>2, <2>1, <2>2, <2>4, <2>5, <2>6 DEF PagedModes
<1> QED BY <1>3, <1>4, <1>5, <1>6 DEF Prefill

LEMMA StepIsGreedy ==
  ASSUME IInv, Step
  PROVE  [Greedy!Next]_(Greedy!vars)
<1>1. UNCHANGED <<mode, model, maxTotal>>
  BY DEF Step, StepFull, StepConcat, StepPaged, Capture, Replay, StepMtp, StepTree, StepDraft,
         StepLibrary, config, turn
<1>2. CASE StepFull
  <2>1. /\ Exact /\ Replying /\ pc' = "decode"
        /\ tokens' = Append(tokens, Best(model, tokens))
    BY <1>2 DEF StepFull, Exact, ExactModes, Replying
  <2> QED BY <1>1, <2>1, Emits DEF Greedy!Next
<1>3. CASE StepConcat
  <2>1. /\ mode = "concat" /\ pc = "decode" /\ MoreToDo /\ pc' = "decode"
        /\ tokens' = Append(tokens, Choice(Forward(kv, <<Back>>), Len(kv.filled), 1, 1))
    BY <1>3 DEF StepConcat
  <2>2. tokens' = Append(tokens, Best(model, tokens))
    BY <2>1, ConcatFed
  <2>3. Exact /\ Replying
    BY <2>1 DEF Exact, ExactModes, CachedModes, Replying
  <2> QED BY <1>1, <2>1, <2>2, <2>3, Emits DEF Greedy!Next
<1>4. CASE StepPaged /\ mode = "paged"
  <2>1. /\ pc = "decode" /\ MoreToDo /\ CanReserve(paged, 1) /\ pc' = "decode"
        /\ tokens' = Append(tokens, Target(model, View(ForwardPaged(paged, <<Back>>))))
    BY <1>4 DEF StepPaged
  <2>2. View(ForwardPaged(paged, <<Back>>)) = Ideal(tokens)
    BY <1>4, <2>1, PagedFed DEF PagedModes
  <2>3. tokens' = Append(tokens, Best(model, tokens))
    BY <2>1, <2>2 DEF Best
  <2>4. Exact /\ Replying
    BY <1>4, <2>1 DEF Exact, ExactModes, CachedModes, Replying
  <2> QED BY <1>1, <2>1, <2>3, <2>4, Emits DEF Greedy!Next
<1>5. CASE \/ StepPaged /\ mode = "graph"
           \/ Capture \/ Replay \/ StepMtp \/ StepTree \/ StepDraft \/ StepLibrary
  <2>1. mode \in {"graph", "mtp", "tree", "draft", "library"}
    <3>1. CASE Replay
      BY <3>1 DEF IInv, Decoding, Replay
    <3>2. CASE ~Replay
      BY <1>5, <3>2 DEF Capture, StepMtp, StepTree, StepDraft, StepLibrary
    <3> QED BY <3>1, <3>2
  <2>2. ~Exact
    BY <2>1 DEF Exact, ExactModes, CachedModes
  <2> QED BY <1>1, <2>2, Stutters
<1>6. StepPaged => mode \in {"paged", "graph"}
  BY DEF StepPaged
<1> QED BY <1>2, <1>3, <1>4, <1>5, <1>6 DEF Step

LEMMA OutOfPagesIsGreedy ==
  ASSUME IInv, OutOfPages
  PROVE  [Greedy!Next]_(Greedy!vars)
<1>1. /\ UNCHANGED <<mode, model, tokens, maxTotal>> /\ pc' = "failed"
      /\ mode \in {"paged", "graph"}
      /\ pc = "prefill" \/ (pc \in {"decode", "replay"} /\ MoreToDo)
      /\ pc = "replay" => mode = "graph"
  BY DEF OutOfPages, config, turn, IInv, Decoding
<1>2. CASE mode = "paged"
  <2>1. Exact /\ Exact' /\ Replying /\ ~Replying'
    BY <1>1, <1>2 DEF Exact, ExactModes, CachedModes, Replying
  <2>2. Greedy!Fail
    BY <1>1, <2>1 DEF Greedy!Fail, Replying
  <2> QED BY <2>2 DEF Greedy!Next
<1>3. CASE mode = "graph"
  <2>1. ~Exact
    BY <1>3 DEF Exact, ExactModes, CachedModes
  <2> QED BY <1>1, <2>1, Stutters
<1> QED BY <1>1, <1>2, <1>3

LEMMA NextIsGreedy == IInv /\ [Next]_vars => [Greedy!Next]_(Greedy!vars)
<1> SUFFICES ASSUME IInv, [Next]_vars PROVE [Greedy!Next]_(Greedy!vars)
  OBVIOUS
<1>1. CASE Repl \/ EndTurn
  BY <1>1, ReplIsGreedy DEF Repl
<1>2. CASE Prefill
  BY <1>2, PrefillIsGreedy
<1>3. CASE Step
  BY <1>3, StepIsGreedy
<1>4. CASE OutOfPages
  BY <1>4, OutOfPagesIsGreedy
<1>5. CASE UNCHANGED vars
  <2>1. UNCHANGED <<mode, model, pc, tokens, maxTotal, current>>
    BY <1>5 DEF vars, config, turn
  <2>2. Replying' = Replying
    BY <2>1 DEF Replying, Exact, MoreToDo, Room, Stopped, Back
  <2> QED BY <2>1, <2>2, Stutters
<1> QED BY <1>1, <1>2, <1>3, <1>4, <1>5 DEF Next, Generate

(* Decoding without a cache, over KVCache and over PagedKVCache gives the  *)
(* reply of the same abstract program: one best token after the other,     *)
(* each chosen after all the tokens before it, up to the end token or the  *)
(* limit - for every page size, number of pages, chunk size and model.     *)
THEOREM LoopIsGreedy == TargetTyped /\ Spec => ImplementsGreedyDecoding
<1>1. Init => Greedy!Init
  BY InitIsGreedy
<1>2. IInv /\ [Next]_vars => [Greedy!Next]_(Greedy!vars)
  BY NextIsGreedy
<1> QED BY <1>1, <1>2, GenerationSound, PTL DEF Spec, ImplementsGreedyDecoding, Greedy!Spec
=============================================================================
