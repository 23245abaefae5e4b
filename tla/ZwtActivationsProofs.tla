------------------------- MODULE ZwtActivationsProofs -------------------------
(***************************************************************************)
(* Proofs about zwt's scratch memory.  First what alloc() and free() do to *)
(* an arena and the blocks it has handed out; then ZwtArena, for any       *)
(* capacity, alignment, number of tensors and sizes of requests; then      *)
(* ZwtActivations, for any number of layers and any shape.                 *)
(***************************************************************************)
EXTENDS ZwtActivations, WellFoundedInduction, SequencesExt, TLAPS

(* Every nonempty set of natural numbers has a least element.              *)
Before == {p \in Nat \X Nat : p[1] < p[2]}

LEMMA LeastNatural ==
  ASSUME NEW S, S \subseteq Nat, S # {}
  PROVE  \E m \in S : \A n \in S : m <= n
<1>1. OpToRel(<, Nat) = Before
  BY DEF OpToRel, Before
<1>2. IsWellFoundedOn(Before, Nat)
  BY <1>1, NatLessThanWellFounded
<1>3. PICK m \in S : \A n \in S : <<n, m>> \notin Before
  BY <1>2, WFMin
<1>4. ASSUME NEW n \in S PROVE m <= n
  <2>1. m \in Nat /\ n \in Nat /\ ~(n < m)
    BY <1>3 DEF Before
  <2> QED BY <2>1
<1> QED BY <1>3, <1>4

(* Rounding up to the alignment never moves an offset down. *)
LEMMA AlignUpAbove ==
  ASSUME NEW v \in Nat
  PROVE  AlignUp(v) \in Nat /\ AlignUp(v) >= v
<1> DEFINE n == v + Alignment - 1
           q == n \div Alignment
           r == n % Alignment
<1>1. n \in Nat /\ Alignment \in Nat \ {0}
  BY ArenaAssumption DEF Positive
<1>2. q \in Nat /\ r \in 0 .. Alignment - 1 /\ n = Alignment * q + r
  <2> HIDE DEF n
  <2> QED BY <1>1
<1>3. q * Alignment = Alignment * q /\ q * Alignment \in Nat
  <2> HIDE DEF q
  <2> QED BY <1>1, <1>2
<1>4. q * Alignment >= v
  <2> DEFINE m == q * Alignment
  <2>1. m = Alignment * q /\ m \in Nat
    BY <1>3
  <2>2. n = m + r
    BY <1>2, <2>1
  <2> HIDE DEF m, r, q
  <2> QED BY <1>1, <1>2, <2>1, <2>2
<1>5. AlignUp(v) = q * Alignment
  BY DEF AlignUp
<1> QED BY <1>3, <1>4, <1>5

(* The best-fit scan finds an entry whenever one fits. *)
LEMMA BestFitFits ==
  ASSUME NEW a, a.free \in Seq(Blocks), NEW bytes \in Nat, Fitting(a, bytes) # {}
  PROVE  BestFit(a, bytes) \in Fitting(a, bytes)
<1> DEFINE F == Fitting(a, bytes)
           U == {Usable(a.free[i]) : i \in F}
<1>1. \A i \in F : i \in Nat /\ Usable(a.free[i]) \in Int /\ Usable(a.free[i]) >= bytes
  <2> SUFFICES ASSUME NEW i \in F PROVE i \in Nat /\ Usable(a.free[i]) \in Int /\ Usable(a.free[i]) >= bytes
    OBVIOUS
  <2>1. i \in DOMAIN a.free /\ Usable(a.free[i]) >= bytes
    BY DEF Fitting
  <2>2. a.free[i] \in Blocks
    BY <2>1
  <2>3. a.free[i].off \in Nat /\ a.free[i].size \in Nat
    BY <2>2, ArenaAssumption DEF Blocks
  <2>4. AlignUp(a.free[i].off) \in Nat
    BY <2>3, AlignUpAbove
  <2> QED BY <2>1, <2>3, <2>4 DEF Usable
<1>2. U \subseteq Nat /\ U # {}
  BY <1>1
<1>3. PICK u \in U : \A w \in U : u <= w
  <2> HIDE DEF U
  <2> QED BY <1>2, LeastNatural
<1> DEFINE M == {i \in F : Usable(a.free[i]) = u}
<1>5. M \subseteq Nat /\ M # {}
  BY <1>1
<1>6. PICK i \in M : \A j \in M : i <= j
  <2> HIDE DEF M
  <2> QED BY <1>5, LeastNatural
<1>7. \A j \in F : \/ Usable(a.free[i]) < Usable(a.free[j])
                   \/ Usable(a.free[i]) = Usable(a.free[j]) /\ i <= j
  <2> SUFFICES ASSUME NEW j \in F
               PROVE  \/ Usable(a.free[i]) < Usable(a.free[j])
                      \/ Usable(a.free[i]) = Usable(a.free[j]) /\ i <= j
    OBVIOUS
  <2>1. Usable(a.free[i]) = u /\ u \in Nat /\ Usable(a.free[j]) \in U
    BY <1>2
  <2>2. CASE Usable(a.free[j]) = u
    BY <1>6, <2>1, <2>2
  <2>3. CASE Usable(a.free[j]) # u
    <3>1. Usable(a.free[j]) \in Nat /\ u <= Usable(a.free[j])
      BY <1>2, <1>3, <2>1
    <3> HIDE DEF U
    <3> QED BY <2>1, <2>3, <3>1
  <2> QED BY <2>2, <2>3
<1> DEFINE P(e) == \A j \in F : \/ Usable(a.free[e]) < Usable(a.free[j])
                                \/ Usable(a.free[e]) = Usable(a.free[j]) /\ e <= j
<1>8. i \in F /\ P(i)
  BY <1>7
<1>9. BestFit(a, bytes) = CHOOSE e \in F : P(e)
  BY DEF BestFit
<1> HIDE DEF F, P
<1>10. (CHOOSE e \in F : P(e)) \in F
  BY <1>8
<1> QED BY <1>9, <1>10 DEF F

(* What is left of a sequence after RemoveAt: no entry is new. *)
LEMMA RemoveAtKeeps ==
  ASSUME NEW S, NEW s \in Seq(S), NEW i \in DOMAIN s
  PROVE  /\ RemoveAt(s, i) \in Seq(S)
         /\ DOMAIN RemoveAt(s, i) = 1 .. Len(s) - 1
         /\ \A k \in 1 .. Len(s) - 1 : RemoveAt(s, i)[k] = s[IF k < i THEN k ELSE k + 1]
<1> DEFINE l == SubSeq(s, 1, i - 1)
           h == SubSeq(s, i + 1, Len(s))
<1>1. i \in 1 .. Len(s) /\ Len(s) \in Nat
  OBVIOUS
<1>2. l \in Seq(S) /\ Len(l) = i - 1 /\ \A k \in 1 .. i - 1 : l[k] = s[k]
  BY <1>1
<1>3. h \in Seq(S) /\ Len(h) = Len(s) - i /\ \A k \in 1 .. Len(s) - i : h[k] = s[k + i]
  BY <1>1
<1> HIDE DEF l, h
<1>4. RemoveAt(s, i) = l \o h
  BY DEF RemoveAt, l, h
<1>5. l \o h \in Seq(S) /\ Len(l \o h) = Len(s) - 1
  BY <1>1, <1>2, <1>3
<1>6. \A k \in 1 .. Len(s) - 1 : (l \o h)[k] = s[IF k < i THEN k ELSE k + 1]
  <2> SUFFICES ASSUME NEW k \in 1 .. Len(s) - 1
               PROVE  (l \o h)[k] = s[IF k < i THEN k ELSE k + 1]
    OBVIOUS
  <2>1. CASE k < i
    BY <1>1, <1>2, <1>3, <2>1
  <2>2. CASE k >= i
    <3>1. (l \o h)[k] = h[k - (i - 1)]
      BY <1>1, <1>2, <1>3, <2>2
    <3>2. k - (i - 1) \in 1 .. Len(s) - i /\ (k - (i - 1)) + i = k + 1
      BY <1>1, <2>2
    <3> QED BY <1>1, <1>3, <2>2, <3>1, <3>2
  <2>3. k < i \/ k >= i
    BY <1>1
  <2> QED BY <2>1, <2>2, <2>3
<1> QED BY <1>4, <1>5, <1>6

-----------------------------------------------------------------------------
(* An arena a and the blocks f that are in use, by owner: no byte is used  *)
(* twice, in blocks or on the free list, and all of them are below the     *)
(* bump pointer.  No freed block is empty: an empty one could lie on the   *)
(* pointer when it is retracted over it.                                   *)
Sound(a, f) ==
  /\ a \in [offset : 0 .. Capacity, free : Seq(Blocks)]
  /\ \A t \in DOMAIN f : f[t] \in Blocks /\ f[t].size > 0 /\ Below(a, f[t])
  /\ \A t, u \in DOMAIN f : t # u => Disjoint(f[t], f[u])
  /\ \A i \in DOMAIN a.free :
       /\ a.free[i].size > 0 /\ Below(a, a.free[i])
       /\ \A t \in DOMAIN f : Disjoint(a.free[i], f[t])
  /\ \A i, j \in DOMAIN a.free : i # j => Disjoint(a.free[i], a.free[j])

(* What alloc() returns is a block of its own, and what it leaves on the   *)
(* free list was there before and is clear of that block.                  *)
AllocGives(a, f, b, r) ==
  /\ r \in [offset : 0 .. Capacity, free : Seq(Blocks)]
  /\ b \in Blocks /\ Below(r, b) /\ r.offset >= a.offset
  /\ \A t \in DOMAIN f : Disjoint(b, f[t])
  /\ \A k \in DOMAIN r.free : Disjoint(b, r.free[k])
  /\ \A k \in DOMAIN r.free : \E i \in DOMAIN a.free : r.free[k] = a.free[i]
  /\ \A k, m \in DOMAIN r.free : k # m => Disjoint(r.free[k], r.free[m])

(* What is clear of a block is clear of every block inside it. *)
LEMMA InsideDisjoint ==
  ASSUME NEW b, NEW e, NEW c,
         b.off \in Nat, b.size \in Nat, e.off \in Nat, e.size \in Nat, c.off \in Nat, c.size \in Nat,
         e.off <= b.off, b.off + b.size <= e.off + e.size, Disjoint(e, c)
  PROVE  Disjoint(b, c)
BY DEF Disjoint

(* Sizes and offsets of blocks are numbers. *)
LEMMA BlockNumbers ==
  /\ Capacity \in Nat
  /\ \A b \in Blocks : b.off \in Nat /\ b.size \in Nat
BY ArenaAssumption DEF Blocks

(* Taking an entry of the free list whole. *)
LEMMA AllocFromList ==
  ASSUME NEW a, NEW g, Sound(a, g), NEW bytes \in Positive, Fitting(a, bytes) # {}
  PROVE  AllocGives(a, g, [off |-> AllocOff(a, bytes), size |-> bytes], Alloc(a, bytes))
<1> DEFINE f == a.free
           i == BestFit(a, bytes)
           e == f[i]
           b == [off |-> AlignUp(e.off), size |-> bytes]
           r == [a EXCEPT !.free = RemoveAt(f, i)]
<1>1. f \in Seq(Blocks) /\ a.offset \in 0 .. Capacity /\ bytes \in Nat /\ Capacity \in Nat
  BY BlockNumbers DEF Sound, Positive
<1>2. i \in DOMAIN f /\ Usable(e) >= bytes
  BY <1>1, BestFitFits DEF Fitting
<1>3. e \in Blocks /\ e.off \in Nat /\ e.size \in Nat
  <2>1. e \in Blocks
    BY <1>1, <1>2
  <2> HIDE DEF e
  <2> QED BY <1>1, <2>1 DEF Blocks
<1>4. AlignUp(e.off) \in Nat /\ AlignUp(e.off) >= e.off
  BY <1>3, AlignUpAbove
<1>5. AlignUp(e.off) + bytes <= e.off + e.size
  BY <1>1, <1>2, <1>3, <1>4 DEF Usable
<1>6. e.off + e.size <= a.offset
  BY <1>2 DEF Sound, Below
<1>7. \A t \in DOMAIN g : Disjoint(e, g[t])
  BY <1>2 DEF Sound
<1>8. \A j \in DOMAIN f : j # i => Disjoint(e, f[j])
  BY <1>2 DEF Sound
<1>9. \A c \in Blocks : Disjoint(e, c) => Disjoint(b, c)
  <2> SUFFICES ASSUME NEW c \in Blocks, Disjoint(e, c) PROVE Disjoint(b, c)
    OBVIOUS
  <2>1. c.off \in Nat /\ c.size \in Nat
    BY BlockNumbers
  <2>2. b.off = AlignUp(e.off) /\ b.size = bytes
    OBVIOUS
  <2> HIDE DEF b, e
  <2> QED BY <1>1, <1>3, <1>4, <1>5, <2>1, <2>2, InsideDisjoint
<1>10. b \in Blocks
  BY <1>1, <1>3, <1>4, <1>5, <1>6 DEF Blocks
<1>11. /\ RemoveAt(f, i) \in Seq(Blocks)
       /\ DOMAIN RemoveAt(f, i) = 1 .. Len(f) - 1
       /\ \A k \in 1 .. Len(f) - 1 : RemoveAt(f, i)[k] = f[IF k < i THEN k ELSE k + 1]
  BY <1>1, <1>2, RemoveAtKeeps
<1>12. /\ r \in [offset : 0 .. Capacity, free : Seq(Blocks)]
       /\ r.offset = a.offset /\ r.free = RemoveAt(f, i)
  BY <1>1, <1>11 DEF Sound
<1> DEFINE Old(k) == IF k < i THEN k ELSE k + 1
<1>13. \A k \in DOMAIN r.free : Old(k) \in DOMAIN f /\ Old(k) # i /\ r.free[k] = f[Old(k)]
  <2>1. DOMAIN f = 1 .. Len(f) /\ Len(f) \in Nat /\ i \in 1 .. Len(f)
    BY <1>1, <1>2
  <2> HIDE DEF f, i, r
  <2> QED BY <1>11, <1>12, <2>1
<1>14. \A k, m \in DOMAIN r.free : k # m => Old(k) # Old(m)
  <2>1. DOMAIN f = 1 .. Len(f) /\ Len(f) \in Nat /\ i \in 1 .. Len(f)
    BY <1>1, <1>2
  <2> HIDE DEF f, i, r
  <2> QED BY <1>11, <1>12, <2>1
<1>15. \A t \in DOMAIN g : g[t] \in Blocks
  BY DEF Sound
<1>16. \A j \in DOMAIN f : f[j] \in Blocks
  BY <1>1
<1>17. \A j, k \in DOMAIN f : j # k => Disjoint(f[j], f[k])
  BY DEF Sound
<1> HIDE DEF f, i, e, b, r, Old
<1>18. \A t \in DOMAIN g : Disjoint(b, g[t])
  BY <1>7, <1>9, <1>15
<1>19. \A k \in DOMAIN r.free : Disjoint(b, r.free[k])
  BY <1>8, <1>9, <1>13, <1>16
<1>20. \A k, m \in DOMAIN r.free : k # m => Disjoint(r.free[k], r.free[m])
  BY <1>13, <1>14, <1>17
<1>21. Below(r, b)
  BY <1>1, <1>3, <1>4, <1>5, <1>6, <1>12 DEF Below, b
<1>22. AllocGives(a, g, b, r)
  BY <1>1, <1>10, <1>12, <1>13, <1>18, <1>19, <1>20, <1>21 DEF AllocGives, f
<1>23. [off |-> AllocOff(a, bytes), size |-> bytes] = b /\ Alloc(a, bytes) = r
  BY DEF AllocOff, Alloc, b, r, e, f, i
<1> QED BY <1>22, <1>23

(* Bumping the pointer past its alignment. *)
LEMMA AllocByBump ==
  ASSUME NEW a, NEW f, Sound(a, f), NEW bytes \in Positive, Fitting(a, bytes) = {}, CanBump(a, bytes)
  PROVE  AllocGives(a, f, [off |-> AllocOff(a, bytes), size |-> bytes], Alloc(a, bytes))
<1> DEFINE b == [off |-> AlignUp(a.offset), size |-> bytes]
           r == [a EXCEPT !.offset = AlignUp(a.offset) + bytes]
<1>1. a.free \in Seq(Blocks) /\ a.offset \in Nat /\ bytes \in Nat /\ Capacity \in Nat
  BY BlockNumbers DEF Sound, Positive
<1>2. AlignUp(a.offset) \in Nat /\ AlignUp(a.offset) >= a.offset
  BY <1>1, AlignUpAbove
<1>3. AlignUp(a.offset) + bytes <= Capacity
  BY DEF CanBump
<1>4. /\ r \in [offset : 0 .. Capacity, free : Seq(Blocks)]
      /\ r.offset = AlignUp(a.offset) + bytes /\ r.free = a.free
  BY <1>1, <1>2, <1>3 DEF Sound
<1>5. b \in Blocks /\ Below(r, b) /\ r.offset >= a.offset
  BY <1>1, <1>2, <1>3, <1>4 DEF Blocks, Below
<1>6. ASSUME NEW c \in Blocks, Below(a, c) PROVE Disjoint(b, c)
  <2>1. c.off \in Nat /\ c.size \in Nat /\ c.off + c.size <= a.offset
    BY <1>6, BlockNumbers DEF Below
  <2> QED BY <1>1, <1>2, <2>1 DEF Disjoint
<1>7. \A t \in DOMAIN f : f[t] \in Blocks /\ Below(a, f[t])
  BY DEF Sound
<1>8. \A k \in DOMAIN a.free : a.free[k] \in Blocks /\ Below(a, a.free[k])
  BY <1>1 DEF Sound
<1>9. \A j, k \in DOMAIN a.free : j # k => Disjoint(a.free[j], a.free[k])
  BY DEF Sound
<1> HIDE DEF b, r
<1>10. AllocGives(a, f, b, r)
  BY <1>4, <1>5, <1>6, <1>7, <1>8, <1>9 DEF AllocGives
<1>11. [off |-> AllocOff(a, bytes), size |-> bytes] = b /\ Alloc(a, bytes) = r
  BY DEF AllocOff, Alloc, b, r
<1> QED BY <1>10, <1>11

(* alloc() for a new owner keeps the arena sound. *)
LEMMA AllocSound ==
  ASSUME NEW a, NEW f, Sound(a, f), NEW bytes \in Positive, CanAlloc(a, bytes),
         NEW g, NEW t, DOMAIN g = DOMAIN f \cup {t},
         g[t] = [off |-> AllocOff(a, bytes), size |-> bytes],
         \A u \in DOMAIN f : u # t => g[u] = f[u]
  PROVE  Sound(Alloc(a, bytes), g)
<1> DEFINE b == [off |-> AllocOff(a, bytes), size |-> bytes]
           r == Alloc(a, bytes)
<1>1. AllocGives(a, f, b, r)
  BY AllocFromList, AllocByBump DEF CanAlloc
<1>2. bytes \in Nat /\ bytes > 0 /\ b.size = bytes
  BY DEF Positive
<1>3. g[t] = b
  OBVIOUS
<1> HIDE DEF b, r
<1>4. \A u \in DOMAIN f : f[u] \in Blocks /\ f[u].size > 0 /\ Below(a, f[u])
  BY DEF Sound
<1>5. a.offset \in Nat /\ r.offset \in Nat /\ r.offset >= a.offset
  <2>1. a.offset \in 0 .. Capacity /\ r.offset \in 0 .. Capacity
    BY <1>1 DEF Sound, AllocGives
  <2> QED BY <1>1, <2>1, BlockNumbers DEF AllocGives
<1>6. \A c \in Blocks : Below(a, c) => Below(r, c)
  BY <1>5, BlockNumbers DEF Below
<1>7. \A u \in DOMAIN g : g[u] \in Blocks /\ g[u].size > 0 /\ Below(r, g[u])
  BY <1>1, <1>2, <1>3, <1>4, <1>6 DEF AllocGives
<1>8. \A u \in DOMAIN f : Disjoint(b, f[u]) /\ Disjoint(f[u], b)
  BY <1>1 DEF AllocGives, Disjoint
<1>9. \A u, v \in DOMAIN g : u # v => Disjoint(g[u], g[v])
  <2>1. \A u, v \in DOMAIN f : u # v => Disjoint(f[u], f[v])
    BY DEF Sound
  <2> QED BY <1>3, <1>8, <2>1
<1>10. ASSUME NEW k \in DOMAIN r.free
       PROVE  /\ r.free[k].size > 0 /\ Below(r, r.free[k])
              /\ \A u \in DOMAIN g : Disjoint(r.free[k], g[u])
  <2>1. PICK i \in DOMAIN a.free : r.free[k] = a.free[i]
    BY <1>1 DEF AllocGives
  <2>2. /\ a.free[i] \in Blocks /\ a.free[i].size > 0 /\ Below(a, a.free[i])
        /\ \A u \in DOMAIN f : Disjoint(a.free[i], f[u])
    BY DEF Sound
  <2>3. Disjoint(r.free[k], b)
    BY <1>1 DEF AllocGives, Disjoint
  <2> QED BY <1>3, <1>6, <2>1, <2>2, <2>3
<1>11. Sound(r, g)
  BY <1>1, <1>7, <1>9, <1>10 DEF Sound, AllocGives
<1> QED BY <1>11 DEF r

(* free() of one owner's block keeps the arena sound for the others. *)
LEMMA FreeSound ==
  ASSUME NEW a, NEW f, Sound(a, f), NEW t \in DOMAIN f,
         NEW g, DOMAIN g = DOMAIN f \ {t}, \A u \in DOMAIN g : g[u] = f[u]
  PROVE  Sound(Free(a, f[t]), g)
<1> DEFINE b == f[t]
           r == Free(a, b)
<1>1. /\ a \in [offset : 0 .. Capacity, free : Seq(Blocks)] /\ Capacity \in Nat
      /\ a.free \in Seq(Blocks) /\ a.offset \in Nat /\ a.offset <= Capacity
  BY BlockNumbers DEF Sound
<1>2. b \in Blocks /\ b.off \in Nat /\ b.size \in Nat /\ b.size > 0 /\ Below(a, b)
  BY BlockNumbers DEF Sound
<1>3. /\ \A u \in DOMAIN g : /\ g[u] \in Blocks /\ g[u].off \in Nat /\ g[u].size \in Nat
                           /\ g[u].size > 0 /\ Below(a, g[u]) /\ Disjoint(b, g[u]) /\ Disjoint(g[u], b)
      /\ \A u, v \in DOMAIN g : u # v => Disjoint(g[u], g[v])
  BY BlockNumbers DEF Sound
<1>4. \A k \in DOMAIN a.free : /\ a.free[k] \in Blocks /\ a.free[k].off \in Nat
                               /\ a.free[k].size \in Nat /\ a.free[k].size > 0
                               /\ Below(a, a.free[k]) /\ Disjoint(a.free[k], b)
                               /\ Disjoint(b, a.free[k])
                               /\ \A u \in DOMAIN g : Disjoint(a.free[k], g[u])
  <2>1. \A k \in DOMAIN a.free : a.free[k] \in Blocks
    BY <1>1
  <2>2. \A c : Disjoint(c, b) => Disjoint(b, c)
    BY DEF Disjoint
  <2> QED BY <2>1, <2>2, BlockNumbers DEF Sound
<1>5. \A i, j \in DOMAIN a.free : i # j => Disjoint(a.free[i], a.free[j])
  BY DEF Sound
<1> HIDE DEF b
<1>6. CASE b.off + b.size = a.offset
  <2>1. r = [a EXCEPT !.offset = b.off]
    BY <1>6 DEF Free
  <2>2. r.offset = b.off /\ r.free = a.free
    BY <1>1, <2>1
  <2>3. \A c : c.off \in Nat /\ c.size \in Nat /\ c.size > 0 /\ Below(a, c) /\ Disjoint(b, c)
               => Below(r, c)
    BY <1>1, <1>2, <1>6, <2>2 DEF Below, Disjoint
  <2>4. r \in [offset : 0 .. Capacity, free : Seq(Blocks)]
    BY <1>1, <1>2, <2>1 DEF Blocks
  <2> HIDE DEF r
  <2>5. Sound(r, g)
    BY <1>3, <1>4, <1>5, <2>2, <2>3, <2>4 DEF Sound
  <2> QED BY <2>5 DEF r, b
<1>7. CASE b.off + b.size # a.offset
  <2>1. r = [a EXCEPT !.free = Append(a.free, b)]
    BY <1>7 DEF Free
  <2>2. r.offset = a.offset /\ r.free = Append(a.free, b)
    BY <1>1, <2>1
  <2> DEFINE n == Len(a.free) + 1
             h == r.free
  <2>3. /\ h \in Seq(Blocks) /\ DOMAIN h = DOMAIN a.free \cup {n} /\ n \notin DOMAIN a.free
        /\ h[n] = b /\ \A k \in DOMAIN a.free : h[k] = a.free[k]
    BY <1>1, <1>2, <2>2
  <2>4. r \in [offset : 0 .. Capacity, free : Seq(Blocks)]
    BY <1>1, <1>2, <2>1, <2>2, <2>3
  <2>5. \A c : Below(a, c) => Below(r, c)
    BY <2>2 DEF Below
  <2> HIDE DEF r, h, n
  <2>6. \A k \in DOMAIN h : /\ h[k].size > 0 /\ Below(r, h[k])
                            /\ \A u \in DOMAIN g : Disjoint(h[k], g[u])
    BY <1>2, <1>3, <1>4, <2>3, <2>5
  <2>7. \A i, j \in DOMAIN h : i # j => Disjoint(h[i], h[j])
    BY <1>4, <1>5, <2>3
  <2>8. Sound(r, g)
    BY <1>3, <2>4, <2>5, <2>6, <2>7 DEF Sound, h
  <2> QED BY <2>8 DEF r, b
<1> QED BY <1>6, <1>7

(* An arena that was reset has nothing handed out. *)
LEMMA EmptySound == ASSUME NEW f, DOMAIN f = {} PROVE Sound(EmptyArena, f)
<1>1. EmptyArena = [offset |-> 0, free |-> << >>] /\ Capacity \in Nat
  BY BlockNumbers DEF EmptyArena
<1>2. DOMAIN EmptyArena.free = {} /\ EmptyArena \in [offset : 0 .. Capacity, free : Seq(Blocks)]
  BY <1>1
<1> QED BY <1>2 DEF Sound

-----------------------------------------------------------------------------
(* ZwtArena: the arena under any sequence of calls.  Its calls are those   *)
(* of Arena; its tensors and the bound on its requests are named here.     *)
CONSTANTS Tensors, MaxBytes

Calls == INSTANCE ZwtArena

AInv == Live \subseteq Tensors /\ own \in [Live -> Blocks] /\ Sound(arena, own)

(* A tensor that gets a block and one that gives its block back: the other *)
(* tensors keep theirs.                                                    *)
LEMMA PutIs ==
  ASSUME NEW f, NEW t, NEW b
  PROVE  /\ DOMAIN Put(f, t, b) = DOMAIN f \cup {t} /\ Put(f, t, b)[t] = b
         /\ \A u \in DOMAIN f : u # t => Put(f, t, b)[u] = f[u]
BY DEF Put

LEMMA CutIs ==
  ASSUME NEW f, NEW t
  PROVE  DOMAIN Cut(f, t) = DOMAIN f \ {t} /\ \A u \in DOMAIN f \ {t} : Cut(f, t)[u] = f[u]
BY DEF Cut

(* alloc() and free(), as a tensor calls them, keep the arena sound.       *)
LEMMA AllocCallSound ==
  ASSUME Sound(arena, own), NEW t, t \notin Live, NEW bytes \in Positive, AllocCall(t, bytes)
  PROVE  Sound(arena, own)' /\ Live' = Live \cup {t}
<1> DEFINE b == [off |-> AllocOff(arena, bytes), size |-> bytes]
<1>1. CanAlloc(arena, bytes) /\ own' = Put(own, t, b) /\ arena' = Alloc(arena, bytes)
  BY DEF AllocCall
<1>2. /\ DOMAIN own' = DOMAIN own \cup {t} /\ own'[t] = b
      /\ \A u \in DOMAIN own : u # t => own'[u] = own[u]
  <2>1. own' = Put(own, t, b)
    BY <1>1
  <2> HIDE DEF b
  <2> QED BY <2>1 DEF Put
<1>3. Sound(Alloc(arena, bytes), own')
  BY <1>1, <1>2, AllocSound
<1>4. Sound(arena, own)' <=> Sound(arena', own')
  BY DEF Sound, Blocks, Below, Disjoint
<1> QED BY <1>1, <1>2, <1>3, <1>4 DEF Live

LEMMA FreeCallSound ==
  ASSUME Sound(arena, own), NEW t, FreeCall(t)
  PROVE  Sound(arena, own)' /\ Live' = Live \ {t}
<1>1. t \in DOMAIN own /\ arena' = Free(arena, own[t]) /\ own' = Cut(own, t)
  BY DEF FreeCall, Live
<1>2. DOMAIN own' = DOMAIN own \ {t} /\ \A u \in DOMAIN own' : own'[u] = own[u]
  BY <1>1, CutIs
<1>3. Sound(Free(arena, own[t]), own')
  BY <1>1, <1>2, FreeSound
<1>4. Sound(arena, own)' <=> Sound(arena', own')
  BY DEF Sound, Blocks, Below, Disjoint
<1> QED BY <1>1, <1>2, <1>3, <1>4 DEF Live

LEMMA CallsInit == Calls!Init => AInv
<1> SUFFICES ASSUME Calls!Init PROVE AInv
  OBVIOUS
<1>1. arena = EmptyArena /\ own = NoTensors
  BY DEF Calls!Init, Calls!EmptyArena, EmptyArena, Calls!NoTensors, NoTensors
<1>2. DOMAIN own = {}
  BY <1>1 DEF NoTensors
<1>3. own \in [{} -> Blocks]
  BY <1>1 DEF NoTensors
<1> QED BY <1>1, <1>2, <1>3, EmptySound DEF AInv, Live

(* The calls that ZwtArena makes are the ones of Arena. *)
LEMMA CallsAre ==
  ASSUME NEW t, NEW bytes
  PROVE  /\ Calls!AllocCall(t, bytes) => AllocCall(t, bytes)
         /\ Calls!FreeCall(t) => FreeCall(t)
<1>1. \A e : Calls!AlignUp(e) = AlignUp(e)
  BY DEF Calls!AlignUp, AlignUp
<1>2. \A e : Calls!Usable(e) = Usable(e)
  BY <1>1 DEF Calls!Usable, Usable
<1>3. Calls!Fitting(arena, bytes) = Fitting(arena, bytes)
  BY <1>2 DEF Calls!Fitting, Fitting
<1>4. Calls!BestFit(arena, bytes) = BestFit(arena, bytes)
  BY <1>2, <1>3 DEF Calls!BestFit, BestFit
<1>5. Calls!CanAlloc(arena, bytes) <=> CanAlloc(arena, bytes)
  BY <1>1, <1>3 DEF Calls!CanAlloc, CanAlloc, Calls!CanBump, CanBump
<1>6. Calls!AllocOff(arena, bytes) = AllocOff(arena, bytes)
  BY <1>1, <1>3, <1>4 DEF Calls!AllocOff, AllocOff
<1>7. Calls!Alloc(arena, bytes) = Alloc(arena, bytes)
  <2>1. \A s, i : Calls!RemoveAt(s, i) = RemoveAt(s, i)
    BY DEF Calls!RemoveAt, RemoveAt
  <2>2. CASE Fitting(arena, bytes) = {}
    BY <1>1, <1>3, <2>2 DEF Calls!Alloc, Alloc
  <2>3. CASE Fitting(arena, bytes) # {}
    <3>1. /\ Calls!Alloc(arena, bytes)
             = [arena EXCEPT !.free = Calls!RemoveAt(arena.free, Calls!BestFit(arena, bytes))]
          /\ Alloc(arena, bytes) = [arena EXCEPT !.free = RemoveAt(arena.free, BestFit(arena, bytes))]
      BY <1>3, <2>3 DEF Calls!Alloc, Alloc
    <3> QED BY <1>4, <2>1, <3>1
  <2> QED BY <2>2, <2>3
<1>8. Calls!AllocCall(t, bytes) => AllocCall(t, bytes)
  <2>1. \A b : Calls!Put(own, t, b) = Put(own, t, b)
    BY DEF Calls!Put, Put
  <2> QED BY <1>5, <1>6, <1>7, <2>1 DEF Calls!AllocCall, AllocCall
<1>9. Calls!FreeCall(t) => FreeCall(t)
  BY DEF Calls!FreeCall, FreeCall, Calls!Free, Free, Calls!Cut, Cut, Calls!Live, Live
<1> QED BY <1>8, <1>9

LEMMA CallsStep ==
  ASSUME MaxBytes \in Nat
  PROVE  AInv /\ [Calls!Next]_(Calls!vars) => AInv'
<1> SUFFICES ASSUME AInv, [Calls!Next]_(Calls!vars) PROVE AInv'
  OBVIOUS
<1>1. Live \subseteq Tensors /\ Sound(arena, own) /\ Calls!Live = Live
  BY DEF AInv, Calls!Live, Live
<1>2. ASSUME NEW t \in Tensors \ Live, NEW bytes \in 1 .. MaxBytes, Calls!AllocCall(t, bytes)
      PROVE  AInv'
  <2>1. AllocCall(t, bytes)
    BY <1>2, CallsAre
  <2>2. bytes \in Positive
    BY DEF Positive
  <2>3. Sound(arena, own)' /\ Live' = Live \cup {t}
    BY <1>1, <2>1, <2>2, AllocCallSound
  <2>4. own' \in [Live' -> Blocks]
    <3>1. own' = [u \in Live' |-> own'[u]]
      BY <2>1 DEF AllocCall, Put, Live
    <3>2. \A u \in Live' : own'[u] \in Blocks
      BY <2>3 DEF Live, Sound, Blocks
    <3> QED BY <3>1, <3>2
  <2> QED BY <1>1, <2>3, <2>4 DEF AInv, Blocks
<1>3. ASSUME NEW t \in Tensors, Calls!FreeCall(t) PROVE AInv'
  <2>1. FreeCall(t)
    BY <1>3, CallsAre
  <2>2. Sound(arena, own)' /\ Live' = Live \ {t}
    BY <1>1, <2>1, FreeCallSound
  <2>3. own' \in [Live' -> Blocks]
    BY <2>1, <2>2 DEF FreeCall, Cut, Live, Sound, Blocks
  <2> QED BY <1>1, <2>2, <2>3 DEF AInv, Blocks
<1>4. CASE Calls!ResetCall
  <2>1. arena' = EmptyArena /\ own' = own /\ DOMAIN own = {}
    BY <1>1, <1>4 DEF Calls!ResetCall, Calls!EmptyArena, EmptyArena, Live
  <2>2. Sound(EmptyArena, own)
    BY <2>1, EmptySound
  <2>3. Sound(arena, own)'
    BY <2>1, <2>2 DEF Sound, Blocks, Below, Disjoint
  <2> QED BY <2>1, <2>3 DEF AInv, Live, Blocks
<1>5. CASE UNCHANGED Calls!vars
  <2>1. arena' = arena /\ own' = own
    BY <1>5 DEF Calls!vars
  <2> QED BY <1>1, <2>1 DEF AInv, Live, Sound, Blocks, Below, Disjoint
<1> QED BY <1>1, <1>2, <1>3, <1>4, <1>5 DEF Calls!Next

(* Whatever sequence of alloc(), free() and reset() is run, for any sizes  *)
(* and any alignment, the arena stays sound.                               *)
THEOREM ArenaSound ==
  ASSUME MaxBytes \in Nat
  PROVE  Calls!Spec => []AInv
<1>1. AInv /\ [Calls!Next]_(Calls!vars) => AInv'
  BY CallsStep
<1> QED BY CallsInit, <1>1, PTL DEF Calls!Spec

(* What a sound arena promises. *)
LEMMA SoundMeans == Sound(arena, own) => LiveDisjoint /\ LiveBelowOffset /\ FreeListSound
BY DEF Sound, LiveDisjoint, LiveBelowOffset, FreeListSound, Live

(* Two live tensors never share a byte of the arena. *)
THEOREM TensorsDisjoint ==
  ASSUME MaxBytes \in Nat
  PROVE  Calls!Spec => []LiveDisjoint
<1>1. AInv => LiveDisjoint
  BY SoundMeans DEF AInv
<1> QED BY <1>1, ArenaSound, PTL

(* alloc() only hands out blocks inside the arena. *)
THEOREM ArenaTypes ==
  ASSUME MaxBytes \in Nat
  PROVE  Calls!Spec => []Calls!TypeOK
<1>1. AInv => Calls!TypeOK
  BY DEF AInv, Sound, Live, Calls!TypeOK, Calls!Live, Calls!Blocks, Blocks
<1> QED BY <1>1, ArenaSound, PTL

(* Whatever free() retracts, no live block reaches past the bump pointer. *)
THEOREM LiveStaysBelow ==
  ASSUME MaxBytes \in Nat
  PROVE  Calls!Spec => []LiveBelowOffset
<1>1. AInv => LiveBelowOffset
  BY SoundMeans DEF AInv
<1> QED BY <1>1, ArenaSound, PTL

(* The free list holds no byte of a live tensor, and none twice. *)
THEOREM FreeListDisjoint ==
  ASSUME MaxBytes \in Nat
  PROVE  Calls!Spec => []FreeListSound
<1>1. AInv => FreeListSound
  BY SoundMeans DEF AInv
<1> QED BY <1>1, ArenaSound, PTL

-----------------------------------------------------------------------------
(* ZwtActivations: what one instruction does to the tensors that own       *)
(* storage and to the stale ones among them.  s = <<owners, stale owners>>. *)
(* An instruction that could go wrong leads nowhere: a new tensor must not *)
(* be one that is still alive, a moved one must own something, a kernel    *)
(* must write to owners and read nothing stale from them.                  *)
After(O, D) == <<O, D>>

Leads(i, s, r) ==
  \/ i.op = "take" /\ i.t \notin s[1] /\ i.n \in Positive
     /\ r = After(s[1] \cup {i.t}, s[2] \cup {i.t})
  \/ i.op = "assign" /\ i.u \in s[1] /\ i.u \notin s[2] /\ i.t # i.u
     /\ r = After((s[1] \ {i.u}) \cup {i.t}, s[2] \ {i.t})
  \/ i.op = "assign" /\ i.u \in s[1] /\ i.u \in s[2] /\ i.t # i.u
     /\ r = After((s[1] \ {i.u}) \cup {i.t}, (s[2] \ {i.u}) \cup {i.t})
  \/ i.op = "view" /\ i.t \notin s[1] /\ r = s
  \/ i.op = "kernel" /\ i.outs \subseteq s[1] /\ i.ins \cap s[2] = {}
     /\ r = After(s[1], s[2] \ i.outs)
  \/ i.op = "drop" /\ r = After(s[1] \ {i.t}, s[2] \ {i.t})

(* f lists what owners and stale owners there are before, between and      *)
(* after the instructions of seq.                                          *)
Trace(seq, s, r, f) ==
  /\ DOMAIN f = 0 .. Len(seq) /\ f[0] = s /\ f[Len(seq)] = r
  /\ \A k \in 1 .. Len(seq) : Leads(seq[k], f[k - 1], f[k])

(* The instructions of seq run well from s, and lead to r. *)
Good(seq, s, r) == (\E I : seq \in Seq(I)) /\ \E f : Trace(seq, s, r, f)

(* Running one sequence after another. *)
LEMMA Then ==
  ASSUME NEW p, NEW q, NEW s, NEW m, NEW r, Good(p, s, m), Good(q, m, r)
  PROVE  Good(p \o q, s, r)
<1>1. PICK I : p \in Seq(I)
  BY DEF Good
<1>2. PICK J : q \in Seq(J)
  BY DEF Good
<1>3. PICK f : Trace(p, s, m, f)
  BY DEF Good
<1>4. PICK g : Trace(q, m, r, g)
  BY DEF Good
<1> DEFINE a == Len(p)
           b == Len(q)
           pq == p \o q
           h == [k \in 0 .. a + b |-> IF k <= a THEN f[k] ELSE g[k - a]]
<1>5. /\ a \in Nat /\ b \in Nat /\ Len(pq) = a + b /\ pq \in Seq(I \cup J)
      /\ \A k \in 1 .. a : pq[k] = p[k]
      /\ \A k \in a + 1 .. a + b : pq[k] = q[k - a]
  BY <1>1, <1>2
<1>6. f[0] = s /\ f[a] = m /\ \A k \in 1 .. a : Leads(p[k], f[k - 1], f[k])
  BY <1>3 DEF Trace
<1>7. g[0] = m /\ g[b] = r /\ \A k \in 1 .. b : Leads(q[k], g[k - 1], g[k])
  BY <1>4 DEF Trace
<1> HIDE DEF a, b, pq
<1>8. h[0] = s /\ h[a + b] = r /\ DOMAIN h = 0 .. a + b
  BY <1>5, <1>6, <1>7
<1>9. ASSUME NEW k \in 1 .. a + b PROVE Leads(pq[k], h[k - 1], h[k])
  <2>1. CASE k <= a
    <3>1. h[k - 1] = f[k - 1] /\ h[k] = f[k] /\ pq[k] = p[k] /\ k \in 1 .. a
      BY <1>5, <2>1
    <3> QED BY <1>6, <3>1
  <2>2. CASE k > a
    <3>1. k - a \in 1 .. b /\ h[k] = g[k - a] /\ pq[k] = q[k - a]
      BY <1>5, <2>2
    <3>2. h[k - 1] = g[(k - a) - 1]
      <4>1. CASE k - 1 = a
        <5>1. h[k - 1] = f[a] /\ (k - a) - 1 = 0
          BY <1>5, <4>1
        <5> QED BY <1>6, <1>7, <5>1
      <4>2. CASE k - 1 # a
        BY <1>5, <2>2, <4>2
      <4> QED BY <4>1, <4>2
    <3> QED BY <1>7, <3>1, <3>2
  <2> QED BY <1>5, <2>1, <2>2
<1> HIDE DEF h
<1>10. Trace(pq, s, r, h)
  BY <1>5, <1>8, <1>9 DEF Trace
<1> QED BY <1>5, <1>10 DEF Good, pq

(* Running nothing, and running one instruction. *)
LEMMA NothingIsGood == ASSUME NEW s PROVE Good(<< >>, s, s)
<1> DEFINE f == [k \in 0 .. 0 |-> s]
<1>1. << >> \in Seq({}) /\ Len(<< >>) = 0
  OBVIOUS
<1>2. Trace(<< >>, s, s, f)
  BY <1>1 DEF Trace
<1> QED BY <1>1, <1>2 DEF Good

LEMMA OneIsGood == ASSUME NEW i, NEW s, NEW r, Leads(i, s, r) PROVE Good(<<i>>, s, r)
<1> DEFINE f == [k \in 0 .. 1 |-> IF k = 0 THEN s ELSE r]
<1>1. <<i>> \in Seq({i}) /\ Len(<<i>>) = 1 /\ <<i>>[1] = i
  OBVIOUS
<1>2. DOMAIN f = 0 .. 1 /\ f[0] = s /\ f[1] = r
  OBVIOUS
<1> HIDE DEF f
<1>3. Trace(<<i>>, s, r, f)
  <2>1. ASSUME NEW k \in 1 .. 1 PROVE Leads(<<i>>[k], f[k - 1], f[k])
    <3>1. k = 1 /\ k - 1 = 0
      OBVIOUS
    <3> QED BY <1>1, <1>2, <3>1
  <2> QED BY <1>1, <1>2, <2>1 DEF Trace
<1> QED BY <1>1, <1>3 DEF Good

LEMMA TakeOk ==
  ASSUME NEW O, NEW D, NEW t, t \notin O, NEW n \in Positive
  PROVE  Good(Take(t, n), After(O, D), After(O \cup {t}, D \cup {t}))
<1> DEFINE i == [op |-> "take", t |-> t, n |-> n]
<1>1. i.op = "take" /\ i.t = t /\ i.n = n
  OBVIOUS
<1> HIDE DEF i
<1>2. Leads(i, After(O, D), After(O \cup {t}, D \cup {t}))
  BY <1>1 DEF Leads, After
<1> QED BY <1>2, OneIsGood DEF Take, i

LEMMA MoveOk ==
  ASSUME NEW O, NEW D, NEW t, NEW u, u \in O, u \notin D, t # u
  PROVE  Good(Assign(t, u), After(O, D), After((O \ {u}) \cup {t}, D \ {t}))
<1> DEFINE i == [op |-> "assign", t |-> t, u |-> u]
<1>1. i.op = "assign" /\ i.t = t /\ i.u = u
  OBVIOUS
<1> HIDE DEF i
<1>2. Leads(i, After(O, D), After((O \ {u}) \cup {t}, D \ {t}))
  BY <1>1 DEF Leads, After
<1> QED BY <1>2, OneIsGood DEF Assign, i

LEMMA MoveFreshOk ==
  ASSUME NEW O, NEW D, NEW t, NEW u, u \in O, u \in D, t # u
  PROVE  Good(Assign(t, u), After(O, D), After((O \ {u}) \cup {t}, (D \ {u}) \cup {t}))
<1> DEFINE i == [op |-> "assign", t |-> t, u |-> u]
<1>1. i.op = "assign" /\ i.t = t /\ i.u = u
  OBVIOUS
<1> HIDE DEF i
<1>2. Leads(i, After(O, D), After((O \ {u}) \cup {t}, (D \ {u}) \cup {t}))
  BY <1>1 DEF Leads, After
<1> QED BY <1>2, OneIsGood DEF Assign, i

LEMMA ViewOk ==
  ASSUME NEW O, NEW D, NEW t, NEW u, t \notin O
  PROVE  Good(View(t, u), After(O, D), After(O, D))
<1> DEFINE i == [op |-> "view", t |-> t, u |-> u]
<1>1. i.op = "view" /\ i.t = t
  OBVIOUS
<1> HIDE DEF i
<1>2. Leads(i, After(O, D), After(O, D))
  BY <1>1 DEF Leads, After
<1> QED BY <1>2, OneIsGood DEF View, i

LEMMA KernelOk ==
  ASSUME NEW O, NEW D, NEW outs, NEW ins, outs \subseteq O, ins \cap D = {}
  PROVE  Good(Kernel(outs, ins), After(O, D), After(O, D \ outs))
<1> DEFINE i == [op |-> "kernel", outs |-> outs, ins |-> ins]
<1>1. i.op = "kernel" /\ i.outs = outs /\ i.ins = ins
  OBVIOUS
<1> HIDE DEF i
<1>2. Leads(i, After(O, D), After(O, D \ outs))
  BY <1>1 DEF Leads, After
<1> QED BY <1>2, OneIsGood DEF Kernel, i

LEMMA DropOk ==
  ASSUME NEW O, NEW D, NEW t
  PROVE  Good(Drop(t), After(O, D), After(O \ {t}, D \ {t}))
<1> DEFINE i == [op |-> "drop", t |-> t]
<1>1. i.op = "drop" /\ i.t = t
  OBVIOUS
<1> HIDE DEF i
<1>2. Leads(i, After(O, D), After(O \ {t}, D \ {t}))
  BY <1>1 DEF Leads, After
<1> QED BY <1>2, OneIsGood DEF Drop, i

LEMMA ListIs ==
  ASSUME NEW n \in Nat, NEW I, NEW g \in [1 .. n -> I]
  PROVE  g \in Seq(I) /\ Len(g) = n
OBVIOUS

(* The end of a scope: the tensors it names are gone. *)
LEMMA DropsOk ==
  ASSUME NEW O, NEW l, NEW S, NEW names \in Seq(S)
  PROVE  Good(Drops(l, names), After(O, {}),
              After(O \ {<<l, names[i]>> : i \in DOMAIN names}, {}))
<1> DEFINE seq == Drops(l, names)
           Gone(k) == {<<l, names[i]>> : i \in 1 .. k}
           f == [k \in 0 .. Len(names) |-> After(O \ Gone(k), {})]
<1>1. /\ Len(names) \in Nat /\ DOMAIN names = 1 .. Len(names)
      /\ seq = [i \in 1 .. Len(names) |-> [op |-> "drop", t |-> <<l, names[i]>>]]
  BY DEF Drops, Drop
<1>2. (\E I : seq \in Seq(I)) /\ Len(seq) = Len(names)
  <2> DEFINE e(i) == [op |-> "drop", t |-> <<l, names[i]>>]
             I == {e(i) : i \in 1 .. Len(names)}
  <2>1. seq = [i \in 1 .. Len(names) |-> e(i)] /\ \A i \in 1 .. Len(names) : e(i) \in I
    BY <1>1
  <2> HIDE DEF e, I, seq
  <2>2. seq \in [1 .. Len(names) -> I]
    BY <2>1
  <2>3. seq \in Seq(I) /\ Len(seq) = Len(names)
    BY <1>1, <2>2, ListIs
  <2> QED BY <2>3
<1>3. ASSUME NEW k \in 1 .. Len(names) PROVE Leads(seq[k], f[k - 1], f[k])
  <2> DEFINE x == <<l, names[k]>>
  <2>1. seq[k].op = "drop" /\ seq[k].t = x
    BY <1>1
  <2>2. Gone(k) = Gone(k - 1) \cup {x}
    <3>1. 1 .. k = (1 .. (k - 1)) \cup {k}
      BY <1>1
    <3> QED BY <3>1
  <2>3. f[k - 1] = After(O \ Gone(k - 1), {}) /\ f[k] = After(O \ Gone(k), {})
    BY <1>1
  <2> HIDE DEF f, Gone, x, seq
  <2>4. f[k] = After((O \ Gone(k - 1)) \ {x}, {})
    <3>1. O \ Gone(k) = (O \ Gone(k - 1)) \ {x}
      BY <2>2
    <3> QED BY <2>3, <3>1
  <2> QED BY <2>1, <2>3, <2>4 DEF Leads, After
<1>4. f[0] = After(O, {}) /\ f[Len(names)] = After(O \ Gone(Len(names)), {})
  <2>1. Gone(0) = {}
    OBVIOUS
  <2>2. O \ Gone(0) = O
    BY <2>1
  <2>3. 0 \in 0 .. Len(names) /\ Len(names) \in 0 .. Len(names)
    BY <1>1
  <2> HIDE DEF Gone
  <2>4. f[0] = After(O \ Gone(0), {}) /\ f[Len(names)] = After(O \ Gone(Len(names)), {})
    BY <2>3
  <2> HIDE DEF f
  <2> QED BY <2>2, <2>4
<1>5. {<<l, names[i]>> : i \in DOMAIN names} = Gone(Len(names))
  BY <1>1
<1>6. DOMAIN f = 0 .. Len(names)
  OBVIOUS
<1> HIDE DEF f, Gone, seq
<1>7. Trace(seq, After(O, {}), After(O \ Gone(Len(names)), {}), f)
  BY <1>2, <1>3, <1>4, <1>6 DEF Trace
<1>8. Good(seq, After(O, {}), After(O \ Gone(Len(names)), {}))
  BY <1>2, <1>7 DEF Good
<1> QED BY <1>5, <1>8 DEF seq

(* saved = empty_scratch(): m is a new owner, with nothing in it yet. *)
Fresh == <<0, "fresh">>

LEMMA SaveOk ==
  ASSUME NEW O, NEW D, D \subseteq O, NEW m, m \notin O, Fresh \notin O, m # Fresh, NEW n \in Positive
  PROVE  Good(Save(m, n), After(O, D), After(O \cup {m}, D \cup {m}))
<1>1. Good(Take(Fresh, n), After(O, D), After(O \cup {Fresh}, D \cup {Fresh}))
  BY TakeOk
<1> DEFINE O1 == O \cup {Fresh}
           D1 == D \cup {Fresh}
<1>2. Good(Assign(m, Fresh), After(O1, D1), After((O1 \ {Fresh}) \cup {m}, (D1 \ {Fresh}) \cup {m}))
  <2>1. Fresh \in O1 /\ Fresh \in D1
    OBVIOUS
  <2> HIDE DEF O1, D1
  <2> QED BY <2>1, MoveFreshOk
<1>3. (O1 \ {Fresh}) \cup {m} = O \cup {m} /\ (D1 \ {Fresh}) \cup {m} = D \cup {m}
  OBVIOUS
<1> QED BY <1>1, <1>2, <1>3, Then DEF Save, Fresh

-----------------------------------------------------------------------------
(* The same, with what is left written as the caller needs it. *)
LEMMA TakeTo ==
  ASSUME NEW O, NEW D, NEW t, t \notin O, NEW n \in Positive,
         NEW R, NEW E, R = O \cup {t}, E = D \cup {t}
  PROVE  Good(Take(t, n), After(O, D), After(R, E))
BY TakeOk

LEMMA SaveTo ==
  ASSUME NEW O, NEW D, D \subseteq O, NEW m, m \notin O, Fresh \notin O, m # Fresh, NEW n \in Positive,
         NEW R, NEW E, R = O \cup {m}, E = D \cup {m}
  PROVE  Good(Save(m, n), After(O, D), After(R, E))
BY SaveOk

LEMMA MoveTo ==
  ASSUME NEW O, NEW t, NEW u, u \in O, t # u, NEW R, R = (O \ {u}) \cup {t}
  PROVE  Good(Assign(t, u), After(O, {}), After(R, {}))
<1>1. {} \ {t} = {} /\ u \notin {}
  OBVIOUS
<1> QED BY <1>1, MoveOk

LEMMA KernelTo ==
  ASSUME NEW O, NEW D, NEW outs, NEW ins, outs \subseteq O, ins \cap D = {}, NEW E, E = D \ outs
  PROVE  Good(Kernel(outs, ins), After(O, D), After(O, E))
BY KernelOk

LEMMA DropTo ==
  ASSUME NEW O, NEW t, NEW R, R = O \ {t}
  PROVE  Good(Drop(t), After(O, {}), After(R, {}))
<1>1. {} \ {t} = {}
  OBVIOUS
<1> QED BY <1>1, DropOk

LEMMA DropsTo ==
  ASSUME NEW O, NEW l, NEW S, NEW names \in Seq(S), NEW R,
         R = O \ {<<l, names[i]>> : i \in DOMAIN names}
  PROVE  Good(Drops(l, names), After(O, {}), After(R, {}))
BY DropsOk

(* Three and four in a row. *)
LEMMA Then3 ==
  ASSUME NEW p, NEW q, NEW v, NEW s, NEW m, NEW n, NEW r, Good(p, s, m), Good(q, m, n), Good(v, n, r)
  PROVE  Good(p \o q \o v, s, r)
<1>1. Good(p \o q, s, n)
  BY Then
<1> QED BY <1>1, Then

LEMMA Then4 ==
  ASSUME NEW p, NEW q, NEW v, NEW w, NEW s, NEW m, NEW n, NEW o, NEW r,
         Good(p, s, m), Good(q, m, n), Good(v, n, o), Good(w, o, r)
  PROVE  Good(p \o q \o v \o w, s, r)
<1>1. Good(p \o q \o v, s, o)
  BY Then3
<1> QED BY <1>1, Then

(* No tensor is empty. *)
LEMMA ProductPositive == ASSUME NEW a \in Positive, NEW b \in Positive PROVE a * b \in Positive
<1>1. a \in Nat /\ b \in Nat /\ a > 0 /\ b > 0
  BY DEF Positive
<1>2. a * b \in Nat /\ a * b > 0
  BY <1>1
<1> QED BY <1>2 DEF Positive

LEMMA SizesPositive ==
  ASSUME shape \in Shapes
  PROVE  /\ Model \in Positive /\ KV \in Positive /\ Scores \in Positive /\ Hidden \in Positive
         /\ Logits \in Positive /\ Rstd \in Positive /\ 2 * Hidden \in Positive /\ shape.layers \in Nat
<1>1. /\ shape.rows \in Positive /\ shape.seq \in Positive /\ shape.heads \in Positive
      /\ shape.kv \in Positive /\ shape.dim \in Positive /\ shape.hidden \in Positive
      /\ shape.vocab \in Positive /\ 2 \in Positive /\ shape.layers \in Nat
  BY ActivationsAssumption DEF Positive
<1>2. Model \in Positive
  <2>1. shape.rows * shape.heads \in Positive
    BY <1>1, ProductPositive
  <2> QED BY <1>1, <2>1, ProductPositive DEF Model
<1>3. KV \in Positive
  <2>1. shape.rows * shape.kv \in Positive
    BY <1>1, ProductPositive
  <2> QED BY <1>1, <2>1, ProductPositive DEF KV
<1>4. Scores \in Positive
  <2>1. shape.rows * shape.heads \in Positive
    BY <1>1, ProductPositive
  <2> QED BY <1>1, <2>1, ProductPositive DEF Scores
<1>5. Hidden \in Positive /\ Logits \in Positive /\ Rstd \in Positive
  BY <1>1, ProductPositive DEF Hidden, Logits, Rstd
<1>6. 2 * Hidden \in Positive
  BY <1>1, <1>5, ProductPositive
<1> QED BY <1>1, <1>2, <1>3, <1>4, <1>5, <1>6

-----------------------------------------------------------------------------
(* The layers.  Each lemma says from which owners a layer runs well, and   *)
(* which owners there are after it.                                        *)
LEMMA RMSNormFOk ==
  ASSUME shape \in Shapes, NEW l, NEW nm, NEW x, NEW y, NEW O, NEW R, Fresh \notin O,
         <<l, nm, "in">> \notin O, <<l, nm, "rstd">> \notin O, y \notin O,
         y # Fresh, y # <<l, nm, "rstd">>, x # y, x # <<l, nm, "rstd">>,
         R = O \cup {y, <<l, nm, "rstd">>}
  PROVE  Good(RMSNormF(l, nm, x, y), After(O, {}), After(R, {}))
<1> DEFINE m == <<l, nm, "rstd">>
<1>1. Good(View(<<l, nm, "in">>, x), After(O, {}), After(O, {}))
  BY ViewOk
<1>2. Good(Save(m, Rstd), After(O, {}), After(O \cup {m}, {m}))
  <2>1. m # Fresh
    BY DEF Fresh
  <2> QED BY <2>1, SizesPositive, SaveTo
<1>3. Good(Take(y, Model), After(O \cup {m}, {m}), After(R, {y, m}))
  BY SizesPositive, TakeTo
<1>4. Good(Kernel({y, m}, {x}), After(R, {y, m}), After(R, {}))
  BY KernelTo
<1> QED BY <1>1, <1>2, <1>3, <1>4, Then4 DEF RMSNormF

LEMMA RMSNormBOk ==
  ASSUME shape \in Shapes, NEW l, NEW nm, NEW g, NEW gx, NEW O, NEW R,
         gx \notin O, gx \notin {g, <<l, nm, "in">>, <<l, nm, "rstd">>}, R = O \cup {gx}
  PROVE  Good(RMSNormB(l, nm, g, gx), After(O, {}), After(R, {}))
<1>1. Good(Take(gx, Model), After(O, {}), After(R, {gx}))
  BY SizesPositive, TakeTo
<1>2. Good(Kernel({gx}, {g, <<l, nm, "in">>, <<l, nm, "rstd">>}), After(R, {gx}), After(R, {}))
  BY KernelTo
<1> QED BY <1>1, <1>2, Then DEF RMSNormB

LEMMA LinearFOk ==
  ASSUME NEW l, NEW nm, NEW x, NEW y, NEW n \in Positive, NEW O, NEW R,
         <<l, nm, "in">> \notin O, y \notin O, x # y, R = O \cup {y}
  PROVE  Good(LinearF(l, nm, x, y, n), After(O, {}), After(R, {}))
<1>1. Good(View(<<l, nm, "in">>, x), After(O, {}), After(O, {}))
  BY ViewOk
<1>2. Good(Take(y, n), After(O, {}), After(R, {y}))
  BY TakeTo
<1>3. Good(Kernel({y}, {x}), After(R, {y}), After(R, {}))
  BY KernelTo
<1> QED BY <1>1, <1>2, <1>3, Then3 DEF LinearF

LEMMA LinearBOk ==
  ASSUME NEW l, NEW nm, NEW g, NEW gx, NEW n \in Positive, NEW O, NEW R,
         gx \notin O, g # gx, R = O \cup {gx}
  PROVE  Good(LinearB(l, nm, g, gx, n), After(O, {}), After(R, {}))
<1>1. Good(Kernel({}, {g, <<l, nm, "in">>}), After(O, {}), After(O, {}))
  BY KernelTo
<1>2. Good(Take(gx, n), After(O, {}), After(R, {gx}))
  BY TakeTo
<1>3. Good(Kernel({gx}, {g}), After(R, {gx}), After(R, {}))
  BY KernelTo
<1> QED BY <1>1, <1>2, <1>3, Then3 DEF LinearB

LEMMA SdpaFOk ==
  ASSUME shape \in Shapes, NEW l, NEW O, <<l, "scores">> \notin O, <<l, "saved_out">> \in O
  PROVE  Good(SdpaF(l), After(O, {<<l, "saved_out">>}), After(O, {}))
<1> DEFINE sc == <<l, "scores">>
           so == <<l, "saved_out">>
           O1 == O \cup {sc}
<1>1. Good(Take(sc, Scores), After(O, {so}), After(O1, {so, sc}))
  BY SizesPositive, TakeTo
<1>2. Good(Kernel({sc}, {<<l, "saved_q">>, <<l, "saved_k">>}), After(O1, {so, sc}), After(O1, {so}))
  BY KernelTo
<1>3. Good(Kernel({so}, {sc, <<l, "saved_v">>}), After(O1, {so}), After(O1, {}))
  BY KernelTo
<1>4. Good(Drop(sc), After(O1, {}), After(O, {}))
  BY DropTo
<1> QED BY <1>1, <1>2, <1>3, <1>4, Then4 DEF SdpaF

LEMMA SdpaBOk ==
  ASSUME shape \in Shapes, NEW l, NEW O, <<l, "probs">> \notin O, <<l, "gs">> \notin O,
         <<l, "gq">> \in O, <<l, "gk">> \in O, <<l, "gv">> \in O
  PROVE  Good(SdpaB(l), After(O, {<<l, "gq">>, <<l, "gk">>, <<l, "gv">>}), After(O, {}))
<1> DEFINE gq == <<l, "gq">>
           gk == <<l, "gk">>
           gv == <<l, "gv">>
           pr == <<l, "probs">>
           gs == <<l, "gs">>
           O1 == O \cup {pr}
           O2 == O \cup {pr, gs}
           P1 == Take(pr, Scores) \o Kernel({pr}, {<<l, "saved_q">>, <<l, "saved_k">>})
                 \o Kernel({gv}, {pr, <<l, "gob">>}) \o Take(gs, Scores)
<1>1. Good(Take(pr, Scores), After(O, {gq, gk, gv}), After(O1, {gq, gk, gv, pr}))
  BY SizesPositive, TakeTo
<1>2. Good(Kernel({pr}, {<<l, "saved_q">>, <<l, "saved_k">>}), After(O1, {gq, gk, gv, pr}), After(O1, {gq, gk, gv}))
  BY KernelTo
<1>3. Good(Kernel({gv}, {pr, <<l, "gob">>}), After(O1, {gq, gk, gv}), After(O1, {gq, gk}))
  BY KernelTo
<1>4. Good(Take(gs, Scores), After(O1, {gq, gk}), After(O2, {gq, gk, gs}))
  BY SizesPositive, TakeTo
<1>5. Good(Kernel({gs}, {<<l, "gob">>, <<l, "saved_v">>, pr}), After(O2, {gq, gk, gs}), After(O2, {gq, gk}))
  BY KernelTo
<1>6. Good(Kernel({gq}, {gs, <<l, "saved_k">>}), After(O2, {gq, gk}), After(O2, {gk}))
  BY KernelTo
<1>7. Good(Kernel({gk}, {gs, <<l, "saved_q">>}), After(O2, {gk}), After(O2, {}))
  BY KernelTo
<1>8. Good(Drops(l, <<"gs", "probs">>), After(O2, {}), After(O, {}))
  <2>1. {<<l, <<"gs", "probs">>[i]>> : i \in DOMAIN <<"gs", "probs">>} = {pr, gs}
    OBVIOUS
  <2>2. <<"gs", "probs">> \in Seq({"gs", "probs"})
    OBVIOUS
  <2>3. O = O2 \ {pr, gs}
    OBVIOUS
  <2> QED BY <2>1, <2>2, <2>3, DropsTo
<1>9. Good(P1, After(O, {gq, gk, gv}), After(O2, {gq, gk, gs}))
  BY <1>1, <1>2, <1>3, <1>4, Then4
<1>10. Good(P1 \o Kernel({gs}, {<<l, "gob">>, <<l, "saved_v">>, pr}) \o Kernel({gq}, {gs, <<l, "saved_k">>})
            \o Kernel({gk}, {gs, <<l, "saved_q">>}), After(O, {gq, gk, gv}), After(O2, {}))
  <2> HIDE DEF P1
  <2> QED BY <1>5, <1>6, <1>7, <1>9, Then4
<1> QED BY <1>8, <1>10, Then DEF SdpaB

LEMMA HeadsFOk ==
  ASSUME shape \in Shapes, NEW l, NEW O, NEW R, Fresh \notin O,
         <<l, "k_kv">> \notin O, <<l, "v_kv">> \notin O,
         <<l, "saved_k">> \notin O, <<l, "saved_v">> \notin O,
         R = O \cup {<<l, "saved_k">>, <<l, "saved_v">>}
  PROVE  Good(HeadsF(l), After(O, {}), After(R, {}))
<1> DEFINE k == <<l, "k">>
           v == <<l, "v">>
           kk == <<l, "k_kv">>
           vv == <<l, "v_kv">>
           sk == <<l, "saved_k">>
           sv == <<l, "saved_v">>
<1>1. sk # Fresh /\ sv # Fresh
  BY DEF Fresh
<1>2. CASE shape.kv = shape.heads
  <2>1. Good(Save(sk, Model), After(O, {}), After(O \cup {sk}, {sk}))
    BY <1>1, SizesPositive, SaveTo
  <2>2. Good(Save(sv, Model), After(O \cup {sk}, {sk}), After(R, {sk, sv}))
    BY <1>1, SizesPositive, SaveTo
  <2>3. Good(Kernel({sk}, {k}), After(R, {sk, sv}), After(R, {sv}))
    BY KernelTo
  <2>4. Good(Kernel({sv}, {v}), After(R, {sv}), After(R, {}))
    BY KernelTo
  <2> QED BY <1>2, <2>1, <2>2, <2>3, <2>4, Then4 DEF HeadsF
<1>3. CASE shape.kv # shape.heads
  <2> DEFINE O2 == O \cup {kk, vv}
             O3 == O2 \cup {sk}
             O4 == O2 \cup {sk, sv}
             P1 == Take(kk, KV) \o Take(vv, KV) \o Kernel({kk}, {k}) \o Kernel({vv}, {v})
             P2 == P1 \o Save(sk, Model) \o Save(sv, Model) \o Kernel({sk}, {kk})
  <2>1. Good(Take(kk, KV), After(O, {}), After(O \cup {kk}, {kk}))
    BY SizesPositive, TakeTo
  <2>2. Good(Take(vv, KV), After(O \cup {kk}, {kk}), After(O2, {kk, vv}))
    BY SizesPositive, TakeTo
  <2>3. Good(Kernel({kk}, {k}), After(O2, {kk, vv}), After(O2, {vv}))
    BY KernelTo
  <2>4. Good(Kernel({vv}, {v}), After(O2, {vv}), After(O2, {}))
    BY KernelTo
  <2>5. Good(P1, After(O, {}), After(O2, {}))
    BY <2>1, <2>2, <2>3, <2>4, Then4
  <2>6. Good(Save(sk, Model), After(O2, {}), After(O3, {sk}))
    <3>1. Fresh \notin O2
      BY DEF Fresh
    <3> QED BY <1>1, <3>1, SizesPositive, SaveTo
  <2>7. Good(Save(sv, Model), After(O3, {sk}), After(O4, {sk, sv}))
    <3>1. Fresh \notin O3
      BY DEF Fresh
    <3> QED BY <1>1, <3>1, SizesPositive, SaveTo
  <2>8. Good(Kernel({sk}, {kk}), After(O4, {sk, sv}), After(O4, {sv}))
    BY KernelTo
  <2>9. Good(Kernel({sv}, {vv}), After(O4, {sv}), After(O4, {}))
    BY KernelTo
  <2>10. Good(P2, After(O, {}), After(O4, {sv}))
    <3> HIDE DEF P1
    <3> QED BY <2>5, <2>6, <2>7, <2>8, Then4
  <2>11. Good(Drops(l, <<"v_kv", "k_kv">>), After(O4, {}), After(R, {}))
    <3>1. {<<l, <<"v_kv", "k_kv">>[i]>> : i \in DOMAIN <<"v_kv", "k_kv">>} = {kk, vv}
      OBVIOUS
    <3>2. <<"v_kv", "k_kv">> \in Seq({"v_kv", "k_kv"})
      OBVIOUS
    <3>3. R = O4 \ {kk, vv}
      OBVIOUS
    <3> QED BY <3>1, <3>2, <3>3, DropsTo
  <2>12. Good(P2 \o Kernel({sv}, {vv}) \o Drops(l, <<"v_kv", "k_kv">>), After(O, {}), After(R, {}))
    <3> HIDE DEF P2
    <3> QED BY <2>9, <2>10, <2>11, Then3
  <2> QED BY <1>3, <2>12 DEF HeadsF
<1> QED BY <1>2, <1>3

(* In the backward pass the two layouts differ in what becomes of the     *)
(* gradients by head: moved, or kept to the end of the scope.              *)
LEMMA HeadsBOk ==
  ASSUME shape \in Shapes, NEW l, NEW O, <<l, "gk">> \in O, <<l, "gv">> \in O,
         <<l, "gk_kv">> \notin O, <<l, "gv_kv">> \notin O
  PROVE  \E R : /\ Good(HeadsB(l), After(O, {}), After(R, {}))
                /\ R \cup {<<l, "gk">>, <<l, "gv">>} = O \cup {<<l, "gk_kv">>, <<l, "gv_kv">>}
<1> DEFINE gk == <<l, "gk">>
           gv == <<l, "gv">>
           kk == <<l, "gk_kv">>
           vv == <<l, "gv_kv">>
<1>1. CASE shape.kv = shape.heads
  <2> DEFINE O1 == (O \ {gk}) \cup {kk}
             R == (O1 \ {gv}) \cup {vv}
  <2>1. Good(Assign(kk, gk), After(O, {}), After(O1, {}))
    BY MoveTo
  <2>2. Good(Assign(vv, gv), After(O1, {}), After(R, {}))
    <3>1. gv \in O1 /\ vv # gv
      OBVIOUS
    <3> QED BY <3>1, MoveTo
  <2>3. Good(HeadsB(l), After(O, {}), After(R, {}))
    BY <1>1, <2>1, <2>2, Then DEF HeadsB
  <2>4. R \cup {gk, gv} = O \cup {kk, vv}
    OBVIOUS
  <2> QED BY <2>3, <2>4
<1>2. CASE shape.kv # shape.heads
  <2> DEFINE R == O \cup {kk, vv}
  <2>1. Good(Take(kk, KV), After(O, {}), After(O \cup {kk}, {kk}))
    BY SizesPositive, TakeTo
  <2>2. Good(Take(vv, KV), After(O \cup {kk}, {kk}), After(R, {kk, vv}))
    BY SizesPositive, TakeTo
  <2>3. Good(Kernel({kk}, {gk}), After(R, {kk, vv}), After(R, {vv}))
    BY KernelTo
  <2>4. Good(Kernel({vv}, {gv}), After(R, {vv}), After(R, {}))
    BY KernelTo
  <2>5. Good(HeadsB(l), After(O, {}), After(R, {}))
    BY <1>2, <2>1, <2>2, <2>3, <2>4, Then4 DEF HeadsB
  <2>6. R \cup {gk, gv} = O \cup {kk, vv}
    OBVIOUS
  <2> QED BY <2>5, <2>6
<1> QED BY <1>1, <1>2

(* The owners of other layers do not get in the way of layer l. *)
Clear(l, O) == Fresh \notin O /\ l # 0 /\ \A s \in O : s[1] # l

LEMMA AttentionFOk ==
  ASSUME shape \in Shapes, NEW l, NEW P, Clear(l, P), NEW O, NEW R,
         O = P \cup {<<l, "n1">>, <<l, "norm1", "rstd">>},
         R = O \cup {<<l, "a">>, <<l, "saved_q">>, <<l, "saved_k">>, <<l, "saved_v">>, <<l, "saved_out">>}
  PROVE  Good(AttentionF(l, <<l, "n1">>, <<l, "a">>), After(O, {}), After(R, {}))
<1> DEFINE x == <<l, "n1">>
           y == <<l, "a">>
           q == <<l, "q">>
           k == <<l, "k">>
           v == <<l, "v">>
           sq == <<l, "saved_q">>
           sk == <<l, "saved_k">>
           sv == <<l, "saved_v">>
           so == <<l, "saved_out">>
           ob == <<l, "out_bshd">>
           O3 == O \cup {q, k, v}
           O4 == O3 \cup {sq}
           O5 == O3 \cup {sq, sk, sv}
           O6 == O3 \cup {sq, sk, sv, so}
           O7 == O3 \cup {sq, sk, sv, so, ob}
           O8 == O3 \cup {sq, sk, sv, so, ob, y}
           P1 == LinearF(l, "q_proj", x, q, Model) \o LinearF(l, "k_proj", x, k, KV)
                 \o LinearF(l, "v_proj", x, v, KV) \o Kernel({q}, {q})
           P2 == P1 \o Kernel({k}, {k}) \o Save(sq, Model) \o Kernel({sq}, {q})
           P3 == P2 \o HeadsF(l) \o Save(so, Model) \o SdpaF(l)
           P4 == P3 \o Take(ob, Model) \o Kernel({ob}, {so})
                 \o LinearF(l, "out_proj", ob, y, Model)
<1>1. \A s \in P : s[1] # l
  BY DEF Clear
<1>2. Fresh \notin P /\ Fresh # q /\ Fresh \notin O7
  BY DEF Clear, Fresh
<1>3. Good(LinearF(l, "q_proj", x, q, Model), After(O, {}), After(O \cup {q}, {}))
  <2>1. <<l, "q_proj", "in">> \notin O /\ q \notin O /\ x # q
    BY <1>1
  <2> QED BY <2>1, SizesPositive, LinearFOk
<1>4. Good(LinearF(l, "k_proj", x, k, KV), After(O \cup {q}, {}), After(O \cup {q, k}, {}))
  <2>1. <<l, "k_proj", "in">> \notin O \cup {q} /\ k \notin O \cup {q} /\ x # k
    BY <1>1
  <2> QED BY <2>1, SizesPositive, LinearFOk
<1>5. Good(LinearF(l, "v_proj", x, v, KV), After(O \cup {q, k}, {}), After(O3, {}))
  <2>1. <<l, "v_proj", "in">> \notin O \cup {q, k} /\ v \notin O \cup {q, k} /\ x # v
    BY <1>1
  <2> QED BY <2>1, SizesPositive, LinearFOk
<1>6. Good(Kernel({q}, {q}), After(O3, {}), After(O3, {}))
  BY KernelTo
<1>7. Good(Kernel({k}, {k}), After(O3, {}), After(O3, {}))
  BY KernelTo
<1>8. Good(Save(sq, Model), After(O3, {}), After(O4, {sq}))
  <2>1. sq \notin O3 /\ Fresh \notin O3 /\ sq # Fresh
    BY <1>1, <1>2 DEF Fresh
  <2> QED BY <2>1, SizesPositive, SaveTo
<1>9. Good(Kernel({sq}, {q}), After(O4, {sq}), After(O4, {}))
  BY KernelTo
<1>10. Good(HeadsF(l), After(O4, {}), After(O5, {}))
  <2>1. Fresh \notin O4 /\ <<l, "k_kv">> \notin O4 /\ <<l, "v_kv">> \notin O4 /\ sk \notin O4 /\ sv \notin O4
    BY <1>1, <1>2
  <2> QED BY <2>1, HeadsFOk
<1>11. Good(Save(so, Model), After(O5, {}), After(O6, {so}))
  <2>1. so \notin O5 /\ Fresh \notin O5 /\ so # Fresh
    BY <1>1, <1>2 DEF Fresh
  <2> QED BY <2>1, SizesPositive, SaveTo
<1>12. Good(SdpaF(l), After(O6, {so}), After(O6, {}))
  <2>1. <<l, "scores">> \notin O6 /\ so \in O6
    BY <1>1
  <2> QED BY <2>1, SdpaFOk
<1>13. Good(Take(ob, Model), After(O6, {}), After(O7, {ob}))
  <2>1. ob \notin O6
    BY <1>1
  <2> QED BY <2>1, SizesPositive, TakeTo
<1>14. Good(Kernel({ob}, {so}), After(O7, {ob}), After(O7, {}))
  BY KernelTo
<1>15. Good(LinearF(l, "out_proj", ob, y, Model), After(O7, {}), After(O8, {}))
  <2>1. <<l, "out_proj", "in">> \notin O7 /\ y \notin O7 /\ ob # y
    BY <1>1
  <2> QED BY <2>1, SizesPositive, LinearFOk
<1>16. Good(Drops(l, <<"out_bshd", "v", "k", "q">>), After(O8, {}), After(R, {}))
  <2> DEFINE names == <<"out_bshd", "v", "k", "q">>
  <2>1. {<<l, names[i]>> : i \in DOMAIN names} = {ob, v, k, q}
    OBVIOUS
  <2>2. names \in Seq({"out_bshd", "v", "k", "q"})
    OBVIOUS
  <2>3. R = O8 \ {ob, v, k, q}
    BY <1>1
  <2> HIDE DEF names
  <2>4. Good(Drops(l, names), After(O8, {}), After(R, {}))
    BY <2>1, <2>2, <2>3, DropsTo
  <2> QED BY <2>4 DEF names
<1>17. Good(P1, After(O, {}), After(O3, {}))
  BY <1>3, <1>4, <1>5, <1>6, Then4
<1>18. Good(P2, After(O, {}), After(O4, {}))
  <2> HIDE DEF P1
  <2> QED BY <1>17, <1>7, <1>8, <1>9, Then4
<1>19. Good(P3, After(O, {}), After(O6, {}))
  <2> HIDE DEF P2
  <2> QED BY <1>18, <1>10, <1>11, <1>12, Then4
<1>20. Good(P4, After(O, {}), After(O8, {}))
  <2> HIDE DEF P3
  <2> QED BY <1>19, <1>13, <1>14, <1>15, Then4
<1>21. Good(P4 \o Drops(l, <<"out_bshd", "v", "k", "q">>), After(O, {}), After(R, {}))
  <2> HIDE DEF P4
  <2> QED BY <1>20, <1>16, Then
<1> QED BY <1>21 DEF AttentionF

(* What layer l keeps between its forward and its backward pass. *)
MembersOf(l) ==
  {<<l, "saved_q">>, <<l, "saved_k">>, <<l, "saved_v">>, <<l, "saved_out">>, <<l, "combined">>,
   <<l, "silu_mul">>, <<l, "after_attn">>, <<l, "norm1", "rstd">>, <<l, "norm2", "rstd">>}

(* When its backward pass starts, nothing else of layer l is left. *)
Kept(l, O) == l # 0 /\ \A s \in O : s[1] = l => s \in MembersOf(l)

LEMMA AttentionBOk ==
  ASSUME shape \in Shapes, NEW l, NEW P, Kept(l, P), NEW O, NEW R,
         O = P \cup {<<l, "gf">>, <<l, "gy_n">>, <<l, "gy">>}, R = O \cup {<<l, "ga">>}
  PROVE  Good(AttentionB(l, <<l, "gy">>, <<l, "ga">>), After(O, {}), After(R, {}))
<1> DEFINE g == <<l, "gy">>
           gx == <<l, "ga">>
           go == <<l, "gout">>
           gb == <<l, "gob">>
           gq == <<l, "gq">>
           gk == <<l, "gk">>
           gv == <<l, "gv">>
           kk == <<l, "gk_kv">>
           vv == <<l, "gv_kv">>
           qs == <<l, "gq_s">>
           ks == <<l, "gk_s">>
           vs == <<l, "gv_s">>
           xq == <<l, "gx_q">>
           xk == <<l, "gx_k">>
           xv == <<l, "gx_v">>
           O1 == O \cup {go}
           O2 == O \cup {go, gb}
           O3 == O \cup {go, gb, gq}
           O4 == O \cup {go, gb, gq, gk}
           O5 == O \cup {go, gb, gq, gk, gv}
           P1 == LinearB(l, "out_proj", g, go, Model) \o Take(gb, Model) \o Kernel({gb}, {go})
                 \o Take(gq, Model)
           P2 == P1 \o Take(gk, Model) \o Take(gv, Model) \o SdpaB(l)
           P3 == P2 \o HeadsB(l) \o Take(qs, Model) \o Take(ks, KV)
           P4 == P3 \o Take(vs, KV) \o Kernel({qs}, {gq}) \o Kernel({ks}, {kk})
           P5 == P4 \o Kernel({vs}, {vv}) \o Kernel({qs}, {qs}) \o Kernel({ks}, {ks})
           P6 == P5 \o LinearB(l, "q_proj", qs, xq, Model) \o LinearB(l, "k_proj", ks, xk, Model)
                 \o LinearB(l, "v_proj", vs, xv, Model)
           P7 == P6 \o Take(gx, Model) \o Kernel({gx}, {xq, xk, xv})
           names == <<"gx_v", "gx_k", "gx_q", "gv_s", "gk_s", "gq_s", "gv_kv", "gk_kv", "gv", "gk",
                      "gq", "gob", "gout">>
(* None of the temporaries is alive at the start. *)
<1>1. \A t \in {go, gb, gq, gk, gv, kk, vv, qs, ks, vs, xq, xk, xv, gx} : t \notin O
  <2>1. \A t \in {go, gb, gq, gk, gv, kk, vv, qs, ks, vs, xq, xk, xv, gx} :
          t \notin {<<l, "gf">>, <<l, "gy_n">>, <<l, "gy">>}
    OBVIOUS
  <2>2. \A t \in {go, gb, gq, gk, gv, kk, vv, qs, ks, vs, xq, xk, xv, gx} :
          t[1] = l /\ t \notin MembersOf(l)
    BY DEF MembersOf
  <2> QED BY <2>1, <2>2 DEF Kept
<1>2. <<l, "probs">> \notin O /\ <<l, "gs">> \notin O
  BY DEF Kept, MembersOf
<1>3. Good(LinearB(l, "out_proj", g, go, Model), After(O, {}), After(O1, {}))
  <2>1. go \notin O /\ g # go
    BY <1>1
  <2> QED BY <2>1, SizesPositive, LinearBOk
<1>4. Good(Take(gb, Model), After(O1, {}), After(O2, {gb}))
  <2>1. gb \notin O1
    BY <1>1
  <2> QED BY <2>1, SizesPositive, TakeTo
<1>5. Good(Kernel({gb}, {go}), After(O2, {gb}), After(O2, {}))
  BY KernelTo
<1>6. Good(Take(gq, Model), After(O2, {}), After(O3, {gq}))
  <2>1. gq \notin O2
    BY <1>1
  <2> QED BY <2>1, SizesPositive, TakeTo
<1>7. Good(Take(gk, Model), After(O3, {gq}), After(O4, {gq, gk}))
  <2>1. gk \notin O3
    BY <1>1
  <2> QED BY <2>1, SizesPositive, TakeTo
<1>8. Good(Take(gv, Model), After(O4, {gq, gk}), After(O5, {gq, gk, gv}))
  <2>1. gv \notin O4
    BY <1>1
  <2> QED BY <2>1, SizesPositive, TakeTo
<1>9. Good(SdpaB(l), After(O5, {gq, gk, gv}), After(O5, {}))
  <2>1. <<l, "probs">> \notin O5 /\ <<l, "gs">> \notin O5 /\ gq \in O5 /\ gk \in O5 /\ gv \in O5
    BY <1>2
  <2> QED BY <2>1, SdpaBOk
<1>10. PICK Q : Good(HeadsB(l), After(O5, {}), After(Q, {})) /\ Q \cup {gk, gv} = O5 \cup {kk, vv}
  <2>1. kk \notin O5 /\ vv \notin O5 /\ gk \in O5 /\ gv \in O5
    BY <1>1
  <2> HIDE DEF O5
  <2> QED BY <2>1, HeadsBOk
<1> DEFINE Q1 == Q \cup {qs}
           Q2 == Q \cup {qs, ks}
           Q3 == Q \cup {qs, ks, vs}
           Q4 == Q \cup {qs, ks, vs, xq}
           Q5 == Q \cup {qs, ks, vs, xq, xk}
           Q6 == Q \cup {qs, ks, vs, xq, xk, xv}
           Q7 == Q \cup {qs, ks, vs, xq, xk, xv, gx}
<1>11. \A t \in {qs, ks, vs, xq, xk, xv, gx} : t \notin Q
  <2>1. Q \subseteq O5 \cup {kk, vv}
    BY <1>10
  <2>2. \A t \in {qs, ks, vs, xq, xk, xv, gx} : t \notin O5 \cup {kk, vv}
    BY <1>1
  <2> QED BY <2>1, <2>2
<1>12. Good(Take(qs, Model), After(Q, {}), After(Q1, {qs}))
  BY <1>11, SizesPositive, TakeTo
<1>13. Good(Take(ks, KV), After(Q1, {qs}), After(Q2, {qs, ks}))
  <2>1. ks \notin Q1
    BY <1>11
  <2> QED BY <2>1, SizesPositive, TakeTo
<1>14. Good(Take(vs, KV), After(Q2, {qs, ks}), After(Q3, {qs, ks, vs}))
  <2>1. vs \notin Q2
    BY <1>11
  <2> QED BY <2>1, SizesPositive, TakeTo
<1>15. Good(Kernel({qs}, {gq}), After(Q3, {qs, ks, vs}), After(Q3, {ks, vs}))
  BY KernelTo
<1>16. Good(Kernel({ks}, {kk}), After(Q3, {ks, vs}), After(Q3, {vs}))
  BY KernelTo
<1>17. Good(Kernel({vs}, {vv}), After(Q3, {vs}), After(Q3, {}))
  BY KernelTo
<1>18. Good(Kernel({qs}, {qs}), After(Q3, {}), After(Q3, {}))
  BY KernelTo
<1>19. Good(Kernel({ks}, {ks}), After(Q3, {}), After(Q3, {}))
  BY KernelTo
<1>20. Good(LinearB(l, "q_proj", qs, xq, Model), After(Q3, {}), After(Q4, {}))
  <2>1. xq \notin Q3 /\ qs # xq
    BY <1>11
  <2> QED BY <2>1, SizesPositive, LinearBOk
<1>21. Good(LinearB(l, "k_proj", ks, xk, Model), After(Q4, {}), After(Q5, {}))
  <2>1. xk \notin Q4 /\ ks # xk
    BY <1>11
  <2> QED BY <2>1, SizesPositive, LinearBOk
<1>22. Good(LinearB(l, "v_proj", vs, xv, Model), After(Q5, {}), After(Q6, {}))
  <2>1. xv \notin Q5 /\ vs # xv
    BY <1>11
  <2> QED BY <2>1, SizesPositive, LinearBOk
<1>23. Good(Take(gx, Model), After(Q6, {}), After(Q7, {gx}))
  <2>1. gx \notin Q6
    BY <1>11
  <2> QED BY <2>1, SizesPositive, TakeTo
<1>24. Good(Kernel({gx}, {xq, xk, xv}), After(Q7, {gx}), After(Q7, {}))
  BY KernelTo
<1>25. Good(Drops(l, names), After(Q7, {}), After(R, {}))
  <2> DEFINE gone == {xv, xk, xq, vs, ks, qs, vv, kk, gv, gk, gq, gb, go}
  <2>1. {<<l, names[i]>> : i \in DOMAIN names} = gone
    OBVIOUS
  <2>2. names \in Seq({"gx_v", "gx_k", "gx_q", "gv_s", "gk_s", "gq_s", "gv_kv", "gk_kv", "gv", "gk",
                       "gq", "gob", "gout"})
    OBVIOUS
  <2>3. R = Q7 \ gone
    <3>1. Q \ gone = O \ gone
      <4>1. Q \ gone = (Q \cup {gk, gv}) \ gone
        OBVIOUS
      <4>2. O \ gone = (O5 \cup {kk, vv}) \ gone
        OBVIOUS
      <4> QED BY <1>10, <4>1, <4>2
    <3>2. O \ gone = O
      BY <1>1
    <3>3. gx \notin gone
      OBVIOUS
    <3>4. Q7 \ gone = (Q \ gone) \cup {gx}
      BY <3>3
    <3> HIDE DEF gone, Q7, gx
    <3> QED BY <3>1, <3>2, <3>4 DEF gx
  <2> HIDE DEF names, gone, Q7
  <2> QED BY <2>1, <2>2, <2>3, DropsTo
<1>26. Good(P1, After(O, {}), After(O3, {gq}))
  BY <1>3, <1>4, <1>5, <1>6, Then4
<1>27. Good(P2, After(O, {}), After(O5, {}))
  <2> HIDE DEF P1
  <2> QED BY <1>26, <1>7, <1>8, <1>9, Then4
<1>28. Good(P3, After(O, {}), After(Q2, {qs, ks}))
  <2> HIDE DEF P2
  <2> QED BY <1>27, <1>10, <1>12, <1>13, Then4
<1>29. Good(P4, After(O, {}), After(Q3, {vs}))
  <2> HIDE DEF P3
  <2> QED BY <1>28, <1>14, <1>15, <1>16, Then4
<1>30. Good(P5, After(O, {}), After(Q3, {}))
  <2> HIDE DEF P4
  <2> QED BY <1>29, <1>17, <1>18, <1>19, Then4
<1>31. Good(P6, After(O, {}), After(Q6, {}))
  <2> HIDE DEF P5
  <2> QED BY <1>30, <1>20, <1>21, <1>22, Then4
<1>32. Good(P7, After(O, {}), After(Q7, {}))
  <2> HIDE DEF P6
  <2> QED BY <1>31, <1>23, <1>24, Then3
<1>33. Good(P7 \o Drops(l, names), After(O, {}), After(R, {}))
  <2> HIDE DEF P7, names
  <2> QED BY <1>32, <1>25, Then
<1> QED BY <1>33 DEF AttentionB

LEMMA FFNFOk ==
  ASSUME shape \in Shapes, NEW l, NEW O, NEW R, Fresh \notin O, l # 0,
         \A nm \in {"up", "combined", "silu_mul", "f"} : <<l, nm>> \notin O,
         <<l, "gate_up", "in">> \notin O, <<l, "down", "in">> \notin O,
         R = O \cup {<<l, "combined">>, <<l, "silu_mul">>, <<l, "f">>}
  PROVE  Good(FFNF(l, <<l, "n2">>, <<l, "f">>), After(O, {}), After(R, {}))
<1> DEFINE x == <<l, "n2">>
           y == <<l, "f">>
           up == <<l, "up">>
           co == <<l, "combined">>
           sm == <<l, "silu_mul">>
           O1 == O \cup {co}
           O2 == O \cup {co, sm}
           P1 == LinearF(l, "gate_up", x, up, 2 * Hidden) \o Assign(co, up)
                 \o Save(sm, Hidden) \o Kernel({sm}, {co})
<1>1. up \notin O /\ co \notin O /\ sm \notin O /\ y \notin O
  OBVIOUS
<1>2. Good(LinearF(l, "gate_up", x, up, 2 * Hidden), After(O, {}), After(O \cup {up}, {}))
  <2>1. x # up
    OBVIOUS
  <2> QED BY <1>1, <2>1, SizesPositive, LinearFOk
<1>3. Good(Assign(co, up), After(O \cup {up}, {}), After(O1, {}))
  <2>1. O1 = ((O \cup {up}) \ {up}) \cup {co} /\ up \in O \cup {up} /\ co # up
    BY <1>1
  <2> QED BY <2>1, MoveTo
<1>4. Good(Save(sm, Hidden), After(O1, {}), After(O2, {sm}))
  <2>1. sm \notin O1 /\ Fresh \notin O1 /\ sm # Fresh
    BY <1>1 DEF Fresh
  <2> QED BY <2>1, SizesPositive, SaveTo
<1>5. Good(Kernel({sm}, {co}), After(O2, {sm}), After(O2, {}))
  BY KernelTo
<1>6. Good(LinearF(l, "down", sm, y, Model), After(O2, {}), After(R, {}))
  <2>1. <<l, "down", "in">> \notin O2 /\ y \notin O2 /\ sm # y
    BY <1>1
  <2> QED BY <2>1, SizesPositive, LinearFOk
<1>7. Good(P1, After(O, {}), After(O2, {}))
  BY <1>2, <1>3, <1>4, <1>5, Then4
<1>8. Good(P1 \o LinearF(l, "down", sm, y, Model), After(O, {}), After(R, {}))
  <2> HIDE DEF P1
  <2> QED BY <1>6, <1>7, Then
<1> QED BY <1>8 DEF FFNF

LEMMA FFNBOk ==
  ASSUME shape \in Shapes, NEW l, NEW g, NEW O, NEW R,
         <<l, "gh">> \notin O, <<l, "gc">> \notin O, <<l, "gf">> \notin O, g # <<l, "gh">>,
         R = O \cup {<<l, "gf">>}
  PROVE  Good(FFNB(l, g, <<l, "gf">>), After(O, {}), After(R, {}))
<1> DEFINE gx == <<l, "gf">>
           gh == <<l, "gh">>
           gc == <<l, "gc">>
           O1 == O \cup {gh}
           O2 == O \cup {gh, gc}
           O3 == O \cup {gh, gc, gx}
           P1 == LinearB(l, "down", g, gh, Hidden) \o Take(gc, 2 * Hidden)
                 \o Kernel({gc}, {gh, <<l, "combined">>}) \o LinearB(l, "gate_up", gc, gx, Model)
<1>1. Good(LinearB(l, "down", g, gh, Hidden), After(O, {}), After(O1, {}))
  BY SizesPositive, LinearBOk
<1>2. Good(Take(gc, 2 * Hidden), After(O1, {}), After(O2, {gc}))
  <2>1. gc \notin O1
    OBVIOUS
  <2> QED BY <2>1, SizesPositive, TakeTo
<1>3. Good(Kernel({gc}, {gh, <<l, "combined">>}), After(O2, {gc}), After(O2, {}))
  BY KernelTo
<1>4. Good(LinearB(l, "gate_up", gc, gx, Model), After(O2, {}), After(O3, {}))
  <2>1. gx \notin O2 /\ gc # gx
    OBVIOUS
  <2> QED BY <2>1, SizesPositive, LinearBOk
<1>5. Good(Drops(l, <<"gc", "gh">>), After(O3, {}), After(R, {}))
  <2>1. {<<l, <<"gc", "gh">>[i]>> : i \in DOMAIN <<"gc", "gh">>} = {gc, gh}
    OBVIOUS
  <2>2. <<"gc", "gh">> \in Seq({"gc", "gh"})
    OBVIOUS
  <2>3. R = O3 \ {gc, gh}
    OBVIOUS
  <2> QED BY <2>1, <2>2, <2>3, DropsTo
<1>6. Good(P1, After(O, {}), After(O3, {}))
  BY <1>1, <1>2, <1>3, <1>4, Then4
<1>7. Good(P1 \o Drops(l, <<"gc", "gh">>), After(O, {}), After(R, {}))
  <2> HIDE DEF P1
  <2> QED BY <1>5, <1>6, Then
<1> QED BY <1>7 DEF FFNB

LEMMA BlockFOk ==
  ASSUME shape \in Shapes, NEW l, NEW P, Clear(l, P), T \notin P
  PROVE  Good(BlockF(l, H, T), After(P, {}), After(P \cup MembersOf(l) \cup {T}, {}))
<1> DEFINE x == H
           n1 == <<l, "n1">>
           n2 == <<l, "n2">>
           r1 == <<l, "norm1", "rstd">>
           r2 == <<l, "norm2", "rstd">>
           a == <<l, "a">>
           f == <<l, "f">>
           aa == <<l, "after_attn">>
           O1 == P \cup {n1, r1}
           O2 == O1 \cup {a, <<l, "saved_q">>, <<l, "saved_k">>, <<l, "saved_v">>, <<l, "saved_out">>}
           O3 == O2 \cup {aa}
           O4 == O2 \cup {aa, n2, r2}
           O5 == O4 \cup {<<l, "combined">>, <<l, "silu_mul">>, f}
           O6 == O5 \cup {T}
           R == P \cup MembersOf(l) \cup {T}
           P1 == RMSNormF(l, "norm1", x, n1) \o AttentionF(l, n1, a) \o Save(aa, Model)
                 \o Kernel({aa}, {x, a})
           P2 == P1 \o RMSNormF(l, "norm2", aa, n2) \o FFNF(l, n2, f) \o Take(T, Model)
<1>1. \A s \in P : s[1] # l
  BY DEF Clear
<1>2. Fresh \notin P /\ l # 0 /\ Fresh = <<0, "fresh">> /\ T = <<0, "result">> /\ x = <<0, "h">>
  BY DEF Clear, Fresh, T, H
<1>3. Good(RMSNormF(l, "norm1", x, n1), After(P, {}), After(O1, {}))
  <2>1. <<l, "norm1", "in">> \notin P /\ r1 \notin P /\ n1 \notin P
    BY <1>1
  <2>2. n1 # Fresh /\ n1 # r1 /\ x # n1 /\ x # r1
    BY <1>2
  <2> QED BY <1>2, <2>1, <2>2, RMSNormFOk
<1>4. Good(AttentionF(l, n1, a), After(O1, {}), After(O2, {}))
  BY AttentionFOk
<1>5. Fresh \notin O2 /\ aa # Fresh
  BY <1>2
<1>6. Good(Save(aa, Model), After(O2, {}), After(O3, {aa}))
  <2>1. aa \notin O2
    BY <1>1
  <2> QED BY <1>5, <2>1, SizesPositive, SaveTo
<1>7. Good(Kernel({aa}, {x, a}), After(O3, {aa}), After(O3, {}))
  <2>1. x # aa /\ a # aa
    BY <1>2
  <2> QED BY <2>1, KernelTo
<1>8. Good(RMSNormF(l, "norm2", aa, n2), After(O3, {}), After(O4, {}))
  <2>1. <<l, "norm2", "in">> \notin O3 /\ r2 \notin O3 /\ n2 \notin O3
    BY <1>1
  <2>2. n2 # Fresh /\ n2 # r2 /\ aa # n2 /\ aa # r2 /\ Fresh \notin O3
    BY <1>2, <1>5
  <2>3. O4 = O3 \cup {n2, r2}
    OBVIOUS
  <2> HIDE DEF O3, O4
  <2> QED BY <2>1, <2>2, <2>3, RMSNormFOk
<1>9. Good(FFNF(l, n2, f), After(O4, {}), After(O5, {}))
  <2>1. Fresh \notin O4
    BY <1>2, <1>5
  <2>2. \A nm \in {"up", "combined", "silu_mul", "f"} : <<l, nm>> \notin O4
    BY <1>1
  <2>3. <<l, "gate_up", "in">> \notin O4 /\ <<l, "down", "in">> \notin O4
    BY <1>1
  <2> HIDE DEF O4
  <2> QED BY <1>2, <2>1, <2>2, <2>3, FFNFOk
<1>10. Good(Take(T, Model), After(O5, {}), After(O6, {T}))
  <2>1. T \notin O5
    BY <1>2
  <2> HIDE DEF O5
  <2> QED BY <2>1, SizesPositive, TakeTo
<1>11. Good(Kernel({T}, {aa, f}), After(O6, {T}), After(O6, {}))
  <2>1. aa # T /\ f # T
    BY <1>2
  <2> HIDE DEF O5
  <2> QED BY <2>1, KernelTo
<1>12. Good(Drops(l, <<"f", "n2", "a", "n1">>), After(O6, {}), After(R, {}))
  <2> DEFINE names == <<"f", "n2", "a", "n1">>
  <2>1. {<<l, names[i]>> : i \in DOMAIN names} = {f, n2, a, n1}
    OBVIOUS
  <2>2. names \in Seq({"f", "n2", "a", "n1"})
    OBVIOUS
  <2>3. R = O6 \ {f, n2, a, n1}
    <3>1. P \ {f, n2, a, n1} = P
      BY <1>1
    <3>2. {T} \ {f, n2, a, n1} = {T}
      BY <1>2
    <3>3. MembersOf(l) = (O6 \ (P \cup {T})) \ {f, n2, a, n1}
      BY <1>1, <1>2 DEF MembersOf
    <3> QED BY <3>1, <3>2, <3>3
  <2> HIDE DEF names, R, O6
  <2>4. Good(Drops(l, names), After(O6, {}), After(R, {}))
    BY <2>1, <2>2, <2>3, DropsTo
  <2> QED BY <2>4 DEF names
<1>13. Good(P1, After(P, {}), After(O3, {}))
  BY <1>3, <1>4, <1>6, <1>7, Then4
<1>14. Good(P2, After(P, {}), After(O6, {T}))
  <2> HIDE DEF P1
  <2> QED BY <1>13, <1>8, <1>9, <1>10, Then4
<1>15. Good(P2 \o Kernel({T}, {aa, f}) \o Drops(l, <<"f", "n2", "a", "n1">>), After(P, {}), After(R, {}))
  <2> HIDE DEF P2
  <2> QED BY <1>14, <1>11, <1>12, Then3
<1> QED BY <1>15 DEF BlockF

LEMMA BlockBOk ==
  ASSUME shape \in Shapes, NEW l, NEW P, Kept(l, P), T \notin P
  PROVE  Good(BlockB(l, G, T), After(P, {}), After(P \cup {T}, {}))
<1> DEFINE g == G
           gf == <<l, "gf">>
           yn == <<l, "gy_n">>
           gy == <<l, "gy">>
           ga == <<l, "ga">>
           xn == <<l, "gx_n">>
           O1 == P \cup {gf}
           O2 == P \cup {gf, yn}
           O3 == P \cup {gf, yn, gy}
           O4 == P \cup {gf, yn, gy, ga}
           O5 == P \cup {gf, yn, gy, ga, xn}
           O6 == P \cup {gf, yn, gy, ga, xn, T}
           R == P \cup {T}
           P1 == FFNB(l, g, gf) \o RMSNormB(l, "norm2", gf, yn) \o Take(gy, Model) \o Kernel({gy}, {g, yn})
           P2 == P1 \o AttentionB(l, gy, ga) \o RMSNormB(l, "norm1", ga, xn) \o Take(T, Model)
           names == <<"gx_n", "ga", "gy", "gy_n", "gf">>
<1>1. l # 0 /\ g = <<0, "g">> /\ T = <<0, "result">>
  BY DEF Kept, G, T
<1>2. \A t \in {gf, yn, gy, ga, xn, <<l, "gh">>, <<l, "gc">>} : t \notin P
  <2>1. \A t \in {gf, yn, gy, ga, xn, <<l, "gh">>, <<l, "gc">>} : t[1] = l /\ t \notin MembersOf(l)
    BY DEF MembersOf
  <2> QED BY <2>1 DEF Kept
<1>3. Good(FFNB(l, g, gf), After(P, {}), After(O1, {}))
  <2>1. g # <<l, "gh">>
    BY <1>1
  <2> QED BY <1>2, <2>1, FFNBOk
<1>4. Good(RMSNormB(l, "norm2", gf, yn), After(O1, {}), After(O2, {}))
  <2>1. yn \notin O1 /\ yn \notin {gf, <<l, "norm2", "in">>, <<l, "norm2", "rstd">>}
    BY <1>2
  <2> QED BY <2>1, RMSNormBOk
<1>5. Good(Take(gy, Model), After(O2, {}), After(O3, {gy}))
  <2>1. gy \notin O2
    BY <1>2
  <2> QED BY <2>1, SizesPositive, TakeTo
<1>6. Good(Kernel({gy}, {g, yn}), After(O3, {gy}), After(O3, {}))
  <2>1. g # gy /\ yn # gy
    BY <1>1
  <2> QED BY <2>1, KernelTo
<1>7. Good(AttentionB(l, gy, ga), After(O3, {}), After(O4, {}))
  BY AttentionBOk
<1>8. Good(RMSNormB(l, "norm1", ga, xn), After(O4, {}), After(O5, {}))
  <2>1. xn \notin O4 /\ xn \notin {ga, <<l, "norm1", "in">>, <<l, "norm1", "rstd">>}
    BY <1>2
  <2> QED BY <2>1, RMSNormBOk
<1>9. Good(Take(T, Model), After(O5, {}), After(O6, {T}))
  <2>1. T \notin O5
    BY <1>1
  <2> QED BY <2>1, SizesPositive, TakeTo
<1>10. Good(Kernel({T}, {gy, xn}), After(O6, {T}), After(O6, {}))
  <2>1. gy # T /\ xn # T
    BY <1>1
  <2> QED BY <2>1, KernelTo
<1>11. Good(Drops(l, names), After(O6, {}), After(R, {}))
  <2>1. {<<l, names[i]>> : i \in DOMAIN names} = {xn, ga, gy, yn, gf}
    OBVIOUS
  <2>2. names \in Seq({"gx_n", "ga", "gy", "gy_n", "gf"})
    OBVIOUS
  <2>3. R = O6 \ {xn, ga, gy, yn, gf}
    BY <1>1, <1>2
  <2> HIDE DEF names, R, O6
  <2> QED BY <2>1, <2>2, <2>3, DropsTo
<1>12. Good(P1, After(P, {}), After(O3, {}))
  BY <1>3, <1>4, <1>5, <1>6, Then4
<1>13. Good(P2, After(P, {}), After(O6, {T}))
  <2> HIDE DEF P1
  <2> QED BY <1>12, <1>7, <1>8, <1>9, Then4
<1>14. Good(P2 \o Kernel({T}, {gy, xn}) \o Drops(l, names), After(P, {}), After(R, {}))
  <2> HIDE DEF P2, names
  <2> QED BY <1>13, <1>10, <1>11, Then3
<1> QED BY <1>14 DEF BlockB

-----------------------------------------------------------------------------
(* Layer by layer.  The induction over the layers goes by the set of the   *)
(* numbers of layers for which a claim holds.                              *)
LEMMA Induction ==
  ASSUME NEW M, 0 \in M, \A n \in Nat : n \in M => n + 1 \in M, NEW k \in Nat
  PROVE  k \in M
<1> SUFFICES ASSUME k \notin M PROVE FALSE
  OBVIOUS
<1> DEFINE S == {n \in Nat : n \notin M}
<1>1. PICK m \in S : \A n \in S : m <= n
  <2>1. S \subseteq Nat /\ S # {}
    OBVIOUS
  <2> HIDE DEF S
  <2> QED BY <2>1, LeastNatural
<1>2. m # 0
  OBVIOUS
<1>3. m - 1 \in Nat /\ m - 1 \notin S
  BY <1>1, <1>2
<1>4. m - 1 \in M
  BY <1>3
<1>5. (m - 1) + 1 \in M
  BY <1>3, <1>4
<1>6. (m - 1) + 1 = m
  BY <1>1
<1> QED BY <1>5, <1>6

(* What BlocksF and BlocksB add for layer k. *)
AddBlock(way, k, s) ==
  IF way = "forward" THEN s \o BlockF(k, H, T) \o Assign(H, T)
  ELSE BlockB(k, G, T) \o Assign(G, T) \o s

(* g is that recursion, up to n layers. *)
Follows(way, g, n) ==
  g = [k \in 0 .. n |-> IF k = 0 THEN << >> ELSE AddBlock(way, k, g[k - 1])]

LEMMA FollowsNext ==
  ASSUME NEW way, NEW n \in Nat, NEW g, Follows(way, g, n)
  PROVE  \E h : Follows(way, h, n + 1)
<1> DEFINE h == [k \in 0 .. n + 1 |-> IF k = n + 1 THEN AddBlock(way, k, g[n]) ELSE g[k]]
           F == [k \in 0 .. n + 1 |-> IF k = 0 THEN << >> ELSE AddBlock(way, k, h[k - 1])]
<1>1. \A k \in 0 .. n : g[k] = IF k = 0 THEN << >> ELSE AddBlock(way, k, g[k - 1])
  BY DEF Follows
<1>2. ASSUME NEW k \in 0 .. n + 1
      PROVE  h[k] = IF k = 0 THEN << >> ELSE AddBlock(way, k, h[k - 1])
  <2>1. CASE k = n + 1
    <3>1. k # 0 /\ k - 1 = n /\ n \in 0 .. n + 1 /\ n # n + 1
      BY <2>1
    <3>2. h[n] = g[n] /\ h[k] = AddBlock(way, k, g[n])
      BY <2>1, <3>1
    <3> QED BY <3>1, <3>2
  <2>2. CASE k \in 0 .. n
    <3>1. h[k] = g[k]
      BY <2>2
    <3>2. ASSUME k # 0 PROVE h[k - 1] = g[k - 1]
      <4>1. k - 1 \in 0 .. n + 1 /\ k - 1 # n + 1
        BY <2>2, <3>2
      <4> QED BY <4>1
    <3> QED BY <1>1, <2>2, <3>1, <3>2
  <2> QED BY <2>1, <2>2
<1>3. h = [k \in 0 .. n + 1 |-> h[k]]
  OBVIOUS
<1>4. h = F
  <2> HIDE DEF h
  <2> QED BY <1>2, <1>3
<1> QED BY <1>4 DEF Follows

LEMMA SomeFollows == ASSUME NEW way, NEW n \in Nat PROVE \E g : Follows(way, g, n)
<1> DEFINE M == {m \in Nat : \E g : Follows(way, g, m)}
<1>1. 0 \in M
  <2> DEFINE g == [k \in 0 .. 0 |-> << >>]
             F == [k \in 0 .. 0 |-> IF k = 0 THEN << >> ELSE AddBlock(way, k, g[k - 1])]
  <2>1. g = F
    OBVIOUS
  <2> QED BY <2>1 DEF Follows
<1>2. \A m \in Nat : m \in M => m + 1 \in M
  BY FollowsNext
<1>3. n \in M
  <2> HIDE DEF M
  <2> QED BY <1>1, <1>2, Induction
<1> QED BY <1>3

LEMMA BlocksFollow ==
  ASSUME shape \in Shapes
  PROVE  Follows("forward", BlocksF, shape.layers) /\ Follows("backward", BlocksB, shape.layers)
<1>1. shape.layers \in Nat
  BY SizesPositive
<1>2. Follows("forward", BlocksF, shape.layers)
  <2>1. PICK g : Follows("forward", g, shape.layers)
    BY <1>1, SomeFollows
  <2> DEFINE f == CHOOSE f : f = [l \in 0 .. shape.layers |->
                    IF l = 0 THEN << >> ELSE f[l - 1] \o BlockF(l, H, T) \o Assign(H, T)]
  <2>2. g = [l \in 0 .. shape.layers |->
               IF l = 0 THEN << >> ELSE g[l - 1] \o BlockF(l, H, T) \o Assign(H, T)]
    BY <2>1 DEF Follows, AddBlock
  <2>3. f = [l \in 0 .. shape.layers |->
               IF l = 0 THEN << >> ELSE f[l - 1] \o BlockF(l, H, T) \o Assign(H, T)]
    BY <2>2
  <2>4. BlocksF = f
    BY DEF BlocksF
  <2> HIDE DEF f
  <2> QED BY <2>3, <2>4 DEF Follows, AddBlock
<1>3. Follows("backward", BlocksB, shape.layers)
  <2>1. PICK g : Follows("backward", g, shape.layers)
    BY <1>1, SomeFollows
  <2> DEFINE f == CHOOSE f : f = [l \in 0 .. shape.layers |->
                    IF l = 0 THEN << >> ELSE BlockB(l, G, T) \o Assign(G, T) \o f[l - 1]]
  <2>2. g = [l \in 0 .. shape.layers |->
               IF l = 0 THEN << >> ELSE BlockB(l, G, T) \o Assign(G, T) \o g[l - 1]]
    BY <2>1 DEF Follows, AddBlock
  <2>3. f = [l \in 0 .. shape.layers |->
               IF l = 0 THEN << >> ELSE BlockB(l, G, T) \o Assign(G, T) \o f[l - 1]]
    BY <2>2
  <2>4. BlocksB = f
    BY DEF BlocksB
  <2> HIDE DEF f
  <2> QED BY <2>3, <2>4 DEF Follows, AddBlock
<1> QED BY <1>2, <1>3

(* The owners that the layers up to k leave behind. *)
Upto(k) == UNION {MembersOf(j) : j \in 1 .. k}

LEMMA UptoIs ==
  /\ Upto(0) = {}
  /\ \A k \in Nat : Upto(k + 1) = Upto(k) \cup MembersOf(k + 1)
  /\ \A k \in Nat : \A s \in Upto(k) : s[1] \in 1 .. k /\ s \in MembersOf(s[1])
<1>1. Upto(0) = {}
  BY DEF Upto
<1>2. ASSUME NEW k \in Nat PROVE Upto(k + 1) = Upto(k) \cup MembersOf(k + 1)
  <2>1. 1 .. (k + 1) = (1 .. k) \cup {k + 1}
    OBVIOUS
  <2> QED BY <2>1 DEF Upto
<1>3. ASSUME NEW k \in Nat, NEW s \in Upto(k) PROVE s[1] \in 1 .. k /\ s \in MembersOf(s[1])
  <2>1. PICK j \in 1 .. k : s \in MembersOf(j)
    BY DEF Upto
  <2>2. s[1] = j
    BY <2>1 DEF MembersOf
  <2> QED BY <2>1, <2>2
<1> QED BY <1>1, <1>2, <1>3

LEMMA BlocksFOk ==
  ASSUME shape \in Shapes, NEW n \in Nat, n <= shape.layers
  PROVE  Good(BlocksF[n], After({H}, {}), After({H} \cup Upto(n), {}))
<1> DEFINE M == {k \in Nat : k <= shape.layers =>
                   Good(BlocksF[k], After({H}, {}), After({H} \cup Upto(k), {}))}
<1>1. /\ shape.layers \in Nat
      /\ \A k \in 0 .. shape.layers :
           BlocksF[k] = IF k = 0 THEN << >> ELSE BlocksF[k - 1] \o BlockF(k, H, T) \o Assign(H, T)
  BY SizesPositive, BlocksFollow DEF Follows, AddBlock
<1>2. 0 \in M
  <2>1. BlocksF[0] = << >>
    BY <1>1
  <2>2. {H} \cup Upto(0) = {H}
    BY UptoIs
  <2> QED BY <2>1, <2>2, NothingIsGood
<1>3. ASSUME NEW k \in Nat, k \in M PROVE k + 1 \in M
  <2> SUFFICES ASSUME k + 1 <= shape.layers
               PROVE  Good(BlocksF[k + 1], After({H}, {}), After({H} \cup Upto(k + 1), {}))
    OBVIOUS
  <2> DEFINE P == {H} \cup Upto(k)
             R == P \cup MembersOf(k + 1) \cup {T}
  <2>1. Good(BlocksF[k], After({H}, {}), After(P, {}))
    BY <1>1, <1>3
  <2>2. Clear(k + 1, P) /\ T \notin P
    <3>1. Fresh[1] = 0 /\ T[1] = 0 /\ H[1] = 0 /\ H # Fresh /\ H # T
      BY DEF Fresh, T, H
    <3>2. \A s \in Upto(k) : s[1] \in 1 .. k
      BY UptoIs
    <3> QED BY <3>1, <3>2 DEF Clear
  <2>3. Good(BlockF(k + 1, H, T), After(P, {}), After(R, {}))
    BY <2>2, BlockFOk
  <2>4. Good(Assign(H, T), After(R, {}), After({H} \cup Upto(k + 1), {}))
    <3>1. Upto(k + 1) = Upto(k) \cup MembersOf(k + 1)
      BY UptoIs
    <3>2. T \in R /\ H # T /\ T \notin MembersOf(k + 1)
      BY DEF T, H, MembersOf
    <3>3. {H} \cup Upto(k + 1) = (R \ {T}) \cup {H}
      BY <2>2, <3>1, <3>2
    <3> HIDE DEF R
    <3> QED BY <3>2, <3>3, MoveTo
  <2>5. BlocksF[k + 1] = BlocksF[k] \o BlockF(k + 1, H, T) \o Assign(H, T)
    <3>1. k + 1 \in 0 .. shape.layers /\ k + 1 # 0 /\ (k + 1) - 1 = k
      BY <1>1
    <3> QED BY <1>1, <3>1
  <2> HIDE DEF P, R
  <2> QED BY <2>1, <2>3, <2>4, <2>5, Then3
<1>4. n \in M
  <2> HIDE DEF M
  <2> QED BY <1>2, <1>3, Induction
<1> QED BY <1>4

LEMMA BlocksBOk ==
  ASSUME shape \in Shapes, NEW O, G \in O, T \notin O, \A l \in 1 .. shape.layers : Kept(l, O),
         NEW n \in Nat, n <= shape.layers
  PROVE  Good(BlocksB[n], After(O, {}), After(O, {}))
<1> DEFINE M == {k \in Nat : k <= shape.layers => Good(BlocksB[k], After(O, {}), After(O, {}))}
<1>1. /\ shape.layers \in Nat
      /\ \A k \in 0 .. shape.layers :
           BlocksB[k] = IF k = 0 THEN << >> ELSE BlockB(k, G, T) \o Assign(G, T) \o BlocksB[k - 1]
  BY SizesPositive, BlocksFollow DEF Follows, AddBlock
<1>2. 0 \in M
  <2>1. BlocksB[0] = << >>
    BY <1>1
  <2> QED BY <2>1, NothingIsGood
<1>3. ASSUME NEW k \in Nat, k \in M PROVE k + 1 \in M
  <2> SUFFICES ASSUME k + 1 <= shape.layers
               PROVE  Good(BlocksB[k + 1], After(O, {}), After(O, {}))
    OBVIOUS
  <2>1. Good(BlocksB[k], After(O, {}), After(O, {}))
    BY <1>1, <1>3
  <2>2. Good(BlockB(k + 1, G, T), After(O, {}), After(O \cup {T}, {}))
    <3>1. Kept(k + 1, O)
      BY <1>1
    <3> QED BY <3>1, BlockBOk
  <2>3. Good(Assign(G, T), After(O \cup {T}, {}), After(O, {}))
    <3>1. T \in O \cup {T} /\ G # T
      BY DEF T, G
    <3>2. O = ((O \cup {T}) \ {T}) \cup {G}
      OBVIOUS
    <3> QED BY <3>1, <3>2, MoveTo
  <2>4. BlocksB[k + 1] = BlockB(k + 1, G, T) \o Assign(G, T) \o BlocksB[k]
    <3>1. k + 1 \in 0 .. shape.layers /\ k + 1 # 0 /\ (k + 1) - 1 = k
      BY <1>1
    <3> QED BY <1>1, <3>1
  <2> QED BY <2>1, <2>2, <2>3, <2>4, Then3
<1>4. n \in M
  <2> HIDE DEF M
  <2> QED BY <1>2, <1>3, Induction
<1> QED BY <1>4

(* What is left at the end of a micro-batch. *)
FinalRstd == <<0, "final_norm", "rstd">>

LEMMA MembersAre == shape \in Shapes => Members = Upto(shape.layers) \cup {FinalRstd}
<1> SUFFICES ASSUME shape \in Shapes PROVE Members = Upto(shape.layers) \cup {FinalRstd}
  OBVIOUS
<1> DEFINE L == shape.layers
           ms == {"saved_q", "saved_k", "saved_v", "saved_out", "combined", "silu_mul", "after_attn"}
           A == {<<l, m>> : l \in 1 .. L, m \in ms}
           B == {<<l, nm, "rstd">> : l \in 1 .. L, nm \in {"norm1", "norm2"}}
<1>1. Members = A \cup B \cup {FinalRstd}
  BY DEF Members, FinalRstd
<1>2. ASSUME NEW l \in 1 .. L, NEW s \in MembersOf(l) PROVE s \in A \cup B
  <2>1. CASE \E m \in ms : s = <<l, m>>
    BY <2>1
  <2>2. CASE \E nm \in {"norm1", "norm2"} : s = <<l, nm, "rstd">>
    BY <2>2
  <2>3. (\E m \in ms : s = <<l, m>>) \/ (\E nm \in {"norm1", "norm2"} : s = <<l, nm, "rstd">>)
    BY DEF MembersOf
  <2> QED BY <2>1, <2>2, <2>3
<1>3. ASSUME NEW s \in A \cup B PROVE \E l \in 1 .. L : s \in MembersOf(l)
  <2>1. CASE s \in A
    <3>1. PICK l \in 1 .. L, m \in ms : s = <<l, m>>
      BY <2>1
    <3>2. <<l, m>> \in MembersOf(l)
      BY DEF MembersOf
    <3> QED BY <3>1, <3>2
  <2>2. CASE s \in B
    <3>1. PICK l \in 1 .. L, nm \in {"norm1", "norm2"} : s = <<l, nm, "rstd">>
      BY <2>2
    <3>2. <<l, nm, "rstd">> \in MembersOf(l)
      BY DEF MembersOf
    <3> QED BY <3>1, <3>2
  <2> QED BY <2>1, <2>2
<1>4. A \cup B = Upto(L)
  <2> HIDE DEF A, B
  <2> QED BY <1>2, <1>3 DEF Upto
<1> QED BY <1>1, <1>4

LEMMA TransformerFOk ==
  ASSUME shape \in Shapes, NEW lo, lo = <<0, "logits">>
  PROVE  Good(TransformerF(lo), After({}, {}), After(Members \cup {lo}, {}))
<1> DEFINE L == shape.layers
           fr == FinalRstd
           U == Upto(L)
           O1 == {H} \cup U
           O2 == {H, T, fr} \cup U
           O3 == {H, fr} \cup U
           O4 == {H, fr, lo} \cup U
           P1 == Take(H, Model) \o Kernel({H}, {}) \o BlocksF[L] \o RMSNormF(0, "final_norm", H, T)
<1>1. L \in Nat /\ \A s \in U : s[1] # 0
  <2>1. L \in Nat
    BY SizesPositive
  <2> HIDE DEF L
  <2> QED BY <2>1, UptoIs
<1>2. H = <<0, "h">> /\ T = <<0, "result">> /\ Fresh = <<0, "fresh">> /\ fr = <<0, "final_norm", "rstd">>
  BY DEF H, T, Fresh, FinalRstd
<1>3. H \notin U /\ T \notin U /\ Fresh \notin U /\ fr \notin U /\ lo \notin U
      /\ <<0, "final_norm", "in">> \notin U /\ <<0, "lm_head", "in">> \notin U
  BY <1>1, <1>2
<1>4. Good(Take(H, Model), After({}, {}), After({H}, {H}))
  BY SizesPositive, TakeTo
<1>5. Good(Kernel({H}, {}), After({H}, {H}), After({H}, {}))
  BY KernelTo
<1>6. Good(BlocksF[L], After({H}, {}), After(O1, {}))
  <2>1. L \in Nat /\ L <= L
    BY <1>1
  <2> QED BY <2>1, BlocksFOk
<1> HIDE DEF U
<1>7. Good(RMSNormF(0, "final_norm", H, T), After(O1, {}), After(O2, {}))
  <2>1. Fresh \notin O1 /\ <<0, "final_norm", "in">> \notin O1 /\ fr \notin O1 /\ T \notin O1
    BY <1>2, <1>3
  <2>2. T # Fresh /\ T # fr /\ H # T /\ H # fr /\ O2 = O1 \cup {T, fr}
    BY <1>2
  <2> HIDE DEF O1, O2
  <2> QED BY <1>2, <2>1, <2>2, RMSNormFOk
<1>8. Good(Assign(H, T), After(O2, {}), After(O3, {}))
  <2>1. T \in O2 /\ H # T /\ O3 = (O2 \ {T}) \cup {H}
    BY <1>2, <1>3
  <2> HIDE DEF O2, O3
  <2> QED BY <2>1, MoveTo
<1>9. Good(LinearF(0, "lm_head", H, lo, Logits), After(O3, {}), After(O4, {}))
  <2>1. <<0, "lm_head", "in">> \notin O3 /\ lo \notin O3 /\ H # lo /\ O4 = O3 \cup {lo}
    BY <1>2, <1>3
  <2> HIDE DEF O3, O4
  <2> QED BY <2>1, SizesPositive, LinearFOk
<1>10. Good(Drop(H), After(O4, {}), After(Members \cup {lo}, {}))
  <2>1. Members = U \cup {fr}
    BY MembersAre DEF U
  <2>2. Members \cup {lo} = O4 \ {H}
    BY <1>2, <1>3, <2>1
  <2> QED BY <2>2, DropTo
<1>11. Good(P1, After({}, {}), After(O2, {}))
  BY <1>4, <1>5, <1>6, <1>7, Then4
<1>12. Good(P1 \o Assign(H, T) \o LinearF(0, "lm_head", H, lo, Logits) \o Drop(H),
            After({}, {}), After(Members \cup {lo}, {}))
  <2> HIDE DEF P1
  <2> QED BY <1>8, <1>9, <1>10, <1>11, Then4
<1> QED BY <1>12 DEF TransformerF

LEMMA TransformerBOk ==
  ASSUME shape \in Shapes, NEW gl, NEW O, gl = <<0, "glogits">>, O = Members \cup {<<0, "logits">>, gl}
  PROVE  Good(TransformerB(gl), After(O, {}), After(O, {}))
<1> DEFINE L == shape.layers
           O1 == O \cup {G}
           O2 == O \cup {G, T}
           P1 == LinearB(0, "lm_head", gl, G, Model) \o RMSNormB(0, "final_norm", G, T) \o Assign(G, T)
                 \o BlocksB[L]
<1>1. L \in Nat /\ Members = Upto(L) \cup {FinalRstd}
  BY SizesPositive, MembersAre
<1>2. \A s \in O : (s[1] # 0 /\ s \in MembersOf(s[1])) \/ s \in {FinalRstd, <<0, "logits">>, gl}
  <2>1. \A s \in Upto(L) : s[1] # 0 /\ s \in MembersOf(s[1])
    BY <1>1, UptoIs
  <2> QED BY <1>1, <2>1
<1>3. G = <<0, "g">> /\ T = <<0, "result">> /\ FinalRstd = <<0, "final_norm", "rstd">>
  BY DEF G, T, FinalRstd
<1>4. G \notin O /\ T \notin O /\ G # T /\ gl # G
  BY <1>2, <1>3
<1>5. \A l \in 1 .. L : Kept(l, O1)
  BY <1>2, <1>3 DEF Kept
<1>6. Good(LinearB(0, "lm_head", gl, G, Model), After(O, {}), After(O1, {}))
  BY <1>4, SizesPositive, LinearBOk
<1>7. Good(RMSNormB(0, "final_norm", G, T), After(O1, {}), After(O2, {}))
  <2>1. T \notin O1 /\ T \notin {G, <<0, "final_norm", "in">>, <<0, "final_norm", "rstd">>} /\ O2 = O1 \cup {T}
    BY <1>3, <1>4
  <2> HIDE DEF O1, O2
  <2> QED BY <2>1, RMSNormBOk
<1>8. Good(Assign(G, T), After(O2, {}), After(O1, {}))
  <2>1. T \in O2 /\ G # T /\ O1 = (O2 \ {T}) \cup {G}
    BY <1>4
  <2> HIDE DEF O1, O2
  <2> QED BY <2>1, MoveTo
<1>9. Good(BlocksB[L], After(O1, {}), After(O1, {}))
  <2>1. G \in O1 /\ T \notin O1
    BY <1>4
  <2> HIDE DEF O1
  <2> QED BY <1>1, <1>5, <2>1, BlocksBOk
<1>10. Good(Kernel({}, {G}), After(O1, {}), After(O1, {}))
  BY KernelTo
<1>11. Good(Drop(G), After(O1, {}), After(O, {}))
  <2>1. O = O1 \ {G}
    BY <1>4
  <2> HIDE DEF O1
  <2> QED BY <2>1, DropTo
<1>12. Good(P1, After(O, {}), After(O1, {}))
  BY <1>6, <1>7, <1>8, <1>9, Then4
<1>13. Good(P1 \o Kernel({}, {G}) \o Drop(G), After(O, {}), After(O, {}))
  <2> HIDE DEF P1
  <2> QED BY <1>10, <1>11, <1>12, Then3
<1> QED BY <1>13 DEF TransformerB

(* A micro-batch, from an arena without tensors: whatever the model's      *)
(* shape, no instruction of it goes wrong, and the saved members remain.   *)
LEMMA MicroBatchOk ==
  ASSUME shape \in Shapes
  PROVE  Good(MicroBatch, After({}, {}), After(Members, {}))
<1> DEFINE lo == <<0, "logits">>
           gl == <<0, "glogits">>
           O1 == Members \cup {lo}
           O2 == Members \cup {lo, gl}
           P1 == TransformerF(lo) \o Take(gl, Logits) \o Kernel({gl}, {lo}) \o TransformerB(gl)
<1>1. lo \notin Members /\ gl \notin Members /\ lo # gl
  <2>1. \A s \in Upto(shape.layers) : s[1] # 0
    BY SizesPositive, UptoIs
  <2> QED BY <2>1, MembersAre DEF FinalRstd
<1>2. Good(TransformerF(lo), After({}, {}), After(O1, {}))
  BY TransformerFOk
<1>3. Good(Take(gl, Logits), After(O1, {}), After(O2, {gl}))
  BY <1>1, SizesPositive, TakeTo
<1>4. Good(Kernel({gl}, {lo}), After(O2, {gl}), After(O2, {}))
  BY <1>1, KernelTo
<1>5. Good(TransformerB(gl), After(O2, {}), After(O2, {}))
  BY TransformerBOk
<1>6. Good(Drops(0, <<"glogits", "logits">>), After(O2, {}), After(Members, {}))
  <2>1. {<<0, <<"glogits", "logits">>[i]>> : i \in DOMAIN <<"glogits", "logits">>} = {gl, lo}
    OBVIOUS
  <2>2. <<"glogits", "logits">> \in Seq({"glogits", "logits"})
    OBVIOUS
  <2>3. Members = O2 \ {gl, lo}
    BY <1>1
  <2> QED BY <2>1, <2>2, <2>3, DropsTo
<1>7. Good(P1, After({}, {}), After(O2, {}))
  BY <1>2, <1>3, <1>4, <1>5, Then4
<1>8. Good(P1 \o Drops(0, <<"glogits", "logits">>), After({}, {}), After(Members, {}))
  <2> HIDE DEF P1
  <2> QED BY <1>6, <1>7, Then
<1> QED BY <1>8 DEF MicroBatch

-----------------------------------------------------------------------------
(* The instructions of a micro-batch are those of its shape, which stays. *)
LEMMA SizesStay ==
  ASSUME shape' = shape
  PROVE  /\ Model' = Model /\ KV' = KV /\ Scores' = Scores /\ Hidden' = Hidden
         /\ Logits' = Logits /\ Rstd' = Rstd
BY DEF Model, KV, Scores, Hidden, Logits, Rstd

LEMMA BlockFStays == ASSUME shape' = shape, NEW l PROVE BlockF(l, H, T)' = BlockF(l, H, T)
BY SizesStay DEF BlockF, RMSNormF, AttentionF, HeadsF, SdpaF, FFNF, LinearF, H, T

LEMMA BlockBStays == ASSUME shape' = shape, NEW l PROVE BlockB(l, G, T)' = BlockB(l, G, T)
BY SizesStay DEF BlockB, RMSNormB, AttentionB, HeadsB, SdpaB, FFNB, LinearB, G, T

LEMMA BlocksFStay == ASSUME shape' = shape PROVE BlocksF' = BlocksF
<1> DEFINE IsNow(f) == f = [l \in 0 .. shape.layers |->
                       IF l = 0 THEN << >> ELSE f[l - 1] \o BlockF(l, H, T) \o Assign(H, T)]
           IsNext(f) == f = [l \in 0 .. shape'.layers |->
                       IF l = 0 THEN << >> ELSE f[l - 1] \o BlockF(l, H, T)' \o Assign(H, T)]
<1>1. ASSUME NEW f PROVE IsNow(f) <=> IsNext(f)
  <2>1. \A l : BlockF(l, H, T)' = BlockF(l, H, T)
    BY BlockFStays
  <2>2. [l \in 0 .. shape.layers |->
           IF l = 0 THEN << >> ELSE f[l - 1] \o BlockF(l, H, T) \o Assign(H, T)]
         = [l \in 0 .. shape'.layers |->
             IF l = 0 THEN << >> ELSE f[l - 1] \o BlockF(l, H, T)' \o Assign(H, T)]
    BY <2>1
  <2> QED BY <2>2
<1>2. BlocksF = CHOOSE f : IsNow(f)
  BY DEF BlocksF
<1>3. BlocksF' = CHOOSE f : IsNext(f)
  BY DEF BlocksF, H, T
<1> HIDE DEF IsNow, IsNext
<1>4. (CHOOSE f : IsNow(f)) = (CHOOSE f : IsNext(f))
  BY <1>1
<1> QED BY <1>2, <1>3, <1>4

LEMMA BlocksBStay == ASSUME shape' = shape PROVE BlocksB' = BlocksB
<1> DEFINE IsNow(f) == f = [l \in 0 .. shape.layers |->
                       IF l = 0 THEN << >> ELSE BlockB(l, G, T) \o Assign(G, T) \o f[l - 1]]
           IsNext(f) == f = [l \in 0 .. shape'.layers |->
                       IF l = 0 THEN << >> ELSE BlockB(l, G, T)' \o Assign(G, T) \o f[l - 1]]
<1>1. ASSUME NEW f PROVE IsNow(f) <=> IsNext(f)
  <2>1. \A l : BlockB(l, G, T)' = BlockB(l, G, T)
    BY BlockBStays
  <2>2. [l \in 0 .. shape.layers |->
           IF l = 0 THEN << >> ELSE BlockB(l, G, T) \o Assign(G, T) \o f[l - 1]]
         = [l \in 0 .. shape'.layers |->
             IF l = 0 THEN << >> ELSE BlockB(l, G, T)' \o Assign(G, T) \o f[l - 1]]
    BY <2>1
  <2> QED BY <2>2
<1>2. BlocksB = CHOOSE f : IsNow(f)
  BY DEF BlocksB
<1>3. BlocksB' = CHOOSE f : IsNext(f)
  BY DEF BlocksB, G, T
<1> HIDE DEF IsNow, IsNext
<1>4. (CHOOSE f : IsNow(f)) = (CHOOSE f : IsNext(f))
  BY <1>1
<1> QED BY <1>2, <1>3, <1>4

LEMMA MicroBatchStays == ASSUME shape' = shape PROVE MicroBatch' = MicroBatch /\ Members' = Members
<1>1. MicroBatch' = MicroBatch
  BY SizesStay, BlocksFStay, BlocksBStay
  DEF MicroBatch, TransformerF, TransformerB, RMSNormF, RMSNormB, LinearF, LinearB
<1>2. Members' = Members
  BY DEF Members
<1> QED BY <1>1, <1>2

-----------------------------------------------------------------------------
(* Running the instructions.  The owners and the stale owners are at each  *)
(* moment what the trace of the micro-batch says, and the arena is sound.  *)
State == After(Live, stale \cap Live)

(* One step of the machine follows one instruction of the trace. *)
FollowsTo(r) == Sound(arena, own)' /\ State' = r

LEMMA TakeFollows ==
  ASSUME Sound(arena, own), NEW r, Leads(Now, State, r), TakeScratch
  PROVE  FollowsTo(r)
<1>1. PICK t : t = Now.t
  OBVIOUS
<1>2. PICK n : n = Now.n
  OBVIOUS
<1>3. Now.op = "take" /\ AllocCall(t, n) /\ stale' = stale \cup {t}
  BY <1>1, <1>2 DEF TakeScratch, Runs
<1>4. /\ t \notin Live /\ n \in Positive
      /\ r = After(Live \cup {t}, (stale \cap Live) \cup {t})
  BY <1>1, <1>2, <1>3 DEF Leads, State, After
<1>5. Sound(arena, own)' /\ Live' = Live \cup {t}
  BY <1>3, <1>4, AllocCallSound
<1>6. stale' \cap Live' = (stale \cap Live) \cup {t}
  BY <1>3, <1>5
<1> QED BY <1>4, <1>5, <1>6 DEF FollowsTo, State, After

(* A block that changes hands. *)
LEMMA MoveSound ==
  ASSUME NEW a, NEW f, Sound(a, f), NEW u \in DOMAIN f, NEW t, t \notin DOMAIN f,
         NEW g, DOMAIN g = (DOMAIN f \ {u}) \cup {t}, g[t] = f[u],
         \A w \in DOMAIN f \ {u} : g[w] = f[w]
  PROVE  Sound(a, g)
<1> DEFINE Was(w) == IF w = t THEN u ELSE w
<1>1. \A w \in DOMAIN g : Was(w) \in DOMAIN f /\ g[w] = f[Was(w)]
  OBVIOUS
<1>2. \A w, z \in DOMAIN g : w # z => Was(w) # Was(z)
  OBVIOUS
<1> HIDE DEF Was
<1> QED BY <1>1, <1>2 DEF Sound

LEMMA MoveFollows ==
  ASSUME Sound(arena, own), NEW r, Leads(Now, State, r), MoveAssign
  PROVE  FollowsTo(r)
<1>1. PICK t : t = Now.t
  OBVIOUS
<1>2. PICK u : u = Now.u
  OBVIOUS
<1>3. /\ Now.op = "assign" /\ Move(t, u)
      /\ stale' = (stale \ {t, u}) \cup (IF u \in stale THEN {t} ELSE {})
  BY <1>1, <1>2 DEF MoveAssign, Runs
<1>4. /\ u \in Live /\ t # u
      /\ \/ u \notin stale /\ r = After((Live \ {u}) \cup {t}, (stale \cap Live) \ {t})
         \/ u \in stale /\ r = After((Live \ {u}) \cup {t}, ((stale \cap Live) \ {u}) \cup {t})
  BY <1>1, <1>2, <1>3 DEF Leads, State, After
<1>5. own' = Put(Cut(own, u), t, own[u])
  BY <1>3 DEF Move
<1>6. /\ DOMAIN own' = (Live \ {u}) \cup {t} /\ own'[t] = own[u]
      /\ \A w \in Live \ {u} : w # t => own'[w] = own[w]
  BY <1>5 DEF Put, Cut, Live
<1>7. Sound(arena', own')
  <2>1. CASE t \in Live
    <3> DEFINE f == Cut(own, t)
    <3>1. arena' = Free(arena, own[t])
      BY <1>3, <2>1 DEF Move
    <3>2. DOMAIN f = Live \ {t} /\ \A w \in DOMAIN f : f[w] = own[w]
      BY DEF Cut, Live
    <3> HIDE DEF f
    <3>3. Sound(arena', f)
      BY <2>1, <3>1, <3>2, FreeSound DEF Live
    <3>4. /\ u \in DOMAIN f /\ t \notin DOMAIN f /\ DOMAIN own' = (DOMAIN f \ {u}) \cup {t}
          /\ own'[t] = f[u] /\ \A w \in DOMAIN f \ {u} : own'[w] = f[w]
      BY <1>4, <1>6, <3>2
    <3> QED BY <3>3, <3>4, MoveSound
  <2>2. CASE t \notin Live
    <3>1. arena' = arena
      BY <1>3, <2>2 DEF Move
    <3>2. /\ u \in DOMAIN own /\ t \notin DOMAIN own /\ DOMAIN own' = (DOMAIN own \ {u}) \cup {t}
          /\ \A w \in DOMAIN own \ {u} : own'[w] = own[w]
      BY <1>4, <1>6, <2>2 DEF Live
    <3> QED BY <1>6, <3>1, <3>2, MoveSound
  <2> QED BY <2>1, <2>2
<1>8. Live' = (Live \ {u}) \cup {t}
  BY <1>6 DEF Live
<1>9. r = After(Live', stale' \cap Live')
  <2>1. CASE u \notin stale
    <3>1. stale' \cap Live' = (stale \cap Live) \ {t}
      BY <1>3, <1>8, <2>1
    <3> QED BY <1>4, <1>8, <2>1, <3>1
  <2>2. CASE u \in stale
    <3>1. stale' \cap Live' = ((stale \cap Live) \ {u}) \cup {t}
      BY <1>3, <1>4, <1>8, <2>2
    <3> QED BY <1>4, <1>8, <2>2, <3>1
  <2> QED BY <2>1, <2>2
<1>10. Sound(arena, own)' <=> Sound(arena', own')
  BY DEF Sound, Blocks, Below, Disjoint
<1> QED BY <1>7, <1>9, <1>10 DEF FollowsTo, State, After

LEMMA ViewFollows ==
  ASSUME Sound(arena, own), NEW r, Leads(Now, State, r), TakeView
  PROVE  FollowsTo(r)
<1>1. PICK t : t = Now.t
  OBVIOUS
<1>2. /\ Now.op = "view" /\ arena' = arena /\ own' = own
      /\ stale' = stale \cup {t} \/ stale' = stale \ {t}
  BY <1>1 DEF TakeView, Runs
<1>3. t \notin Live /\ r = State
  BY <1>1, <1>2 DEF Leads, State, After
<1>4. Live' = Live /\ stale' \cap Live' = stale \cap Live
  BY <1>2, <1>3 DEF Live
<1>5. Sound(arena, own)'
  BY <1>2 DEF Sound, Blocks, Below, Disjoint
<1> QED BY <1>3, <1>4, <1>5 DEF FollowsTo, State, After

(* A kernel overwrites no owner but the ones it writes to. *)
LEMMA KernelFollows ==
  ASSUME Sound(arena, own), NEW r, Leads(Now, State, r), RunKernel
  PROVE  FollowsTo(r)
<1>1. PICK outs : outs = Now.outs
  OBVIOUS
<1>2. /\ Now.op = "kernel" /\ arena' = arena /\ own' = own
      /\ stale' = {t \in Slots : t \in stale \ outs \/ \E o \in outs \ {t} : Overlap(o, t)}
  BY <1>1 DEF RunKernel, Runs
<1>3. outs \subseteq Live /\ r = After(Live, (stale \cap Live) \ outs)
  BY <1>1, <1>2 DEF Leads, State, After
<1>4. \A t, o \in Live : o # t => ~Overlap(o, t)
  BY DEF Sound, Overlap, Block, Live
<1>5. Live' = Live /\ stale' \cap Live' = (stale \cap Live) \ outs
  <2>1. Live' = Live /\ Live \subseteq Slots
    BY <1>2 DEF Live, Slots
  <2>2. \A t \in Live : t \in stale' <=> t \in stale \ outs
    BY <1>2, <1>3, <1>4, <2>1
  <2> QED BY <2>1, <2>2
<1>6. Sound(arena, own)'
  BY <1>2 DEF Sound, Blocks, Below, Disjoint
<1> QED BY <1>3, <1>5, <1>6 DEF FollowsTo, State, After

LEMMA DropFollows ==
  ASSUME Sound(arena, own), NEW r, Leads(Now, State, r), EndScope
  PROVE  FollowsTo(r)
<1>1. PICK t : t = Now.t
  OBVIOUS
<1>2. /\ Now.op = "drop" /\ stale' = stale \ {t}
      /\ IF t \in Live THEN FreeCall(t) ELSE UNCHANGED <<arena, own>>
  BY <1>1 DEF EndScope, Runs
<1>3. r = After(Live \ {t}, (stale \cap Live) \ {t})
  BY <1>1, <1>2 DEF Leads, State, After
<1>4. Sound(arena, own)' /\ Live' = Live \ {t}
  <2>1. CASE t \in Live
    BY <1>2, <2>1, FreeCallSound
  <2>2. CASE t \notin Live
    <3>1. arena' = arena /\ own' = own
      BY <1>2, <2>2
    <3>2. Live' = Live
      BY <3>1 DEF Live
    <3> QED BY <2>2, <3>1, <3>2 DEF Sound, Blocks, Below, Disjoint
  <2> QED BY <2>1, <2>2
<1>5. stale' \cap Live' = (stale \cap Live) \ {t}
  BY <1>2, <1>4
<1> QED BY <1>3, <1>4, <1>5 DEF FollowsTo, State, After

Instruction == TakeScratch \/ MoveAssign \/ TakeView \/ RunKernel \/ EndScope

LEMMA InstructionFollows ==
  ASSUME Sound(arena, own), NEW r, Leads(Now, State, r), Instruction
  PROVE  FollowsTo(r)
<1>1. TakeScratch \/ MoveAssign \/ TakeView \/ RunKernel \/ EndScope
  BY DEF Instruction
<1> QED BY <1>1, TakeFollows, MoveFollows, ViewFollows, KernelFollows, DropFollows

LEMMA InstructionSteps ==
  ASSUME Instruction
  PROVE  ~AtEnd /\ pc' = pc + 1 /\ shape' = shape /\ pass' = pass
BY DEF Instruction, TakeScratch, MoveAssign, TakeView, RunKernel, EndScope, Runs, Step

(* The first micro-batch: before it no tensor is alive; while it runs, f   *)
(* says which are alive and which of them are stale.                       *)
OnTrace(f) ==
  /\ Trace(MicroBatch, After({}, {}), After(Members, {}), f)
  /\ pc \in 1 .. Len(MicroBatch) + 1
  /\ f[pc - 1] = State

PassInv ==
  /\ shape \in Shapes /\ pass \in Nat
  /\ pass = 0 => AtEnd /\ Live = {}
  /\ pass = 1 => Sound(arena, own) /\ \E f : OnTrace(f)

LEMMA MicroBatchLength == shape \in Shapes => Len(MicroBatch) \in Nat
<1> SUFFICES ASSUME shape \in Shapes PROVE Len(MicroBatch) \in Nat
  OBVIOUS
<1>1. PICK I : MicroBatch \in Seq(I)
  BY MicroBatchOk DEF Good
<1> HIDE DEF MicroBatch
<1> QED BY <1>1

LEMMA PassInit == Init => PassInv
<1> SUFFICES ASSUME Init PROVE PassInv
  OBVIOUS
<1>1. shape \in Shapes /\ pass = 0 /\ pc = Len(MicroBatch) + 1 /\ own = NoTensors
  BY DEF Init
<1>2. Len(MicroBatch) \in Nat
  BY <1>1, MicroBatchLength
<1>3. AtEnd
  BY <1>1, <1>2 DEF AtEnd
<1>4. Live = {}
  BY <1>1 DEF Live, NoTensors
<1> QED BY <1>1, <1>3, <1>4 DEF PassInv

(* While the micro-batch is on its trace, an instruction keeps it there.   *)
LEMMA TraceGoesOn ==
  ASSUME shape \in Shapes, Sound(arena, own), NEW f, OnTrace(f), Instruction
  PROVE  Sound(arena, own)' /\ OnTrace(f)'
<1> DEFINE n == Len(MicroBatch)
<1>1. n \in Nat
  BY MicroBatchLength
<1>2. ~AtEnd /\ pc' = pc + 1 /\ shape' = shape
  BY InstructionSteps
<1>3. pc \in 1 .. n + 1 /\ ~(pc > n) /\ f[pc - 1] = State
  BY <1>2 DEF OnTrace, AtEnd
<1>4. /\ Trace(MicroBatch, After({}, {}), After(Members, {}), f)
      /\ \A k \in 1 .. n : Leads(MicroBatch[k], f[k - 1], f[k])
  BY DEF OnTrace, Trace
<1>5. MicroBatch' = MicroBatch /\ Members' = Members
  BY <1>2, MicroBatchStays
<1>6. n' = n
  BY <1>5
<1> HIDE DEF n
<1>7. pc \in 1 .. n
  BY <1>1, <1>3
<1>8. Leads(Now, State, f[pc])
  BY <1>3, <1>4, <1>7 DEF Now
<1>9. Sound(arena, own)' /\ State' = f[pc]
  BY <1>8, InstructionFollows DEF FollowsTo
<1>10. pc' \in 1 .. n' + 1 /\ pc' - 1 = pc
  BY <1>1, <1>2, <1>6, <1>7
<1>11. Trace(MicroBatch', After({}, {}), After(Members', {}), f)
  BY <1>4, <1>5
<1>12. OnTrace(f)'
  BY <1>9, <1>10, <1>11 DEF OnTrace, n, Trace, After, Leads
<1> QED BY <1>9, <1>12

(* step_begin() of the first pass puts the micro-batch on its trace.       *)
LEMMA TraceBegins ==
  ASSUME shape \in Shapes, Live = {}, StepBegin
  PROVE  Sound(arena, own)' /\ \E f : OnTrace(f)'
<1>1. shape' = shape /\ pc' = 1 /\ arena' = EmptyArena /\ own' = own /\ stale' = stale
  BY DEF StepBegin
<1>2. MicroBatch' = MicroBatch /\ Members' = Members
  BY <1>1, MicroBatchStays
<1>3. PICK f : Trace(MicroBatch, After({}, {}), After(Members, {}), f)
  BY MicroBatchOk DEF Good
<1>4. Len(MicroBatch) \in Nat
  BY MicroBatchLength
<1>5. Sound(arena', own')
  BY <1>1, EmptySound DEF Live
<1>6. Sound(arena, own)'
  BY <1>5 DEF Sound, Blocks, Below, Disjoint
<1>7. State' = After({}, {})
  BY <1>1 DEF State, Live, After
<1>8. f[pc' - 1] = After({}, {})
  BY <1>1, <1>3 DEF Trace
<1>9. pc' \in 1 .. Len(MicroBatch)' + 1
  BY <1>1, <1>2, <1>4
<1>10. Trace(MicroBatch', After({}, {}), After(Members', {}), f)
  BY <1>2, <1>3
<1>11. OnTrace(f)'
  BY <1>7, <1>8, <1>9, <1>10 DEF OnTrace, Trace, After, Leads
<1> QED BY <1>6, <1>11

LEMMA PassStep == PassInv /\ [Next]_vars => PassInv'
<1> SUFFICES ASSUME PassInv, [Next]_vars PROVE PassInv'
  OBVIOUS
<1>1. shape \in Shapes /\ pass \in Nat
  BY DEF PassInv
<1>2. CASE Instruction
  <2>1. ~AtEnd /\ shape' = shape /\ pass' = pass
    BY <1>2, InstructionSteps
  <2>2. pass' # 0
    BY <2>1 DEF PassInv
  <2>3. ASSUME pass' = 1 PROVE Sound(arena, own)' /\ \E f : OnTrace(f)'
    <3>1. Sound(arena, own) /\ \E f : OnTrace(f)
      BY <2>1, <2>3 DEF PassInv
    <3> QED BY <1>1, <1>2, <3>1, TraceGoesOn
  <2> QED BY <1>1, <2>1, <2>2, <2>3 DEF PassInv
<1>3. CASE StepBegin
  <2>1. shape' = shape /\ pass' = pass + 1
    BY <1>3 DEF StepBegin
  <2>2. pass' \in Nat /\ pass' # 0 /\ (pass' = 1 => pass = 0)
    BY <1>1, <2>1
  <2>3. ASSUME pass' = 1 PROVE Sound(arena, own)' /\ \E f : OnTrace(f)'
    <3>1. Live = {}
      BY <2>2, <2>3 DEF PassInv
    <3> QED BY <1>1, <1>3, <3>1, TraceBegins
  <2> QED BY <1>1, <2>1, <2>2, <2>3 DEF PassInv
<1>4. CASE UNCHANGED vars
  <2>1. /\ shape' = shape /\ pass' = pass /\ pc' = pc /\ arena' = arena /\ own' = own
        /\ stale' = stale
    BY <1>4 DEF vars
  <2>2. MicroBatch' = MicroBatch /\ Members' = Members
    BY <2>1, MicroBatchStays
  <2>3. Live' = Live /\ State' = State /\ (AtEnd' <=> AtEnd)
    BY <2>1, <2>2 DEF Live, State, After, AtEnd
  <2>4. Sound(arena, own) => Sound(arena, own)'
    BY <2>1 DEF Sound, Blocks, Below, Disjoint
  <2>5. ASSUME NEW f, OnTrace(f) PROVE OnTrace(f)'
    <3>1. Trace(MicroBatch', After({}, {}), After(Members', {}), f)
      BY <2>2, <2>5 DEF OnTrace
    <3>2. pc' \in 1 .. Len(MicroBatch') + 1 /\ f[pc' - 1] = State'
      BY <2>1, <2>2, <2>3, <2>5 DEF OnTrace
    <3> QED BY <3>1, <3>2 DEF OnTrace, Trace, After, Leads
  <2> QED BY <2>1, <2>3, <2>4, <2>5 DEF PassInv
<1> QED BY <1>2, <1>3, <1>4 DEF Next, Instruction

-----------------------------------------------------------------------------
(* For any model configurations, the first micro-batch runs as its trace   *)
(* says: layer by layer, on whatever arena.                                *)
THEOREM FirstPassOnTrace == Spec => []PassInv
BY PassInit, PassStep, PTL DEF Spec

(* Up to the first pass of run_micro_batch(), no two tensors that own      *)
(* storage share a byte, for any number of layers and any sizes.           *)
THEOREM OwnersDisjoint == Spec => [](pass <= 1 => LiveDisjoint)
<1>1. PassInv => (pass <= 1 => LiveDisjoint)
  <2> SUFFICES ASSUME PassInv, pass <= 1 PROVE LiveDisjoint
    OBVIOUS
  <2>1. pass = 0 \/ pass = 1
    BY DEF PassInv
  <2>2. CASE pass = 0
    BY <2>2 DEF PassInv, LiveDisjoint
  <2>3. CASE pass = 1
    BY <2>3, SoundMeans DEF PassInv
  <2> QED BY <2>1, <2>2, <2>3
<1> QED BY <1>1, FirstPassOnTrace, PTL

(* The first micro-batch gives back every temporary of every layer's       *)
(* forward() and backward(): only the members they save stay allocated.    *)
THEOREM FirstPassReturns == Spec => [](pass <= 1 => TemporariesReturned)
<1>1. PassInv => (pass <= 1 => TemporariesReturned)
  <2> SUFFICES ASSUME PassInv, pass <= 1, AtEnd, pass > 0 PROVE Live = Members
    BY DEF TemporariesReturned
  <2>1. pass = 1 /\ shape \in Shapes
    BY DEF PassInv
  <2>2. PICK f : OnTrace(f)
    BY <2>1 DEF PassInv
  <2>3. Len(MicroBatch) \in Nat
    BY <2>1, MicroBatchLength
  <2>4. pc - 1 = Len(MicroBatch)
    BY <2>2, <2>3 DEF OnTrace, AtEnd
  <2>5. State = After(Members, {})
    BY <2>2, <2>4 DEF OnTrace, Trace
  <2> QED BY <2>5 DEF State, After
<1> QED BY <1>1, FirstPassOnTrace, PTL

(* In the first micro-batch no kernel reads, from a tensor that owns its   *)
(* storage, anything but what was last written to that tensor.             *)
THEOREM FirstPassReads == Spec => [](pass <= 1 => OwnedReadsIntact)
<1>1. PassInv => (pass <= 1 => OwnedReadsIntact)
  <2> SUFFICES ASSUME PassInv, pass <= 1, ~AtEnd, Now.op = "kernel"
               PROVE  Now.ins \cap stale \cap Live = {}
    BY DEF OwnedReadsIntact, Runs
  <2>1. pass = 1 /\ shape \in Shapes
    BY DEF PassInv
  <2>2. PICK f : OnTrace(f)
    BY <2>1 DEF PassInv
  <2>3. Len(MicroBatch) \in Nat
    BY <2>1, MicroBatchLength
  <2>4. pc \in 1 .. Len(MicroBatch)
    BY <2>2, <2>3 DEF OnTrace, AtEnd
  <2>5. Leads(Now, State, f[pc])
    BY <2>2, <2>4 DEF OnTrace, Trace, Now
  <2>6. Now.ins \cap (stale \cap Live) = {}
    BY <2>5 DEF Leads, State, After
  <2> QED BY <2>6
<1> QED BY <1>1, FirstPassOnTrace, PTL
=============================================================================
