---------------------------- MODULE ZwtDdpProofs ----------------------------
(***************************************************************************)
(* Proofs about ZwtDdp for any number of ranks, gradient sizes, bucket     *)
(* size, layers, micro-batches, steps and depth of the queues.             *)
(*                                                                         *)
(* The invariant IInv says of every rank what the work that is enqueued    *)
(* and not yet run will find.  Yields(q, g, p, k, V) is the centre of it:  *)
(* when the first k operations of the compute stream q have run on the     *)
(* gradients g, that of parameter p is V.  The host appends to a queue     *)
(* (the Join lemmas), a stream takes the head off (the Pop lemmas), and a  *)
(* rank meets the others only in an all-reduce.                            *)
(***************************************************************************)
EXTENDS ZwtDdp, SequenceTheorems, FiniteSetTheorems, WellFoundedInduction, TLAPS

NB == Len(Buckets)

-----------------------------------------------------------------------------
Before == {p \in Nat \X Nat : p[1] < p[2]}

(* Induction over a set of numbers. *)
LEMMA Induction ==
  ASSUME NEW S, 0 \in S, \A n \in Nat : n \in S => n + 1 \in S
  PROVE  Nat \subseteq S
<1> SUFFICES ASSUME Nat \ S # {} PROVE FALSE
  OBVIOUS
<1>1. OpToRel(<, Nat) = Before
  BY DEF OpToRel, Before
<1>2. IsWellFoundedOn(Before, Nat)
  BY <1>1, NatLessThanWellFounded
<1>3. PICK m \in Nat \ S : \A n \in Nat \ S : <<n, m>> \notin Before
  BY <1>2, WFMin
<1>4. m - 1 \in Nat /\ m - 1 \in S
  <2>1. m # 0 /\ m \in Nat
    BY <1>3
  <2>2. m - 1 \in Nat /\ m - 1 < m
    BY <2>1
  <2>3. m - 1 \notin S => <<m - 1, m>> \in Before
    BY <2>1, <2>2 DEF Before
  <2> QED BY <1>3, <2>2, <2>3
<1>5. (m - 1) + 1 = m
  BY <1>3
<1> QED BY <1>3, <1>4, <1>5

-----------------------------------------------------------------------------
(* The buckets are a partition of the parameters.                          *)

(* bs has each of the last n parameters once, and no other. *)
Splits(bs, n) ==
  /\ bs \in Seq(Seq(Params) \ {<< >>})
  /\ \A b \in DOMAIN bs : \A j \in DOMAIN bs[b] : bs[b][j] > Len(Sizes) - n
  /\ \A b, c \in DOMAIN bs : \A j \in DOMAIN bs[b] : \A k \in DOMAIN bs[c] :
       bs[b][j] = bs[c][k] => b = c /\ j = k
  /\ \A p \in Params : p > Len(Sizes) - n => \E b \in DOMAIN bs : \E j \in DOMAIN bs[b] : bs[b][j] = p

(* The parameters are numbered from 1. *)
LEMMA ParamsAre == Len(Sizes) \in Nat \ {0} /\ Params = 1 .. Len(Sizes)
BY DdpAssumption, EmptySeq DEF Params

(* What Append does to a sequence. *)
LEMMA AppendFacts ==
  ASSUME NEW T, NEW s \in Seq(T), NEW x \in T
  PROVE  /\ Append(s, x) \in Seq(T) /\ Append(s, x) # << >>
         /\ Len(s) \in Nat /\ DOMAIN s = 1 .. Len(s) /\ DOMAIN Append(s, x) = 1 .. Len(s) + 1
         /\ \A i \in 1 .. Len(s) : Append(s, x)[i] = s[i]
         /\ Append(s, x)[Len(s) + 1] = x
OBVIOUS

(* A bucket with one parameter, after the others. *)
LEMMA NewBucketSplits ==
  ASSUME NEW n \in Nat, n < Len(Sizes), NEW bs, Splits(bs, n)
  PROVE  Splits(Append(bs, <<Len(Sizes) - n>>), n + 1)
<1> DEFINE p == Len(Sizes) - n
           T == Seq(Params) \ {<< >>}
           w == Append(bs, <<p>>)
           m == Len(bs)
<1>1. p \in Params /\ Len(Sizes) - (n + 1) = p - 1 /\ Params \subseteq Nat
  BY ParamsAre
<1>2. <<p>> \in T /\ DOMAIN <<p>> = 1 .. 1 /\ <<p>>[1] = p
  BY <1>1
<1>3. /\ bs \in Seq(T)
      /\ \A b \in DOMAIN bs : bs[b] \in T /\ \A j \in DOMAIN bs[b] : bs[b][j] \in Params /\ bs[b][j] > p
      /\ \A b, c \in DOMAIN bs : \A j \in DOMAIN bs[b] : \A k \in DOMAIN bs[c] :
           bs[b][j] = bs[c][k] => b = c /\ j = k
      /\ \A q \in Params : q > p => \E b \in DOMAIN bs : \E j \in DOMAIN bs[b] : bs[b][j] = q
  BY DEF Splits
<1>4. /\ w \in Seq(T) /\ m \in Nat /\ DOMAIN bs = 1 .. m /\ DOMAIN w = 1 .. m + 1
      /\ \A b \in 1 .. m : w[b] = bs[b]
      /\ w[m + 1] = <<p>>
  BY <1>2, <1>3, AppendFacts
<1> HIDE DEF p, w, m
<1>5. \A b \in DOMAIN w : \A j \in DOMAIN w[b] : w[b][j] > p - 1
  <2> SUFFICES ASSUME NEW b \in DOMAIN w, NEW j \in DOMAIN w[b] PROVE w[b][j] > p - 1
    OBVIOUS
  <2>1. CASE b \in 1 .. m
    <3>1. w[b][j] > p /\ w[b][j] \in Nat /\ p \in Nat
      BY <1>1, <1>3, <1>4, <2>1
    <3> QED BY <3>1
  <2>2. CASE b = m + 1
    BY <1>1, <1>2, <1>4, <2>2
  <2> QED BY <1>4, <2>1, <2>2
<1>6. ASSUME NEW b \in DOMAIN w, NEW c \in DOMAIN w, NEW j \in DOMAIN w[b], NEW k \in DOMAIN w[c], w[b][j] = w[c][k]
      PROVE  b = c /\ j = k
  <2>1. CASE b \in 1 .. m /\ c \in 1 .. m
    BY <1>3, <1>4, <1>6, <2>1
  <2>2. CASE b = m + 1 /\ c = m + 1
    BY <1>2, <1>4, <2>2
  <2>3. CASE b \in 1 .. m /\ c = m + 1
    <3>1. w[b][j] > p /\ w[b][j] \in Params /\ w[c][k] = p
      BY <1>2, <1>3, <1>4, <2>3
    <3> QED BY <1>1, <1>6, <3>1
  <2>4. CASE b = m + 1 /\ c \in 1 .. m
    <3>1. w[c][k] > p /\ w[c][k] \in Params /\ w[b][j] = p
      BY <1>2, <1>3, <1>4, <2>4
    <3> QED BY <1>1, <1>6, <3>1
  <2> QED BY <1>4, <2>1, <2>2, <2>3, <2>4
<1>7. ASSUME NEW q \in Params, q > p - 1 PROVE \E b \in DOMAIN w : \E j \in DOMAIN w[b] : w[b][j] = q
  <2>1. CASE q = p
    <3>1. m + 1 \in DOMAIN w /\ 1 \in DOMAIN w[m + 1] /\ w[m + 1][1] = q
      BY <1>2, <1>4, <2>1
    <3> QED BY <3>1
  <2>2. CASE q # p
    <3>1. PICK b \in DOMAIN bs : \E j \in DOMAIN bs[b] : bs[b][j] = q
      BY <1>1, <1>3, <1>7, <2>2
    <3> QED BY <1>4, <3>1
  <2> QED BY <2>1, <2>2
<1>8. Splits(w, n + 1)
  BY <1>1, <1>4, <1>5, <1>6, <1>7 DEF Splits
<1> QED BY <1>8 DEF w, p

(* One parameter more in the last bucket. *)
LEMMA FullerBucketSplits ==
  ASSUME NEW n \in Nat, n < Len(Sizes), NEW bs, Splits(bs, n), bs # << >>
  PROVE  Splits(Front(bs) \o << Append(Last(bs), Len(Sizes) - n) >>, n + 1)
<1> DEFINE p == Len(Sizes) - n
           T == Seq(Params) \ {<< >>}
           m == Len(bs)
           x == Append(Last(bs), p)
           w == Front(bs) \o <<x>>
           z == Len(Last(bs))
<1>1. p \in Params /\ Len(Sizes) - (n + 1) = p - 1 /\ Params \subseteq Nat
  BY ParamsAre
<1>3. /\ bs \in Seq(T)
      /\ \A b \in DOMAIN bs : bs[b] \in T /\ \A j \in DOMAIN bs[b] : bs[b][j] \in Params /\ bs[b][j] > p
      /\ \A b, c \in DOMAIN bs : \A j \in DOMAIN bs[b] : \A k \in DOMAIN bs[c] :
           bs[b][j] = bs[c][k] => b = c /\ j = k
      /\ \A q \in Params : q > p => \E b \in DOMAIN bs : \E j \in DOMAIN bs[b] : bs[b][j] = q
  BY DEF Splits
<1>2. /\ m \in Nat \ {0} /\ DOMAIN bs = 1 .. m /\ Last(bs) = bs[m] /\ m \in DOMAIN bs
  BY <1>3, EmptySeq DEF Last
<1>4. /\ x \in T /\ z \in Nat /\ DOMAIN bs[m] = 1 .. z /\ DOMAIN x = 1 .. z + 1
      /\ \A i \in 1 .. z : x[i] = bs[m][i]
      /\ x[z + 1] = p
  <2>1. bs[m] \in Seq(Params)
    BY <1>2, <1>3
  <2> HIDE DEF m, p
  <2> QED BY <1>1, <1>2, <2>1, AppendFacts
<1>5. /\ w \in Seq(T) /\ DOMAIN w = 1 .. m
      /\ \A b \in 1 .. m - 1 : w[b] = bs[b]
      /\ w[m] = x
  <2> HIDE DEF x
  <2>1. Front(bs) \in Seq(T) /\ Len(Front(bs)) = m - 1 /\ \A b \in 1 .. m - 1 : Front(bs)[b] = bs[b]
    BY <1>2, <1>3 DEF Front
  <2>2. <<x>> \in Seq(T) /\ Len(<<x>>) = 1 /\ <<x>>[1] = x
    BY <1>4
  <2>3. \A f \in Seq(T) : /\ f \o <<x>> \in Seq(T) /\ Len(f \o <<x>>) = Len(f) + 1
                          /\ \A i \in 1 .. Len(f) + 1 : (f \o <<x>>)[i] = IF i <= Len(f) THEN f[i] ELSE <<x>>[i - Len(f)]
    BY <2>2, ConcatProperties
  <2>4. /\ w \in Seq(T) /\ Len(w) = m
        /\ \A i \in 1 .. m : w[i] = IF i <= m - 1 THEN Front(bs)[i] ELSE <<x>>[i - (m - 1)]
    <3>1. (m - 1) + 1 = m
      BY <1>2
    <3> DEFINE f == Front(bs)
    <3>2. f \in Seq(T) /\ Len(f) = m - 1 /\ w = f \o <<x>>
      BY <2>1
    <3> HIDE DEF m, w, f, T
    <3>3. /\ w \in Seq(T) /\ Len(w) = (m - 1) + 1
          /\ \A i \in 1 .. (m - 1) + 1 : w[i] = IF i <= m - 1 THEN f[i] ELSE <<x>>[i - (m - 1)]
      BY <2>3, <3>2
    <3> QED BY <3>1, <3>3 DEF f
  <2>5. DOMAIN w = 1 .. m
    BY <2>4, LenProperties
  <2> HIDE DEF w, m
  <2>6. m - (m - 1) = 1 /\ ~(m <= m - 1) /\ m \in 1 .. m /\ \A b \in 1 .. m - 1 : b <= m - 1 /\ b \in 1 .. m
    BY <1>2
  <2> QED BY <2>1, <2>2, <2>4, <2>5, <2>6
<1> HIDE DEF p, w, m, x, z
<1>6. \A b \in DOMAIN w : \A j \in DOMAIN w[b] :
        \/ b \in 1 .. m /\ j \in DOMAIN bs[b] /\ w[b][j] = bs[b][j] /\ w[b][j] > p /\ w[b][j] \in Params
        \/ b = m /\ j = z + 1 /\ w[b][j] = p
  <2> SUFFICES ASSUME NEW b \in DOMAIN w, NEW j \in DOMAIN w[b]
               PROVE  \/ b \in 1 .. m /\ j \in DOMAIN bs[b] /\ w[b][j] = bs[b][j] /\ w[b][j] > p /\ w[b][j] \in Params
                      \/ b = m /\ j = z + 1 /\ w[b][j] = p
    OBVIOUS
  <2>1. CASE b \in 1 .. m - 1
    <3>1. b \in DOMAIN bs /\ w[b] = bs[b]
      BY <1>2, <1>5, <2>1
    <3> QED BY <1>2, <1>3, <3>1
  <2>2. CASE b = m /\ j \in 1 .. z
    <3>1. b \in DOMAIN bs /\ j \in DOMAIN bs[b] /\ w[b][j] = bs[b][j]
      BY <1>2, <1>4, <1>5, <2>2
    <3> QED BY <1>2, <1>3, <3>1
  <2>3. CASE b = m /\ j = z + 1
    BY <1>4, <1>5, <2>3
  <2> QED BY <1>2, <1>4, <1>5, <2>1, <2>2, <2>3
<1>7. ASSUME NEW b \in DOMAIN w, NEW c \in DOMAIN w, NEW j \in DOMAIN w[b], NEW k \in DOMAIN w[c], w[b][j] = w[c][k]
      PROVE  b = c /\ j = k
  <2>1. CASE w[b][j] = p
    <3>1. ~(p > p)
      BY <1>1
    <3>2. b = m /\ j = z + 1
      BY <1>6, <2>1, <3>1
    <3>3. c = m /\ k = z + 1
      BY <1>6, <1>7, <2>1, <3>1
    <3> QED BY <3>2, <3>3
  <2>2. CASE w[b][j] # p
    <3>1. b \in DOMAIN bs /\ c \in DOMAIN bs /\ j \in DOMAIN bs[b] /\ k \in DOMAIN bs[c] /\ bs[b][j] = bs[c][k]
      BY <1>2, <1>6, <1>7, <2>2
    <3> QED BY <1>3, <3>1
  <2> QED BY <2>1, <2>2
<1>8. \A b \in DOMAIN w : \A j \in DOMAIN w[b] : w[b][j] > p - 1
  BY <1>1, <1>6
<1>9. ASSUME NEW q \in Params, q > p - 1 PROVE \E b \in DOMAIN w : \E j \in DOMAIN w[b] : w[b][j] = q
  <2>1. CASE q = p
    <3>1. m \in DOMAIN w /\ z + 1 \in DOMAIN w[m] /\ w[m][z + 1] = q
      BY <1>2, <1>4, <1>5, <2>1
    <3> QED BY <3>1
  <2>2. CASE q # p
    <3>1. PICK b \in DOMAIN bs : \E j \in DOMAIN bs[b] : bs[b][j] = q
      BY <1>1, <1>3, <1>9, <2>2
    <3>2. PICK j \in DOMAIN bs[b] : bs[b][j] = q
      BY <3>1
    <3>3. b \in DOMAIN w /\ j \in DOMAIN w[b] /\ w[b][j] = q
      <4>1. CASE b = m
        BY <1>2, <1>4, <1>5, <3>2, <4>1
      <4>2. CASE b # m
        <5>1. b \in 1 .. m - 1
          BY <1>2, <4>2
        <5> QED BY <1>2, <1>5, <3>2, <5>1
      <4> QED BY <4>1, <4>2
    <3> QED BY <3>3
  <2> QED BY <2>1, <2>2
<1>10. Splits(w, n + 1)
  BY <1>1, <1>5, <1>7, <1>8, <1>9 DEF Splits
<1> QED BY <1>10 DEF w, p, x

(* The next parameter joins the last bucket or gets one of its own. *)
LEMMA PlaceSplits ==
  ASSUME NEW n \in Nat, n < Len(Sizes), NEW bs, Splits(bs, n)
  PROVE  Splits(Place(bs, Len(Sizes) - n), n + 1)
BY NewBucketSplits, FullerBucketSplits DEF Place

(* The recursion of BucketsOfLast has a solution. *)
Follows(g, n) == g = [k \in 0 .. n |-> IF k = 0 THEN << >> ELSE Place(g[k - 1], Len(Sizes) + 1 - k)]

(* The bucket fold reaches every count of parameters. *)
LEMMA FollowsNext ==
  ASSUME NEW n \in Nat, NEW g, Follows(g, n)
  PROVE  \E h : Follows(h, n + 1)
<1> DEFINE h == [k \in 0 .. n + 1 |-> IF k = n + 1 THEN Place(g[n], Len(Sizes) + 1 - k) ELSE g[k]]
           H == [k \in 0 .. n + 1 |-> IF k = 0 THEN << >> ELSE Place(h[k - 1], Len(Sizes) + 1 - k)]
<1>1. \A k \in 0 .. n : g[k] = IF k = 0 THEN << >> ELSE Place(g[k - 1], Len(Sizes) + 1 - k)
  BY DEF Follows
<1>2. ASSUME NEW k \in 0 .. n + 1
      PROVE  h[k] = IF k = 0 THEN << >> ELSE Place(h[k - 1], Len(Sizes) + 1 - k)
  <2>1. CASE k = n + 1
    <3>1. k # 0 /\ k - 1 = n /\ n \in 0 .. n + 1 /\ n # n + 1
      BY <2>1
    <3>2. h[n] = g[n] /\ h[k] = Place(g[n], Len(Sizes) + 1 - k)
      BY <2>1, <3>1
    <3> QED BY <3>1, <3>2
  <2>2. CASE k \in 0 .. n
    <3>1. h[k] = g[k]
      BY <2>2
    <3>2. k # 0 => h[k - 1] = g[k - 1]
      <4> SUFFICES ASSUME k # 0 PROVE h[k - 1] = g[k - 1]
        OBVIOUS
      <4>1. k - 1 \in 0 .. n + 1 /\ k - 1 # n + 1
        BY <2>2
      <4> QED BY <4>1
    <3> QED BY <1>1, <2>2, <3>1, <3>2
  <2> QED BY <2>1, <2>2
<1>3. h = [k \in 0 .. n + 1 |-> h[k]]
  OBVIOUS
<1>4. h = H
  <2> HIDE DEF h
  <2> QED BY <1>2, <1>3
<1> QED BY <1>4 DEF Follows

(* BucketsOfLast is the function its recursion describes. *)
LEMMA BucketsFollow == Follows(BucketsOfLast, Len(Sizes))
<1> DEFINE M == {n \in Nat : \E g : Follows(g, n)}
<1>1. 0 \in M
  <2> DEFINE g == [k \in 0 .. 0 |-> << >>]
             G == [k \in 0 .. 0 |-> IF k = 0 THEN << >> ELSE Place(g[k - 1], Len(Sizes) + 1 - k)]
  <2>1. g = G
    OBVIOUS
  <2>2. Follows(g, 0)
    BY <2>1 DEF Follows
  <2> QED BY <2>2
<1>2. \A n \in Nat : n \in M => n + 1 \in M
  BY FollowsNext
<1>3. Len(Sizes) \in M
  <2> HIDE DEF M
  <2> QED BY <1>1, <1>2, Induction, ParamsAre
<1>4. PICK g : Follows(g, Len(Sizes))
  BY <1>3
<1> DEFINE f == CHOOSE f : f = [n \in 0 .. Len(Sizes) |->
                  IF n = 0 THEN << >> ELSE Place(f[n - 1], Len(Sizes) + 1 - n)]
<1>5. f = [n \in 0 .. Len(Sizes) |-> IF n = 0 THEN << >> ELSE Place(f[n - 1], Len(Sizes) + 1 - n)]
  BY <1>4 DEF Follows
<1>6. BucketsOfLast = f
  BY DEF BucketsOfLast
<1> QED BY <1>5, <1>6 DEF Follows

(* build_buckets_() puts every parameter in one bucket, once. *)
LEMMA BucketsSplit == Splits(Buckets, Len(Sizes))
<1> DEFINE M == {n \in Nat : n <= Len(Sizes) => Splits(BucketsOfLast[n], n)}
<1>1. \A k \in 0 .. Len(Sizes) :
        BucketsOfLast[k] = IF k = 0 THEN << >> ELSE Place(BucketsOfLast[k - 1], Len(Sizes) + 1 - k)
  BY BucketsFollow DEF Follows
<1>2. 0 \in M
  <2>1. BucketsOfLast[0] = << >>
    BY <1>1, ParamsAre
  <2>2. /\ << >> \in Seq(Seq(Params) \ {<< >>}) /\ DOMAIN << >> = {}
    OBVIOUS
  <2>3. \A p \in Params : ~(p > Len(Sizes) - 0)
    BY ParamsAre
  <2> QED BY <2>1, <2>2, <2>3 DEF Splits
<1>3. ASSUME NEW n \in Nat, n \in M PROVE n + 1 \in M
  <2> SUFFICES ASSUME n + 1 <= Len(Sizes) PROVE Splits(BucketsOfLast[n + 1], n + 1)
    OBVIOUS
  <2>1. n + 1 \in 0 .. Len(Sizes) /\ n + 1 # 0 /\ (n + 1) - 1 = n /\ n < Len(Sizes)
        /\ Len(Sizes) + 1 - (n + 1) = Len(Sizes) - n
    BY ParamsAre
  <2>2. BucketsOfLast[n + 1] = Place(BucketsOfLast[n], Len(Sizes) - n)
    BY <1>1, <2>1
  <2>3. Splits(BucketsOfLast[n], n)
    BY <1>3, <2>1, ParamsAre
  <2> QED BY <2>1, <2>2, <2>3, PlaceSplits
<1>4. Len(Sizes) \in M
  <2> HIDE DEF M
  <2> QED BY <1>2, <1>3, Induction, ParamsAre
<1> QED BY <1>4, ParamsAre DEF Buckets

(* What build_buckets_() builds. *)
LEMMA BucketFacts ==
  /\ NB \in Nat \ {0} /\ BucketIds = 1 .. NB /\ IsFiniteSet(BucketIds)
  /\ \A b \in BucketIds : /\ Members[b] \subseteq Params /\ Members[b] # {} /\ IsFiniteSet(Members[b])
                          /\ Cardinality(Members[b]) = Len(Buckets[b])
  /\ \A b, c \in BucketIds : b # c => Members[b] \cap Members[c] = {}
  /\ \A p \in Params : BucketOf[p] \in BucketIds /\ p \in Members[BucketOf[p]]
<1> DEFINE T == Seq(Params) \ {<< >>}
<1>1. /\ Buckets \in Seq(T)
      /\ \A b, c \in BucketIds : \A j \in DOMAIN Buckets[b] : \A k \in DOMAIN Buckets[c] :
           Buckets[b][j] = Buckets[c][k] => b = c /\ j = k
      /\ \A p \in Params : \E b \in BucketIds : \E j \in DOMAIN Buckets[b] : Buckets[b][j] = p
  <2>1. \A p \in Params : p > Len(Sizes) - Len(Sizes)
    BY ParamsAre
  <2> QED BY <2>1, BucketsSplit DEF Splits, BucketIds
<1>2. NB \in Nat /\ BucketIds = 1 .. NB /\ \A b \in BucketIds : Buckets[b] \in T
  <2> HIDE DEF T
  <2> QED BY <1>1, LenProperties, ElementOfSeq DEF NB, BucketIds
<1>3. \A b \in BucketIds : Members[b] = ToSet(Buckets[b])
  BY DEF Members
<1>4. \A p \in Params : \E b \in BucketIds : p \in Members[b]
  BY <1>1, <1>3 DEF ToSet
<1>5. NB # 0
  <2>1. BucketIds # {}
    BY <1>4, ParamsAre
  <2> QED BY <1>2, <2>1
<1>6. IsFiniteSet(BucketIds)
  BY <1>2, FS_Interval
<1>7. ASSUME NEW b \in BucketIds
      PROVE  /\ Members[b] \subseteq Params /\ Members[b] # {} /\ IsFiniteSet(Members[b])
             /\ Cardinality(Members[b]) = Len(Buckets[b])
  <2> DEFINE s == Buckets[b]
             n == Len(s)
  <2>1. s \in Seq(Params) /\ s # << >>
    BY <1>2
  <2>2. n \in Nat \ {0} /\ DOMAIN s = 1 .. n /\ s = [k \in 1 .. n |-> s[k]] /\ \A k \in 1 .. n : s[k] \in Params
    <3> HIDE DEF s
    <3> QED BY <2>1, EmptySeq, LenProperties, ElementOfSeq
  <2>3. \A j, k \in 1 .. n : s[j] = s[k] => j = k
    BY <1>1, <2>2
  <2>4. Members[b] = {s[k] : k \in 1 .. n}
    BY <1>3, <2>2 DEF ToSet
  <2> HIDE DEF s, n
  <2>5. s \in Bijection(1 .. n, Members[b])
    <3>1. s \in [1 .. n -> Members[b]] /\ IsInjective(s) /\ \A p \in Members[b] : \E k \in 1 .. n : s[k] = p
      BY <2>2, <2>3, <2>4 DEF IsInjective
    <3> QED BY <3>1 DEF Bijection, Injection, Surjection
  <2>6. IsFiniteSet(1 .. n) /\ Cardinality(1 .. n) = n
    <3>1. 1 \in Int /\ n \in Int /\ ~(1 > n) /\ n - 1 + 1 = n
      BY <2>2
    <3> QED BY <3>1, FS_Interval
  <2>7. IsFiniteSet(Members[b]) /\ Cardinality(Members[b]) = n
    BY <2>5, <2>6, FS_Bijection DEF ExistsBijection
  <2>8. s[1] \in Members[b] /\ Members[b] \subseteq Params
    BY <2>2, <2>4
  <2> QED BY <2>7, <2>8 DEF s, n
<1>8. \A b, c \in BucketIds : b # c => Members[b] \cap Members[c] = {}
  BY <1>1, <1>3 DEF ToSet
<1>9. \A p \in Params : BucketOf[p] \in BucketIds /\ p \in Members[BucketOf[p]]
  BY <1>4 DEF BucketOf
<1> QED BY <1>2, <1>5, <1>6, <1>7, <1>8, <1>9

-----------------------------------------------------------------------------
(* The order in which a step signals the parameters. *)
Of(l) == ToSet(Layers[l])

Above(l) == UNION {Of(m) : m \in {n \in DOMAIN Layers : n > l}}

(* q is signalled before p, or is p. *)
NoLater(q, p) ==
  \E l, m \in DOMAIN Layers : \E j \in DOMAIN Layers[l] : \E k \in DOMAIN Layers[m] :
    Layers[l][j] = p /\ Layers[m][k] = q /\ (m > l \/ (m = l /\ k <= j))

MarkedBy(p) == {q \in Params : NoLater(q, p)}

(* The buckets that are complete once p has been signalled. *)
CompletedBy(p) == {b \in BucketIds : Members[b] \subseteq MarkedBy(p)}

LastOf(b) == CHOOSE p \in Members[b] : Members[b] \subseteq MarkedBy(p)

(* Which firing of its step fires b. *)
Turn(b) == Cardinality(CompletedBy(LastOf(b)))

(* Every layer has parameters, and every parameter is in one layer, once. *)
LEMMA LayerFacts ==
  /\ Len(Layers) \in Nat \ {0} /\ DOMAIN Layers = 1 .. Len(Layers)
  /\ \A l \in DOMAIN Layers :
       /\ Layers[l] \in Seq(Params) /\ Len(Layers[l]) \in Nat \ {0}
       /\ DOMAIN Layers[l] = 1 .. Len(Layers[l])
       /\ \A k \in DOMAIN Layers[l] : Layers[l][k] \in Params
  /\ \A p \in Params : \E l \in DOMAIN Layers : \E k \in DOMAIN Layers[l] : Layers[l][k] = p
  /\ \A l, m \in DOMAIN Layers : \A j \in DOMAIN Layers[l] : \A k \in DOMAIN Layers[m] :
       Layers[l][j] = Layers[m][k] => l = m /\ j = k
<1> DEFINE T == Seq(Params) \ {<< >>}
<1>1. /\ Layers \in Seq(T)
      /\ \A p \in Params : \E l \in DOMAIN Layers : \E k \in DOMAIN Layers[l] : Layers[l][k] = p
      /\ \A l, m \in DOMAIN Layers : \A j \in DOMAIN Layers[l] : \A k \in DOMAIN Layers[m] :
           Layers[l][j] = Layers[m][k] => l = m /\ j = k
  BY LayersAssumption DEF Params
<1>2. Len(Layers) \in Nat /\ DOMAIN Layers = 1 .. Len(Layers) /\ \A l \in DOMAIN Layers : Layers[l] \in T
  <2> HIDE DEF T
  <2> QED BY <1>1, LenProperties, ElementOfSeq
<1>3. Len(Layers) # 0
  <2>1. DOMAIN Layers # {}
    BY <1>1, ParamsAre
  <2> QED BY <1>2, <2>1
<1>4. ASSUME NEW l \in DOMAIN Layers
      PROVE  /\ Layers[l] \in Seq(Params) /\ Len(Layers[l]) \in Nat \ {0}
             /\ DOMAIN Layers[l] = 1 .. Len(Layers[l])
             /\ \A k \in DOMAIN Layers[l] : Layers[l][k] \in Params
  <2>1. Layers[l] \in Seq(Params) /\ Layers[l] # << >>
    BY <1>2
  <2> QED BY <2>1, EmptySeq, LenProperties, ElementOfSeq
<1> QED BY <1>1, <1>2, <1>3, <1>4

(* A place in a layer is a number. *)
LEMMA PlaceNat == \A l \in DOMAIN Layers : l \in Nat /\ \A k \in DOMAIN Layers[l] : k \in Nat
<1> SUFFICES ASSUME NEW l \in DOMAIN Layers, NEW k \in DOMAIN Layers[l] PROVE l \in Nat /\ k \in Nat
  BY LayerFacts
<1>1. l \in Nat
  BY LayerFacts
<1>2. Len(Layers[l]) \in Nat /\ DOMAIN Layers[l] = 1 .. Len(Layers[l])
  BY LayerFacts
<1> QED BY <1>1, <1>2

(* Every parameter has a place, and NoLater compares places. *)
LEMMA PlaceIs ==
  ASSUME NEW p \in Params
  PROVE  \E l \in DOMAIN Layers : \E j \in DOMAIN Layers[l] :
           /\ Layers[l][j] = p
           /\ \A m \in DOMAIN Layers : \A k \in DOMAIN Layers[m] :
                Layers[m][k] \in MarkedBy(p) <=> m > l \/ (m = l /\ k <= j)
<1>1. PICK l \in DOMAIN Layers : \E j \in DOMAIN Layers[l] : Layers[l][j] = p
  BY LayerFacts
<1>2. PICK j \in DOMAIN Layers[l] : Layers[l][j] = p
  BY <1>1
<1>3. ASSUME NEW m \in DOMAIN Layers, NEW k \in DOMAIN Layers[m]
      PROVE  Layers[m][k] \in MarkedBy(p) <=> m > l \/ (m = l /\ k <= j)
  <2>1. Layers[m][k] \in MarkedBy(p) => m > l \/ (m = l /\ k <= j)
    BY <1>2, LayerFacts DEF MarkedBy, NoLater
  <2>2. m > l \/ (m = l /\ k <= j) => Layers[m][k] \in MarkedBy(p)
    BY <1>2, LayerFacts DEF MarkedBy, NoLater
  <2> QED BY <2>1, <2>2
<1> QED BY <1>2, <1>3

(* mark_ready() signals the parameters in a total order. *)
LEMMA OrderFacts ==
  /\ \A p \in Params : MarkedBy(p) \subseteq Params /\ p \in MarkedBy(p)
  /\ \A p, q \in Params : q \in MarkedBy(p) \/ p \in MarkedBy(q)
  /\ \A p, q \in Params : q \in MarkedBy(p) /\ p \in MarkedBy(q) => p = q
  /\ \A p, q \in Params : q \in MarkedBy(p) => MarkedBy(q) \subseteq MarkedBy(p)
<1>1. ASSUME NEW p \in Params, NEW q \in Params
      PROVE  /\ p \in MarkedBy(p)
             /\ q \in MarkedBy(p) \/ p \in MarkedBy(q)
             /\ q \in MarkedBy(p) /\ p \in MarkedBy(q) => p = q
             /\ q \in MarkedBy(p) => \A x \in Params : x \in MarkedBy(q) => x \in MarkedBy(p)
  <2>1. PICK l \in DOMAIN Layers : \E j \in DOMAIN Layers[l] :
          /\ Layers[l][j] = p
          /\ \A m \in DOMAIN Layers : \A k \in DOMAIN Layers[m] :
               Layers[m][k] \in MarkedBy(p) <=> m > l \/ (m = l /\ k <= j)
    BY PlaceIs
  <2>2. PICK j \in DOMAIN Layers[l] :
          /\ Layers[l][j] = p
          /\ \A m \in DOMAIN Layers : \A k \in DOMAIN Layers[m] :
               Layers[m][k] \in MarkedBy(p) <=> m > l \/ (m = l /\ k <= j)
    BY <2>1
  <2>3. PICK n \in DOMAIN Layers : \E i \in DOMAIN Layers[n] :
          /\ Layers[n][i] = q
          /\ \A m \in DOMAIN Layers : \A k \in DOMAIN Layers[m] :
               Layers[m][k] \in MarkedBy(q) <=> m > n \/ (m = n /\ k <= i)
    BY PlaceIs
  <2>4. PICK i \in DOMAIN Layers[n] :
          /\ Layers[n][i] = q
          /\ \A m \in DOMAIN Layers : \A k \in DOMAIN Layers[m] :
               Layers[m][k] \in MarkedBy(q) <=> m > n \/ (m = n /\ k <= i)
    BY <2>3
  <2>5. l \in Nat /\ n \in Nat /\ j \in Nat /\ i \in Nat
    BY PlaceNat
  <2>6. (q \in MarkedBy(p) <=> n > l \/ (n = l /\ i <= j)) /\ (p \in MarkedBy(q) <=> l > n \/ (l = n /\ j <= i))
        /\ p \in MarkedBy(p)
    BY <2>2, <2>4, <2>5
  <2>7. q \in MarkedBy(p) /\ p \in MarkedBy(q) => p = q
    <3> SUFFICES ASSUME q \in MarkedBy(p), p \in MarkedBy(q) PROVE p = q
      OBVIOUS
    <3>1. n = l /\ i = j
      BY <2>5, <2>6
    <3> QED BY <2>2, <2>4, <3>1
  <2>8. ASSUME q \in MarkedBy(p), NEW x \in Params, x \in MarkedBy(q) PROVE x \in MarkedBy(p)
    <3>1. PICK m \in DOMAIN Layers : \E k \in DOMAIN Layers[m] : Layers[m][k] = x
      BY LayerFacts
    <3>2. PICK k \in DOMAIN Layers[m] : Layers[m][k] = x
      BY <3>1
    <3>3. m \in Nat /\ k \in Nat
      BY PlaceNat
    <3>4. m > n \/ (m = n /\ k <= i)
      BY <2>4, <2>8, <3>2
    <3>5. m > l \/ (m = l /\ k <= j)
      BY <2>5, <2>6, <2>8, <3>3, <3>4
    <3> QED BY <2>2, <3>2, <3>5
  <2> QED BY <2>5, <2>6, <2>7, <2>8
<1>2. \A p \in Params : MarkedBy(p) \subseteq Params
  BY DEF MarkedBy
<1> QED BY <1>1, <1>2

(* What has been signalled up to a parameter is finite. *)
LEMMA SizeOfMarked ==
  ASSUME NEW p \in Params
  PROVE  IsFiniteSet(MarkedBy(p)) /\ Cardinality(MarkedBy(p)) \in 0 .. Len(Sizes)
<1>1. IsFiniteSet(Params) /\ Cardinality(Params) = Len(Sizes)
  <2>1. 1 \in Int /\ Len(Sizes) \in Int /\ ~(1 > Len(Sizes)) /\ Len(Sizes) - 1 + 1 = Len(Sizes)
    BY ParamsAre
  <2> QED BY <2>1, ParamsAre, FS_Interval
<1> QED BY <1>1, OrderFacts, FS_Subset, FS_CardinalityType, ParamsAre

(* Every bucket has a parameter that is signalled last. *)
LEMMA LastIs ==
  ASSUME NEW b \in BucketIds
  PROVE  LastOf(b) \in Members[b] /\ Members[b] \subseteq MarkedBy(LastOf(b))
<1> DEFINE f(p) == Len(Sizes) - Cardinality(MarkedBy(p))
           S == {f(p) : p \in Members[b]}
<1>1. Members[b] # {} /\ Members[b] \subseteq Params
  BY BucketFacts
<1>2. S \in SUBSET Nat /\ S # {}
  BY <1>1, SizeOfMarked, ParamsAre
<1>3. PICK n \in S : \A m \in S : m >= n
  <2> HIDE DEF S
  <2>1. OpToRel(<, Nat) = Before
    BY DEF OpToRel, Before
  <2>2. IsWellFoundedOn(Before, Nat)
    BY <2>1, NatLessThanWellFounded
  <2>3. PICK n \in S : \A m \in S : <<m, n>> \notin Before
    BY <1>2, <2>2, WFMin
  <2>4. \A m \in S : m \in Nat /\ n \in Nat /\ ~(m < n)
    BY <1>2, <2>3 DEF Before
  <2> QED BY <2>4
<1>4. PICK p \in Members[b] : n = f(p)
  BY <1>3
<1>5. ASSUME NEW q \in Members[b] PROVE q \in MarkedBy(p)
  <2>1. p \in Params /\ q \in Params
    BY <1>1
  <2>2. CASE q \in MarkedBy(p)
    BY <2>2
  <2>3. CASE p \in MarkedBy(q)
    <3>1. MarkedBy(p) \in SUBSET MarkedBy(q) /\ q \in MarkedBy(q)
      BY <2>1, <2>3, OrderFacts
    <3>2. IsFiniteSet(MarkedBy(q)) /\ Cardinality(MarkedBy(q)) \in Nat /\ Cardinality(MarkedBy(p)) \in Nat
      BY <2>1, SizeOfMarked
    <3>3. f(q) >= f(p)
      BY <1>3, <1>4
    <3>4. Cardinality(MarkedBy(p)) <= Cardinality(MarkedBy(q))
      BY <3>1, <3>2, FS_Subset
    <3>5. Cardinality(MarkedBy(p)) = Cardinality(MarkedBy(q))
      BY <3>2, <3>3, <3>4, ParamsAre
    <3>6. MarkedBy(p) = MarkedBy(q)
      BY <3>1, <3>2, <3>5, FS_Subset
    <3> QED BY <3>1, <3>6
  <2> QED BY <2>1, <2>2, <2>3, OrderFacts
<1>6. Members[b] \subseteq MarkedBy(p)
  BY <1>5
<1> QED BY <1>6 DEF LastOf

(* A bucket has one parameter that is signalled last. *)
LEMMA LastUnique ==
  ASSUME NEW b \in BucketIds, NEW p \in Members[b], Members[b] \subseteq MarkedBy(p)
  PROVE  p = LastOf(b)
<1>1. LastOf(b) \in MarkedBy(p) /\ p \in MarkedBy(LastOf(b)) /\ p \in Params /\ LastOf(b) \in Params
  BY LastIs, BucketFacts
<1> QED BY <1>1, OrderFacts

(* The buckets take the turns 1 .. NB, one each. *)
LEMMA TurnFacts ==
  /\ \A b \in BucketIds : Turn(b) \in 1 .. NB
  /\ \A b, c \in BucketIds : Turn(b) = Turn(c) => b = c
<1>1. ASSUME NEW p
      PROVE  CompletedBy(p) \subseteq BucketIds /\ IsFiniteSet(CompletedBy(p)) /\ Cardinality(CompletedBy(p)) \in 0 .. NB
  <2>1. IsFiniteSet(BucketIds) /\ Cardinality(BucketIds) = NB
    <3>1. 1 \in Int /\ NB \in Int /\ ~(1 > NB) /\ NB - 1 + 1 = NB
      BY BucketFacts
    <3> QED BY <3>1, BucketFacts, FS_Interval
  <2>2. CompletedBy(p) \in SUBSET BucketIds
    BY DEF CompletedBy
  <2>3. IsFiniteSet(CompletedBy(p)) /\ Cardinality(CompletedBy(p)) <= NB
    BY <2>1, <2>2, FS_Subset
  <2> QED BY <2>2, <2>3, FS_CardinalityType, BucketFacts
<1>2. ASSUME NEW b \in BucketIds PROVE Turn(b) \in 1 .. NB
  <2>1. b \in CompletedBy(LastOf(b))
    BY LastIs DEF CompletedBy
  <2>2. Cardinality(CompletedBy(LastOf(b))) # 0
    BY <1>1, <2>1, FS_EmptySet
  <2> QED BY <1>1, <2>2, BucketFacts DEF Turn
<1>3. ASSUME NEW b \in BucketIds, NEW c \in BucketIds, Turn(b) = Turn(c), LastOf(c) \in MarkedBy(LastOf(b))
      PROVE  b = c
  <2> DEFINE p == LastOf(b)
             q == LastOf(c)
  <2>1. p \in Params /\ q \in Params /\ p \in Members[b] /\ q \in Members[c]
        /\ Members[b] \subseteq MarkedBy(p) /\ Members[c] \subseteq MarkedBy(q)
    BY LastIs, BucketFacts
  <2>2. MarkedBy(q) \subseteq MarkedBy(p)
    BY <1>3, <2>1, OrderFacts
  <2>3. CompletedBy(q) \in SUBSET CompletedBy(p)
    BY <2>2 DEF CompletedBy
  <2>4. CompletedBy(q) = CompletedBy(p)
    <3>1. Cardinality(CompletedBy(q)) = Cardinality(CompletedBy(p)) /\ IsFiniteSet(CompletedBy(p))
      BY <1>1, <1>3 DEF Turn
    <3> QED BY <2>3, <3>1, FS_Subset
  <2>5. Members[b] \subseteq MarkedBy(q)
    BY <2>1, <2>4 DEF CompletedBy
  <2>6. p \in MarkedBy(q) /\ q \in MarkedBy(p)
    BY <1>3, <2>1, <2>5
  <2>7. p = q
    BY <2>1, <2>6, OrderFacts
  <2> QED BY <2>1, <2>7, BucketFacts
<1>4. \A b, c \in BucketIds : LastOf(c) \in MarkedBy(LastOf(b)) \/ LastOf(b) \in MarkedBy(LastOf(c))
  BY LastIs, BucketFacts, OrderFacts
<1> QED BY <1>2, <1>3, <1>4

-----------------------------------------------------------------------------
(* Queues: w is q without its head, or q followed by a. *)
Popped(q, w) ==
  /\ Len(q) \in Nat \ {0} /\ DOMAIN q = 1 .. Len(q)
  /\ Len(w) = Len(q) - 1 /\ DOMAIN w = 1 .. Len(w)
  /\ \A k \in 1 .. Len(w) : w[k] = q[k + 1]

Joined(q, a, w) ==
  /\ Len(q) \in Nat /\ DOMAIN q = 1 .. Len(q)
  /\ Len(a) \in Nat /\ DOMAIN a = 1 .. Len(a)
  /\ Len(w) = Len(q) + Len(a) /\ DOMAIN w = 1 .. Len(w)
  /\ \A k \in 1 .. Len(q) : w[k] = q[k]
  /\ \A k \in 1 .. Len(a) : w[Len(q) + k] = a[k]

(* Tail takes the head off a stream. *)
LEMMA TailPops ==
  ASSUME NEW T, NEW q \in Seq(T), q # << >>
  PROVE  Tail(q) \in Seq(T) /\ Popped(q, Tail(q)) /\ Head(q) = q[1] /\ q[1] \in T
<1>1. Len(q) \in Nat \ {0} /\ DOMAIN q = 1 .. Len(q)
  BY EmptySeq, LenProperties
<1>2. Tail(q) \in Seq(T) /\ Len(Tail(q)) = Len(q) - 1 /\ Head(q) = q[1] /\ q[1] \in T
  OBVIOUS
<1>3. DOMAIN Tail(q) = 1 .. Len(Tail(q))
  BY <1>2, LenProperties
<1>4. \A k \in 1 .. Len(q) - 1 : Tail(q)[k] = q[k + 1]
  OBVIOUS
<1> QED BY <1>1, <1>2, <1>3, <1>4 DEF Popped

(* Concatenation puts one sequence after another. *)
LEMMA ConcatJoins ==
  ASSUME NEW T, NEW q \in Seq(T), NEW a \in Seq(T)
  PROVE  q \o a \in Seq(T) /\ Joined(q, a, q \o a)
<1>1. /\ q \o a \in Seq(T) /\ Len(q \o a) = Len(q) + Len(a)
      /\ \A k \in 1 .. Len(q) + Len(a) : (q \o a)[k] = IF k <= Len(q) THEN q[k] ELSE a[k - Len(q)]
  BY ConcatProperties
<1>2. /\ Len(q) \in Nat /\ DOMAIN q = 1 .. Len(q)
      /\ Len(a) \in Nat /\ DOMAIN a = 1 .. Len(a) /\ DOMAIN (q \o a) = 1 .. Len(q \o a)
  BY <1>1, LenProperties
<1>3. \A k \in 1 .. Len(q) : (q \o a)[k] = q[k]
  BY <1>1, <1>2
<1>4. ASSUME NEW k \in 1 .. Len(a) PROVE (q \o a)[Len(q) + k] = a[k]
  <2>1. Len(q) + k \in 1 .. Len(q) + Len(a) /\ ~(Len(q) + k <= Len(q)) /\ (Len(q) + k) - Len(q) = k
    BY <1>2
  <2> QED BY <1>1, <2>1
<1> QED BY <1>1, <1>2, <1>3, <1>4 DEF Joined

(* The contributions to p of the operations j .. k, and that none of them  *)
(* is of a kind.                                                           *)
Contrib(q, p, j, k) ==
  {q[x].batch : x \in {y \in j .. k : q[y].op = "backward" /\ p \in Of(q[y].layer)}}

Without(q, j, k, S) == \A x \in j .. k : q[x].op \notin S

Overwrites == {"zero", "scatter"}

(* V is the gradient of p once the first k operations have run. *)
Yields(q, g, p, k, V) ==
  \/ Without(q, 1, k, Overwrites) /\ V = g[p] \cup Contrib(q, p, 1, k)
  \/ \E j \in 1 .. k : /\ q[j].op = "zero" /\ Without(q, j + 1, k, Overwrites)
                       /\ V = Contrib(q, p, j + 1, k)

(* What op, when it runs, makes of the gradient v of p, unless it copies.  *)
Adds(op, p) == IF op.op = "backward" /\ p \in Of(op.layer) THEN {op.batch} ELSE {}
Turns(op, p, v, u) ==
  IF op.op = "zero" THEN u = {} ELSE op.op # "scatter" => u = v \cup Adds(op, p)

(* The absence of an operation, seen before and after the head has run. *)
LEMMA WithoutShift ==
  ASSUME NEW q, NEW w, Popped(q, w), NEW j \in Nat \ {0}, NEW k \in Nat, k <= Len(w), NEW S,
         Without(q, j + 1, k + 1, S)
  PROVE  Without(w, j, k, S)
<1> SUFFICES ASSUME NEW x \in j .. k PROVE w[x].op \notin S
  BY DEF Without
<1>1. x \in 1 .. Len(w) /\ x + 1 \in j + 1 .. k + 1
  BY DEF Popped
<1> QED BY <1>1 DEF Popped, Without

(* The contributions of a range, seen before and after the head has run. *)
LEMMA ContribShift ==
  ASSUME NEW q, NEW w, Popped(q, w), NEW p, NEW j \in Nat \ {0}, NEW k \in Nat, k <= Len(w)
  PROVE  Contrib(w, p, j, k) = Contrib(q, p, j + 1, k + 1)
<1>1. ASSUME NEW x \in j .. k PROVE x + 1 \in j + 1 .. k + 1 /\ w[x] = q[x + 1]
  <2>1. x \in 1 .. Len(w) /\ x + 1 \in j + 1 .. k + 1
    BY DEF Popped
  <2> QED BY <2>1 DEF Popped
<1>2. ASSUME NEW y \in j + 1 .. k + 1 PROVE y - 1 \in j .. k /\ w[y - 1] = q[y]
  <2>1. y - 1 \in 1 .. Len(w) /\ y - 1 \in j .. k /\ (y - 1) + 1 = y
    BY DEF Popped
  <2> QED BY <2>1 DEF Popped
<1>3. ASSUME NEW b \in Contrib(w, p, j, k) PROVE b \in Contrib(q, p, j + 1, k + 1)
  <2>1. PICK x \in j .. k : w[x].op = "backward" /\ p \in Of(w[x].layer) /\ b = w[x].batch
    BY DEF Contrib
  <2> QED BY <1>1, <2>1 DEF Contrib
<1>4. ASSUME NEW b \in Contrib(q, p, j + 1, k + 1) PROVE b \in Contrib(w, p, j, k)
  <2>1. PICK y \in j + 1 .. k + 1 : q[y].op = "backward" /\ p \in Of(q[y].layer) /\ b = q[y].batch
    BY DEF Contrib
  <2> QED BY <1>2, <2>1 DEF Contrib
<1> QED BY <1>3, <1>4

(* The contributions of a range, its first operation apart. *)
LEMMA ContribFirst ==
  ASSUME NEW q, NEW p, NEW k \in Nat
  PROVE  Contrib(q, p, 1, k + 1) = Adds(q[1], p) \cup Contrib(q, p, 2, k + 1)
<1>1. 1 .. k + 1 = {1} \cup 2 .. k + 1
  OBVIOUS
<1> HIDE DEF Of
<1> QED BY <1>1 DEF Contrib, Adds

(* The contributions of a range, its last operation apart. *)
LEMMA ContribLast ==
  ASSUME NEW q, NEW p, NEW j \in Nat \ {0}, NEW k \in Nat, j <= k + 1
  PROVE  Contrib(q, p, j, k + 1) = Contrib(q, p, j, k) \cup Adds(q[k + 1], p)
<1>1. j .. k + 1 = j .. k \cup {k + 1}
  OBVIOUS
<1> QED BY <1>1 DEF Contrib, Adds

(* Running the head leaves what the gradient will be. *)
LEMMA YieldsPop ==
  ASSUME NEW q, NEW w, Popped(q, w), NEW p, NEW g, NEW h, NEW k \in Nat, k <= Len(w), NEW V,
         Yields(q, g, p, k + 1, V), Turns(q[1], p, g[p], h[p])
  PROVE  Yields(w, h, p, k, V)
<1>1. CASE Without(q, 1, k + 1, Overwrites) /\ V = g[p] \cup Contrib(q, p, 1, k + 1)
  <2>1. 1 \in 1 .. k + 1 /\ \A x \in 2 .. k + 1 : x \in 1 .. k + 1
    OBVIOUS
  <2>2. q[1].op \notin Overwrites /\ Without(q, 1 + 1, k + 1, Overwrites)
    BY <1>1, <2>1 DEF Without
  <2>3. Without(w, 1, k, Overwrites)
    BY <2>2, WithoutShift
  <2>4. h[p] = g[p] \cup Adds(q[1], p)
    BY <2>2 DEF Turns, Overwrites
  <2>5. Contrib(w, p, 1, k) = Contrib(q, p, 2, k + 1)
    BY ContribShift
  <2>6. V = h[p] \cup Contrib(w, p, 1, k)
    BY <1>1, <2>4, <2>5, ContribFirst
  <2> QED BY <2>3, <2>6 DEF Yields
<1>2. ASSUME NEW j \in 1 .. k + 1, q[j].op = "zero", Without(q, j + 1, k + 1, Overwrites),
             V = Contrib(q, p, j + 1, k + 1)
      PROVE  Yields(w, h, p, k, V)
  <2>1. j \in Nat \ {0}
    OBVIOUS
  <2>2. Without(w, j, k, Overwrites) /\ Contrib(w, p, j, k) = V
    BY <1>2, <2>1, WithoutShift, ContribShift
  <2>3. CASE j = 1
    <3>1. h[p] = {}
      BY <1>2, <2>3 DEF Turns
    <3> QED BY <2>2, <2>3, <3>1 DEF Yields
  <2>4. CASE j # 1
    <3>1. j - 1 \in 1 .. k /\ (j - 1) + 1 = j /\ j - 1 \in 1 .. Len(w)
      BY <2>4 DEF Popped
    <3>2. w[j - 1].op = "zero"
      BY <1>2, <3>1 DEF Popped
    <3> QED BY <2>2, <3>1, <3>2 DEF Yields
  <2> QED BY <2>3, <2>4
<1> QED BY <1>1, <1>2 DEF Yields

(* Enqueueing more leaves what the gradient will be at k. *)
LEMMA YieldsJoin ==
  ASSUME NEW q, NEW a, NEW w, Joined(q, a, w), NEW p, NEW g, NEW k \in Nat, k <= Len(q), NEW V,
         Yields(q, g, p, k, V)
  PROVE  Yields(w, g, p, k, V)
<1>1. \A x \in 1 .. k : w[x] = q[x]
  <2>1. \A x \in 1 .. k : x \in 1 .. Len(q)
    BY DEF Joined
  <2> QED BY <2>1 DEF Joined
<1>2. ASSUME NEW j \in Nat \ {0}
      PROVE  /\ Contrib(w, p, j, k) = Contrib(q, p, j, k)
             /\ Without(q, j, k, Overwrites) => Without(w, j, k, Overwrites)
  <2>1. \A x \in j .. k : w[x] = q[x]
    BY <1>1
  <2>2. Contrib(w, p, j, k) \subseteq Contrib(q, p, j, k)
    BY <2>1 DEF Contrib
  <2>3. Contrib(q, p, j, k) \subseteq Contrib(w, p, j, k)
    BY <2>1 DEF Contrib
  <2> QED BY <2>1, <2>2, <2>3 DEF Without
<1>3. CASE Without(q, 1, k, Overwrites) /\ V = g[p] \cup Contrib(q, p, 1, k)
  BY <1>2, <1>3 DEF Yields
<1>4. ASSUME NEW j \in 1 .. k, q[j].op = "zero", Without(q, j + 1, k, Overwrites), V = Contrib(q, p, j + 1, k)
      PROVE  Yields(w, g, p, k, V)
  <2>1. Without(w, j + 1, k, Overwrites) /\ V = Contrib(w, p, j + 1, k) /\ w[j].op = "zero"
    BY <1>1, <1>2, <1>4
  <2> QED BY <2>1 DEF Yields
<1> QED BY <1>3, <1>4 DEF Yields

(* One operation further. *)
LEMMA YieldsNext ==
  ASSUME NEW q, NEW p, NEW g, NEW k \in Nat, NEW V, Yields(q, g, p, k, V), NEW U, Turns(q[k + 1], p, V, U),
         q[k + 1].op # "scatter"
  PROVE  Yields(q, g, p, k + 1, U)
<1>1. CASE q[k + 1].op = "zero"
  <2>1. U = {} /\ k + 1 \in 1 .. k + 1 /\ (k + 1) + 1 .. k + 1 = {}
    BY <1>1 DEF Turns
  <2>2. Contrib(q, p, (k + 1) + 1, k + 1) = {} /\ Without(q, (k + 1) + 1, k + 1, Overwrites)
    BY <2>1 DEF Contrib, Without
  <2> QED BY <1>1, <2>1, <2>2 DEF Yields
<1>2. CASE q[k + 1].op # "zero"
  <2>1. U = V \cup Adds(q[k + 1], p) /\ q[k + 1].op \notin Overwrites
    BY <1>2 DEF Turns, Overwrites
  <2>2. ASSUME NEW j \in Nat \ {0}, j <= k + 1, Without(q, j, k, Overwrites)
        PROVE  Without(q, j, k + 1, Overwrites)
    <3>1. \A x \in j .. k + 1 : x \in j .. k \/ x = k + 1
      OBVIOUS
    <3> QED BY <2>1, <2>2, <3>1 DEF Without
  <2>3. CASE Without(q, 1, k, Overwrites) /\ V = g[p] \cup Contrib(q, p, 1, k)
    <3>1. Without(q, 1, k + 1, Overwrites) /\ Contrib(q, p, 1, k + 1) = Contrib(q, p, 1, k) \cup Adds(q[k + 1], p)
      BY <2>2, <2>3, ContribLast
    <3> QED BY <2>1, <2>3, <3>1 DEF Yields
  <2>4. ASSUME NEW j \in 1 .. k, q[j].op = "zero", Without(q, j + 1, k, Overwrites), V = Contrib(q, p, j + 1, k)
        PROVE  Yields(q, g, p, k + 1, U)
    <3>1. j + 1 \in Nat \ {0} /\ j + 1 <= k + 1 /\ j \in 1 .. k + 1
      OBVIOUS
    <3>2. Without(q, j + 1, k + 1, Overwrites)
      BY <2>2, <2>4, <3>1
    <3>3. Contrib(q, p, j + 1, k + 1) = Contrib(q, p, j + 1, k) \cup Adds(q[k + 1], p)
      BY <3>1, ContribLast
    <3> QED BY <2>1, <2>4, <3>1, <3>2, <3>3 DEF Yields
  <2> QED BY <2>3, <2>4 DEF Yields
<1> QED BY <1>1, <1>2

-----------------------------------------------------------------------------
(* The invariant. *)

(* The parameters signalled in the step so far, and those whose gradient   *)
(* the current micro-batch has been enqueued for.                          *)
Marked(h) ==
  IF h.pc = "sync" THEN Params
  ELSE IF h.pc \in {"backward", "mark"} /\ h.micro = Accum
    THEN Above(h.layer) \cup (IF h.pc = "mark" THEN Of(h.layer) \ ToSet(h.marks) ELSE {})
  ELSE {}

Passed(h) ==
  IF h.pc = "sync" THEN Params
  ELSE Above(h.layer) \cup (IF h.pc = "mark" THEN Of(h.layer) ELSE {})

(* The contributions of rank r to the gradient of p so far. *)
Sofar(r, h, p) ==
  {<<r, h.step, m>> : m \in 1 .. h.micro - 1}
    \cup (IF p \in Passed(h) THEN {<<r, h.step, h.micro>>} ELSE {})

Batches == Ranks \X Nat \X Nat
Buffers == [Params -> SUBSET Batches]

Hosts == [ pc : {"top", "backward", "mark", "sync", "optimize"}, step : Nat, micro : Nat,
           layer : Nat, marks : Seq(Params) ]

Managers == [buckets : [BucketIds -> [remaining : Nat, fired : BOOLEAN]], fires : Nat]

ComputeOps ==
  [op : {"zero", "ready", "adamw"}] \cup [op : {"backward"}, layer : DOMAIN Layers, batch : Batches]
  \cup [op : {"gather", "scatter"}, bucket : BucketIds] \cup [op : {"wait"}, event : BucketIds, n : Nat]

CommOps ==
  [op : {"wait"}, ready : Nat] \cup [op : {"reduce"}, bucket : BucketIds]
  \cup [op : {"done"}, event : BucketIds]

Records == [done : [BucketIds -> Nat], ready : Nat]

Types ==
  /\ host \in [Ranks -> Hosts]
  /\ mgr \in [Ranks -> Managers]
  /\ compute \in [Ranks -> Seq(ComputeOps)]
  /\ comm \in [Ranks -> Seq(CommOps)]
  /\ events \in [Ranks -> [recorded : Records, completed : Records]]
  /\ grads \in [Ranks -> Buffers]
  /\ staged \in [Ranks -> Buffers]
  /\ sent \in [Ranks -> Seq(Buffers)]
  /\ reduced \in [Ranks -> Nat]
  /\ used \in [Ranks -> Seq(Buffers)]

(* Where a host thread may be. *)
HostOk(h) ==
  /\ h.step \in 0 .. MaxSteps
  /\ h.pc # "top" => h.step > 0 /\ h.micro \in 1 .. Accum
  /\ h.pc \in {"backward", "mark"} => h.layer \in DOMAIN Layers
  /\ h.pc \in {"mark", "sync"} => h.micro = Accum
  /\ h.pc = "mark" => \E k \in DOMAIN Layers[h.layer] :
                        h.marks = SubSeq(Layers[h.layer], k, Len(Layers[h.layer]))

(* A bucket counts its parameters that are not signalled. *)
MgrOk(h, m) ==
  \A b \in BucketIds : /\ m.buckets[b].remaining = Cardinality(Members[b] \ Marked(h))
                       /\ m.buckets[b].fired <=> Members[b] \subseteq Marked(h)

(* The firings of the first step record every bucket_done_ event once. *)
CountOk(h, m, rec) ==
  /\ m.fires = rec.ready
  /\ \A e \in BucketIds : rec.done[e] = IF e <= m.fires THEN 1 ELSE 0
  /\ h.step = 0 => m.fires = 0
  /\ h.step = 1 /\ h.pc \in {"backward", "mark", "sync"} =>
       m.fires = Cardinality({b \in BucketIds : Members[b] \subseteq Marked(h)})
  /\ h.step > 1 \/ (h.step = 1 /\ h.pc \in {"top", "optimize"}) => m.fires >= NB

(* When all that is enqueued has run, the gradients hold the micro-batches *)
(* the host has enqueued in this step.                                     *)
EndOk(r, h, q, g) ==
  h.pc \in {"backward", "mark", "sync"} =>
    \A p \in Params : Yields(q, g, p, Len(q), Sofar(r, h, p))

(* Before k there is no AdamW of the first step, in the queue or run. *)
First(q, u, k) == u = << >> /\ Without(q, 1, k - 1, {"adamw"})

(* Every gather in the queue will find its gradients complete. *)
GatherOk(r, q, g, u) ==
  \A k \in DOMAIN q : q[k].op = "gather" =>
    \E s \in 1 .. MaxSteps :
      /\ First(q, u, k) => s = 1
      /\ \A p \in Members[q[k].bucket] : Yields(q, g, p, k - 1, Local(r, s))

RegionOk(h, q, u) == First(q, u, Len(q) + 1) <=> h.step = 0 \/ (h.step = 1 /\ h.pc # "top")

(* A record of grad_ready follows its gather. *)
QueueOk(q) ==
  \A k \in DOMAIN q :
    /\ q[k].op = "gather" => k + 1 \in DOMAIN q /\ q[k + 1].op = "ready"
    /\ q[k].op = "ready" /\ k > 1 => q[k - 1].op = "gather"

(* The gathers that have run, of which one may not have been recorded. *)
Gathered(q, ready) == IF q # << >> /\ q[1].op = "ready" THEN ready + 1 ELSE ready

FirstGather(q, u, k) == q[k].op = "gather" /\ First(q, u, k)

(* The gathers of the first step are enqueued in turn. *)
TurnOk(q, u, ready, fires) ==
  u = << >> =>
    /\ Gathered(q, ready) <= NB /\ Gathered(q, ready) <= fires
    /\ \A k \in DOMAIN q : FirstGather(q, u, k) =>
         /\ Gathered(q, ready) < Turn(q[k].bucket) /\ Turn(q[k].bucket) <= fires
         /\ \A j \in 1 .. k - 1 : q[j].op = "gather" => Turn(q[j].bucket) < Turn(q[k].bucket)
    /\ \A n \in 1 .. NB : Gathered(q, ready) < n /\ n <= fires =>
         \E k \in DOMAIN q : FirstGather(q, u, k) /\ Turn(q[k].bucket) = n

(* The firing that the k-th operation on the comm stream belongs to. *)
Num(c, rd, k) ==
  IF c[k].op = "wait" THEN c[k].ready
  ELSE IF c[k].op = "done" THEN c[k].event
  ELSE IF k = 1 THEN rd + 1 ELSE c[k - 1].ready

(* The comm stream holds the firings in turn: a wait, the all-reduce, and  *)
(* in the first step the record of bucket_done_.                           *)
CommAt(c, rd, k) ==
  /\ c[k].op = "wait" =>
       /\ k + 1 \in DOMAIN c /\ c[k + 1].op = "reduce"
       /\ k > 1 => c[k - 1].op # "wait" /\ c[k].ready = Num(c, rd, k - 1) + 1
  /\ c[k].op = "reduce" =>
       /\ k > 1 => c[k - 1].op = "wait"
       /\ Num(c, rd, k) <= NB =>
            Turn(c[k].bucket) = Num(c, rd, k) /\ k + 1 \in DOMAIN c /\ c[k + 1].op = "done"
  /\ c[k].op = "done" /\ k > 1 => c[k - 1].op = "reduce" /\ Num(c, rd, k - 1) = c[k].event

CommOk(c, rd, fires) ==
  /\ c = << >> => rd = fires
  /\ c # << >> =>
       /\ Num(c, rd, Len(c)) = fires /\ c[Len(c)].op # "wait"
       /\ Num(c, rd, 1) = IF c[1].op = "done" THEN rd ELSE rd + 1
  /\ \A k \in DOMAIN c : CommAt(c, rd, k)

(* No all-reduce before its gather, no record of it before it is done. *)
ReadyOk(c, rd, cmp) ==
  /\ rd <= cmp.ready
  /\ c # << >> /\ c[1].op = "reduce" => rd < cmp.ready
  /\ \A e \in BucketIds : cmp.done[e] > 0 => e <= rd

(* Whatever waits for the first step's all-reduces waits for all of them. *)
Synced(q, done, k) ==
  \A e \in BucketIds :
    done[e] > 0 \/ \E j \in 1 .. k - 1 : q[j].op = "wait" /\ q[j].event = e /\ q[j].n > 0

(* The AdamW of the first step is enqueued at k, or about to be. *)
FirstAdamW(h, q, u, k) ==
  /\ First(q, u, k)
  /\ \/ k \in DOMAIN q /\ q[k].op = "adamw"
     \/ k = Len(q) + 1 /\ h.step = 1 /\ h.pc = "optimize"

SyncOk(h, q, u, done) ==
  /\ \A k \in DOMAIN q : q[k].op = "scatter" /\ First(q, u, k) => Synced(q, done, k)
  /\ \A k \in 1 .. Len(q) + 1 : FirstAdamW(h, q, u, k) => Synced(q, done, k)

(* It finds every bucket scattered. *)
Scattered(q, g, k, b) ==
  \/ Without(q, 1, k - 1, {"zero", "backward"}) /\ \A p \in Members[b] : g[p] = Mean(1)
  \/ \E j \in 1 .. k - 1 : /\ q[j].op = "scatter" /\ q[j].bucket = b
                           /\ Without(q, j + 1, k - 1, {"zero", "backward"})

ScatterOk(h, q, g, u) ==
  \A k \in 1 .. Len(q) + 1 : FirstAdamW(h, q, u, k) => \A b \in BucketIds : Scattered(q, g, k, b)

(* In the first step a bucket is gathered, then reduced. *)
StagedOk(r, q, ready, u, rd, st) ==
  u = << >> =>
    \A b \in BucketIds : \A p \in Members[b] :
      /\ Turn(b) <= rd => st[p] = Mean(1)
      /\ rd < Turn(b) /\ Turn(b) <= Gathered(q, ready) => st[p] = Local(r, 1)

SentOk(r, c, sn, rd) ==
  /\ Len(sn) = rd \/ (Len(sn) = rd + 1 /\ c # << >> /\ c[1].op = "reduce")
  /\ \A n \in DOMAIN sn : n <= NB =>
       \A b \in BucketIds : Turn(b) = n => \A p \in Members[b] : sn[n][p] = Local(r, 1)

UsedOk(u, rd) ==
  u # << >> => NB <= rd /\ \A p \in Params : u[1][p] = Mean(1)

RankOk(r) ==
  /\ HostOk(host[r])
  /\ MgrOk(host[r], mgr[r])
  /\ CountOk(host[r], mgr[r], events[r].recorded)
  /\ EndOk(r, host[r], compute[r], grads[r])
  /\ GatherOk(r, compute[r], grads[r], used[r])
  /\ RegionOk(host[r], compute[r], used[r])
  /\ QueueOk(compute[r])
  /\ TurnOk(compute[r], used[r], events[r].completed.ready, mgr[r].fires)
  /\ CommOk(comm[r], reduced[r], mgr[r].fires)
  /\ ReadyOk(comm[r], reduced[r], events[r].completed)
  /\ SyncOk(host[r], compute[r], used[r], events[r].completed.done)
  /\ ScatterOk(host[r], compute[r], grads[r], used[r])
  /\ StagedOk(r, compute[r], events[r].completed.ready, used[r], reduced[r], staged[r])
  /\ SentOk(r, comm[r], sent[r], reduced[r])
  /\ UsedOk(used[r], reduced[r])

IInv == Types /\ \A r \in Ranks : RankOk(r)

-----------------------------------------------------------------------------
(* The compute stream runs the head of its queue.                          *)

(* The fields of the operations of the two streams. *)
LEMMA OpTypes ==
  /\ \A x \in ComputeOps :
       /\ x.op = "backward" => x.layer \in DOMAIN Layers /\ x.batch \in Batches
       /\ x.op \in {"gather", "scatter"} => x.bucket \in BucketIds
       /\ x.op = "wait" => x.event \in BucketIds /\ x.n \in Nat
  /\ \A x \in CommOps :
       /\ x.op \in {"wait", "reduce", "done"}
       /\ x.op = "wait" => x.ready \in Nat
       /\ x.op = "reduce" => x.bucket \in BucketIds
       /\ x.op = "done" => x.event \in BucketIds
<1> HIDE DEF BucketIds
<1>1. \A x \in ComputeOps : x.op = "backward" => x.layer \in DOMAIN Layers /\ x.batch \in Batches
  BY DEF ComputeOps
<1>2. \A x \in ComputeOps : x.op \in {"gather", "scatter"} => x.bucket \in BucketIds
  BY DEF ComputeOps
<1>3. \A x \in ComputeOps : x.op = "wait" => x.event \in BucketIds /\ x.n \in Nat
  BY DEF ComputeOps
<1>4. \A x \in CommOps :
       /\ x.op \in {"wait", "reduce", "done"}
       /\ x.op = "wait" => x.ready \in Nat
       /\ x.op = "reduce" => x.bucket \in BucketIds
       /\ x.op = "done" => x.event \in BucketIds
  BY DEF CommOps
<1> QED BY <1>1, <1>2, <1>3, <1>4

(* used, once the head of q has run. *)
Runs(q, u, v) == IF q[1].op = "adamw" THEN v # << >> ELSE v = u

(* Running the head does not move an operation out of the first step,      *)
(* unless the head is its AdamW.                                           *)
LEMMA FirstPop ==
  ASSUME NEW q, NEW w, Popped(q, w), NEW u, NEW v, Runs(q, u, v), NEW k \in Nat, k >= 1, k <= Len(w) + 1
  PROVE  First(w, v, k) <=> First(q, u, k + 1)
<1>1. (k + 1) - 1 = k
  OBVIOUS
<1>2. CASE q[1].op = "adamw"
  <2>1. ~First(w, v, k)
    BY <1>2 DEF Runs, First
  <2>2. 1 \in 1 .. k
    OBVIOUS
  <2> QED BY <1>1, <1>2, <2>1, <2>2 DEF First, Without
<1>3. CASE q[1].op # "adamw"
  <2>1. u = v
    BY <1>3 DEF Runs
  <2>2. ASSUME First(q, u, k + 1), NEW x \in 1 .. k - 1 PROVE w[x].op # "adamw"
    <3>1. x \in 1 .. Len(w) /\ x + 1 \in 1 .. k
      BY DEF Popped
    <3> QED BY <1>1, <2>2, <3>1 DEF First, Without, Popped
  <2>3. ASSUME First(w, v, k), NEW x \in 1 .. k PROVE q[x].op # "adamw"
    <3>1. CASE x = 1
      BY <1>3, <3>1
    <3>2. CASE x # 1
      <4>1. x - 1 \in 1 .. Len(w) /\ x - 1 \in 1 .. k - 1 /\ (x - 1) + 1 = x
        BY <3>2 DEF Popped
      <4> QED BY <2>3, <4>1 DEF First, Without, Popped
    <3> QED BY <3>1, <3>2
  <2>4. First(w, v, k) => First(q, u, k + 1)
    BY <1>1, <2>1, <2>3 DEF First, Without
  <2>5. First(q, u, k + 1) => First(w, v, k)
    BY <2>1, <2>2 DEF First, Without
  <2> QED BY <2>4, <2>5
<1> QED BY <1>2, <1>3

(* EndOk when the head has run. *)
LEMMA EndPop ==
  ASSUME NEW r, NEW h, NEW q, NEW w, Popped(q, w), NEW g, NEW f,
         \A p \in Params : Turns(q[1], p, g[p], f[p]), EndOk(r, h, q, g)
  PROVE  EndOk(r, h, w, f)
<1> SUFFICES ASSUME h.pc \in {"backward", "mark", "sync"}, NEW p \in Params
             PROVE  Yields(w, f, p, Len(w), Sofar(r, h, p))
  BY DEF EndOk
<1>1. Len(w) \in Nat /\ Len(w) <= Len(w) /\ Len(q) = Len(w) + 1
  BY DEF Popped
<1>2. Yields(q, g, p, Len(w) + 1, Sofar(r, h, p))
  BY <1>1 DEF EndOk
<1> QED BY <1>1, <1>2, YieldsPop

(* GatherOk when the head has run. *)
LEMMA GatherPop ==
  ASSUME NEW r, NEW q, NEW w, Popped(q, w), NEW u, NEW v, Runs(q, u, v), NEW g, NEW f,
         \A p \in Params : Turns(q[1], p, g[p], f[p]), q \in Seq(ComputeOps), GatherOk(r, q, g, u)
  PROVE  GatherOk(r, w, f, v)
<1> SUFFICES ASSUME NEW k \in DOMAIN w, w[k].op = "gather"
             PROVE  \E s \in 1 .. MaxSteps :
                      /\ First(w, v, k) => s = 1
                      /\ \A p \in Members[w[k].bucket] : Yields(w, f, p, k - 1, Local(r, s))
  BY DEF GatherOk
<1>1. /\ k \in Nat /\ k >= 1 /\ k <= Len(w) + 1 /\ k - 1 \in Nat /\ k - 1 <= Len(w) /\ (k - 1) + 1 = k
      /\ (k + 1) - 1 = k /\ k + 1 \in DOMAIN q /\ w[k] = q[k + 1]
  BY DEF Popped
<1>2. PICK s \in 1 .. MaxSteps :
        /\ First(q, u, k + 1) => s = 1
        /\ \A p \in Members[w[k].bucket] : Yields(q, g, p, (k - 1) + 1, Local(r, s))
  BY <1>1 DEF GatherOk
<1>3. First(w, v, k) => s = 1
  BY <1>1, <1>2, FirstPop
<1>4. Members[w[k].bucket] \subseteq Params
  <2>1. w[k] \in ComputeOps
    BY <1>1, ElementOfSeq, LenProperties
  <2> QED BY <2>1, OpTypes, BucketFacts
<1>5. \A p \in Members[w[k].bucket] : Yields(w, f, p, k - 1, Local(r, s))
  BY <1>1, <1>2, <1>4, YieldsPop
<1> QED BY <1>3, <1>5

(* RegionOk when the head has run. *)
LEMMA RegionPop ==
  ASSUME NEW h, NEW q, NEW w, Popped(q, w), NEW u, NEW v, Runs(q, u, v), RegionOk(h, q, u)
  PROVE  RegionOk(h, w, v)
<1>1. Len(w) + 1 \in Nat /\ Len(w) + 1 >= 1 /\ Len(w) + 1 <= Len(w) + 1 /\ Len(q) + 1 = (Len(w) + 1) + 1
  BY DEF Popped
<1>2. First(w, v, Len(w) + 1) <=> First(q, u, Len(q) + 1)
  BY <1>1, FirstPop
<1> QED BY <1>2 DEF RegionOk

(* QueueOk when the head has run. *)
LEMMA QueuePop ==
  ASSUME NEW q, NEW w, Popped(q, w), QueueOk(q)
  PROVE  QueueOk(w)
<1> SUFFICES ASSUME NEW k \in DOMAIN w
             PROVE  /\ w[k].op = "gather" => k + 1 \in DOMAIN w /\ w[k + 1].op = "ready"
                    /\ w[k].op = "ready" /\ k > 1 => w[k - 1].op = "gather"
  BY DEF QueueOk
<1>1. k \in Nat /\ k + 1 \in DOMAIN q /\ w[k] = q[k + 1]
  BY DEF Popped
<1>2. w[k].op = "gather" => k + 1 \in DOMAIN w /\ w[k + 1].op = "ready"
  <2> SUFFICES ASSUME w[k].op = "gather" PROVE k + 1 \in DOMAIN w /\ w[k + 1].op = "ready"
    OBVIOUS
  <2>1. (k + 1) + 1 \in DOMAIN q /\ q[(k + 1) + 1].op = "ready"
    BY <1>1 DEF QueueOk
  <2>2. k + 1 \in DOMAIN w
    BY <1>1, <2>1 DEF Popped
  <2> QED BY <2>1, <2>2 DEF Popped
<1>3. w[k].op = "ready" /\ k > 1 => w[k - 1].op = "gather"
  <2> SUFFICES ASSUME w[k].op = "ready", k > 1 PROVE w[k - 1].op = "gather"
    OBVIOUS
  <2>1. k + 1 > 1 /\ (k + 1) - 1 = k /\ k - 1 \in 1 .. Len(w) /\ (k - 1) + 1 = k
    BY <1>1 DEF Popped
  <2> QED BY <1>1, <2>1 DEF QueueOk, Popped
<1> QED BY <1>2, <1>3

(* grad_ready, once the head of q has run. *)
Recorded(q, n) == IF q[1].op = "ready" THEN n + 1 ELSE n

(* The gathers that have run, counted before and after the head has. *)
LEMMA GatheredPop ==
  ASSUME NEW q, NEW w \in Seq(ComputeOps), Popped(q, w), QueueOk(q), NEW n \in Nat
  PROVE  /\ Gathered(q, n) \in Nat /\ n <= Gathered(q, n)
         /\ q[1].op = "gather" => Gathered(q, n) = n
         /\ Gathered(w, Recorded(q, n)) = IF q[1].op = "gather" THEN Gathered(q, n) + 1 ELSE Gathered(q, n)
<1>1. 1 \in DOMAIN q /\ q # << >>
  <2>1. 1 \in DOMAIN q
    BY DEF Popped
  <2>2. DOMAIN << >> = {}
    OBVIOUS
  <2> QED BY <2>1, <2>2
<1>2. w # << >> => 1 \in DOMAIN w /\ 2 \in DOMAIN q /\ w[1] = q[2]
  <2> SUFFICES ASSUME w # << >> PROVE 1 \in DOMAIN w /\ 2 \in DOMAIN q /\ w[1] = q[2]
    OBVIOUS
  <2>1. Len(w) \in Nat \ {0}
    BY EmptySeq, LenProperties
  <2>2. 1 \in 1 .. Len(w) /\ 1 + 1 = 2 /\ 2 \in 1 .. Len(q)
    BY <2>1 DEF Popped
  <2> QED BY <2>2 DEF Popped
<1>3. Len(w) = 0 => w = << >>
  BY EmptySeq
<1>4. CASE q[1].op = "gather"
  <2>1. 1 + 1 \in DOMAIN q /\ q[1 + 1].op = "ready"
    BY <1>1, <1>4 DEF QueueOk
  <2>2. 1 \in 1 .. Len(w)
    BY <2>1 DEF Popped
  <2>3. w # << >> /\ w[1].op = "ready"
    <3>1. w[1] = q[1 + 1] /\ 1 \in DOMAIN w
      BY <2>2 DEF Popped
    <3>2. DOMAIN << >> = {}
      OBVIOUS
    <3> QED BY <2>1, <3>1, <3>2
  <2> QED BY <1>1, <1>4, <2>3 DEF Gathered, Recorded
<1>5. CASE q[1].op # "gather"
  <2>1. ~(w # << >> /\ w[1].op = "ready")
    <3>1. 2 > 1 /\ 2 - 1 = 1
      OBVIOUS
    <3> QED BY <1>2, <1>5, <3>1 DEF QueueOk
  <2> QED BY <1>1, <1>5, <2>1 DEF Gathered, Recorded
<1> QED BY <1>4, <1>5

(* The gather at the head is the next one in turn. *)
LEMMA HeadInTurn ==
  ASSUME NEW q \in Seq(ComputeOps), NEW w \in Seq(ComputeOps), Popped(q, w), QueueOk(q), NEW n \in Nat,
         NEW fires \in Nat, TurnOk(q, << >>, n, fires), q[1].op = "gather"
  PROVE  Turn(q[1].bucket) = n + 1 /\ n + 1 <= fires /\ q[1].bucket \in BucketIds
<1>1. Gathered(q, n) = n
  BY GatheredPop
<1>2. 1 \in DOMAIN q /\ q[1].bucket \in BucketIds
  <2>1. 1 \in DOMAIN q
    BY DEF Popped
  <2>2. q[1] \in ComputeOps
    BY <2>1, ElementOfSeq, LenProperties
  <2> QED BY <2>1, <2>2, OpTypes
<1>3. FirstGather(q, << >>, 1)
  <2>1. 1 .. 1 - 1 = {}
    OBVIOUS
  <2> QED BY <2>1 DEF FirstGather, First, Without
<1>4. n < Turn(q[1].bucket) /\ Turn(q[1].bucket) <= fires
  BY <1>1, <1>2, <1>3 DEF TurnOk
<1>5. Turn(q[1].bucket) \in 1 .. NB /\ NB \in Nat
  BY <1>2, TurnFacts, BucketFacts
<1>6. n + 1 \in 1 .. NB /\ n < n + 1 /\ n + 1 <= fires
  BY <1>4, <1>5
<1>7. PICK k \in DOMAIN q : FirstGather(q, << >>, k) /\ Turn(q[k].bucket) = n + 1
  BY <1>1, <1>6 DEF TurnOk
<1>8. CASE k = 1
  BY <1>2, <1>6, <1>7, <1>8
<1>9. CASE k # 1
  <2>1. 1 \in 1 .. k - 1
    BY <1>9 DEF Popped
  <2>2. Turn(q[1].bucket) < Turn(q[k].bucket)
    BY <1>7, <2>1 DEF TurnOk
  <2> QED BY <1>4, <1>5, <1>7, <2>2
<1> QED BY <1>8, <1>9

(* TurnOk when the head has run. *)
LEMMA TurnPop ==
  ASSUME NEW q \in Seq(ComputeOps), NEW w \in Seq(ComputeOps), Popped(q, w), QueueOk(q), NEW u, NEW v, Runs(q, u, v),
         NEW n \in Nat, NEW fires \in Nat, TurnOk(q, u, n, fires)
  PROVE  TurnOk(w, v, Recorded(q, n), fires)
<1> SUFFICES ASSUME v = << >> PROVE TurnOk(w, << >>, Recorded(q, n), fires)
  BY DEF TurnOk
<1> DEFINE G == Gathered(q, n)
           H == Gathered(w, Recorded(q, n))
<1>1. q[1].op # "adamw" /\ u = << >>
  BY DEF Runs
<1>2. /\ G <= NB /\ G <= fires
      /\ \A k \in DOMAIN q : FirstGather(q, << >>, k) =>
           /\ G < Turn(q[k].bucket) /\ Turn(q[k].bucket) <= fires
           /\ \A j \in 1 .. k - 1 : q[j].op = "gather" => Turn(q[j].bucket) < Turn(q[k].bucket)
      /\ \A m \in 1 .. NB : G < m /\ m <= fires =>
           \E k \in DOMAIN q : FirstGather(q, << >>, k) /\ Turn(q[k].bucket) = m
  BY <1>1 DEF TurnOk
<1>3. G \in Nat /\ H = IF q[1].op = "gather" THEN G + 1 ELSE G
  BY GatheredPop
<1>4. q[1].op = "gather" => Turn(q[1].bucket) = G + 1 /\ G + 1 <= fires /\ q[1].bucket \in BucketIds
  <2> SUFFICES ASSUME q[1].op = "gather" PROVE Turn(q[1].bucket) = n + 1 /\ n + 1 <= fires /\ q[1].bucket \in BucketIds /\ G = n
    OBVIOUS
  <2>1. G = n
    BY GatheredPop
  <2>2. TurnOk(q, << >>, n, fires)
    BY <1>1
  <2> HIDE DEF G
  <2> QED BY <2>1, <2>2, HeadInTurn
<1> HIDE DEF G, H
<1>5. NB \in Nat /\ \A b \in BucketIds : Turn(b) \in 1 .. NB
  BY TurnFacts, BucketFacts
<1>6. H <= NB /\ H <= fires
  BY <1>2, <1>3, <1>4, <1>5
<1>7. ASSUME NEW k \in DOMAIN w
      PROVE  /\ k \in Nat /\ k + 1 \in DOMAIN q /\ w[k] = q[k + 1]
             /\ FirstGather(w, << >>, k) <=> FirstGather(q, << >>, k + 1)
             /\ w[k].op = "gather" => w[k].bucket \in BucketIds
  <2>1. k \in Nat /\ k >= 1 /\ k <= Len(w) + 1 /\ k + 1 \in DOMAIN q /\ w[k] = q[k + 1]
    BY DEF Popped
  <2>2. First(w, << >>, k) <=> First(q, << >>, k + 1)
    BY <1>1, <2>1, FirstPop
  <2>3. w[k] \in ComputeOps
    BY ElementOfSeq, LenProperties
  <2> QED BY <2>1, <2>2, <2>3, OpTypes DEF FirstGather
<1>8. ASSUME NEW k \in DOMAIN w, FirstGather(w, << >>, k)
      PROVE  /\ H < Turn(w[k].bucket) /\ Turn(w[k].bucket) <= fires
             /\ \A j \in 1 .. k - 1 : w[j].op = "gather" => Turn(w[j].bucket) < Turn(w[k].bucket)
  <2>1. /\ G < Turn(w[k].bucket) /\ Turn(w[k].bucket) <= fires
        /\ \A j \in 1 .. (k + 1) - 1 : q[j].op = "gather" => Turn(q[j].bucket) < Turn(w[k].bucket)
    BY <1>2, <1>7, <1>8
  <2>2. Turn(w[k].bucket) \in Nat
    <3>1. w[k].bucket \in BucketIds
      BY <1>7, <1>8 DEF FirstGather
    <3>2. Turn(w[k].bucket) \in 1 .. NB
      BY <1>5, <3>1
    <3> QED BY <1>5, <3>2
  <2>3. k \in Nat /\ 1 \in 1 .. (k + 1) - 1
    BY DEF Popped
  <2>4. H < Turn(w[k].bucket)
    BY <1>3, <1>4, <2>1, <2>2, <2>3
  <2>5. ASSUME NEW j \in 1 .. k - 1, w[j].op = "gather" PROVE Turn(w[j].bucket) < Turn(w[k].bucket)
    <3>1. j \in DOMAIN w /\ j + 1 \in 1 .. (k + 1) - 1
      BY <2>3 DEF Popped
    <3>2. w[j] = q[j + 1]
      BY <1>7, <3>1
    <3> QED BY <2>1, <2>5, <3>1, <3>2
  <2> QED BY <2>1, <2>4, <2>5
<1>9. ASSUME NEW m \in 1 .. NB, H < m, m <= fires
      PROVE  \E k \in DOMAIN w : FirstGather(w, << >>, k) /\ Turn(w[k].bucket) = m
  <2>1. G < m
    BY <1>3, <1>9
  <2>2. PICK k \in DOMAIN q : FirstGather(q, << >>, k) /\ Turn(q[k].bucket) = m
    BY <1>2, <1>9, <2>1
  <2>3. k # 1
    <3> SUFFICES ASSUME k = 1 PROVE FALSE
      OBVIOUS
    <3>1. q[1].op = "gather"
      BY <2>2 DEF FirstGather
    <3>2. m = G + 1 /\ H = G + 1
      BY <1>3, <1>4, <2>2, <3>1
    <3> QED BY <1>3, <1>9, <3>2
  <2>4. k - 1 \in DOMAIN w /\ (k - 1) + 1 = k
    BY <2>3 DEF Popped
  <2>5. FirstGather(w, << >>, k - 1) /\ w[k - 1] = q[k]
    BY <1>7, <2>2, <2>4
  <2> QED BY <2>2, <2>4, <2>5
<1> QED BY <1>6, <1>8, <1>9 DEF TurnOk, H

(* What waits for all of the first step still does. *)
LEMMA SyncedPop ==
  ASSUME NEW q, NEW w, Popped(q, w), NEW done \in [BucketIds -> Nat], NEW k \in Nat, k <= Len(w) + 1,
         q[1].op = "wait" => done[q[1].event] >= q[1].n /\ q[1].n \in Nat,
         Synced(q, done, k + 1)
  PROVE  Synced(w, done, k)
<1> SUFFICES ASSUME NEW e \in BucketIds, ~(done[e] > 0)
             PROVE  \E j \in 1 .. k - 1 : w[j].op = "wait" /\ w[j].event = e /\ w[j].n > 0
  BY DEF Synced
<1>1. PICK j \in 1 .. (k + 1) - 1 : q[j].op = "wait" /\ q[j].event = e /\ q[j].n > 0
  BY DEF Synced
<1>2. done[e] \in Nat
  OBVIOUS
<1>3. j # 1
  <2> SUFFICES ASSUME j = 1 PROVE FALSE
    OBVIOUS
  <2>1. done[e] >= q[1].n /\ q[1].n > 0 /\ q[1].n \in Nat
    BY <1>1
  <2> QED BY <1>2, <2>1
<1>4. j - 1 \in 1 .. k - 1 /\ j - 1 \in 1 .. Len(w) /\ (j - 1) + 1 = j
  BY <1>3 DEF Popped
<1>5. w[j - 1] = q[j]
  BY <1>4 DEF Popped
<1> QED BY <1>1, <1>4, <1>5

(* The AdamW of the first step, before and after the head has run. *)
LEMMA FirstAdamWPop ==
  ASSUME NEW h, NEW q, NEW w, Popped(q, w), NEW u, NEW v, Runs(q, u, v), NEW k \in 1 .. Len(w) + 1,
         FirstAdamW(h, w, v, k)
  PROVE  k + 1 \in 1 .. Len(q) + 1 /\ FirstAdamW(h, q, u, k + 1) /\ q[1].op # "adamw"
<1>1. k \in Nat /\ k >= 1 /\ k <= Len(w) + 1 /\ k + 1 \in 1 .. Len(q) + 1 /\ 1 \in 1 .. (k + 1) - 1
  BY DEF Popped
<1>2. First(q, u, k + 1)
  BY <1>1, FirstPop DEF FirstAdamW
<1>3. q[1].op # "adamw"
  BY <1>1, <1>2 DEF First, Without
<1>4. CASE k \in DOMAIN w /\ w[k].op = "adamw"
  <2>1. k + 1 \in DOMAIN q /\ w[k] = q[k + 1]
    BY <1>4 DEF Popped
  <2> QED BY <1>1, <1>2, <1>3, <1>4, <2>1 DEF FirstAdamW
<1>5. CASE k = Len(w) + 1 /\ h.step = 1 /\ h.pc = "optimize"
  <2>1. k + 1 = Len(q) + 1
    BY <1>5 DEF Popped
  <2> QED BY <1>1, <1>2, <1>3, <1>5, <2>1 DEF FirstAdamW
<1> QED BY <1>4, <1>5 DEF FirstAdamW

(* SyncOk when the head has run. *)
LEMMA SyncPop ==
  ASSUME NEW h, NEW q, NEW w, Popped(q, w), NEW u, NEW v, Runs(q, u, v), NEW done \in [BucketIds -> Nat],
         q[1].op = "wait" => done[q[1].event] >= q[1].n /\ q[1].n \in Nat,
         SyncOk(h, q, u, done)
  PROVE  SyncOk(h, w, v, done)
<1>1. ASSUME NEW k \in DOMAIN w, w[k].op = "scatter", First(w, v, k) PROVE Synced(w, done, k)
  <2>1. k \in Nat /\ k >= 1 /\ k <= Len(w) + 1 /\ k + 1 \in DOMAIN q /\ w[k] = q[k + 1]
    BY DEF Popped
  <2>2. First(q, u, k + 1)
    BY <1>1, <2>1, FirstPop
  <2>3. Synced(q, done, k + 1)
    BY <1>1, <2>1, <2>2 DEF SyncOk
  <2> QED BY <2>1, <2>3, SyncedPop
<1>2. ASSUME NEW k \in 1 .. Len(w) + 1, FirstAdamW(h, w, v, k) PROVE Synced(w, done, k)
  <2>1. k + 1 \in 1 .. Len(q) + 1 /\ FirstAdamW(h, q, u, k + 1)
    BY <1>2, FirstAdamWPop
  <2>2. Synced(q, done, k + 1)
    BY <2>1 DEF SyncOk
  <2>3. k \in Nat /\ k <= Len(w) + 1
    BY DEF Popped
  <2> QED BY <2>2, <2>3, SyncedPop
<1> QED BY <1>1, <1>2 DEF SyncOk

(* What the head leaves of the gradients the first AdamW reads. *)
Keeps(q, u, g, f) ==
  /\ q[1].op \notin {"zero", "backward", "scatter"} => f = g
  /\ q[1].op = "scatter" /\ u = << >> =>
       \A p \in Params : IF p \in Members[q[1].bucket] THEN f[p] = Mean(1) ELSE f[p] = g[p]

(* ScatterOk when the head has run. *)
LEMMA ScatterPop ==
  ASSUME NEW h, NEW q, NEW w, Popped(q, w), NEW u, NEW v, Runs(q, u, v), NEW g, NEW f, Keeps(q, u, g, f),
         ScatterOk(h, q, g, u)
  PROVE  ScatterOk(h, w, f, v)
<1> SUFFICES ASSUME NEW k \in 1 .. Len(w) + 1, FirstAdamW(h, w, v, k), NEW b \in BucketIds
             PROVE  \/ Without(w, 1, k - 1, {"zero", "backward"}) /\ \A p \in Members[b] : f[p] = Mean(1)
                    \/ \E j \in 1 .. k - 1 : /\ w[j].op = "scatter" /\ w[j].bucket = b
                                             /\ Without(w, j + 1, k - 1, {"zero", "backward"})
  BY DEF ScatterOk, Scattered
<1>1. k + 1 \in 1 .. Len(q) + 1 /\ FirstAdamW(h, q, u, k + 1) /\ q[1].op # "adamw"
  BY FirstAdamWPop
<1>2. u = << >>
  BY <1>1 DEF FirstAdamW, First
<1>3. (k + 1) - 1 = k /\ k - 1 \in Nat /\ (k - 1) + 1 = k /\ k - 1 <= Len(w) /\ 1 \in Nat \ {0} /\ 1 \in 1 .. k
      /\ 1 + 1 .. k \subseteq 1 .. k
  BY DEF Popped
<1>4. Members[b] \subseteq Params
  BY BucketFacts
<1>5. CASE Without(q, 1, k, {"zero", "backward"}) /\ \A p \in Members[b] : g[p] = Mean(1)
  <2>1. q[1].op \notin {"zero", "backward"} /\ Without(q, 1 + 1, (k - 1) + 1, {"zero", "backward"})
    BY <1>3, <1>5 DEF Without
  <2>2. Without(w, 1, k - 1, {"zero", "backward"})
    BY <1>3, <2>1, WithoutShift
  <2>3. ASSUME NEW p \in Members[b] PROVE f[p] = Mean(1)
    BY <1>2, <1>4, <1>5, <2>1 DEF Keeps
  <2> QED BY <2>2, <2>3
<1>6. ASSUME NEW j \in 1 .. k, q[j].op = "scatter", q[j].bucket = b, Without(q, j + 1, k, {"zero", "backward"})
      PROVE  \/ Without(w, 1, k - 1, {"zero", "backward"}) /\ \A p \in Members[b] : f[p] = Mean(1)
             \/ \E i \in 1 .. k - 1 : /\ w[i].op = "scatter" /\ w[i].bucket = b
                                      /\ Without(w, i + 1, k - 1, {"zero", "backward"})
  <2>1. j \in Nat \ {0} /\ Without(q, j + 1, (k - 1) + 1, {"zero", "backward"})
    BY <1>3, <1>6
  <2>2. Without(w, j, k - 1, {"zero", "backward"})
    BY <1>3, <2>1, WithoutShift
  <2>3. CASE j = 1
    <3>1. \A p \in Members[b] : f[p] = Mean(1)
      BY <1>2, <1>4, <1>6, <2>3 DEF Keeps
    <3> QED BY <2>2, <2>3, <3>1
  <2>4. CASE j # 1
    <3>1. j - 1 \in 1 .. k - 1 /\ j - 1 \in 1 .. Len(w) /\ (j - 1) + 1 = j
      BY <2>4 DEF Popped
    <3>2. w[j - 1] = q[j]
      BY <3>1 DEF Popped
    <3> QED BY <1>6, <2>2, <3>1, <3>2
  <2> QED BY <2>3, <2>4
<1>7. \/ Without(q, 1, k, {"zero", "backward"}) /\ \A p \in Members[b] : g[p] = Mean(1)
      \/ \E j \in 1 .. k : /\ q[j].op = "scatter" /\ q[j].bucket = b
                           /\ Without(q, j + 1, k, {"zero", "backward"})
  BY <1>1, <1>3 DEF ScatterOk, Scattered
<1> QED BY <1>5, <1>6, <1>7
(* Where all are waited for, the first step's all-reduces are done. *)
LEMMA SyncedAtHead ==
  ASSUME NEW q, NEW rd \in Nat, NEW done, \A e \in BucketIds : done[e] > 0 => e <= rd, Synced(q, done, 1)
  PROVE  NB <= rd
<1>1. NB \in BucketIds /\ 1 .. 1 - 1 = {}
  BY BucketFacts
<1>2. done[NB] > 0
  BY <1>1 DEF Synced
<1> QED BY <1>1, <1>2

(* Before the first AdamW has run, the head is in the first step or ends   *)
(* it.                                                                     *)
LEMMA FirstAtHead ==
  ASSUME NEW q
  PROVE  First(q, << >>, 1)
<1>1. 1 .. 1 - 1 = {}
  OBVIOUS
<1> QED BY <1>1 DEF First, Without

Averaged(g) == \A p \in Params : g[p] = Mean(1)

(* A scatter of the first step that runs finds every bucket averaged. *)
LEMMA HeadScatter ==
  ASSUME NEW r, NEW h, NEW q, NEW w, Popped(q, w), NEW n, NEW done,
         NEW rd \in Nat, \A e \in BucketIds : done[e] > 0 => e <= rd, SyncOk(h, q, << >>, done), NEW st,
         StagedOk(r, q, n, << >>, rd, st),
         q[1].op = "scatter"
  PROVE  Averaged(st)
<1>1. Synced(q, done, 1)
  <2>1. 1 \in DOMAIN q
    BY DEF Popped
  <2> QED BY <2>1, FirstAtHead DEF SyncOk
<1>2. NB <= rd
  BY <1>1, SyncedAtHead
<1>3. \A b \in BucketIds : Turn(b) <= rd
  <2>1. \A b \in BucketIds : Turn(b) \in 1 .. NB
    BY TurnFacts
  <2>2. NB \in Nat
    BY BucketFacts
  <2> QED BY <1>2, <2>1, <2>2
<1>4. ASSUME NEW p \in Params PROVE st[p] = Mean(1)
  <2>1. BucketOf[p] \in BucketIds /\ p \in Members[BucketOf[p]]
    BY BucketFacts
  <2> QED BY <1>3, <2>1 DEF StagedOk
<1> QED BY <1>4 DEF Averaged

(* Only a gather changes the staging buffers. *)
Stages(q, g, s, t) ==
  IF q[1].op = "gather" THEN t = Copied(g, s, q[1].bucket) ELSE t = s

(* StagedOk when the head has run. *)
LEMMA StagedPop ==
  ASSUME NEW r, NEW q \in Seq(ComputeOps), NEW w \in Seq(ComputeOps), Popped(q, w), QueueOk(q), NEW u, NEW v,
         Runs(q, u, v), NEW n \in Nat, NEW fires \in Nat, TurnOk(q, u, n, fires), NEW g, GatherOk(r, q, g, u),
         NEW rd \in Nat, rd <= n, NEW s, NEW t, Stages(q, g, s, t), StagedOk(r, q, n, u, rd, s)
  PROVE  StagedOk(r, w, Recorded(q, n), v, rd, t)
<1> SUFFICES ASSUME v = << >>, NEW b \in BucketIds, NEW p \in Members[b]
             PROVE  /\ Turn(b) <= rd => t[p] = Mean(1)
                    /\ rd < Turn(b) /\ Turn(b) <= Gathered(w, Recorded(q, n)) => t[p] = Local(r, 1)
  BY DEF StagedOk
<1>1. u = << >> /\ q[1].op # "adamw"
  BY DEF Runs
<1>2. /\ Turn(b) <= rd => s[p] = Mean(1)
      /\ rd < Turn(b) /\ Turn(b) <= Gathered(q, n) => s[p] = Local(r, 1)
  BY <1>1 DEF StagedOk
<1>3. CASE q[1].op # "gather"
  <2>1. t = s /\ Gathered(w, Recorded(q, n)) = Gathered(q, n)
    BY <1>3, GatheredPop DEF Stages
  <2> QED BY <1>2, <2>1
<1>4. CASE q[1].op = "gather"
  <2>1. Gathered(q, n) = n /\ Gathered(w, Recorded(q, n)) = n + 1
    BY <1>4, GatheredPop
  <2>2. Turn(q[1].bucket) = n + 1 /\ q[1].bucket \in BucketIds
    BY <1>1, <1>4, HeadInTurn
  <2>3. Turn(b) \in 1 .. NB /\ NB \in Nat /\ p \in Params
    BY TurnFacts, BucketFacts
  <2>4. CASE b = q[1].bucket
    <3>1. t[p] = g[p]
      BY <1>4, <2>3, <2>4 DEF Stages, Copied
    <3>2. 1 \in DOMAIN q /\ 1 - 1 = 0
      BY DEF Popped
    <3>3. Yields(q, g, p, 0, Local(r, 1))
      <4>1. PICK m \in 1 .. MaxSteps :
              /\ First(q, u, 1) => m = 1
              /\ \A x \in Members[q[1].bucket] : Yields(q, g, x, 1 - 1, Local(r, m))
        BY <1>4, <3>2 DEF GatherOk
      <4>2. m = 1
        BY <1>1, <4>1, FirstAtHead
      <4> QED BY <2>4, <3>2, <4>1, <4>2
    <3>4. g[p] = Local(r, 1)
      <4>1. 1 .. 0 = {}
        OBVIOUS
      <4>2. Contrib(q, p, 1, 0) = {}
        BY <4>1 DEF Contrib
      <4> QED BY <3>3, <4>1, <4>2 DEF Yields
    <3> QED BY <2>2, <2>4, <3>1, <3>4
  <2>5. CASE b # q[1].bucket
    <3>1. t[p] = s[p]
      <4>1. p \notin Members[q[1].bucket]
        BY <2>2, <2>5, BucketFacts
      <4> QED BY <1>4, <2>3, <4>1 DEF Stages, Copied
    <3>2. Turn(b) # n + 1
      BY <2>2, <2>5, TurnFacts
    <3>3. Turn(b) <= n + 1 => Turn(b) <= n
      BY <2>3, <3>2
    <3> QED BY <1>2, <2>1, <3>1, <3>3
  <2> QED BY <2>4, <2>5
<1> QED BY <1>3, <1>4

(* What the gradient will be before the head is what it is. *)
LEMMA YieldsNow ==
  ASSUME NEW q, NEW g, NEW p, NEW V, Yields(q, g, p, 0, V)
  PROVE  g[p] = V
<1>1. 1 .. 0 = {}
  OBVIOUS
<1>2. Contrib(q, p, 1, 0) = {}
  BY <1>1 DEF Contrib
<1> QED BY <1>1, <1>2 DEF Yields

(* The first AdamW reads the averages. *)
LEMMA UsedPop ==
  ASSUME NEW h, NEW q, NEW w, Popped(q, w), NEW done,
         NEW rd \in Nat, \A e \in BucketIds : done[e] > 0 => e <= rd, SyncOk(h, q, << >>, done), NEW g, ScatterOk(h, q, g, << >>),
         q[1].op = "adamw"
  PROVE  NB <= rd /\ Averaged(g)
<1>1. 1 \in 1 .. Len(q) + 1 /\ FirstAdamW(h, q, << >>, 1) /\ 1 .. 1 - 1 = {}
  <2>1. 1 \in 1 .. Len(q) + 1 /\ 1 \in DOMAIN q
    BY DEF Popped
  <2> QED BY <2>1, FirstAtHead DEF FirstAdamW
<1>2. NB <= rd
  BY <1>1, SyncedAtHead DEF SyncOk
<1>3. ASSUME NEW b \in BucketIds, NEW p \in Members[b] PROVE g[p] = Mean(1)
  BY <1>1 DEF ScatterOk, Scattered
<1>4. ASSUME NEW p \in Params PROVE g[p] = Mean(1)
  BY <1>3, BucketFacts
<1> QED BY <1>2, <1>4 DEF Averaged
-----------------------------------------------------------------------------
(* The steps of the compute stream.                                        *)

(* The types of one rank. *)
LEMMA TypesOf ==
  ASSUME Types, NEW r \in Ranks
  PROVE  /\ host[r] \in Hosts /\ mgr[r] \in Managers /\ mgr[r].fires \in Nat
         /\ compute[r] \in Seq(ComputeOps) /\ comm[r] \in Seq(CommOps)
         /\ events[r] \in [recorded : Records, completed : Records]
         /\ events[r].recorded.ready \in Nat /\ events[r].recorded.done \in [BucketIds -> Nat]
         /\ events[r].completed.ready \in Nat /\ events[r].completed.done \in [BucketIds -> Nat]
         /\ grads[r] \in Buffers /\ staged[r] \in Buffers /\ sent[r] \in Seq(Buffers)
         /\ reduced[r] \in Nat /\ used[r] \in Seq(Buffers)
<1>1. /\ host[r] \in Hosts /\ mgr[r] \in Managers
      /\ compute[r] \in Seq(ComputeOps) /\ comm[r] \in Seq(CommOps)
      /\ events[r] \in [recorded : Records, completed : Records]
      /\ grads[r] \in Buffers /\ staged[r] \in Buffers /\ sent[r] \in Seq(Buffers)
      /\ reduced[r] \in Nat /\ used[r] \in Seq(Buffers)
  BY DEF Types
<1>2. mgr[r].fires \in Nat
  BY <1>1 DEF Managers
<1>3. /\ events[r].recorded.ready \in Nat /\ events[r].recorded.done \in [BucketIds -> Nat]
      /\ events[r].completed.ready \in Nat /\ events[r].completed.done \in [BucketIds -> Nat]
  BY <1>1 DEF Records
<1> QED BY <1>1, <1>2, <1>3

(* Nothing of rank q changes. *)
Same(q) ==
  /\ host'[q] = host[q] /\ mgr'[q] = mgr[q] /\ compute'[q] = compute[q] /\ comm'[q] = comm[q]
  /\ events'[q] = events[q] /\ grads'[q] = grads[q] /\ staged'[q] = staged[q] /\ sent'[q] = sent[q]
  /\ reduced'[q] = reduced[q] /\ used'[q] = used[q]

(* A rank that a step leaves alone keeps its invariant. *)
LEMMA SameKeeps ==
  ASSUME NEW q \in Ranks, RankOk(q), Same(q)
  PROVE  RankOk(q)'
BY DEF RankOk, Same

(* What holds of the head of the compute stream and of what it changes. *)
LEMMA ComputePop ==
  ASSUME Types, NEW r \in Ranks, RankOk(r), compute[r] # << >>,
         host'[r] = host[r], mgr'[r] = mgr[r], comm'[r] = comm[r], compute'[r] = Tail(compute[r]),
         sent'[r] = sent[r], reduced'[r] = reduced[r],
         events'[r].recorded = events[r].recorded, events'[r].completed.done = events[r].completed.done,
         events'[r].completed.ready = Recorded(compute[r], events[r].completed.ready),
         Runs(compute[r], used[r], used'[r]), UsedOk(used'[r], reduced[r]),
         \A p \in Params : Turns(compute[r][1], p, grads[r][p], grads'[r][p]),
         Keeps(compute[r], used[r], grads[r], grads'[r]),
         Stages(compute[r], grads[r], staged[r], staged'[r]),
         compute[r][1].op = "wait" => events[r].completed.done[compute[r][1].event] >= compute[r][1].n
  PROVE  RankOk(r)'
<1> DEFINE q == compute[r]
           w == Tail(q)
           n == events[r].completed.ready
           d == events[r].completed.done
<1>1. q \in Seq(ComputeOps) /\ w \in Seq(ComputeOps) /\ Popped(q, w) /\ q[1] \in ComputeOps
  BY TypesOf, TailPops
<1>2. n \in Nat /\ d \in [BucketIds -> Nat] /\ mgr[r].fires \in Nat /\ reduced[r] \in Nat
  BY TypesOf
<1>3. q[1].op = "wait" => d[q[1].event] >= q[1].n /\ q[1].n \in Nat
  BY <1>1, OpTypes
<1> HIDE DEF w
<1>4. reduced[r] <= n
  BY DEF RankOk, ReadyOk
<1>5. /\ HostOk(host'[r])
      /\ MgrOk(host'[r], mgr'[r])
      /\ CountOk(host'[r], mgr'[r], events'[r].recorded)
      /\ CommOk(comm'[r], reduced'[r], mgr'[r].fires)
      /\ SentOk(r, comm'[r], sent'[r], reduced'[r])
      /\ UsedOk(used'[r], reduced'[r])
  BY DEF RankOk
<1>6. EndOk(r, host[r], w, grads'[r])
  BY <1>1, EndPop DEF RankOk
<1>7. GatherOk(r, w, grads'[r], used'[r])
  BY <1>1, GatherPop DEF RankOk
<1>8. RegionOk(host[r], w, used'[r])
  BY <1>1, RegionPop DEF RankOk
<1>9. QueueOk(w)
  BY <1>1, QueuePop DEF RankOk
<1>10. TurnOk(w, used'[r], Recorded(q, n), mgr[r].fires)
  BY <1>1, <1>2, TurnPop DEF RankOk
<1>11. ReadyOk(comm[r], reduced[r], events'[r].completed)
  <2>1. Recorded(q, n) \in Nat /\ n <= Recorded(q, n)
    BY <1>2 DEF Recorded
  <2>2. /\ reduced[r] <= n
        /\ comm[r] # << >> /\ comm[r][1].op = "reduce" => reduced[r] < n
        /\ \A e \in BucketIds : d[e] > 0 => e <= reduced[r]
    BY DEF RankOk, ReadyOk
  <2>3. /\ reduced[r] <= Recorded(q, n)
        /\ comm[r] # << >> /\ comm[r][1].op = "reduce" => reduced[r] < Recorded(q, n)
    BY <1>2, <2>1, <2>2
  <2> QED BY <2>2, <2>3 DEF ReadyOk
<1>12. SyncOk(host[r], w, used'[r], d)
  BY <1>1, <1>2, <1>3, SyncPop DEF RankOk
<1>13. ScatterOk(host[r], w, grads'[r], used'[r])
  BY <1>1, ScatterPop DEF RankOk
<1>14. StagedOk(r, w, Recorded(q, n), used'[r], reduced[r], staged'[r])
  BY <1>1, <1>2, <1>4, StagedPop DEF RankOk
<1>15. compute'[r] = w
  BY DEF w
<1> HIDE DEF q, n, d
<1> QED BY <1>5, <1>6, <1>7, <1>8, <1>9, <1>10, <1>11, <1>12, <1>13, <1>14, <1>15 DEF RankOk, q, n, d

(* A step of the compute stream of r, but for what its operation changes. *)
LEMMA ComputeStep ==
  ASSUME Types, NEW r \in Ranks, compute[r] # << >>, ComputeDone(r)
  PROVE  /\ compute'[r] = Tail(compute[r]) /\ host' = host /\ mgr' = mgr /\ comm' = comm
         /\ Head(compute[r]) = compute[r][1] /\ compute[r][1] \in ComputeOps
         /\ compute' \in [Ranks -> Seq(ComputeOps)]
         /\ \A q \in Ranks \ {r} : compute'[q] = compute[q]
<1>1. compute \in [Ranks -> Seq(ComputeOps)] /\ compute' = [compute EXCEPT ![r] = Tail(compute[r])]
      /\ host' = host /\ mgr' = mgr /\ comm' = comm
  BY DEF ComputeDone, Types
<1>2. Tail(compute[r]) \in Seq(ComputeOps) /\ Head(compute[r]) = compute[r][1] /\ compute[r][1] \in ComputeOps
  BY <1>1, TailPops
<1> QED BY <1>1, <1>2

(* Only AdamW appends to what the steps have read. *)
LEMMA UsedStays ==
  ASSUME NEW r \in Ranks, RankOk(r), used' = used, compute[r][1].op # "adamw"
  PROVE  Runs(compute[r], used[r], used'[r]) /\ UsedOk(used'[r], reduced[r])
BY DEF RankOk, Runs

(* An operation that changes gradients alone. *)
LEMMA GradsStep ==
  ASSUME Types, NEW r \in Ranks, RankOk(r), compute[r] # << >>, ComputeDone(r), NEW f \in Buffers,
         grads' = [grads EXCEPT ![r] = f], UNCHANGED <<events, staged, sent, reduced, used>>,
         compute[r][1].op \in {"zero", "backward", "scatter"},
         \A p \in Params : Turns(compute[r][1], p, grads[r][p], f[p]),
         Keeps(compute[r], used[r], grads[r], f)
  PROVE  Types' /\ RankOk(r)' /\ \A q \in Ranks \ {r} : Same(q)
<1>1. grads' \in [Ranks -> Buffers] /\ grads'[r] = f /\ \A q \in Ranks \ {r} : grads'[q] = grads[q]
  BY DEF Types
<1>2. RankOk(r)'
  <2>1. Stages(compute[r], grads[r], staged[r], staged'[r])
    BY DEF Stages
  <2>2. events'[r].completed.ready = Recorded(compute[r], events[r].completed.ready)
    BY DEF Recorded
  <2>3. Runs(compute[r], used[r], used'[r]) /\ UsedOk(used'[r], reduced[r])
    BY UsedStays
  <2>4. compute[r][1].op # "wait"
    OBVIOUS
  <2> QED BY <1>1, <2>1, <2>2, <2>3, <2>4, ComputeStep, ComputePop
<1>3. Types'
  BY <1>1, ComputeStep DEF Types
<1>4. \A q \in Ranks \ {r} : Same(q)
  BY <1>1, ComputeStep DEF Same
<1> QED BY <1>2, <1>3, <1>4

(* opt.zero_grad() on the compute stream. *)
LEMMA RunZeroGradKeeps ==
  ASSUME Types, NEW r \in Ranks, RankOk(r), RunZeroGrad(r)
  PROVE  Types' /\ RankOk(r)' /\ \A q \in Ranks \ {r} : Same(q)
<1> DEFINE f == [p \in Params |-> {}]
<1>1. /\ compute[r] # << >> /\ ComputeDone(r) /\ Head(compute[r]).op = "zero"
      /\ grads' = [grads EXCEPT ![r] = f] /\ UNCHANGED <<events, staged, sent, reduced, used>>
  BY DEF RunZeroGrad, ComputeOp
<1>2. f \in Buffers
  BY DEF Buffers
<1>3. compute[r][1].op = "zero"
  BY <1>1, ComputeStep
<1>4. (\A p \in Params : Turns(compute[r][1], p, grads[r][p], f[p])) /\ Keeps(compute[r], used[r], grads[r], f)
  BY <1>3 DEF Turns, Keeps
<1> HIDE DEF f
<1> QED BY <1>1, <1>2, <1>3, <1>4, GradsStep

(* The backward kernels of a layer on the compute stream. *)
LEMMA RunBackwardKeeps ==
  ASSUME Types, NEW r \in Ranks, RankOk(r), RunBackward(r)
  PROVE  Types' /\ RankOk(r)' /\ \A q \in Ranks \ {r} : Same(q)
<1> DEFINE k == Head(compute[r])
           f == [p \in Params |-> grads[r][p] \cup IF p \in ToSet(Layers[k.layer]) THEN {k.batch} ELSE {}]
<1>1. /\ compute[r] # << >> /\ ComputeDone(r) /\ Head(compute[r]).op = "backward"
      /\ grads' = [grads EXCEPT ![r] = f] /\ UNCHANGED <<events, staged, sent, reduced, used>>
  BY DEF RunBackward, ComputeOp
<1>2. k = compute[r][1] /\ k \in ComputeOps
  BY <1>1, ComputeStep
<1>3. f \in Buffers
  <2>1. k.batch \in Batches
    BY <1>1, <1>2, OpTypes
  <2>2. grads[r] \in [Params -> SUBSET Batches]
    BY TypesOf DEF Buffers
  <2> HIDE DEF k
  <2>3. \A p \in Params : (grads[r][p] \cup IF p \in ToSet(Layers[k.layer]) THEN {k.batch} ELSE {}) \in SUBSET Batches
    BY <2>1, <2>2
  <2> QED BY <2>3 DEF Buffers
<1>4. compute[r][1].op = "backward"
  BY <1>1, <1>2
<1>5. \A p \in Params : Turns(compute[r][1], p, grads[r][p], f[p])
  <2> SUFFICES ASSUME NEW p \in Params PROVE f[p] = grads[r][p] \cup Adds(compute[r][1], p)
    BY <1>4 DEF Turns
  <2>1. f[p] = grads[r][p] \cup IF p \in ToSet(Layers[k.layer]) THEN {k.batch} ELSE {}
    OBVIOUS
  <2> HIDE DEF f, k
  <2> QED BY <1>2, <1>4, <2>1 DEF Adds, Of
<1>6. Keeps(compute[r], used[r], grads[r], f)
  BY <1>4 DEF Keeps
<1> HIDE DEF f, k
<1> QED BY <1>1, <1>3, <1>4, <1>5, <1>6, GradsStep

(* A copy between buffers is a buffer. *)
LEMMA CopiedType ==
  ASSUME NEW s \in Buffers, NEW t \in Buffers, NEW b
  PROVE  Copied(s, t, b) \in Buffers
BY DEF Copied, Buffers

(* A scatter on the compute stream. *)
LEMMA RunScatterKeeps ==
  ASSUME Types, NEW r \in Ranks, RankOk(r), RunScatter(r)
  PROVE  Types' /\ RankOk(r)' /\ \A q \in Ranks \ {r} : Same(q)
<1> DEFINE f == Copied(staged[r], grads[r], Head(compute[r]).bucket)
<1>1. /\ compute[r] # << >> /\ ComputeDone(r) /\ Head(compute[r]).op = "scatter"
      /\ grads' = [grads EXCEPT ![r] = f] /\ UNCHANGED <<events, staged, sent, reduced, used>>
  BY DEF RunScatter, ComputeOp
<1>2. Head(compute[r]) = compute[r][1] /\ compute[r][1] \in ComputeOps /\ compute[r][1].op = "scatter"
  BY <1>1, ComputeStep
<1>3. f \in Buffers
  BY TypesOf, CopiedType
<1>4. \A p \in Params : Turns(compute[r][1], p, grads[r][p], f[p])
  BY <1>2 DEF Turns
<1>5. Keeps(compute[r], used[r], grads[r], f)
  <2> SUFFICES ASSUME used[r] = << >>, NEW p \in Params
               PROVE  IF p \in Members[compute[r][1].bucket] THEN f[p] = Mean(1) ELSE f[p] = grads[r][p]
    BY <1>2 DEF Keeps
  <2>1. Popped(compute[r], Tail(compute[r]))
    BY <1>1, TypesOf, TailPops
  <2>2. Averaged(staged[r])
    <3>1. /\ \A e \in BucketIds : events[r].completed.done[e] > 0 => e <= reduced[r]
          /\ SyncOk(host[r], compute[r], << >>, events[r].completed.done) /\ reduced[r] \in Nat
          /\ StagedOk(r, compute[r], events[r].completed.ready, << >>, reduced[r], staged[r])
      BY TypesOf DEF RankOk, ReadyOk
    <3> QED BY <1>2, <2>1, <3>1, HeadScatter
  <2>3. f[p] = IF p \in Members[compute[r][1].bucket] THEN staged[r][p] ELSE grads[r][p]
    BY <1>2 DEF Copied
  <2> QED BY <2>2, <2>3 DEF Averaged
<1> HIDE DEF f
<1> QED BY <1>1, <1>2, <1>3, <1>4, <1>5, GradsStep

(* A gather on the compute stream. *)
LEMMA RunGatherKeeps ==
  ASSUME Types, NEW r \in Ranks, RankOk(r), RunGather(r)
  PROVE  Types' /\ RankOk(r)' /\ \A q \in Ranks \ {r} : Same(q)
<1> DEFINE t == Copied(grads[r], staged[r], Head(compute[r]).bucket)
<1>1. /\ compute[r] # << >> /\ ComputeDone(r) /\ Head(compute[r]).op = "gather"
      /\ staged' = [staged EXCEPT ![r] = t] /\ UNCHANGED <<events, grads, sent, reduced, used>>
  BY DEF RunGather, ComputeOp
<1>2. Head(compute[r]) = compute[r][1] /\ compute[r][1].op = "gather"
  BY <1>1, ComputeStep
<1>3. t \in Buffers
  BY TypesOf, CopiedType
<1>4. staged' \in [Ranks -> Buffers] /\ staged'[r] = t /\ \A q \in Ranks \ {r} : staged'[q] = staged[q]
  <2> HIDE DEF t
  <2> QED BY <1>1, <1>3 DEF Types
<1>5. RankOk(r)'
  <2>1. Stages(compute[r], grads[r], staged[r], staged'[r])
    BY <1>2, <1>4 DEF Stages
  <2>2. \A p \in Params : Turns(compute[r][1], p, grads[r][p], grads'[r][p])
    BY <1>1, <1>2 DEF Turns, Adds
  <2>3. Keeps(compute[r], used[r], grads[r], grads'[r])
    BY <1>1, <1>2 DEF Keeps
  <2>4. events'[r].completed.ready = Recorded(compute[r], events[r].completed.ready)
    BY <1>1, <1>2 DEF Recorded
  <2>5. Runs(compute[r], used[r], used'[r]) /\ UsedOk(used'[r], reduced[r])
    BY <1>1, <1>2, UsedStays
  <2> HIDE DEF t
  <2> QED BY <1>1, <1>2, <2>1, <2>2, <2>3, <2>4, <2>5, ComputeStep, ComputePop
<1>6. Types'
  BY <1>1, <1>4, ComputeStep DEF Types
<1>7. \A q \in Ranks \ {r} : Same(q)
  BY <1>1, <1>4, ComputeStep DEF Same
<1> QED BY <1>5, <1>6, <1>7

(* An operation of the compute stream that moves no data. *)
LEMMA EventsStep ==
  ASSUME Types, NEW r \in Ranks, RankOk(r), compute[r] # << >>, ComputeDone(r), UNCHANGED memory,
         compute[r][1].op \in {"ready", "wait"},
         events' \in [Ranks -> [recorded : Records, completed : Records]],
         \A q \in Ranks \ {r} : events'[q] = events[q],
         events'[r].recorded = events[r].recorded, events'[r].completed.done = events[r].completed.done,
         events'[r].completed.ready = Recorded(compute[r], events[r].completed.ready),
         compute[r][1].op = "wait" => events[r].completed.done[compute[r][1].event] >= compute[r][1].n
  PROVE  Types' /\ RankOk(r)' /\ \A q \in Ranks \ {r} : Same(q)
<1>1. UNCHANGED <<grads, staged, sent, reduced, used>>
  BY DEF memory
<1>2. RankOk(r)'
  <2>1. Stages(compute[r], grads[r], staged[r], staged'[r])
    BY <1>1 DEF Stages
  <2>2. \A p \in Params : Turns(compute[r][1], p, grads[r][p], grads'[r][p])
    BY <1>1 DEF Turns, Adds
  <2>3. Keeps(compute[r], used[r], grads[r], grads'[r])
    BY <1>1 DEF Keeps
  <2>4. Runs(compute[r], used[r], used'[r]) /\ UsedOk(used'[r], reduced[r])
    BY <1>1, UsedStays
  <2> QED BY <1>1, <2>1, <2>2, <2>3, <2>4, ComputeStep, ComputePop
<1>3. Types'
  BY <1>1, ComputeStep DEF Types
<1>4. \A q \in Ranks \ {r} : Same(q)
  BY <1>1, ComputeStep DEF Same
<1> QED BY <1>2, <1>3, <1>4

(* The record of grad_ready on the compute stream. *)
LEMMA RunRecordReadyKeeps ==
  ASSUME Types, NEW r \in Ranks, RankOk(r), RunRecordReady(r)
  PROVE  Types' /\ RankOk(r)' /\ \A q \in Ranks \ {r} : Same(q)
<1>1. /\ compute[r] # << >> /\ ComputeDone(r) /\ Head(compute[r]).op = "ready" /\ UNCHANGED memory
      /\ events' = [events EXCEPT ![r].completed.ready = @ + 1]
  BY DEF RunRecordReady, ComputeOp
<1>2. compute[r][1].op = "ready"
  BY <1>1, ComputeStep
<1>3. /\ events \in [Ranks -> [recorded : Records, completed : Records]]
      /\ events[r].completed \in Records /\ events[r].recorded \in Records /\ events[r].completed.ready \in Nat
  BY TypesOf DEF Types
<1>4. /\ events' \in [Ranks -> [recorded : Records, completed : Records]]
      /\ \A q \in Ranks \ {r} : events'[q] = events[q]
      /\ events'[r].recorded = events[r].recorded /\ events'[r].completed.done = events[r].completed.done
      /\ events'[r].completed.ready = events[r].completed.ready + 1
  <2> DEFINE x == events[r].completed
             y == [x EXCEPT !.ready = @ + 1]
             z == [events[r] EXCEPT !.completed = y]
  <2>1. y \in Records /\ y.done = x.done /\ y.ready = x.ready + 1
    BY <1>3 DEF Records
  <2>2. z \in [recorded : Records, completed : Records] /\ z.recorded = events[r].recorded /\ z.completed = y
    <3> HIDE DEF y
    <3> QED BY <1>3, <2>1
  <2>3. events' = [events EXCEPT ![r] = z]
    BY <1>1, <1>3 DEF Records
  <2> HIDE DEF x, y, z
  <2>4. events'[r] = z /\ events' \in [Ranks -> [recorded : Records, completed : Records]]
        /\ \A q \in Ranks \ {r} : events'[q] = events[q]
    BY <1>3, <2>2, <2>3
  <2> QED BY <2>1, <2>2, <2>4 DEF x
<1>5. events'[r].completed.ready = Recorded(compute[r], events[r].completed.ready)
  BY <1>2, <1>4 DEF Recorded
<1> QED BY <1>1, <1>2, <1>4, <1>5, EventsStep

(* The wait for bucket_done_ on the compute stream. *)
LEMMA RunWaitDoneKeeps ==
  ASSUME Types, NEW r \in Ranks, RankOk(r), RunWaitDone(r)
  PROVE  Types' /\ RankOk(r)' /\ \A q \in Ranks \ {r} : Same(q)
<1>1. /\ compute[r] # << >> /\ ComputeDone(r) /\ Head(compute[r]).op = "wait" /\ UNCHANGED memory
      /\ events' = events /\ events[r].completed.done[Head(compute[r]).event] >= Head(compute[r]).n
  BY DEF RunWaitDone, ComputeOp
<1>2. Head(compute[r]) = compute[r][1] /\ compute[r][1].op = "wait"
  BY <1>1, ComputeStep
<1>3. events'[r].completed.ready = Recorded(compute[r], events[r].completed.ready)
  BY <1>1, <1>2 DEF Recorded
<1>4. events' \in [Ranks -> [recorded : Records, completed : Records]]
  BY <1>1 DEF Types
<1> QED BY <1>1, <1>2, <1>3, <1>4, EventsStep

(* AdamW on the compute stream. *)
LEMMA RunAdamWKeeps ==
  ASSUME Types, NEW r \in Ranks, RankOk(r), RunAdamW(r)
  PROVE  Types' /\ RankOk(r)' /\ \A q \in Ranks \ {r} : Same(q)
<1> DEFINE v == Append(used[r], grads[r])
<1>1. /\ compute[r] # << >> /\ ComputeDone(r) /\ Head(compute[r]).op = "adamw"
      /\ used' = [used EXCEPT ![r] = v] /\ UNCHANGED <<events, grads, staged, sent, reduced>>
  BY DEF RunAdamW, ComputeOp
<1>2. compute[r][1].op = "adamw"
  BY <1>1, ComputeStep
<1>3. v \in Seq(Buffers) /\ v # << >> /\ (used[r] # << >> => v[1] = used[r][1]) /\ (used[r] = << >> => v[1] = grads[r])
  <2>1. used[r] \in Seq(Buffers) /\ grads[r] \in Buffers
    BY TypesOf
  <2>2. Len(used[r]) \in Nat /\ (Len(used[r]) = 0 <=> used[r] = << >>)
    BY <2>1, EmptySeq, LenProperties
  <2>3. used[r] # << >> => 1 \in 1 .. Len(used[r])
    BY <2>2
  <2>4. /\ v \in Seq(Buffers) /\ v # << >>
        /\ \A i \in 1 .. Len(used[r]) : v[i] = used[r][i]
        /\ v[Len(used[r]) + 1] = grads[r]
    BY <2>1, AppendFacts
  <2>5. used[r] = << >> => Len(used[r]) + 1 = 1
    BY <2>2
  <2> HIDE DEF v
  <2> QED BY <2>3, <2>4, <2>5
<1>4. used' \in [Ranks -> Seq(Buffers)] /\ used'[r] = v /\ \A q \in Ranks \ {r} : used'[q] = used[q]
  <2> HIDE DEF v
  <2> QED BY <1>1, <1>3 DEF Types
<1> HIDE DEF v
<1>5. UsedOk(v, reduced[r])
  <2>1. CASE used[r] # << >>
    <3>1. UsedOk(used[r], reduced[r])
      BY DEF RankOk
    <3> QED BY <1>3, <2>1, <3>1 DEF UsedOk
  <2>2. CASE used[r] = << >>
    <3>1. Popped(compute[r], Tail(compute[r]))
      BY <1>1, TypesOf, TailPops
    <3>2. /\ \A e \in BucketIds : events[r].completed.done[e] > 0 => e <= reduced[r]
          /\ reduced[r] \in Nat
          /\ SyncOk(host[r], compute[r], << >>, events[r].completed.done)
          /\ ScatterOk(host[r], compute[r], grads[r], << >>)
      BY <2>2, TypesOf DEF RankOk, ReadyOk
    <3>3. NB <= reduced[r] /\ Averaged(grads[r])
      BY <1>2, <3>1, <3>2, UsedPop
    <3> QED BY <1>3, <2>2, <3>3 DEF UsedOk, Averaged
  <2> QED BY <2>1, <2>2
<1>6. RankOk(r)'
  <2>1. Stages(compute[r], grads[r], staged[r], staged'[r])
    BY <1>1, <1>2 DEF Stages
  <2>2. \A p \in Params : Turns(compute[r][1], p, grads[r][p], grads'[r][p])
    BY <1>1, <1>2 DEF Turns, Adds
  <2>3. Keeps(compute[r], used[r], grads[r], grads'[r])
    BY <1>1, <1>2 DEF Keeps
  <2>4. events'[r].completed.ready = Recorded(compute[r], events[r].completed.ready)
    BY <1>1, <1>2 DEF Recorded
  <2>5. Runs(compute[r], used[r], used'[r])
    BY <1>2, <1>3, <1>4 DEF Runs
  <2>6. UsedOk(used'[r], reduced[r])
    BY <1>4, <1>5
  <2> QED BY <1>1, <1>2, <2>1, <2>2, <2>3, <2>4, <2>5, <2>6, ComputeStep, ComputePop
<1>7. Types'
  BY <1>1, <1>4, ComputeStep DEF Types
<1>8. \A q \in Ranks \ {r} : Same(q)
  BY <1>1, <1>4, ComputeStep DEF Same
<1> QED BY <1>6, <1>7, <1>8
-----------------------------------------------------------------------------
(* The steps of the comm stream.                                           *)

(* The all-reduces completed, once the head of c has run. *)
Reduced(c, rd) == IF c[1].op = "reduce" THEN rd + 1 ELSE rd

(* CommOk when the head of the comm stream has run. *)
LEMMA CommPop ==
  ASSUME NEW c \in Seq(CommOps), NEW d \in Seq(CommOps), Popped(c, d), NEW rd \in Nat, NEW fires \in Nat,
         CommOk(c, rd, fires)
  PROVE  /\ CommOk(d, Reduced(c, rd), fires)
         /\ d # << >> /\ d[1].op = "reduce" => c[1].op = "wait" /\ c[1].ready = rd + 1
<1> DEFINE e == Reduced(c, rd)
<1>1. /\ 1 \in DOMAIN c /\ c # << >> /\ Len(c) \in DOMAIN c
      /\ \A k \in DOMAIN c : k \in Nat /\ c[k] \in CommOps
  <2>1. 1 \in DOMAIN c /\ Len(c) \in DOMAIN c
    BY DEF Popped
  <2>2. DOMAIN << >> = {}
    OBVIOUS
  <2>3. \A k \in DOMAIN c : k \in Nat /\ c[k] \in CommOps
    BY ElementOfSeq, LenProperties
  <2> QED BY <2>1, <2>2, <2>3
<1>2. /\ Num(c, rd, Len(c)) = fires /\ c[Len(c)].op # "wait"
      /\ Num(c, rd, 1) = IF c[1].op = "done" THEN rd ELSE rd + 1
      /\ \A k \in DOMAIN c : CommAt(c, rd, k)
  BY <1>1 DEF CommOk
<1>3. \A k \in DOMAIN c : c[k].op \in {"wait", "reduce", "done"}
  BY <1>1, OpTypes
<1>4. ASSUME NEW k \in DOMAIN d
      PROVE  /\ k \in Nat \ {0} /\ k + 1 \in DOMAIN c /\ d[k] = c[k + 1]
             /\ k > 1 => k - 1 \in DOMAIN d /\ d[k - 1] = c[k] /\ (k - 1) + 1 = k
  BY DEF Popped
<1>5. ASSUME NEW k \in DOMAIN d PROVE Num(d, e, k) = Num(c, rd, k + 1)
  <2>1. k + 1 # 1 /\ (k + 1) - 1 = k
    BY <1>4
  <2>2. CASE d[k].op # "reduce"
    BY <1>3, <1>4, <2>2 DEF Num
  <2>3. CASE d[k].op = "reduce" /\ k # 1
    <3>1. k > 1
      BY <1>4, <2>3
    <3>2. d[k - 1] = c[k]
      BY <1>4, <3>1
    <3> QED BY <1>4, <2>1, <2>3, <3>2 DEF Num
  <2>4. CASE d[k].op = "reduce" /\ k = 1
    <3>1. c[1 + 1].op = "reduce" /\ 1 + 1 > 1 /\ (1 + 1) - 1 = 1 /\ 1 + 1 \in DOMAIN c
      BY <1>4, <2>4
    <3>2. c[1].op = "wait"
      BY <1>2, <3>1 DEF CommAt
    <3>3. c[1].ready = rd + 1
      BY <1>2, <3>2 DEF Num
    <3>4. Num(d, e, k) = rd + 1
      BY <2>4, <3>2 DEF Num, Reduced
    <3>5. Num(c, rd, k + 1) = c[1].ready
      <4>1. c[1 + 1].op # "wait" /\ c[1 + 1].op # "done" /\ 1 + 1 # 1
        BY <3>1
      <4> QED BY <2>4, <3>1, <4>1 DEF Num
    <3> QED BY <3>3, <3>4, <3>5
  <2> QED BY <2>2, <2>3, <2>4
<1>6. d # << >> => 1 \in DOMAIN d /\ Len(d) \in DOMAIN d /\ Len(c) = Len(d) + 1 /\ d[1] = c[2] /\ 2 \in DOMAIN c
  <2> SUFFICES ASSUME d # << >> PROVE 1 \in DOMAIN d /\ Len(d) \in DOMAIN d /\ Len(c) = Len(d) + 1 /\ d[1] = c[2] /\ 2 \in DOMAIN c
    OBVIOUS
  <2>1. Len(d) \in Nat \ {0}
    BY EmptySeq, LenProperties
  <2>2. 1 \in DOMAIN d /\ Len(d) \in DOMAIN d /\ Len(c) = Len(d) + 1
    BY <2>1 DEF Popped
  <2>3. 1 + 1 \in DOMAIN c /\ d[1] = c[1 + 1]
    BY <1>4, <2>2
  <2> QED BY <2>2, <2>3
<1>7. d # << >> /\ d[1].op = "reduce" => c[1].op = "wait" /\ c[1].ready = rd + 1
  <2> SUFFICES ASSUME d # << >>, d[1].op = "reduce" PROVE c[1].op = "wait" /\ c[1].ready = rd + 1
    OBVIOUS
  <2>1. CommAt(c, rd, 2) /\ c[2].op = "reduce"
    BY <1>2, <1>6
  <2>2. 2 > 1 /\ 2 - 1 = 1
    OBVIOUS
  <2>3. c[1].op = "wait"
    BY <2>1, <2>2 DEF CommAt
  <2> QED BY <1>2, <2>3 DEF Num
<1>8. d = << >> => e = fires
  <2> SUFFICES ASSUME d = << >> PROVE e = fires
    OBVIOUS
  <2>1. Len(c) = 1
    <3>1. Len(d) = 0
      OBVIOUS
    <3> QED BY <3>1 DEF Popped
  <2>2. Num(c, rd, 1) = fires /\ c[1].op # "wait"
    BY <1>2, <2>1
  <2> QED BY <1>1, <1>2, <1>3, <2>2 DEF Reduced
<1>9. (c[1].op = "reduce" => e = rd + 1) /\ (c[1].op # "reduce" => e = rd)
  BY DEF Reduced
<1>10. d # << >> => /\ Num(d, e, Len(d)) = fires /\ d[Len(d)].op # "wait"
                   /\ Num(d, e, 1) = IF d[1].op = "done" THEN e ELSE e + 1
  <2> SUFFICES ASSUME d # << >>
               PROVE  /\ Num(d, e, Len(d)) = fires /\ d[Len(d)].op # "wait"
                      /\ Num(d, e, 1) = IF d[1].op = "done" THEN e ELSE e + 1
    OBVIOUS
  <2>1. Num(d, e, Len(d)) = fires /\ d[Len(d)].op # "wait"
    BY <1>2, <1>4, <1>5, <1>6
  <2>2. CommAt(c, rd, 2) /\ 2 > 1 /\ 2 - 1 = 1 /\ d[1] = c[2]
    BY <1>2, <1>6
  <2> HIDE DEF e
  <2>3. CASE d[1].op = "done"
    <3>1. c[1].op = "reduce" /\ Num(c, rd, 1) = d[1].event
      BY <2>2, <2>3 DEF CommAt
    <3>2. Num(c, rd, 1) = rd + 1 /\ e = rd + 1
      BY <1>2, <1>9, <3>1
    <3>3. Num(d, e, 1) = d[1].event
      BY <2>3 DEF Num
    <3> QED BY <2>1, <2>3, <3>1, <3>2, <3>3
  <2>4. CASE d[1].op = "wait"
    <3>1. c[1].op # "wait" /\ d[1].ready = Num(c, rd, 1) + 1
      BY <2>2, <2>4 DEF CommAt
    <3>2. Num(c, rd, 1) = e
      BY <1>1, <1>2, <1>3, <1>9, <3>1
    <3>3. Num(d, e, 1) = d[1].ready
      BY <2>4 DEF Num
    <3> QED BY <2>1, <2>4, <3>1, <3>2, <3>3
  <2>5. CASE d[1].op = "reduce"
    <3>1. Num(d, e, 1) = e + 1
      BY <2>5 DEF Num
    <3> QED BY <2>1, <2>5, <3>1
  <2> QED BY <1>3, <1>6, <2>1, <2>3, <2>4, <2>5
<1>11. ASSUME NEW k \in DOMAIN d PROVE CommAt(d, e, k)
  <2>1. CommAt(c, rd, k + 1) /\ (k + 1) - 1 = k /\ (k + 1 > 1) /\ k \in Nat
    BY <1>2, <1>4
  <2>2. (k + 1) + 1 \in DOMAIN c => k + 1 \in DOMAIN d /\ d[k + 1] = c[(k + 1) + 1]
    <3> SUFFICES ASSUME (k + 1) + 1 \in DOMAIN c PROVE k + 1 \in DOMAIN d /\ d[k + 1] = c[(k + 1) + 1]
      OBVIOUS
    <3>1. k + 1 \in DOMAIN d
      BY <2>1 DEF Popped
    <3> QED BY <1>4, <3>1
  <2>3. k > 1 => d[k - 1] = c[k] /\ Num(d, e, k - 1) = Num(c, rd, k)
    <3> SUFFICES ASSUME k > 1 PROVE d[k - 1] = c[k] /\ Num(d, e, k - 1) = Num(c, rd, k)
      OBVIOUS
    <3>1. k - 1 \in DOMAIN d /\ d[k - 1] = c[k] /\ (k - 1) + 1 = k
      BY <1>4
    <3>2. Num(d, e, k - 1) = Num(c, rd, (k - 1) + 1)
      BY <1>5, <3>1
    <3> QED BY <3>1, <3>2
  <2>4. d[k] = c[k + 1] /\ Num(d, e, k) = Num(c, rd, k + 1)
    BY <1>4, <1>5
  <2> HIDE DEF e
  <2>5. d[k].op = "wait" =>
          /\ k + 1 \in DOMAIN d /\ d[k + 1].op = "reduce"
          /\ k > 1 => d[k - 1].op # "wait" /\ d[k].ready = Num(d, e, k - 1) + 1
    BY <2>1, <2>2, <2>3, <2>4 DEF CommAt
  <2>6. d[k].op = "reduce" =>
          /\ k > 1 => d[k - 1].op = "wait"
          /\ Num(d, e, k) <= NB =>
               Turn(d[k].bucket) = Num(d, e, k) /\ k + 1 \in DOMAIN d /\ d[k + 1].op = "done"
    BY <2>1, <2>2, <2>3, <2>4 DEF CommAt
  <2>7. d[k].op = "done" /\ k > 1 => d[k - 1].op = "reduce" /\ Num(d, e, k - 1) = d[k].event
    BY <2>1, <2>2, <2>3, <2>4 DEF CommAt
  <2> QED BY <2>5, <2>6, <2>7 DEF CommAt
<1> QED BY <1>7, <1>8, <1>10, <1>11 DEF CommOk
(* SyncOk when more is recorded. *)
LEMMA SyncMono ==
  ASSUME NEW h, NEW q, NEW u, NEW done, NEW more, \A e \in BucketIds : done[e] > 0 => more[e] > 0, SyncOk(h, q, u, done)
  PROVE  SyncOk(h, q, u, more)
<1>1. ASSUME NEW k, Synced(q, done, k) PROVE Synced(q, more, k)
  BY <1>1 DEF Synced
<1> QED BY <1>1 DEF SyncOk

(* SentOk when the head of the comm stream has run. *)
LEMMA SentPop ==
  ASSUME NEW r, NEW c, NEW d, NEW s, NEW rd \in Nat, Len(s) \in Nat, SentOk(r, c, s, rd),
         c[1].op = "reduce" => Len(s) >= rd + 1
  PROVE  SentOk(r, d, s, Reduced(c, rd))
<1>1. CASE c[1].op = "reduce"
  <2>1. Len(s) = rd + 1 /\ Reduced(c, rd) = rd + 1
    BY <1>1 DEF SentOk, Reduced
  <2> QED BY <2>1 DEF SentOk
<1>2. CASE c[1].op # "reduce"
  <2>1. Len(s) = rd /\ Reduced(c, rd) = rd
    BY <1>2 DEF SentOk, Reduced
  <2> QED BY <2>1 DEF SentOk
<1> QED BY <1>1, <1>2

(* What holds of the head of the comm stream and of what it changes. *)
LEMMA CommPopKeeps ==
  ASSUME Types, NEW r \in Ranks, RankOk(r), comm[r] # << >>,
         host'[r] = host[r], mgr'[r] = mgr[r], compute'[r] = compute[r], comm'[r] = Tail(comm[r]),
         grads'[r] = grads[r], sent'[r] = sent[r], used'[r] = used[r],
         reduced'[r] = Reduced(comm[r], reduced[r]),
         events'[r].recorded = events[r].recorded, events'[r].completed.ready = events[r].completed.ready,
         \A e \in BucketIds : events[r].completed.done[e] > 0 => events'[r].completed.done[e] > 0,
         \A e \in BucketIds : events'[r].completed.done[e] > 0 => e <= reduced[r],
         comm[r][1].op = "wait" => events[r].completed.ready >= comm[r][1].ready,
         comm[r][1].op = "reduce" => Len(sent[r]) >= reduced[r] + 1,
         StagedOk(r, compute[r], events[r].completed.ready, used[r], reduced'[r], staged'[r])
  PROVE  RankOk(r)'
<1> DEFINE c == comm[r]
           d == Tail(c)
           rd == reduced[r]
           n == events[r].completed.ready
           fires == mgr[r].fires
<1>1. c \in Seq(CommOps) /\ d \in Seq(CommOps) /\ Popped(c, d) /\ c[1] \in CommOps
  BY TypesOf, TailPops
<1>2. rd \in Nat /\ n \in Nat /\ fires \in Nat /\ sent[r] \in Seq(Buffers) /\ Len(sent[r]) \in Nat
  BY TypesOf, LenProperties
<1>3. CommOk(c, rd, fires) /\ SentOk(r, c, sent[r], rd) /\ UsedOk(used[r], rd)
      /\ ReadyOk(c, rd, events[r].completed)
  BY DEF RankOk
<1>4. /\ HostOk(host'[r])
      /\ MgrOk(host'[r], mgr'[r])
      /\ CountOk(host'[r], mgr'[r], events'[r].recorded)
      /\ EndOk(r, host'[r], compute'[r], grads'[r])
      /\ GatherOk(r, compute'[r], grads'[r], used'[r])
      /\ RegionOk(host'[r], compute'[r], used'[r])
      /\ QueueOk(compute'[r])
      /\ TurnOk(compute'[r], used'[r], events'[r].completed.ready, mgr'[r].fires)
      /\ ScatterOk(host'[r], compute'[r], grads'[r], used'[r])
  BY DEF RankOk
<1>5. SyncOk(host'[r], compute'[r], used'[r], events'[r].completed.done)
  BY SyncMono DEF RankOk
<1>6. StagedOk(r, compute'[r], events'[r].completed.ready, used'[r], reduced'[r], staged'[r])
  OBVIOUS
<1> HIDE DEF c, d, rd, n, fires
<1>7. CommOk(d, Reduced(c, rd), fires) /\ (d # << >> /\ d[1].op = "reduce" => c[1].op = "wait" /\ c[1].ready = rd + 1)
  BY <1>1, <1>2, <1>3, CommPop
<1>8. comm'[r] = d /\ reduced'[r] = Reduced(c, rd)
  BY DEF c, d, rd
<1>9. CommOk(comm'[r], reduced'[r], mgr'[r].fires)
  BY <1>7, <1>8 DEF fires
<1>10. SentOk(r, comm'[r], sent'[r], reduced'[r])
  BY <1>2, <1>3, <1>8, SentPop DEF c, rd
<1>11. Reduced(c, rd) \in Nat /\ rd <= Reduced(c, rd)
  BY <1>2 DEF Reduced
<1>12. UsedOk(used'[r], reduced'[r])
  <2> SUFFICES ASSUME used[r] # << >> PROVE NB <= Reduced(c, rd) /\ \A p \in Params : used[r][1][p] = Mean(1)
    BY <1>8 DEF UsedOk
  <2>1. NB <= rd /\ NB \in Nat /\ \A p \in Params : used[r][1][p] = Mean(1)
    BY <1>3, BucketFacts DEF UsedOk
  <2>2. NB <= Reduced(c, rd)
    BY <1>2, <1>11, <2>1
  <2> QED BY <2>1, <2>2
<1>13. ReadyOk(comm'[r], reduced'[r], events'[r].completed)
  <2>1. rd <= n /\ (c # << >> /\ c[1].op = "reduce" => rd < n)
    BY <1>3 DEF ReadyOk, n
  <2>2. Reduced(c, rd) <= n
    BY <1>2, <2>1 DEF Reduced, c
  <2>3. d # << >> /\ d[1].op = "reduce" => Reduced(c, rd) < n
    <3> SUFFICES ASSUME d # << >>, d[1].op = "reduce" PROVE Reduced(c, rd) < n
      OBVIOUS
    <3>1. c[1].op = "wait" /\ n >= rd + 1 /\ Reduced(c, rd) = rd
      BY <1>7 DEF c, n, Reduced
    <3> QED BY <1>2, <3>1
  <2>4. ASSUME NEW e \in BucketIds, events'[r].completed.done[e] > 0 PROVE e <= Reduced(c, rd)
    <3>1. e <= rd /\ e \in Nat
      BY <2>4, BucketFacts DEF rd
    <3> QED BY <1>2, <1>11, <3>1
  <2>5. events'[r].completed.ready = n
    BY DEF n
  <2> QED BY <1>8, <2>2, <2>3, <2>4, <2>5 DEF ReadyOk
<1> QED BY <1>4, <1>5, <1>6, <1>9, <1>10, <1>12, <1>13 DEF RankOk

(* What CommDone leaves of the streams. *)
LEMMA CommStep ==
  ASSUME Types, NEW r \in Ranks, comm[r] # << >>, CommDone(r)
  PROVE  /\ comm'[r] = Tail(comm[r]) /\ host' = host /\ mgr' = mgr /\ compute' = compute
         /\ comm' \in [Ranks -> Seq(CommOps)]
         /\ \A q \in Ranks \ {r} : comm'[q] = comm[q]
<1>1. comm \in [Ranks -> Seq(CommOps)] /\ comm' = [comm EXCEPT ![r] = Tail(comm[r])]
      /\ host' = host /\ mgr' = mgr /\ compute' = compute
  BY DEF CommDone, Types
<1>2. Tail(comm[r]) \in Seq(CommOps)
  BY <1>1, TailPops
<1> QED BY <1>1, <1>2

(* The head of the comm stream is its first operation. *)
LEMMA HeadOfComm ==
  ASSUME Types, NEW r \in Ranks, comm[r] # << >>
  PROVE  Head(comm[r]) = comm[r][1] /\ comm[r][1] \in CommOps
BY TypesOf, TailPops

(* The wait for grad_ready on the comm stream. *)
LEMMA RunWaitReadyKeeps ==
  ASSUME Types, NEW r \in Ranks, RankOk(r), RunWaitReady(r)
  PROVE  Types' /\ RankOk(r)' /\ \A q \in Ranks \ {r} : Same(q)
<1>1. /\ comm[r] # << >> /\ CommDone(r) /\ Head(comm[r]).op = "wait"
      /\ events[r].completed.ready >= Head(comm[r]).ready
      /\ UNCHANGED <<events, grads, staged, sent, reduced, used>>
  BY DEF RunWaitReady, CommOp, memory
<1>2. Head(comm[r]) = comm[r][1] /\ comm[r][1].op = "wait"
  BY <1>1, HeadOfComm
<1>3. reduced'[r] = Reduced(comm[r], reduced[r])
  BY <1>1, <1>2 DEF Reduced
<1>4. StagedOk(r, compute[r], events[r].completed.ready, used[r], reduced'[r], staged'[r])
  BY <1>1 DEF RankOk
<1>5. \A e \in BucketIds : events'[r].completed.done[e] > 0 => e <= reduced[r]
  BY <1>1 DEF RankOk, ReadyOk
<1>6. RankOk(r)'
  BY <1>1, <1>2, <1>3, <1>4, <1>5, CommStep, CommPopKeeps
<1>7. Types'
  BY <1>1, CommStep DEF Types
<1>8. \A q \in Ranks \ {r} : Same(q)
  BY <1>1, CommStep DEF Same
<1> QED BY <1>6, <1>7, <1>8

(* The record of bucket_done_ on the comm stream. *)
LEMMA RunRecordDoneKeeps ==
  ASSUME Types, NEW r \in Ranks, RankOk(r), RunRecordDone(r)
  PROVE  Types' /\ RankOk(r)' /\ \A q \in Ranks \ {r} : Same(q)
<1> DEFINE e == comm[r][1].event
           x == events[r].completed
           y == [x EXCEPT !.done[e] = @ + 1]
           z == [events[r] EXCEPT !.completed = y]
<1>1. /\ comm[r] # << >> /\ CommDone(r) /\ Head(comm[r]).op = "done"
      /\ events' = [events EXCEPT ![r].completed.done[Head(comm[r]).event] = @ + 1]
      /\ UNCHANGED <<grads, staged, sent, reduced, used>>
  BY DEF RunRecordDone, CommOp, memory
<1>2. Head(comm[r]) = comm[r][1] /\ comm[r][1] \in CommOps /\ comm[r][1].op = "done"
  BY <1>1, HeadOfComm
<1>3. e \in BucketIds
  BY <1>2, OpTypes
<1>4. x \in Records /\ events[r].recorded \in Records /\ events[r] \in [recorded : Records, completed : Records]
      /\ events \in [Ranks -> [recorded : Records, completed : Records]]
      /\ x.done \in [BucketIds -> Nat]
  BY TypesOf DEF Types
<1>5. events' = [events EXCEPT ![r] = z]
  BY <1>1, <1>2, <1>4 DEF Records
<1>6. y \in Records /\ y.ready = x.ready /\ y.done = [x.done EXCEPT ![e] = @ + 1]
  <2> HIDE DEF e
  <2> QED BY <1>3, <1>4 DEF Records
<1>7. z \in [recorded : Records, completed : Records] /\ z.recorded = events[r].recorded /\ z.completed = y
  <2> HIDE DEF y
  <2> QED BY <1>4, <1>6
<1>8. events'[r] = z /\ events' \in [Ranks -> [recorded : Records, completed : Records]]
      /\ \A q \in Ranks \ {r} : events'[q] = events[q]
  <2> HIDE DEF z
  <2> QED BY <1>4, <1>5, <1>7
<1>9. e <= reduced[r]
  <2>1. CommOk(comm[r], reduced[r], mgr[r].fires)
    BY DEF RankOk
  <2>2. Num(comm[r], reduced[r], 1) = reduced[r]
    BY <1>1, <1>2, <2>1 DEF CommOk
  <2>3. Num(comm[r], reduced[r], 1) = e
    BY <1>2 DEF Num
  <2> QED BY <2>2, <2>3, TypesOf
<1> HIDE DEF e, x, y, z
<1>10. /\ events'[r].recorded = events[r].recorded /\ events'[r].completed.ready = x.ready
       /\ \A i \in BucketIds : events'[r].completed.done[i] = IF i = e THEN x.done[i] + 1 ELSE x.done[i]
  <2>1. events'[r].recorded = events[r].recorded /\ events'[r].completed.ready = x.ready
        /\ events'[r].completed.done = [x.done EXCEPT ![e] = @ + 1]
    BY <1>6, <1>7, <1>8
  <2> QED BY <1>4, <2>1
<1>11. \A i \in BucketIds : x.done[i] \in Nat
  BY <1>4
<1>12. \A i \in BucketIds : x.done[i] > 0 => events'[r].completed.done[i] > 0
  BY <1>10, <1>11
<1>13. \A i \in BucketIds : events'[r].completed.done[i] > 0 => i <= reduced[r]
  <2>1. \A i \in BucketIds : x.done[i] > 0 => i <= reduced[r]
    BY DEF RankOk, ReadyOk, x
  <2> QED BY <1>9, <1>10, <2>1
<1>14. reduced'[r] = Reduced(comm[r], reduced[r])
  BY <1>1, <1>2 DEF Reduced
<1>15. StagedOk(r, compute[r], events[r].completed.ready, used[r], reduced'[r], staged'[r])
  BY <1>1 DEF RankOk
<1>16. RankOk(r)'
  <2>1. events'[r].completed.ready = events[r].completed.ready
        /\ \A i \in BucketIds : events[r].completed.done[i] > 0 => events'[r].completed.done[i] > 0
    BY <1>10, <1>12 DEF x
  <2>2. /\ host'[r] = host[r] /\ mgr'[r] = mgr[r] /\ compute'[r] = compute[r] /\ comm'[r] = Tail(comm[r])
        /\ grads'[r] = grads[r] /\ sent'[r] = sent[r] /\ used'[r] = used[r]
        /\ events'[r].recorded = events[r].recorded
    BY <1>1, <1>10, CommStep
  <2>3. comm[r] # << >> /\ comm[r][1].op # "wait" /\ comm[r][1].op # "reduce"
    BY <1>1, <1>2
  <2> QED BY <1>13, <1>14, <1>15, <2>1, <2>2, <2>3, CommPopKeeps
<1>17. Types'
  BY <1>1, <1>8, CommStep DEF Types
<1>18. \A q \in Ranks \ {r} : Same(q)
  BY <1>1, <1>8, CommStep DEF Same
<1> QED BY <1>16, <1>17, <1>18

(* What is staged for the all-reduce at the head of the comm stream. *)
LEMMA StagedAtHead ==
  ASSUME Types, NEW r \in Ranks, RankOk(r), comm[r] # << >>, comm[r][1].op = "reduce", used[r] = << >>
  PROVE  /\ reduced[r] + 1 <= NB
         /\ Turn(comm[r][1].bucket) = reduced[r] + 1 /\ comm[r][1].bucket \in BucketIds
         /\ reduced[r] + 1 <= Gathered(compute[r], events[r].completed.ready)
<1> DEFINE c == comm[r]
           rd == reduced[r]
           n == events[r].completed.ready
           G == Gathered(compute[r], n)
<1>1. c[1] \in CommOps /\ 1 \in DOMAIN c
  <2>1. c \in Seq(CommOps) /\ Popped(c, Tail(c)) /\ c[1] \in CommOps
    BY TypesOf, TailPops
  <2> HIDE DEF c
  <2> QED BY <2>1 DEF Popped
<1>2. rd \in Nat /\ n \in Nat /\ NB \in Nat
  BY TypesOf, BucketFacts
<1>3. rd < n
  BY DEF RankOk, ReadyOk
<1>4. G \in Nat /\ n <= G
  <2> HIDE DEF n
  <2> QED BY <1>2 DEF Gathered
<1>5. G <= NB
  BY DEF RankOk, TurnOk
<1>6. Num(c, rd, 1) = rd + 1
  BY DEF Num
<1>7. CommAt(c, rd, 1)
  BY <1>1 DEF RankOk, CommOk
<1> HIDE DEF G, n
<1>8. rd + 1 <= NB /\ rd + 1 <= G
  <2> HIDE DEF rd
  <2> QED BY <1>2, <1>3, <1>4, <1>5
<1>9. Turn(c[1].bucket) = rd + 1
  BY <1>6, <1>7, <1>8 DEF CommAt
<1>10. c[1].bucket \in BucketIds
  BY <1>1, OpTypes
<1> QED BY <1>8, <1>9, <1>10 DEF G, n

(* A rank enters an all-reduce with a gathered bucket. *)
LEMMA JoinAllReduceKeeps ==
  ASSUME Types, NEW r \in Ranks, RankOk(r), JoinAllReduce(r)
  PROVE  Types' /\ RankOk(r)' /\ \A q \in Ranks \ {r} : Same(q)
<1> DEFINE s == Append(sent[r], staged[r])
           rd == reduced[r]
<1>1. /\ comm[r] # << >> /\ Head(comm[r]).op = "reduce" /\ Len(sent[r]) = rd
      /\ sent' = [sent EXCEPT ![r] = s]
      /\ UNCHANGED <<host, mgr, compute, comm, events, grads, staged, reduced, used>>
  BY DEF JoinAllReduce, CommOp, streams
<1>2. comm[r][1].op = "reduce"
  BY <1>1, HeadOfComm
<1>3. sent[r] \in Seq(Buffers) /\ staged[r] \in Buffers /\ rd \in Nat
  BY TypesOf
<1>4. /\ s \in Seq(Buffers) /\ Len(s) = rd + 1 /\ DOMAIN sent[r] = 1 .. rd /\ DOMAIN s = 1 .. rd + 1
      /\ \A i \in 1 .. rd : s[i] = sent[r][i]
      /\ s[rd + 1] = staged[r]
  <2>1. /\ s \in Seq(Buffers) /\ DOMAIN s = 1 .. Len(sent[r]) + 1 /\ DOMAIN sent[r] = 1 .. Len(sent[r])
        /\ \A i \in 1 .. Len(sent[r]) : s[i] = sent[r][i]
        /\ s[Len(sent[r]) + 1] = staged[r]
    BY <1>3, AppendFacts
  <2>2. Len(s) = Len(sent[r]) + 1
    BY <1>3
  <2> HIDE DEF s, rd
  <2> QED BY <1>1, <2>1, <2>2
<1> HIDE DEF s
<1>5. sent' \in [Ranks -> Seq(Buffers)] /\ sent'[r] = s /\ \A q \in Ranks \ {r} : sent'[q] = sent[q]
  BY <1>1, <1>4 DEF Types
<1>6. SentOk(r, comm[r], s, rd)
  <2> HIDE DEF rd
  <2>1. SentOk(r, comm[r], sent[r], rd)
    BY DEF RankOk, rd
  <2>2. ASSUME NEW n \in DOMAIN s, n <= NB, NEW b \in BucketIds, Turn(b) = n, NEW p \in Members[b]
        PROVE  s[n][p] = Local(r, 1)
    <3>1. CASE n \in 1 .. rd
      <4>1. s[n] = sent[r][n] /\ n \in DOMAIN sent[r]
        BY <1>4, <3>1
      <4> QED BY <2>1, <2>2, <4>1 DEF SentOk
    <3>2. CASE n = rd + 1
      <4>1. used[r] = << >>
        <5> SUFFICES ASSUME used[r] # << >> PROVE FALSE
          OBVIOUS
        <5>1. NB <= rd
          BY DEF RankOk, UsedOk, rd
        <5> QED BY <1>3, <2>2, <3>2, <5>1, BucketFacts
      <4>2. rd + 1 <= Gathered(compute[r], events[r].completed.ready)
        BY <1>1, <1>2, <4>1, StagedAtHead DEF rd
      <4>3. StagedOk(r, compute[r], events[r].completed.ready, << >>, rd, staged[r])
        BY <4>1 DEF RankOk, rd
      <4>4. rd < Turn(b) /\ Turn(b) <= Gathered(compute[r], events[r].completed.ready)
        BY <1>3, <2>2, <3>2, <4>2
      <4>5. staged[r][p] = Local(r, 1)
        BY <4>3, <4>4 DEF StagedOk
      <4> QED BY <1>4, <3>2, <4>5
    <3>3. n \in 1 .. rd \/ n = rd + 1
      BY <1>3, <1>4
    <3> QED BY <3>1, <3>2, <3>3
  <2> QED BY <1>1, <1>2, <1>4, <2>2 DEF SentOk
<1>7. RankOk(r)'
  <2>1. SentOk(r, comm'[r], sent'[r], reduced'[r])
    BY <1>1, <1>5, <1>6
  <2> HIDE DEF rd
  <2> QED BY <1>1, <2>1 DEF RankOk
<1>8. Types'
  BY <1>1, <1>5 DEF Types
<1>9. \A q \in Ranks \ {r} : Same(q)
  BY <1>1, <1>5 DEF Same
<1> QED BY <1>7, <1>8, <1>9

(* A rank leaves an all-reduce with the average of the same bucket of      *)
(* every rank.                                                             *)
LEMMA FinishAllReduceKeeps ==
  ASSUME Types, NEW r \in Ranks, \A q \in Ranks : RankOk(q), FinishAllReduce(r)
  PROVE  Types' /\ RankOk(r)' /\ \A q \in Ranks \ {r} : Same(q)
<1> DEFINE n == reduced[r] + 1
           b == comm[r][1].bucket
           t == [p \in Params |-> IF p \in Members[b] THEN UNION {sent[q][n][p] : q \in Ranks} ELSE staged[r][p]]
<1>1. /\ comm[r] # << >> /\ Head(comm[r]).op = "reduce" /\ CommDone(r)
      /\ \A q \in Ranks : Len(sent[q]) >= n
      /\ staged' = [staged EXCEPT ![r] = [p \in Params |->
           IF p \in Members[Head(comm[r]).bucket] THEN UNION {sent[q][n][p] : q \in Ranks} ELSE staged[r][p]]]
      /\ reduced' = [reduced EXCEPT ![r] = n] /\ UNCHANGED <<events, grads, sent, used>>
  BY DEF FinishAllReduce, CommOp
<1>2. Head(comm[r]) = comm[r][1] /\ comm[r][1].op = "reduce" /\ staged' = [staged EXCEPT ![r] = t]
  BY <1>1, HeadOfComm
<1>3. reduced[r] \in Nat /\ n \in Nat /\ n >= 1
  BY TypesOf
<1> HIDE DEF b
<1>4. \A q \in Ranks : n \in DOMAIN sent[q] /\ sent[q][n] \in Buffers
  <2> HIDE DEF n
  <2> SUFFICES ASSUME NEW q \in Ranks PROVE n \in DOMAIN sent[q] /\ sent[q][n] \in Buffers
    OBVIOUS
  <2>1. sent[q] \in Seq(Buffers) /\ Len(sent[q]) >= n
    BY <1>1, TypesOf
  <2>2. n \in 1 .. Len(sent[q]) /\ DOMAIN sent[q] = 1 .. Len(sent[q])
    BY <1>3, <2>1, LenProperties
  <2> QED BY <2>1, <2>2, ElementOfSeq
<1>5. t \in Buffers
  <2> HIDE DEF n
  <2>1. \A p \in Params, q \in Ranks : sent[q][n][p] \in SUBSET Batches
    BY <1>4 DEF Buffers
  <2>2. \A p \in Params : UNION {sent[q][n][p] : q \in Ranks} \in SUBSET Batches
    BY <2>1
  <2>3. staged[r] \in [Params -> SUBSET Batches]
    BY TypesOf DEF Buffers
  <2> QED BY <2>2, <2>3 DEF Buffers
<1>6. staged' \in [Ranks -> Buffers] /\ staged'[r] = t /\ \A q \in Ranks \ {r} : staged'[q] = staged[q]
  <2> HIDE DEF t
  <2> QED BY <1>2, <1>5 DEF Types
<1>7. reduced' \in [Ranks -> Nat] /\ reduced'[r] = n /\ \A q \in Ranks \ {r} : reduced'[q] = reduced[q]
  <2> HIDE DEF n
  <2> QED BY <1>1, <1>3 DEF Types
<1>8. StagedOk(r, compute[r], events[r].completed.ready, used[r], n, t)
  <2> DEFINE G == Gathered(compute[r], events[r].completed.ready)
  <2> SUFFICES ASSUME used[r] = << >>, NEW c \in BucketIds, NEW p \in Members[c]
               PROVE  /\ Turn(c) <= n => t[p] = Mean(1)
                      /\ n < Turn(c) /\ Turn(c) <= G => t[p] = Local(r, 1)
    BY DEF StagedOk
  <2>1. n <= NB /\ Turn(b) = n /\ b \in BucketIds
    BY <1>1, <1>2, StagedAtHead DEF b
  <2>2. /\ Turn(c) <= reduced[r] => staged[r][p] = Mean(1)
        /\ reduced[r] < Turn(c) /\ Turn(c) <= G => staged[r][p] = Local(r, 1)
    <3>1. StagedOk(r, compute[r], events[r].completed.ready, << >>, reduced[r], staged[r])
      BY DEF RankOk
    <3> QED BY <3>1 DEF StagedOk
  <2>3. p \in Params /\ Turn(c) \in 1 .. NB /\ NB \in Nat
    BY BucketFacts, TurnFacts
  <2> HIDE DEF G
  <2>4. CASE c = b
    <3>1. t[p] = UNION {sent[q][n][p] : q \in Ranks}
      BY <2>3, <2>4
    <3>2. ASSUME NEW q \in Ranks PROVE sent[q][n][p] = Local(q, 1)
      <4>1. SentOk(q, comm[q], sent[q], reduced[q])
        BY DEF RankOk
      <4>2. n \in DOMAIN sent[q]
        BY <1>4
      <4> HIDE DEF n, t
      <4> QED BY <2>1, <2>4, <4>1, <4>2 DEF SentOk
    <3> HIDE DEF t, n
    <3>3. t[p] = Mean(1)
      BY <3>1, <3>2 DEF Mean
    <3>4. ~(n < Turn(c))
      BY <1>3, <2>1, <2>4
    <3> QED BY <3>3, <3>4
  <2>5. CASE c # b
    <3>1. p \notin Members[b]
      BY <2>1, <2>5, BucketFacts
    <3>2. t[p] = staged[r][p]
      BY <2>3, <3>1
    <3>3. Turn(c) # n
      BY <2>1, <2>5, TurnFacts
    <3> HIDE DEF t
    <3>4. (Turn(c) <= n => Turn(c) <= reduced[r]) /\ (n < Turn(c) => reduced[r] < Turn(c))
      BY <1>3, <2>3, <3>3
    <3> QED BY <2>2, <3>2, <3>4
  <2> QED BY <2>4, <2>5
<1>9. RankOk(r)'
  <2>1. reduced'[r] = Reduced(comm[r], reduced[r])
    BY <1>2, <1>7 DEF Reduced
  <2>2. StagedOk(r, compute[r], events[r].completed.ready, used[r], reduced'[r], staged'[r])
    BY <1>6, <1>7, <1>8
  <2>3. \A e \in BucketIds : events'[r].completed.done[e] > 0 => e <= reduced[r]
    BY <1>1 DEF RankOk, ReadyOk
  <2> HIDE DEF t
  <2> QED BY <1>1, <1>2, <2>1, <2>2, <2>3, CommStep, CommPopKeeps
<1>10. Types'
  BY <1>1, <1>6, <1>7, CommStep DEF Types
<1>11. \A q \in Ranks \ {r} : Same(q)
  BY <1>1, <1>6, <1>7, CommStep DEF Same
<1> QED BY <1>9, <1>10, <1>11
-----------------------------------------------------------------------------
(* The host enqueues a on the compute stream.                              *)

(* An operation of a longer stream is an old one or one of the new. *)
LEMMA JoinAt ==
  ASSUME NEW q, NEW a, NEW w, Joined(q, a, w), NEW k \in DOMAIN w
  PROVE  /\ k \in Nat \ {0}
         /\ \/ k \in DOMAIN q /\ w[k] = q[k] /\ k <= Len(q)
            \/ k - Len(q) \in DOMAIN a /\ w[k] = a[k - Len(q)] /\ k > Len(q)
<1>1. CASE k <= Len(q)
  <2>1. k \in 1 .. Len(q)
    BY <1>1 DEF Joined
  <2> QED BY <2>1 DEF Joined
<1>2. CASE ~(k <= Len(q))
  <2>1. k - Len(q) \in 1 .. Len(a) /\ Len(q) + (k - Len(q)) = k /\ k \in Nat \ {0} /\ k > Len(q)
    BY <1>2 DEF Joined
  <2>2. w[Len(q) + (k - Len(q))] = a[k - Len(q)]
    BY <2>1 DEF Joined
  <2> QED BY <2>1, <2>2 DEF Joined
<1> QED BY <1>1, <1>2

(* What is enqueued later does not change where the first step ends. *)
LEMMA FirstJoin ==
  ASSUME NEW q, NEW a, NEW w, Joined(q, a, w), NEW u, NEW k \in Nat
  PROVE  /\ k <= Len(q) + 1 => (First(w, u, k) <=> First(q, u, k))
         /\ k >= Len(q) + 1 /\ First(w, u, k) => First(q, u, Len(q) + 1)
<1>1. \A x \in 1 .. Len(q) : w[x] = q[x]
  BY DEF Joined
<1>2. ASSUME k <= Len(q) + 1 PROVE First(w, u, k) <=> First(q, u, k)
  <2>1. \A x \in 1 .. k - 1 : x \in 1 .. Len(q)
    BY <1>2 DEF Joined
  <2> QED BY <1>1, <2>1 DEF First, Without
<1>3. ASSUME k >= Len(q) + 1, First(w, u, k) PROVE First(q, u, Len(q) + 1)
  <2>1. \A x \in 1 .. (Len(q) + 1) - 1 : x \in 1 .. Len(q) /\ x \in 1 .. k - 1
    BY <1>3 DEF Joined
  <2> QED BY <1>1, <1>3, <2>1 DEF First, Without
<1> QED BY <1>2, <1>3

(* Without an AdamW in it, what is enqueued stays in the same step. *)
LEMMA RegionJoin ==
  ASSUME NEW q, NEW a, NEW w, Joined(q, a, w), NEW u, \A k \in DOMAIN a : a[k].op # "adamw"
  PROVE  First(w, u, Len(w) + 1) <=> First(q, u, Len(q) + 1)
<1>1. Len(w) + 1 \in Nat /\ Len(w) + 1 >= Len(q) + 1 /\ (Len(w) + 1) - 1 = Len(w) /\ (Len(q) + 1) - 1 = Len(q)
      /\ DOMAIN w = 1 .. Len(w) /\ DOMAIN q = 1 .. Len(q)
  BY DEF Joined
<1>2. First(w, u, Len(w) + 1) => First(q, u, Len(q) + 1)
  BY <1>1, FirstJoin
<1>3. ASSUME First(q, u, Len(q) + 1), NEW k \in DOMAIN w PROVE w[k].op # "adamw"
  <2>1. k \in DOMAIN q => q[k].op # "adamw"
    BY <1>1, <1>3 DEF First, Without
  <2> QED BY <2>1, JoinAt
<1>4. First(q, u, Len(q) + 1) => First(w, u, Len(w) + 1)
  BY <1>1, <1>3 DEF First, Without
<1> QED BY <1>2, <1>4

(* GatherOk when more is enqueued. *)
LEMMA GatherJoin ==
  ASSUME NEW r, NEW q, NEW a, NEW w, Joined(q, a, w), NEW g, NEW u, GatherOk(r, q, g, u), q \in Seq(ComputeOps),
         \A k \in DOMAIN w : k > Len(q) /\ w[k].op = "gather" =>
           \E s \in 1 .. MaxSteps :
             /\ First(w, u, k) => s = 1
             /\ \A p \in Members[w[k].bucket] : Yields(w, g, p, k - 1, Local(r, s))
  PROVE  GatherOk(r, w, g, u)
<1> SUFFICES ASSUME NEW k \in DOMAIN w, w[k].op = "gather"
             PROVE  \E s \in 1 .. MaxSteps :
                      /\ First(w, u, k) => s = 1
                      /\ \A p \in Members[w[k].bucket] : Yields(w, g, p, k - 1, Local(r, s))
  BY DEF GatherOk
<1>1. CASE k \in DOMAIN q /\ w[k] = q[k] /\ k <= Len(q)
  <2>1. k \in Nat /\ k <= Len(q) + 1 /\ k - 1 \in Nat /\ k - 1 <= Len(q)
    BY <1>1, JoinAt DEF Joined
  <2>2. PICK s \in 1 .. MaxSteps :
          /\ First(q, u, k) => s = 1
          /\ \A p \in Members[w[k].bucket] : Yields(q, g, p, k - 1, Local(r, s))
    BY <1>1 DEF GatherOk
  <2>3. First(w, u, k) => s = 1
    BY <2>1, <2>2, FirstJoin
  <2>4. \A p \in Members[w[k].bucket] : Yields(w, g, p, k - 1, Local(r, s))
    BY <2>1, <2>2, YieldsJoin
  <2> QED BY <2>3, <2>4
<1> QED BY <1>1, JoinAt

(* QueueOk when more is enqueued. *)
LEMMA QueueJoin ==
  ASSUME NEW q, NEW a, NEW w, Joined(q, a, w), QueueOk(q), QueueOk(a), a[1].op # "ready"
  PROVE  QueueOk(w)
<1> SUFFICES ASSUME NEW k \in DOMAIN w
             PROVE  /\ w[k].op = "gather" => k + 1 \in DOMAIN w /\ w[k + 1].op = "ready"
                    /\ w[k].op = "ready" /\ k > 1 => w[k - 1].op = "gather"
  BY DEF QueueOk
<1>1. CASE k \in DOMAIN q /\ w[k] = q[k] /\ k <= Len(q)
  <2>1. w[k].op = "gather" => k + 1 \in DOMAIN w /\ w[k + 1].op = "ready"
    <3> SUFFICES ASSUME w[k].op = "gather" PROVE k + 1 \in DOMAIN w /\ w[k + 1].op = "ready"
      OBVIOUS
    <3>1. k + 1 \in DOMAIN q /\ q[k + 1].op = "ready"
      BY <1>1 DEF QueueOk
    <3>2. k + 1 \in DOMAIN w /\ k + 1 \in 1 .. Len(q)
      BY <3>1 DEF Joined
    <3> QED BY <3>1, <3>2 DEF Joined
  <2>2. w[k].op = "ready" /\ k > 1 => w[k - 1].op = "gather"
    <3> SUFFICES ASSUME w[k].op = "ready", k > 1 PROVE w[k - 1].op = "gather"
      OBVIOUS
    <3>1. q[k - 1].op = "gather"
      BY <1>1 DEF QueueOk
    <3>2. k - 1 \in 1 .. Len(q)
      BY <1>1 DEF Joined
    <3> QED BY <3>1, <3>2 DEF Joined
  <2> QED BY <2>1, <2>2
<1>2. CASE k - Len(q) \in DOMAIN a /\ w[k] = a[k - Len(q)] /\ k > Len(q)
  <2> DEFINE i == k - Len(q)
  <2>1. i \in DOMAIN a /\ w[k] = a[i] /\ i \in Nat /\ Len(q) \in Nat /\ k = Len(q) + i
    BY <1>2 DEF Joined
  <2> HIDE DEF i
  <2>2. w[k].op = "gather" => k + 1 \in DOMAIN w /\ w[k + 1].op = "ready"
    <3> SUFFICES ASSUME w[k].op = "gather" PROVE k + 1 \in DOMAIN w /\ w[k + 1].op = "ready"
      OBVIOUS
    <3>1. i + 1 \in DOMAIN a /\ a[i + 1].op = "ready"
      BY <2>1 DEF QueueOk
    <3>2. i + 1 \in 1 .. Len(a) /\ Len(q) + (i + 1) = k + 1 /\ k + 1 \in DOMAIN w
      <4>1. /\ Len(a) \in Nat /\ i + 1 \in 1 .. Len(a) /\ Len(w) = Len(q) + Len(a) /\ DOMAIN w = 1 .. Len(w)
        BY <3>1 DEF Joined
      <4>2. \A m, x, y \in Nat : x + 1 \in 1 .. y => (m + x) + 1 = m + (x + 1) /\ (m + x) + 1 \in 1 .. m + y
        OBVIOUS
      <4> QED BY <2>1, <4>1, <4>2
    <3>3. w[Len(q) + (i + 1)] = a[i + 1]
      BY <3>2 DEF Joined
    <3> QED BY <3>1, <3>2, <3>3
  <2>3. w[k].op = "ready" /\ k > 1 => w[k - 1].op = "gather"
    <3> SUFFICES ASSUME w[k].op = "ready", k > 1 PROVE w[k - 1].op = "gather"
      OBVIOUS
    <3>1. i # 1
      BY <2>1
    <3>2. i > 1 /\ i - 1 \in 1 .. Len(a) /\ Len(q) + (i - 1) = k - 1
      <4>1. i \in 1 .. Len(a) /\ Len(a) \in Nat
        BY <2>1 DEF Joined
      <4> QED BY <2>1, <3>1, <4>1
    <3>3. a[i - 1].op = "gather"
      BY <2>1, <3>2 DEF QueueOk
    <3>4. w[Len(q) + (i - 1)] = a[i - 1]
      BY <3>2 DEF Joined
    <3> QED BY <3>2, <3>3, <3>4
  <2> QED BY <2>2, <2>3
<1> QED BY <1>1, <1>2, JoinAt

(* What is enqueued changes nothing of the gathers that have run. *)
LEMMA GatheredJoin ==
  ASSUME NEW q \in Seq(ComputeOps), NEW a, NEW w \in Seq(ComputeOps), Joined(q, a, w), Len(a) > 0,
         a[1].op # "ready", NEW n
  PROVE  Gathered(w, n) = Gathered(q, n)
<1>1. Len(q) \in Nat /\ Len(a) \in Nat /\ Len(w) \in Nat /\ Len(w) # 0
  BY DEF Joined
<1>2. w # << >>
  BY <1>1, EmptySeq
<1>3. CASE q = << >>
  <2>1. Len(q) = 0 /\ 1 \in 1 .. Len(a) /\ Len(q) + 1 = 1
    BY <1>1, <1>3
  <2>2. w[Len(q) + 1] = a[1]
    BY <2>1 DEF Joined
  <2> QED BY <1>2, <1>3, <2>1, <2>2 DEF Gathered
<1>4. CASE q # << >>
  <2>1. 1 \in 1 .. Len(q)
    BY <1>1, <1>4, EmptySeq
  <2>2. w[1] = q[1]
    BY <2>1 DEF Joined
  <2> QED BY <1>2, <1>4, <2>2 DEF Gathered
<1> QED BY <1>3, <1>4

(* Either a has no gather, or it is the firing of the bucket next in turn. *)
LEMMA TurnJoin ==
  ASSUME NEW q \in Seq(ComputeOps), NEW a, NEW w \in Seq(ComputeOps), Joined(q, a, w), Len(a) > 0,
         a[1].op # "ready", NEW u, NEW n \in Nat, NEW fires \in Nat, TurnOk(q, u, n, fires),
         \A k \in DOMAIN a : a[k].op # "gather"
  PROVE  TurnOk(w, u, n, fires)
<1> SUFFICES ASSUME u = << >> PROVE TurnOk(w, << >>, n, fires)
  BY DEF TurnOk
<1> DEFINE G == Gathered(q, n)
<1>1. Gathered(w, n) = G
  BY GatheredJoin
<1>2. ASSUME NEW k \in DOMAIN w, FirstGather(w, << >>, k)
      PROVE  k \in DOMAIN q /\ w[k] = q[k] /\ k <= Len(q) /\ FirstGather(q, << >>, k)
  <2>1. k \in DOMAIN q /\ w[k] = q[k] /\ k <= Len(q)
    BY <1>2, JoinAt DEF FirstGather
  <2>2. k \in Nat /\ k <= Len(q) + 1
    BY <2>1, JoinAt DEF Joined
  <2> QED BY <1>2, <2>1, <2>2, FirstJoin DEF FirstGather
<1>3. ASSUME NEW k \in DOMAIN q, FirstGather(q, << >>, k)
      PROVE  k \in DOMAIN w /\ w[k] = q[k] /\ FirstGather(w, << >>, k)
  <2>1. k \in DOMAIN w /\ w[k] = q[k] /\ k \in Nat /\ k <= Len(q) + 1
    BY DEF Joined
  <2> QED BY <1>3, <2>1, FirstJoin DEF FirstGather
<1>4. TurnOk(q, << >>, n, fires)
  OBVIOUS
<1>5. ASSUME NEW k \in DOMAIN w, FirstGather(w, << >>, k)
      PROVE  /\ G < Turn(w[k].bucket) /\ Turn(w[k].bucket) <= fires
             /\ \A j \in 1 .. k - 1 : w[j].op = "gather" => Turn(w[j].bucket) < Turn(w[k].bucket)
  <2>1. k \in DOMAIN q /\ w[k] = q[k] /\ k <= Len(q) /\ FirstGather(q, << >>, k)
    BY <1>2, <1>5
  <2>2. /\ G < Turn(w[k].bucket) /\ Turn(w[k].bucket) <= fires
        /\ \A j \in 1 .. k - 1 : q[j].op = "gather" => Turn(q[j].bucket) < Turn(w[k].bucket)
    BY <1>4, <2>1 DEF TurnOk
  <2>3. \A j \in 1 .. k - 1 : w[j] = q[j]
    <3> SUFFICES ASSUME NEW j \in 1 .. k - 1 PROVE w[j] = q[j]
      OBVIOUS
    <3>1. j \in 1 .. Len(q)
      BY <2>1 DEF Joined
    <3> QED BY <3>1 DEF Joined
  <2> QED BY <2>2, <2>3
<1>6. ASSUME NEW m \in 1 .. NB, G < m, m <= fires
      PROVE  \E k \in DOMAIN w : FirstGather(w, << >>, k) /\ Turn(w[k].bucket) = m
  <2>1. PICK k \in DOMAIN q : FirstGather(q, << >>, k) /\ Turn(q[k].bucket) = m
    BY <1>4, <1>6 DEF TurnOk
  <2> QED BY <1>3, <2>1
<1>7. G <= NB /\ G <= fires
  BY <1>4 DEF TurnOk
<1> HIDE DEF G
<1> QED BY <1>1, <1>5, <1>6, <1>7 DEF TurnOk

(* Synced when more is enqueued. *)
LEMMA SyncedJoin ==
  ASSUME NEW q, NEW a, NEW w, Joined(q, a, w), NEW done, NEW k \in Nat, k <= Len(q) + 1, Synced(q, done, k)
  PROVE  Synced(w, done, k)
<1> SUFFICES ASSUME NEW e \in BucketIds, ~(done[e] > 0)
             PROVE  \E j \in 1 .. k - 1 : w[j].op = "wait" /\ w[j].event = e /\ w[j].n > 0
  BY DEF Synced
<1>1. PICK j \in 1 .. k - 1 : q[j].op = "wait" /\ q[j].event = e /\ q[j].n > 0
  BY DEF Synced
<1>2. j \in 1 .. Len(q)
  BY DEF Joined
<1>3. w[j] = q[j]
  BY <1>2 DEF Joined
<1> QED BY <1>1, <1>3

(* An AdamW already enqueued stays the first one. *)
LEMMA FirstAdamWJoin ==
  ASSUME NEW q, NEW a, NEW w, Joined(q, a, w), Len(a) > 0, NEW u, NEW h, NEW i, NEW k \in 1 .. Len(w) + 1, k <= Len(q),
         FirstAdamW(i, w, u, k)
  PROVE  k \in 1 .. Len(q) + 1 /\ FirstAdamW(h, q, u, k) /\ k \in Nat /\ k <= Len(q) + 1
<1>1. k \in Nat /\ k <= Len(q) + 1 /\ k \in 1 .. Len(q) + 1 /\ k \in DOMAIN q /\ k # Len(w) + 1 /\ w[k] = q[k]
  BY DEF Joined
<1>2. First(q, u, k) /\ q[k].op = "adamw"
  BY <1>1, FirstJoin DEF FirstAdamW
<1> QED BY <1>1, <1>2 DEF FirstAdamW

(* SyncOk when more is enqueued. *)
LEMMA SyncJoin ==
  ASSUME NEW q, NEW a, NEW w, Joined(q, a, w), Len(a) > 0, NEW u, NEW h, NEW i, NEW done, SyncOk(h, q, u, done),
         \A k \in DOMAIN w : k > Len(q) /\ w[k].op = "scatter" /\ First(w, u, k) => Synced(w, done, k),
         \A k \in 1 .. Len(w) + 1 : k > Len(q) /\ FirstAdamW(i, w, u, k) => Synced(w, done, k)
  PROVE  SyncOk(i, w, u, done)
<1>1. ASSUME NEW k \in DOMAIN w, w[k].op = "scatter", First(w, u, k) PROVE Synced(w, done, k)
  <2>1. CASE k > Len(q)
    BY <1>1, <2>1
  <2>2. CASE k \in DOMAIN q /\ w[k] = q[k] /\ k <= Len(q)
    <3>1. k \in Nat /\ k <= Len(q) + 1
      BY <2>2, JoinAt DEF Joined
    <3>2. First(q, u, k)
      BY <1>1, <3>1, FirstJoin
    <3>3. Synced(q, done, k)
      BY <1>1, <2>2, <3>2 DEF SyncOk
    <3> QED BY <3>1, <3>3, SyncedJoin
  <2> QED BY <2>1, <2>2, JoinAt
<1>2. ASSUME NEW k \in 1 .. Len(w) + 1, FirstAdamW(i, w, u, k) PROVE Synced(w, done, k)
  <2>1. CASE k > Len(q)
    BY <1>2, <2>1
  <2>2. CASE k <= Len(q)
    <3>1. k \in 1 .. Len(q) + 1 /\ FirstAdamW(h, q, u, k) /\ k \in Nat /\ k <= Len(q) + 1
      BY <1>2, <2>2, FirstAdamWJoin
    <3>2. Synced(q, done, k)
      BY <3>1 DEF SyncOk
    <3> QED BY <3>1, <3>2, SyncedJoin
  <2>3. k > Len(q) \/ k <= Len(q)
    BY DEF Joined
  <2> QED BY <2>1, <2>2, <2>3
<1> QED BY <1>1, <1>2 DEF SyncOk

(* Scattered when more is enqueued. *)
LEMMA ScatteredJoin ==
  ASSUME NEW q, NEW a, NEW w, Joined(q, a, w), NEW g, NEW b, NEW k \in Nat, k <= Len(q) + 1, Scattered(q, g, k, b)
  PROVE  Scattered(w, g, k, b)
<1>1. \A x \in 1 .. k - 1 : w[x] = q[x]
  <2> SUFFICES ASSUME NEW x \in 1 .. k - 1 PROVE w[x] = q[x]
    OBVIOUS
  <2>1. x \in 1 .. Len(q)
    BY DEF Joined
  <2> QED BY <2>1 DEF Joined
<1>2. CASE Without(q, 1, k - 1, {"zero", "backward"}) /\ \A p \in Members[b] : g[p] = Mean(1)
  BY <1>1, <1>2 DEF Without, Scattered
<1>3. ASSUME NEW j \in 1 .. k - 1, q[j].op = "scatter", q[j].bucket = b, Without(q, j + 1, k - 1, {"zero", "backward"})
      PROVE  Scattered(w, g, k, b)
  <2>1. w[j] = q[j] /\ \A x \in j + 1 .. k - 1 : w[x] = q[x]
    BY <1>1
  <2>2. Without(w, j + 1, k - 1, {"zero", "backward"})
    BY <1>3, <2>1 DEF Without
  <2> QED BY <1>3, <2>1, <2>2 DEF Scattered
<1> QED BY <1>2, <1>3 DEF Scattered

(* ScatterOk when more is enqueued. *)
LEMMA ScatterJoin ==
  ASSUME NEW q, NEW a, NEW w, Joined(q, a, w), Len(a) > 0, NEW u, NEW h, NEW i, NEW g, ScatterOk(h, q, g, u),
         \A k \in 1 .. Len(w) + 1 : k > Len(q) /\ FirstAdamW(i, w, u, k) => \A b \in BucketIds : Scattered(w, g, k, b)
  PROVE  ScatterOk(i, w, g, u)
<1>1. ASSUME NEW k \in 1 .. Len(w) + 1, FirstAdamW(i, w, u, k), NEW b \in BucketIds PROVE Scattered(w, g, k, b)
  <2>1. CASE k > Len(q)
    BY <1>1, <2>1
  <2>2. CASE k <= Len(q)
    <3>1. k \in 1 .. Len(q) + 1 /\ FirstAdamW(h, q, u, k) /\ k \in Nat /\ k <= Len(q) + 1
      BY <1>1, <2>2, FirstAdamWJoin
    <3>2. Scattered(q, g, k, b)
      BY <3>1 DEF ScatterOk
    <3> QED BY <3>1, <3>2, ScatteredJoin
  <2>3. k > Len(q) \/ k <= Len(q)
    BY DEF Joined
  <2> QED BY <2>1, <2>2, <2>3
<1> QED BY <1>1 DEF ScatterOk
-----------------------------------------------------------------------------
(* The host goes through the layers.                                       *)

(* The layers above the first are all the others. *)
LEMMA AboveFacts ==
  /\ Above(Len(Layers)) = {}
  /\ \A l \in DOMAIN Layers : /\ Of(l) \subseteq Params /\ Above(l) \subseteq Params
                              /\ Above(l) \cap Of(l) = {}
                              /\ l > 1 => l - 1 \in DOMAIN Layers /\ Above(l - 1) = Above(l) \cup Of(l)
                              /\ l = 1 => Above(l) \cup Of(l) = Params
<1>1. /\ Len(Layers) \in Nat \ {0} /\ DOMAIN Layers = 1 .. Len(Layers)
      /\ \A l \in DOMAIN Layers : \A k \in DOMAIN Layers[l] : Layers[l][k] \in Params
      /\ \A p \in Params : \E l \in DOMAIN Layers : \E k \in DOMAIN Layers[l] : Layers[l][k] = p
      /\ \A l, m \in DOMAIN Layers : \A j \in DOMAIN Layers[l] : \A k \in DOMAIN Layers[m] :
           Layers[l][j] = Layers[m][k] => l = m /\ j = k
  BY LayerFacts
<1>2. \A l \in DOMAIN Layers : \A x : x \in Of(l) <=> \E k \in DOMAIN Layers[l] : x = Layers[l][k]
  BY DEF Of, ToSet
<1>3. \A l, x : x \in Above(l) <=> \E m \in DOMAIN Layers : m > l /\ x \in Of(m)
  BY DEF Above
<1>4. Above(Len(Layers)) = {}
  <2>1. \A m \in DOMAIN Layers : ~(m > Len(Layers))
    BY <1>1
  <2> QED BY <1>3, <2>1
<1>5. ASSUME NEW l \in DOMAIN Layers PROVE Of(l) \subseteq Params /\ Above(l) \subseteq Params
  BY <1>1, <1>2, <1>3
<1>6. ASSUME NEW l \in DOMAIN Layers PROVE Above(l) \cap Of(l) = {}
  <2> SUFFICES ASSUME NEW x \in Of(l), x \in Above(l) PROVE FALSE
    OBVIOUS
  <2>1. PICK m \in DOMAIN Layers : m > l /\ x \in Of(m)
    BY <1>3
  <2>2. m = l
    BY <1>1, <1>2, <2>1
  <2> QED BY <1>1, <2>1, <2>2
<1>7. ASSUME NEW l \in DOMAIN Layers, l > 1 PROVE l - 1 \in DOMAIN Layers /\ Above(l - 1) = Above(l) \cup Of(l)
  <2>1. l - 1 \in DOMAIN Layers /\ \A m \in DOMAIN Layers : m > l - 1 <=> m > l \/ m = l
    BY <1>1, <1>7
  <2> QED BY <1>3, <2>1
<1>8. Above(1) \cup Of(1) = Params
  <2>1. 1 \in DOMAIN Layers /\ \A m \in DOMAIN Layers : m > 1 \/ m = 1
    BY <1>1
  <2>2. ASSUME NEW p \in Params PROVE p \in Above(1) \cup Of(1)
    <3>1. PICK m \in DOMAIN Layers : p \in Of(m)
      BY <1>1, <1>2
    <3> QED BY <1>3, <2>1, <3>1
  <2> QED BY <1>5, <2>1, <2>2
<1> QED BY <1>4, <1>5, <1>6, <1>7, <1>8

(* The next parameter of the layer to be signalled. *)
LEMMA MarksFacts ==
  ASSUME NEW l \in DOMAIN Layers, NEW k \in DOMAIN Layers[l], NEW s, s = SubSeq(Layers[l], k, Len(Layers[l]))
  PROVE  /\ s \in Seq(Params) /\ s # << >> /\ Head(s) = Layers[l][k] /\ Layers[l][k] \in Params
         /\ Above(l) \cup (Of(l) \ ToSet(s)) = MarkedBy(Layers[l][k]) \ {Layers[l][k]}
         /\ Len(s) > 1 => /\ k + 1 \in DOMAIN Layers[l] /\ Tail(s) = SubSeq(Layers[l], k + 1, Len(Layers[l]))
                          /\ Above(l) \cup (Of(l) \ ToSet(Tail(s))) = MarkedBy(Layers[l][k])
         /\ ~(Len(s) > 1) => Above(l) \cup Of(l) = MarkedBy(Layers[l][k])
<1> DEFINE f == Layers[l]
           n == Len(f)
           p == f[k]
<1>1. /\ f \in Seq(Params) /\ n \in Nat \ {0} /\ DOMAIN f = 1 .. n /\ \A i \in DOMAIN f : f[i] \in Params
      /\ l \in Nat /\ k \in 1 .. n
  <2>1. /\ f \in Seq(Params) /\ n \in Nat \ {0} /\ DOMAIN f = 1 .. n /\ \A i \in DOMAIN f : f[i] \in Params
    BY LayerFacts
  <2>2. l \in Nat /\ k \in DOMAIN f
    BY PlaceNat
  <2> QED BY <2>1, <2>2
<1>2. p \in Params
  BY <1>1
<1>3. PICK m \in DOMAIN Layers : \E j \in DOMAIN Layers[m] :
        /\ Layers[m][j] = p
        /\ \A x \in DOMAIN Layers : \A i \in DOMAIN Layers[x] :
             Layers[x][i] \in MarkedBy(p) <=> x > m \/ (x = m /\ i <= j)
  <2> HIDE DEF p
  <2> QED BY <1>2, PlaceIs
<1>4. m = l /\ \A x \in DOMAIN Layers : \A i \in DOMAIN Layers[x] :
                 Layers[x][i] \in MarkedBy(p) <=> x > l \/ (x = l /\ i <= k)
  <2>1. PICK j \in DOMAIN Layers[m] :
          /\ Layers[m][j] = p
          /\ \A x \in DOMAIN Layers : \A i \in DOMAIN Layers[x] :
               Layers[x][i] \in MarkedBy(p) <=> x > m \/ (x = m /\ i <= j)
    BY <1>3
  <2>2. m = l /\ j = k
    BY <2>1, LayerFacts
  <2> QED BY <2>1, <2>2
<1>5. \A x \in Params : \E y \in DOMAIN Layers : \E i \in DOMAIN Layers[y] : Layers[y][i] = x
  BY LayerFacts
<1>6. \A x \in DOMAIN Layers : \A y : y \in Of(x) <=> \E i \in DOMAIN Layers[x] : y = Layers[x][i]
  BY DEF Of, ToSet
<1>7. \A x : x \in Above(l) <=> \E y \in DOMAIN Layers : y > l /\ x \in Of(y)
  BY DEF Above
<1>8. \A x, y \in DOMAIN Layers : \A i \in DOMAIN Layers[x] : \A j \in DOMAIN Layers[y] :
        Layers[x][i] = Layers[y][j] => x = y /\ i = j
  BY LayerFacts
<1>9. MarkedBy(p) \subseteq Params
  BY DEF MarkedBy
<1>10. \A x \in DOMAIN Layers : x \in Nat
  BY PlaceNat
<1> HIDE DEF f, n, p
<1>11. MarkedBy(p) = Above(l) \cup {f[i] : i \in 1 .. k}
  <2>1. ASSUME NEW x \in MarkedBy(p) PROVE x \in Above(l) \cup {f[i] : i \in 1 .. k}
    <3>1. PICK y \in DOMAIN Layers : \E i \in DOMAIN Layers[y] : Layers[y][i] = x
      BY <1>5, <1>9, <2>1
    <3>2. PICK i \in DOMAIN Layers[y] : Layers[y][i] = x
      BY <3>1
    <3>3. y > l \/ (y = l /\ i <= k)
      BY <1>4, <2>1, <3>2
    <3>4. CASE y > l
      BY <1>6, <1>7, <3>2, <3>4
    <3>5. CASE y = l /\ i <= k
      <4>1. i \in 1 .. k /\ x = f[i]
        BY <1>1, <3>2, <3>5 DEF f
      <4> QED BY <4>1
    <3> QED BY <3>3, <3>4, <3>5
  <2>2. ASSUME NEW x \in Above(l) PROVE x \in MarkedBy(p)
    BY <1>4, <1>6, <1>7, <2>2
  <2>3. ASSUME NEW i \in 1 .. k PROVE f[i] \in MarkedBy(p)
    <3>1. i \in DOMAIN f /\ i <= k
      BY <1>1
    <3> QED BY <1>4, <3>1 DEF f
  <2> QED BY <2>1, <2>2, <2>3
<1>12. \A x \in Above(l) : \A i \in DOMAIN f : x # f[i]
  <2> SUFFICES ASSUME NEW x \in Above(l), NEW i \in DOMAIN f, x = f[i] PROVE FALSE
    OBVIOUS
  <2>1. PICK y \in DOMAIN Layers : y > l /\ x \in Of(y)
    BY <1>7
  <2>2. y = l
    BY <1>6, <1>8, <2>1 DEF f
  <2> QED BY <1>1, <2>1, <2>2
<1>13. Of(l) = {f[i] : i \in 1 .. n}
  BY <1>1, <1>6 DEF f
<1>14. /\ s \in Seq(Params) /\ Len(s) = n - k + 1 /\ DOMAIN s = 1 .. n - k + 1
       /\ \A i \in 1 .. n - k + 1 : s[i] = f[k + i - 1]
  <2>1. s = SubSeq(f, k, n)
    BY DEF f, n
  <2> QED BY <1>1, <2>1, SubSeqProperties
<1>15. ToSet(s) = {f[i] : i \in k .. n}
  <2>1. ToSet(s) = {s[i] : i \in 1 .. n - k + 1}
    BY <1>14 DEF ToSet
  <2>2. ASSUME NEW i \in 1 .. n - k + 1 PROVE k + i - 1 \in k .. n /\ s[i] = f[k + i - 1]
    BY <1>1, <1>14
  <2>3. ASSUME NEW i \in k .. n PROVE i - k + 1 \in 1 .. n - k + 1 /\ s[i - k + 1] = f[i]
    <3>1. i - k + 1 \in 1 .. n - k + 1 /\ k + (i - k + 1) - 1 = i
      BY <1>1
    <3> QED BY <1>14, <3>1
  <2>4. ASSUME NEW x \in ToSet(s) PROVE x \in {f[i] : i \in k .. n}
    <3>1. PICK i \in 1 .. n - k + 1 : x = s[i]
      BY <2>1
    <3> QED BY <2>2, <3>1
  <2>5. ASSUME NEW i \in k .. n PROVE f[i] \in ToSet(s)
    BY <2>1, <2>3
  <2> QED BY <2>4, <2>5
<1>16. \A i, j \in 1 .. n : f[i] = f[j] => i = j
  BY <1>1, <1>8 DEF f
<1>17. s # << >> /\ Head(s) = p
  <2>1. n - k + 1 \in Nat \ {0} /\ 1 \in 1 .. n - k + 1 /\ k + 1 - 1 = k
    BY <1>1
  <2>2. s[1] = f[k]
    BY <1>14, <2>1
  <2>3. Len(s) # 0
    BY <1>14, <2>1
  <2> QED BY <1>14, <2>2, <2>3 DEF p
<1>18. Above(l) \cup (Of(l) \ ToSet(s)) = MarkedBy(p) \ {p}
  <2>1. Of(l) \ ToSet(s) = {f[i] : i \in 1 .. k - 1}
    <3>1. \A i \in 1 .. n : i \in 1 .. k - 1 \/ i \in k .. n
      BY <1>1
    <3>2. \A i \in 1 .. k - 1 : i \in 1 .. n /\ i \notin k .. n
      BY <1>1
    <3>3. \A i \in k .. n : i \in 1 .. n
      BY <1>1
    <3> QED BY <1>13, <1>15, <1>16, <3>1, <3>2, <3>3
  <2>2. {f[i] : i \in 1 .. k} \ {p} = {f[i] : i \in 1 .. k - 1}
    <3>1. \A i \in 1 .. k : i \in 1 .. n /\ (i = k \/ i \in 1 .. k - 1)
      BY <1>1
    <3>2. \A i \in 1 .. k - 1 : i \in 1 .. n /\ i \in 1 .. k /\ i # k
      BY <1>1
    <3>3. p = f[k] /\ k \in 1 .. n
      BY <1>1 DEF p
    <3>4. ASSUME NEW x \in {f[i] : i \in 1 .. k}, x # p PROVE x \in {f[i] : i \in 1 .. k - 1}
      <4>1. PICK i \in 1 .. k : x = f[i]
        BY <3>4
      <4>2. i # k
        BY <3>3, <3>4, <4>1
      <4> QED BY <3>1, <4>1, <4>2
    <3>5. ASSUME NEW i \in 1 .. k - 1 PROVE f[i] \in {f[j] : j \in 1 .. k} /\ f[i] # p
      BY <1>16, <3>2, <3>3
    <3> QED BY <3>4, <3>5
  <2>3. p \notin Above(l)
    BY <1>1, <1>12 DEF p
  <2> QED BY <1>11, <2>1, <2>2, <2>3
<1>19. ASSUME Len(s) > 1
       PROVE  /\ k + 1 \in DOMAIN f /\ Tail(s) = SubSeq(f, k + 1, n)
              /\ Above(l) \cup (Of(l) \ ToSet(Tail(s))) = MarkedBy(p)
  <2>1. k + 1 \in 1 .. n /\ k \in Int /\ n \in Int
    BY <1>1, <1>14, <1>19
  <2> DEFINE t == SubSeq(f, k + 1, n)
  <2>2. t \in Seq(Params) /\ Len(t) = n - k /\ DOMAIN t = 1 .. n - k /\ \A i \in 1 .. n - k : t[i] = f[k + i]
    <3>1. n - (k + 1) + 1 = n - k /\ \A i \in 1 .. n - k : (k + 1) + i - 1 = k + i
      BY <2>1
    <3>2. /\ t \in Seq(Params) /\ Len(t) = n - (k + 1) + 1 /\ DOMAIN t = 1 .. n - (k + 1) + 1
          /\ \A i \in 1 .. n - (k + 1) + 1 : t[i] = f[(k + 1) + i - 1]
      BY <1>1, <2>1, SubSeqProperties
    <3> HIDE DEF t
    <3> QED BY <3>1, <3>2
  <2> HIDE DEF t
  <2>3. Tail(s) \in Seq(Params) /\ Popped(s, Tail(s))
    BY <1>14, <1>17, TailPops
  <2>4. Len(Tail(s)) = n - k /\ DOMAIN Tail(s) = 1 .. n - k /\ \A i \in 1 .. n - k : Tail(s)[i] = f[k + i]
    <3>1. (n - k + 1) - 1 = n - k /\ \A i \in 1 .. n - k : i + 1 \in 1 .. n - k + 1 /\ k + (i + 1) - 1 = k + i
      BY <2>1
    <3>2. Len(Tail(s)) = n - k /\ DOMAIN Tail(s) = 1 .. n - k /\ \A i \in 1 .. n - k : Tail(s)[i] = s[i + 1]
      BY <1>14, <2>3, <3>1 DEF Popped
    <3> QED BY <1>14, <3>1, <3>2
  <2>5. Tail(s) = t
    <3>1. Tail(s) = [i \in 1 .. n - k |-> Tail(s)[i]] /\ t = [i \in 1 .. n - k |-> t[i]]
      BY <2>2, <2>3, <2>4, LenProperties
    <3> QED BY <2>2, <2>4, <3>1
  <2>6. ToSet(t) = {f[i] : i \in k + 1 .. n}
    <3>1. ToSet(t) = {t[i] : i \in 1 .. n - k}
      BY <2>2 DEF ToSet
    <3>2. \A i \in 1 .. n - k : k + i \in k + 1 .. n
      BY <2>1
    <3>3. \A i \in k + 1 .. n : i - k \in 1 .. n - k /\ k + (i - k) = i
      BY <2>1
    <3> QED BY <2>2, <3>1, <3>2, <3>3
  <2>7. Of(l) \ ToSet(t) = {f[i] : i \in 1 .. k}
    <3>1. \A i \in 1 .. n : i \in 1 .. k \/ i \in k + 1 .. n
      BY <2>1
    <3>2. \A i \in 1 .. k : i \in 1 .. n /\ i \notin k + 1 .. n
      BY <1>1
    <3>3. \A i \in k + 1 .. n : i \in 1 .. n
      BY <1>1
    <3> QED BY <1>13, <1>16, <2>6, <3>1, <3>2, <3>3
  <2> QED BY <1>1, <1>11, <2>1, <2>5, <2>7 DEF t
<1>20. ASSUME ~(Len(s) > 1) PROVE Above(l) \cup Of(l) = MarkedBy(p)
  <2>1. k = n
    BY <1>1, <1>14, <1>20
  <2> QED BY <1>11, <1>13, <2>1
<1> QED BY <1>2, <1>14, <1>17, <1>18, <1>19, <1>20 DEF f, n, p
-----------------------------------------------------------------------------
(* The steps of the host that enqueue one operation on the compute stream. *)

(* The host goes to the layer before, the next micro-batch or the          *)
(* synchronisation.                                                        *)
LEMMA AfterLayerIs ==
  ASSUME NEW h \in Hosts, h.layer \in DOMAIN Layers, h.micro \in 1 .. Accum
  PROVE  /\ AfterLayer(h) \in Hosts /\ AfterLayer(h).step = h.step /\ AfterLayer(h).marks = h.marks
         /\ \/ /\ h.layer > 1 /\ AfterLayer(h).pc = "backward"
               /\ AfterLayer(h).layer = h.layer - 1 /\ AfterLayer(h).micro = h.micro
            \/ /\ h.layer = 1 /\ h.micro < Accum /\ AfterLayer(h).pc = "backward"
               /\ AfterLayer(h).layer = Len(Layers) /\ AfterLayer(h).micro = h.micro + 1
            \/ /\ h.layer = 1 /\ h.micro = Accum /\ AfterLayer(h).pc = "sync"
               /\ AfterLayer(h).layer = h.layer /\ AfterLayer(h).micro = h.micro
<1>1. /\ h.step \in Nat /\ h.micro \in Nat /\ h.layer \in Nat /\ h.marks \in Seq(Params)
      /\ h = [pc |-> h.pc, step |-> h.step, micro |-> h.micro, layer |-> h.layer, marks |-> h.marks]
  BY DEF Hosts
<1>2. Len(Layers) \in Nat /\ h.layer \in 1 .. Len(Layers) /\ Accum \in Nat
  BY LayerFacts, DdpAssumption
<1>3. CASE h.layer > 1
  <2>1. AfterLayer(h) = [pc |-> "backward", step |-> h.step, micro |-> h.micro, layer |-> h.layer - 1, marks |-> h.marks]
    BY <1>1, <1>3 DEF AfterLayer
  <2>2. h.layer - 1 \in Nat
    BY <1>2, <1>3
  <2> QED BY <1>1, <1>3, <2>1, <2>2 DEF Hosts
<1>4. CASE ~(h.layer > 1) /\ h.micro < Accum
  <2>1. AfterLayer(h) = [pc |-> "backward", step |-> h.step, micro |-> h.micro + 1, layer |-> Len(Layers), marks |-> h.marks]
    BY <1>1, <1>4 DEF AfterLayer
  <2>2. h.layer = 1
    BY <1>2, <1>4
  <2> QED BY <1>1, <1>2, <1>4, <2>1, <2>2 DEF Hosts
<1>5. CASE ~(h.layer > 1) /\ ~(h.micro < Accum)
  <2>1. AfterLayer(h) = [pc |-> "sync", step |-> h.step, micro |-> h.micro, layer |-> h.layer, marks |-> h.marks]
    BY <1>1, <1>5 DEF AfterLayer
  <2>2. h.layer = 1 /\ h.micro = Accum
    BY <1>2, <1>5
  <2> QED BY <1>1, <1>2, <1>5, <2>1, <2>2 DEF Hosts
<1> QED BY <1>3, <1>4, <1>5

(* One operation more in the stream. *)
LEMMA SingleJoins ==
  ASSUME NEW q \in Seq(ComputeOps), NEW x \in ComputeOps
  PROVE  /\ q \o <<x>> \in Seq(ComputeOps) /\ Joined(q, <<x>>, q \o <<x>>)
         /\ Len(<<x>>) = 1 /\ DOMAIN <<x>> = {1} /\ <<x>>[1] = x
         /\ Len(q) \in Nat /\ Len(q \o <<x>>) = Len(q) + 1 /\ (q \o <<x>>)[Len(q) + 1] = x
<1>1. <<x>> \in Seq(ComputeOps) /\ Len(<<x>>) = 1 /\ DOMAIN <<x>> = {1} /\ <<x>>[1] = x
  OBVIOUS
<1> DEFINE a == <<x>>
           w == q \o a
<1>2. w \in Seq(ComputeOps) /\ Joined(q, a, w)
  BY <1>1, ConcatJoins
<1> HIDE DEF a, w
<1>3. Len(a) = 1 /\ a[1] = x
  BY <1>1 DEF a
<1>4. 1 \in 1 .. 1
  OBVIOUS
<1>5. Len(q) \in Nat /\ Len(w) = Len(q) + 1 /\ w[Len(q) + 1] = a[1]
  BY <1>2, <1>3, <1>4 DEF Joined
<1> QED BY <1>1, <1>2, <1>3, <1>5 DEF a, w

(* A host step that enqueues one operation which is no gather, scatter,    *)
(* wait or record.                                                         *)
LEMMA OneOpKeeps ==
  ASSUME Types, NEW r \in Ranks, RankOk(r), NEW i \in Hosts, host' = [host EXCEPT ![r] = i],
         NEW x \in ComputeOps, compute' = [compute EXCEPT ![r] = @ \o <<x>>],
         x.op \in {"zero", "backward", "adamw"}, UNCHANGED <<mgr, comm, events, memory>>,
         HostOk(i), MgrOk(i, mgr[r]), CountOk(i, mgr[r], events[r].recorded),
         EndOk(r, i, compute[r] \o <<x>>, grads[r]), RegionOk(i, compute[r] \o <<x>>, used[r]),
         i.pc # "optimize", x.op = "adamw" => host[r].pc = "optimize"
  PROVE  Types' /\ RankOk(r)' /\ \A q \in Ranks \ {r} : Same(q)
<1> DEFINE q == compute[r]
           a == <<x>>
           w == q \o a
           u == used[r]
           g == grads[r]
           h == host[r]
           n == events[r].completed.ready
           d == events[r].completed.done
           fires == mgr[r].fires
<1>1. /\ q \in Seq(ComputeOps) /\ w \in Seq(ComputeOps) /\ Joined(q, a, w)
      /\ Len(a) = 1 /\ Len(a) > 0 /\ DOMAIN a = {1} /\ a[1] = x
      /\ Len(q) \in Nat /\ Len(w) = Len(q) + 1 /\ w[Len(q) + 1] = x
  BY TypesOf, SingleJoins
<1>2. /\ RegionOk(h, q, u) /\ GatherOk(r, q, g, u) /\ QueueOk(q) /\ TurnOk(q, u, n, fires)
      /\ SyncOk(h, q, u, d) /\ ScatterOk(h, q, g, u)
      /\ StagedOk(r, q, n, u, reduced[r], staged[r])
      /\ HostOk(h)
  BY DEF RankOk
<1>3. n \in Nat /\ fires \in Nat /\ host[r] \in Hosts
  BY TypesOf
<1>4. /\ host' \in [Ranks -> Hosts] /\ host'[r] = i /\ \A y \in Ranks \ {r} : host'[y] = host[y]
      /\ compute' \in [Ranks -> Seq(ComputeOps)] /\ compute'[r] = w
      /\ \A y \in Ranks \ {r} : compute'[y] = compute[y]
  <2>1. compute' = [compute EXCEPT ![r] = w] /\ host \in [Ranks -> Hosts] /\ compute \in [Ranks -> Seq(ComputeOps)]
    BY DEF Types
  <2> HIDE DEF w
  <2> QED BY <1>1, <2>1
<1>5. UNCHANGED <<mgr, comm, events, grads, staged, sent, reduced, used>>
  BY DEF memory
<1>6. x.op \notin {"gather", "ready", "scatter", "wait"}
  OBVIOUS
<1> HIDE DEF a, w, q, u, g, h, n, d, fires
<1>7. ASSUME NEW k \in DOMAIN w, k > Len(q) PROVE k = Len(q) + 1 /\ w[k] = x
  <2>1. k \in 1 .. Len(q) + 1
    BY <1>1 DEF Joined
  <2> QED BY <1>1, <1>7, <2>1
<1>8. GatherOk(r, w, g, u)
  <2>1. \A k \in DOMAIN w : ~(k > Len(q) /\ w[k].op = "gather")
    BY <1>6, <1>7
  <2> QED BY <1>1, <1>2, <2>1, GatherJoin
<1>9. QueueOk(w)
  <2>1. QueueOk(a)
    BY <1>1, <1>6 DEF QueueOk
  <2> QED BY <1>1, <1>2, <1>6, <2>1, QueueJoin
<1>10. TurnOk(w, u, n, fires) /\ Gathered(w, n) = Gathered(q, n)
  BY <1>1, <1>2, <1>3, <1>6, TurnJoin, GatheredJoin
<1>11. ASSUME NEW k \in 1 .. Len(w) + 1, k > Len(q), FirstAdamW(i, w, u, k)
       PROVE  k = Len(q) + 1 /\ k \in Nat /\ k <= Len(q) + 1 /\ k \in 1 .. Len(q) + 1 /\ FirstAdamW(h, q, u, k)
  <2>1. k \in DOMAIN w /\ w[k].op = "adamw"
    BY <1>11 DEF FirstAdamW
  <2>2. k = Len(q) + 1 /\ x.op = "adamw"
    BY <1>7, <1>11, <2>1
  <2>3. k \in Nat /\ k <= Len(q) + 1 /\ k \in 1 .. Len(q) + 1
    BY <1>1, <2>2
  <2>4. First(q, u, k)
    BY <1>1, <1>11, <2>3, FirstJoin DEF FirstAdamW
  <2>5. h.pc = "optimize"
    BY <2>2 DEF h
  <2>6. h.step = 1
    <3>1. h.step = 0 \/ (h.step = 1 /\ h.pc # "top")
      BY <1>2, <2>2, <2>4 DEF RegionOk
    <3>2. h.step # 0
      <4>1. h.step > 0
        BY <1>2, <2>5 DEF HostOk
      <4> QED BY <4>1
    <3> QED BY <3>1, <3>2
  <2> QED BY <2>2, <2>3, <2>4, <2>5, <2>6 DEF FirstAdamW
<1>12. SyncOk(i, w, u, d)
  <2>1. \A k \in DOMAIN w : ~(k > Len(q) /\ w[k].op = "scatter")
    BY <1>6, <1>7
  <2>2. ASSUME NEW k \in 1 .. Len(w) + 1, k > Len(q), FirstAdamW(i, w, u, k) PROVE Synced(w, d, k)
    <3>1. k \in Nat /\ k <= Len(q) + 1 /\ Synced(q, d, k)
      BY <1>2, <1>11, <2>2 DEF SyncOk
    <3> QED BY <1>1, <3>1, SyncedJoin
  <2> QED BY <1>1, <1>2, <2>1, <2>2, SyncJoin
<1>13. ScatterOk(i, w, g, u)
  <2>1. ASSUME NEW k \in 1 .. Len(w) + 1, k > Len(q), FirstAdamW(i, w, u, k), NEW b \in BucketIds PROVE Scattered(w, g, k, b)
    <3>1. k \in Nat /\ k <= Len(q) + 1 /\ Scattered(q, g, k, b)
      BY <1>2, <1>11, <2>1 DEF ScatterOk
    <3> QED BY <1>1, <3>1, ScatteredJoin
  <2> QED BY <1>1, <1>2, <2>1, ScatterJoin
<1>14. StagedOk(r, w, n, u, reduced[r], staged[r])
  BY <1>2, <1>10 DEF StagedOk
<1>15. /\ EndOk(r, i, w, g) /\ RegionOk(i, w, u)
  BY DEF w, g, u, q, a
<1>16. RankOk(r)'
  <2>1. /\ CommOk(comm'[r], reduced'[r], mgr'[r].fires)
        /\ ReadyOk(comm'[r], reduced'[r], events'[r].completed)
        /\ SentOk(r, comm'[r], sent'[r], reduced'[r])
        /\ UsedOk(used'[r], reduced'[r])
    BY <1>5 DEF RankOk
  <2>2. /\ HostOk(host'[r]) /\ MgrOk(host'[r], mgr'[r]) /\ CountOk(host'[r], mgr'[r], events'[r].recorded)
    BY <1>4, <1>5
  <2>3. /\ EndOk(r, host'[r], compute'[r], grads'[r])
        /\ GatherOk(r, compute'[r], grads'[r], used'[r])
        /\ RegionOk(host'[r], compute'[r], used'[r])
        /\ QueueOk(compute'[r])
        /\ TurnOk(compute'[r], used'[r], events'[r].completed.ready, mgr'[r].fires)
    BY <1>4, <1>5, <1>8, <1>9, <1>10, <1>15 DEF u, g, n, fires
  <2>4. /\ SyncOk(host'[r], compute'[r], used'[r], events'[r].completed.done)
        /\ ScatterOk(host'[r], compute'[r], grads'[r], used'[r])
        /\ StagedOk(r, compute'[r], events'[r].completed.ready, used'[r], reduced'[r], staged'[r])
    BY <1>4, <1>5, <1>12, <1>13, <1>14 DEF u, g, n, d
  <2> QED BY <2>1, <2>2, <2>3, <2>4 DEF RankOk
<1>17. Types'
  BY <1>4, <1>5 DEF Types
<1>18. \A y \in Ranks \ {r} : Same(y)
  BY <1>4, <1>5 DEF Same
<1> QED BY <1>16, <1>17, <1>18
(* The top of the step loop. *)
LEMMA StartStepKeeps ==
  ASSUME Types, NEW r \in Ranks, RankOk(r), StartStep(r)
  PROVE  Types' /\ RankOk(r)' /\ \A q \in Ranks \ {r} : Same(q)
<1> DEFINE h == host[r]
           i == [pc |-> "backward", step |-> h.step + 1, micro |-> 1, layer |-> Len(Layers), marks |-> << >>]
           x == [op |-> "zero"]
           q == compute[r]
<1>1. /\ h.pc = "top" /\ h.step < MaxSteps /\ host' = [host EXCEPT ![r] = i]
      /\ compute' = [compute EXCEPT ![r] = @ \o <<x>>]
      /\ UNCHANGED <<mgr, comm, events, memory>>
  BY DEF StartStep, Enqueue
<1>2. h \in Hosts /\ h.step \in Nat /\ MaxSteps \in Nat /\ Accum \in Nat \ {0}
  BY TypesOf, DdpAssumption DEF Hosts
<1>3. i \in Hosts /\ i.pc = "backward" /\ i.step = h.step + 1 /\ i.micro = 1 /\ i.layer = Len(Layers) /\ i.marks = << >>
  BY <1>2, LayerFacts DEF Hosts
<1>4. x \in ComputeOps /\ x.op = "zero"
  BY DEF ComputeOps
<1>5. Len(Layers) \in DOMAIN Layers
  BY LayerFacts
<1> HIDE DEF i, x, h
<1>6. HostOk(i)
  BY <1>1, <1>2, <1>3, <1>5 DEF HostOk
<1>7. Marked(h) = {} /\ Marked(i) = {} /\ \A p : p \notin Passed(i)
  BY <1>1, <1>3, AboveFacts DEF Marked, Passed
<1>8. MgrOk(i, mgr[r])
  <2>1. MgrOk(h, mgr[r])
    BY DEF RankOk, h
  <2> QED BY <1>7, <2>1 DEF MgrOk
<1>9. CountOk(i, mgr[r], events[r].recorded)
  <2>1. CountOk(h, mgr[r], events[r].recorded)
    BY DEF RankOk, h
  <2>2. i.step # 0 /\ (i.step = 1 => h.step = 0) /\ (i.step > 1 => h.step > 1 \/ h.step = 1)
    BY <1>2, <1>3
  <2>3. Cardinality({b \in BucketIds : Members[b] \subseteq Marked(i)}) = 0
    <3>1. {b \in BucketIds : Members[b] \subseteq Marked(i)} = {}
      BY <1>7, BucketFacts
    <3> QED BY <3>1, FS_EmptySet
  <2>4. i.step = 1 => mgr[r].fires = 0
    BY <2>1, <2>2 DEF CountOk
  <2>5. i.step > 1 => mgr[r].fires >= NB
    BY <1>1, <2>1, <2>2 DEF CountOk
  <2>6. mgr[r].fires = events[r].recorded.ready
        /\ \A e \in BucketIds : events[r].recorded.done[e] = IF e <= mgr[r].fires THEN 1 ELSE 0
    BY <2>1 DEF CountOk
  <2> QED BY <1>3, <2>2, <2>3, <2>4, <2>5, <2>6 DEF CountOk
<1>10. /\ q \o <<x>> \in Seq(ComputeOps) /\ Joined(q, <<x>>, q \o <<x>>)
       /\ DOMAIN <<x>> = {1} /\ <<x>>[1] = x
       /\ Len(q) \in Nat /\ Len(q \o <<x>>) = Len(q) + 1 /\ (q \o <<x>>)[Len(q) + 1] = x
  BY <1>4, TypesOf, SingleJoins
<1> DEFINE w == q \o <<x>>
<1> HIDE DEF w, q
<1>11. Len(q) \in Nat /\ Len(w) = Len(q) + 1 /\ w[Len(q) + 1] = x /\ Joined(q, <<x>>, w)
  BY <1>10 DEF w
<1>12. EndOk(r, i, w, grads[r])
  <2> SUFFICES ASSUME NEW p \in Params PROVE Yields(w, grads[r], p, Len(w), Sofar(r, i, p))
    BY DEF EndOk
  <2>1. Sofar(r, i, p) = {}
    <3>1. 1 .. 1 - 1 = {}
      OBVIOUS
    <3> QED BY <1>3, <1>7, <3>1 DEF Sofar
  <2>2. Len(w) \in 1 .. Len(w) /\ Len(w) + 1 .. Len(w) = {}
    BY <1>11
  <2>3. w[Len(w)].op = "zero" /\ Without(w, Len(w) + 1, Len(w), Overwrites) /\ Contrib(w, p, Len(w) + 1, Len(w)) = {}
    BY <1>4, <1>11, <2>2 DEF Without, Contrib
  <2> QED BY <2>1, <2>2, <2>3 DEF Yields
<1>13. RegionOk(i, w, used[r])
  <2>1. RegionOk(h, q, used[r])
    BY DEF RankOk, h, q
  <2>2. \A k \in DOMAIN <<x>> : <<x>>[k].op # "adamw"
    BY <1>4, <1>10
  <2>3. First(w, used[r], Len(w) + 1) <=> First(q, used[r], Len(q) + 1)
    BY <1>11, <2>2, RegionJoin
  <2>4. i.step # 0 /\ (i.step = 1 <=> h.step = 0) /\ i.pc # "top"
    BY <1>2, <1>3
  <2> QED BY <1>1, <2>1, <2>3, <2>4 DEF RegionOk
<1> QED BY <1>1, <1>3, <1>4, <1>6, <1>8, <1>9, <1>12, <1>13, OneOpKeeps DEF w, q

(* opt.step(). *)
LEMMA OptStepKeeps ==
  ASSUME Types, NEW r \in Ranks, RankOk(r), OptStep(r)
  PROVE  Types' /\ RankOk(r)' /\ \A q \in Ranks \ {r} : Same(q)
<1> DEFINE h == host[r]
           i == [h EXCEPT !.pc = "top"]
           x == [op |-> "adamw"]
           q == compute[r]
<1>1. h \in Hosts /\ host \in [Ranks -> Hosts]
  BY TypesOf DEF Types
<1>2. /\ h.pc = "optimize" /\ host' = [host EXCEPT ![r] = i]
      /\ compute' = [compute EXCEPT ![r] = @ \o <<x>>]
      /\ UNCHANGED <<mgr, comm, events, memory>>
  BY <1>1 DEF OptStep, Enqueue
<1>3. i \in Hosts /\ i.pc = "top" /\ i.step = h.step /\ h.step \in Nat
  BY <1>1 DEF Hosts
<1>4. x \in ComputeOps /\ x.op = "adamw"
  BY DEF ComputeOps
<1> HIDE DEF i, x, h
<1>5. HostOk(h) /\ MgrOk(h, mgr[r]) /\ CountOk(h, mgr[r], events[r].recorded) /\ RegionOk(h, q, used[r])
  BY DEF RankOk, h
<1>6. h.step \in 0 .. MaxSteps /\ h.step # 0
  <2>1. h.step \in 0 .. MaxSteps /\ h.step > 0
    BY <1>2, <1>5 DEF HostOk
  <2> QED BY <2>1
<1>7. HostOk(i)
  BY <1>3, <1>6 DEF HostOk
<1>8. Marked(h) = {} /\ Marked(i) = {}
  BY <1>2, <1>3 DEF Marked
<1>9. MgrOk(i, mgr[r])
  BY <1>5, <1>8 DEF MgrOk
<1>10. CountOk(i, mgr[r], events[r].recorded)
  BY <1>2, <1>3, <1>5, <1>6 DEF CountOk
<1> DEFINE w == q \o <<x>>
<1>11. Len(q) \in Nat /\ Len(w) = Len(q) + 1 /\ w[Len(q) + 1] = x
  BY <1>4, TypesOf, SingleJoins
<1>12. EndOk(r, i, w, grads[r])
  BY <1>3 DEF EndOk
<1>13. RegionOk(i, w, used[r])
  <2> HIDE DEF w, q
  <2>1. Len(w) \in 1 .. (Len(w) + 1) - 1 /\ w[Len(w)].op = "adamw"
    BY <1>4, <1>11
  <2>2. ~First(w, used[r], Len(w) + 1)
    BY <2>1 DEF First, Without
  <2> QED BY <1>3, <1>6, <2>2 DEF RegionOk
<1>14. x.op = "adamw" => host[r].pc = "optimize"
  BY <1>2 DEF h
<1> HIDE DEF w, q
<1> QED BY <1>2, <1>3, <1>4, <1>7, <1>9, <1>10, <1>12, <1>13, <1>14, OneOpKeeps DEF w, q

AfterBackward(h) ==
  IF h.micro = Accum THEN [h EXCEPT !.pc = "mark", !.marks = Layers[h.layer]] ELSE AfterLayer(h)

MoreBy(r, h, i) ==
  \A p \in Params : Sofar(r, i, p) = Sofar(r, h, p) \cup (IF p \in Of(h.layer) THEN {<<r, h.step, h.micro>>} ELSE {})

(* Signalled and passed do not change when the gradients of a layer are    *)
(* enqueued, but for the parameters of the layer.                          *)
LEMMA BackwardHost ==
  ASSUME NEW h \in Hosts, HostOk(h), h.pc = "backward", NEW i,
         i = AfterBackward(h)
  PROVE  /\ i \in Hosts /\ HostOk(i) /\ i.step = h.step /\ i.pc \in {"backward", "mark"}
         /\ Marked(i) = Marked(h)
         /\ \A r \in Ranks : MoreBy(r, h, i)
<1>1. /\ h.step \in 0 .. MaxSteps /\ h.step > 0 /\ h.micro \in 1 .. Accum /\ h.layer \in DOMAIN Layers
  BY DEF HostOk
<1>2. Accum \in Nat \ {0} /\ h.micro \in Nat /\ h.layer \in Nat /\ Len(Layers) \in DOMAIN Layers
      /\ h.layer >= 1 /\ Len(Layers[h.layer]) \in Nat \ {0}
  <2>1. Len(Layers) \in Nat \ {0} /\ h.layer \in 1 .. Len(Layers) /\ Len(Layers) \in DOMAIN Layers
    BY <1>1, LayerFacts
  <2>2. Accum \in Nat \ {0} /\ h.micro \in Nat
    BY <1>1, DdpAssumption
  <2>3. Len(Layers[h.layer]) \in Nat \ {0}
    BY <1>1, LayerFacts
  <2>4. h.layer \in Nat /\ h.layer >= 1
    BY <2>1
  <2> QED BY <2>1, <2>2, <2>3, <2>4
<1>3. CASE h.micro = Accum
  <2>1. /\ i.pc = "mark" /\ i.step = h.step /\ i.micro = h.micro /\ i.layer = h.layer /\ i.marks = Layers[h.layer]
        /\ i \in Hosts
    BY <1>1, <1>3, LayerFacts DEF Hosts, AfterBackward
  <2>2. HostOk(i)
    <3>1. 1 \in DOMAIN Layers[h.layer]
      BY <1>1, LayerFacts
    <3>2. Layers[h.layer] = SubSeq(Layers[h.layer], 1, Len(Layers[h.layer]))
      <4>1. Layers[h.layer] \in Seq(Params)
        BY <1>1, LayerFacts
      <4> QED BY <4>1
    <3> QED BY <1>1, <1>3, <2>1, <3>1, <3>2 DEF HostOk
  <2>3. Marked(i) = Marked(h)
    BY <1>3, <2>1 DEF Marked, Of
  <2>4. ASSUME NEW r \in Ranks, NEW p \in Params
        PROVE  Sofar(r, i, p) = Sofar(r, h, p) \cup (IF p \in Of(h.layer) THEN {<<r, h.step, h.micro>>} ELSE {})
    <3>1. Passed(i) = Above(h.layer) \cup Of(h.layer) /\ Passed(h) = Above(h.layer)
      BY <2>1 DEF Passed
    <3> QED BY <2>1, <3>1 DEF Sofar
  <2> QED BY <2>1, <2>2, <2>3, <2>4 DEF MoreBy
<1>4. CASE h.micro # Accum
  <2>1. i = AfterLayer(h) /\ h.micro < Accum
    BY <1>1, <1>2, <1>4 DEF AfterBackward
  <2>2. /\ i \in Hosts /\ i.step = h.step /\ i.pc = "backward"
        /\ \/ h.layer > 1 /\ i.layer = h.layer - 1 /\ i.micro = h.micro
           \/ h.layer = 1 /\ i.layer = Len(Layers) /\ i.micro = h.micro + 1
    BY <1>1, <1>2, <2>1, AfterLayerIs
  <2>3. i.layer \in DOMAIN Layers /\ i.micro \in 1 .. Accum
    BY <1>1, <1>2, <2>1, <2>2, AboveFacts
  <2>4. HostOk(i)
    BY <1>1, <2>2, <2>3 DEF HostOk
  <2>5. Marked(i) = {} /\ Marked(h) = {}
    BY <1>2, <1>4, <2>2, AboveFacts DEF Marked
  <2>6. ASSUME NEW r \in Ranks, NEW p \in Params
        PROVE  Sofar(r, i, p) = Sofar(r, h, p) \cup (IF p \in Of(h.layer) THEN {<<r, h.step, h.micro>>} ELSE {})
    <3>1. Passed(i) = Above(i.layer) /\ Passed(h) = Above(h.layer)
      BY <2>2 DEF Passed
    <3>2. CASE h.layer > 1 /\ i.layer = h.layer - 1 /\ i.micro = h.micro
      <4>1. Passed(i) = Above(h.layer) \cup Of(h.layer)
        BY <1>1, <3>1, <3>2, AboveFacts
      <4> QED BY <2>2, <3>1, <3>2, <4>1 DEF Sofar
    <3>3. CASE h.layer = 1 /\ i.layer = Len(Layers) /\ i.micro = h.micro + 1
      <4>1. Passed(i) = {} /\ (p \in Passed(h) \/ p \in Of(h.layer))
        BY <1>1, <3>1, <3>3, AboveFacts
      <4>2. 1 .. i.micro - 1 = 1 .. h.micro - 1 \cup {h.micro}
        <5>1. h.micro \in Nat /\ h.micro >= 1 /\ i.micro - 1 = h.micro
          BY <1>1, <1>2, <3>3
        <5>2. \A x \in Nat : x >= 1 => 1 .. x = 1 .. x - 1 \cup {x}
          OBVIOUS
        <5> QED BY <5>1, <5>2
      <4>3. Sofar(r, i, p) = {<<r, h.step, m>> : m \in 1 .. h.micro - 1} \cup {<<r, h.step, h.micro>>}
        BY <2>2, <4>1, <4>2 DEF Sofar
      <4> QED BY <4>1, <4>3 DEF Sofar
    <3> QED BY <2>2, <3>2, <3>3
  <2> QED BY <2>2, <2>4, <2>5, <2>6 DEF MoreBy
<1> QED BY <1>3, <1>4

(* backward() of one layer. *)
LEMMA BackwardLayerKeeps ==
  ASSUME Types, NEW r \in Ranks, RankOk(r), BackwardLayer(r)
  PROVE  Types' /\ RankOk(r)' /\ \A q \in Ranks \ {r} : Same(q)
<1> DEFINE h == host[r]
           i == AfterBackward(h)
           x == [op |-> "backward", layer |-> h.layer, batch |-> <<r, h.step, h.micro>>]
           q == compute[r]
<1>1. /\ h.pc = "backward" /\ host' = [host EXCEPT ![r] = i]
      /\ compute' = [compute EXCEPT ![r] = @ \o <<x>>]
      /\ UNCHANGED <<mgr, comm, events, memory>>
  BY DEF BackwardLayer, Enqueue, AfterBackward
<1>2. /\ HostOk(h) /\ MgrOk(h, mgr[r]) /\ CountOk(h, mgr[r], events[r].recorded) /\ RegionOk(h, q, used[r])
      /\ EndOk(r, h, q, grads[r]) /\ h \in Hosts
  BY TypesOf DEF RankOk
<1>3. /\ i \in Hosts /\ HostOk(i) /\ i.step = h.step /\ i.pc \in {"backward", "mark"}
      /\ Marked(i) = Marked(h)
      /\ MoreBy(r, h, i)
  <2> HIDE DEF i, h, x, q
  <2>1. i = AfterBackward(h)
    BY DEF i
  <2> QED BY <1>1, <1>2, <2>1, BackwardHost
<1>4. x \in ComputeOps /\ x.op = "backward" /\ x.layer = h.layer /\ x.batch = <<r, h.step, h.micro>>
  <2>1. h.layer \in DOMAIN Layers
    BY <1>1, <1>2 DEF HostOk
  <2>2. <<r, h.step, h.micro>> \in Batches
    BY <1>2 DEF Batches, Hosts
  <2> HIDE DEF h
  <2> QED BY <2>1, <2>2 DEF ComputeOps
<1> HIDE DEF i, x, h
<1>5. MgrOk(i, mgr[r])
  BY <1>2, <1>3 DEF MgrOk
<1>6. CountOk(i, mgr[r], events[r].recorded)
  BY <1>1, <1>2, <1>3 DEF CountOk
<1> DEFINE w == q \o <<x>>
<1>7. /\ Joined(q, <<x>>, w) /\ DOMAIN <<x>> = {1} /\ <<x>>[1] = x
      /\ Len(q) \in Nat /\ Len(w) = Len(q) + 1 /\ w[Len(q) + 1] = x
  BY <1>4, TypesOf, SingleJoins
<1> HIDE DEF w, q
<1>8. EndOk(r, i, w, grads[r])
  <2> SUFFICES ASSUME NEW p \in Params PROVE Yields(w, grads[r], p, Len(w), Sofar(r, i, p))
    BY DEF EndOk
  <2>1. Yields(q, grads[r], p, Len(q), Sofar(r, h, p))
    BY <1>1, <1>2 DEF EndOk
  <2>2. Len(q) <= Len(q)
    BY <1>7
  <2>3. Yields(w, grads[r], p, Len(q), Sofar(r, h, p))
    BY <1>7, <2>1, <2>2, YieldsJoin
  <2>4. Turns(w[Len(q) + 1], p, Sofar(r, h, p), Sofar(r, i, p)) /\ w[Len(q) + 1].op # "scatter"
    BY <1>3, <1>4, <1>7 DEF Turns, Adds, MoreBy
  <2> QED BY <1>7, <2>3, <2>4, YieldsNext
<1>9. RegionOk(i, w, used[r])
  <2>1. \A k \in DOMAIN <<x>> : <<x>>[k].op # "adamw"
    BY <1>4, <1>7
  <2>2. First(w, used[r], Len(w) + 1) <=> First(q, used[r], Len(q) + 1)
    BY <1>7, <2>1, RegionJoin
  <2> QED BY <1>1, <1>2, <1>3, <2>2 DEF RegionOk
<1>10. i.pc # "optimize" /\ x.op # "adamw"
  BY <1>3, <1>4
<1> QED BY <1>1, <1>3, <1>4, <1>5, <1>6, <1>8, <1>9, <1>10, OneOpKeeps DEF w, q
-----------------------------------------------------------------------------
(* mark_ready().                                                           *)

NextMark(h) ==
  IF Len(h.marks) > 1 THEN [h EXCEPT !.marks = Tail(h.marks)] ELSE AfterLayer([h EXCEPT !.marks = << >>])

(* mark_ready() moves the host past one parameter of the order. *)
LEMMA MarkHost ==
  ASSUME NEW h \in Hosts, HostOk(h), h.pc = "mark", NEW i, i = NextMark(h), NEW p, p = Head(h.marks)
  PROVE  /\ i \in Hosts /\ HostOk(i) /\ i.step = h.step /\ i.pc \in {"mark", "backward", "sync"}
         /\ p \in Params /\ Marked(h) = MarkedBy(p) \ {p} /\ Marked(i) = MarkedBy(p)
         /\ h.step \in 1 .. MaxSteps
         /\ \A r \in Ranks, x \in Params : Sofar(r, i, x) = Sofar(r, h, x)
         /\ \A r \in Ranks, x \in MarkedBy(p) : Sofar(r, h, x) = Local(r, h.step)
<1> DEFINE l == h.layer
           s == h.marks
<1>1. /\ h.step \in 0 .. MaxSteps /\ h.step > 0 /\ h.micro \in 1 .. Accum /\ l \in DOMAIN Layers /\ h.micro = Accum
      /\ \E k \in DOMAIN Layers[l] : s = SubSeq(Layers[l], k, Len(Layers[l]))
  BY DEF HostOk
<1>2. PICK k \in DOMAIN Layers[l] : s = SubSeq(Layers[l], k, Len(Layers[l]))
  BY <1>1
<1>3. /\ s \in Seq(Params) /\ s # << >> /\ Head(s) = Layers[l][k] /\ Layers[l][k] \in Params
      /\ Above(l) \cup (Of(l) \ ToSet(s)) = MarkedBy(Layers[l][k]) \ {Layers[l][k]}
      /\ Len(s) > 1 => /\ k + 1 \in DOMAIN Layers[l] /\ Tail(s) = SubSeq(Layers[l], k + 1, Len(Layers[l]))
                       /\ Above(l) \cup (Of(l) \ ToSet(Tail(s))) = MarkedBy(Layers[l][k])
      /\ ~(Len(s) > 1) => Above(l) \cup Of(l) = MarkedBy(Layers[l][k])
  <2> HIDE DEF l, s
  <2> QED BY <1>1, <1>2, MarksFacts
<1>4. p = Layers[l][k] /\ p \in Params
  BY <1>3
<1>5. Accum \in Nat \ {0} /\ h.step \in 1 .. MaxSteps
  BY <1>1, DdpAssumption
<1>6. Marked(h) = MarkedBy(p) \ {p} /\ Passed(h) = Above(l) \cup Of(l)
  BY <1>1, <1>3, <1>4 DEF Marked, Passed
<1>9. MarkedBy(p) \subseteq Passed(h)
  <2>1. Len(s) > 1 => Above(l) \cup (Of(l) \ ToSet(Tail(s))) = MarkedBy(p)
    BY <1>3, <1>4
  <2>2. ~(Len(s) > 1) => Above(l) \cup Of(l) = MarkedBy(p)
    BY <1>3, <1>4
  <2> QED BY <1>6, <2>1, <2>2
<1>10. ASSUME NEW r \in Ranks, NEW x \in MarkedBy(p) PROVE Sofar(r, h, x) = Local(r, h.step)
  <2>1. 1 .. Accum = 1 .. Accum - 1 \cup {Accum}
    BY <1>5
  <2>2. Sofar(r, h, x) = {<<r, h.step, m>> : m \in 1 .. Accum - 1} \cup {<<r, h.step, Accum>>}
    BY <1>1, <1>9, <1>10 DEF Sofar
  <2> QED BY <2>1, <2>2 DEF Local
<1>7. CASE Len(s) > 1
  <2>1. i = [h EXCEPT !.marks = Tail(s)] /\ Tail(s) \in Seq(Params)
    BY <1>3, <1>7, TailPops DEF NextMark
  <2>2. /\ i \in Hosts /\ i.pc = "mark" /\ i.step = h.step /\ i.micro = h.micro /\ i.layer = l /\ i.marks = Tail(s)
    BY <2>1 DEF Hosts
  <2>3. HostOk(i)
    BY <1>1, <1>3, <1>7, <2>2 DEF HostOk
  <2>4. Marked(i) = MarkedBy(p) /\ Passed(i) = Passed(h)
    BY <1>1, <1>3, <1>4, <1>6, <1>7, <2>2 DEF Marked, Passed
  <2>6. \A r \in Ranks, x \in Params : Sofar(r, i, x) = Sofar(r, h, x)
    BY <2>2, <2>4 DEF Sofar
  <2> QED BY <1>4, <1>5, <1>6, <1>10, <2>2, <2>3, <2>4, <2>6
<1>8. CASE ~(Len(s) > 1)
  <2> DEFINE g == [h EXCEPT !.marks = << >>]
  <2>1. g \in Hosts /\ g.layer = l /\ g.micro = h.micro /\ g.step = h.step
    <3>1. << >> \in Seq(Params)
      OBVIOUS
    <3>2. g = [pc |-> h.pc, step |-> h.step, micro |-> h.micro, layer |-> h.layer, marks |-> << >>]
      BY DEF Hosts
    <3> QED BY <3>1, <3>2 DEF Hosts
  <2>2. i = AfterLayer(g)
    BY <1>8 DEF NextMark
  <2> HIDE DEF g
  <2>3. /\ i \in Hosts /\ i.step = h.step /\ i.micro = h.micro
        /\ \/ l > 1 /\ i.pc = "backward" /\ i.layer = l - 1
           \/ l = 1 /\ i.pc = "sync"
    <3>1. ~(h.micro < Accum)
      BY <1>1, <1>5
    <3>2. g.layer \in DOMAIN Layers /\ g.micro \in 1 .. Accum
      BY <1>1, <2>1
    <3> HIDE DEF l
    <3> QED BY <2>1, <2>2, <3>1, <3>2, AfterLayerIs
  <2>4. HostOk(i)
    <3>1. l > 1 => l - 1 \in DOMAIN Layers
      BY <1>1, AboveFacts
    <3> QED BY <1>1, <2>3, <3>1 DEF HostOk
  <2>5. Above(l) \cup Of(l) = MarkedBy(p)
    BY <1>3, <1>4, <1>8
  <2>6. Marked(i) = MarkedBy(p) /\ Passed(i) = Passed(h)
    <3>1. CASE l > 1 /\ i.pc = "backward" /\ i.layer = l - 1
      <4>1. Above(i.layer) = Above(l) \cup Of(l)
        BY <1>1, <3>1, AboveFacts
      <4> QED BY <1>1, <1>6, <2>3, <2>5, <3>1, <4>1 DEF Marked, Passed
    <3>2. CASE l = 1 /\ i.pc = "sync"
      <4>1. Above(l) \cup Of(l) = Params
        BY <1>1, <3>2, AboveFacts
      <4> QED BY <1>6, <2>5, <3>2, <4>1 DEF Marked, Passed
    <3> QED BY <2>3, <3>1, <3>2
  <2>7. \A r \in Ranks, x \in Params : Sofar(r, i, x) = Sofar(r, h, x)
    BY <2>3, <2>6 DEF Sofar
  <2> QED BY <1>4, <1>5, <1>6, <1>10, <2>3, <2>4, <2>6, <2>7
<1> QED BY <1>7, <1>8, <1>10

(* The bucket of p counts p, and no other does. *)
Counted(p, b, h, i, m) ==
  /\ b \in BucketIds /\ p \in Members[b]
  /\ m.buckets[b].remaining \in Nat \ {0} /\ ~m.buckets[b].fired
  /\ Cardinality(Members[b] \ Marked(i)) = m.buckets[b].remaining - 1
  /\ Completes(m.buckets[b]) <=> Members[b] \subseteq Marked(i)
  /\ Completes(m.buckets[b]) => m.buckets[b].remaining = 1
  /\ \A c \in BucketIds \ {b} : /\ Members[c] \ Marked(i) = Members[c] \ Marked(h)
                                /\ Members[c] \subseteq Marked(i) <=> Members[c] \subseteq Marked(h)

(* The bucket of the parameter has not fired, and fires when no other of   *)
(* its parameters is left.                                                 *)
LEMMA MarkCounts ==
  ASSUME NEW p \in Params, NEW b, b = BucketOf[p], NEW h, NEW i, NEW m, MgrOk(h, m),
         Marked(h) = MarkedBy(p) \ {p}, Marked(i) = MarkedBy(p)
  PROVE  Counted(p, b, h, i, m)
<1>1. b \in BucketIds /\ p \in Members[b] /\ IsFiniteSet(Members[b])
  BY BucketFacts
<1>2. \A c \in BucketIds \ {b} : p \notin Members[c]
  BY <1>1, BucketFacts
<1>3. p \in MarkedBy(p)
  BY OrderFacts
<1> DEFINE S == Members[b] \ Marked(i)
           T == Members[b] \ Marked(h)
           n == m.buckets[b].remaining
<1>4. T = S \cup {p} /\ p \notin S /\ S \in SUBSET Members[b]
  BY <1>1, <1>3
<1>5. IsFiniteSet(S) /\ Cardinality(S) \in Nat /\ Cardinality(T) = Cardinality(S) + 1
  <2> HIDE DEF S, T
  <2>1. IsFiniteSet(S)
    BY <1>1, <1>4, FS_Subset
  <2> QED BY <1>4, <2>1, FS_AddElement, FS_CardinalityType
<1>6. n = Cardinality(T) /\ (m.buckets[b].fired <=> Members[b] \subseteq Marked(h))
  BY <1>1 DEF MgrOk
<1>7. ~m.buckets[b].fired
  BY <1>1, <1>6
<1>8. Cardinality(S) = 0 <=> S = {}
  <2> HIDE DEF S
  <2> QED BY <1>5, FS_EmptySet
<1>9. n \in Nat \ {0} /\ Cardinality(S) = n - 1 /\ (n <= 1 <=> Cardinality(S) = 0) /\ (n <= 1 => n = 1)
  <2> HIDE DEF S, T, n
  <2> QED BY <1>5, <1>6
<1>10. Completes(m.buckets[b]) <=> n <= 1
  BY DEF Completes
<1>11. S = {} <=> Members[b] \subseteq Marked(i)
  OBVIOUS
<1>12. \A c \in BucketIds \ {b} : /\ Members[c] \ Marked(i) = Members[c] \ Marked(h)
                                  /\ Members[c] \subseteq Marked(i) <=> Members[c] \subseteq Marked(h)
  BY <1>2
<1> QED BY <1>1, <1>7, <1>8, <1>9, <1>10, <1>11, <1>12 DEF Counted

(* BucketManager after mark_ready(). *)
LEMMA MarkMgr ==
  ASSUME NEW p \in Params, NEW b, b = BucketOf[p], NEW h, NEW i, NEW m, MgrOk(h, m), NEW n,
         Marked(h) = MarkedBy(p) \ {p}, Marked(i) = MarkedBy(p),
         n.buckets[b].remaining = m.buckets[b].remaining - 1,
         n.buckets[b].fired <=> Completes(m.buckets[b]),
         \A c \in BucketIds \ {b} : n.buckets[c] = m.buckets[c]
  PROVE  MgrOk(i, n)
<1> SUFFICES ASSUME NEW c \in BucketIds
             PROVE  /\ n.buckets[c].remaining = Cardinality(Members[c] \ Marked(i))
                    /\ n.buckets[c].fired <=> Members[c] \subseteq Marked(i)
  BY DEF MgrOk
<1>0. Counted(p, b, h, i, m)
  BY MarkCounts
<1>1. CASE c = b
  BY <1>0, <1>1 DEF Counted
<1>2. CASE c # b
  <2>1. n.buckets[c] = m.buckets[c] /\ Members[c] \ Marked(i) = Members[c] \ Marked(h)
        /\ (Members[c] \subseteq Marked(i) <=> Members[c] \subseteq Marked(h))
    BY <1>0, <1>2 DEF Counted
  <2>2. /\ m.buckets[c].remaining = Cardinality(Members[c] \ Marked(h))
        /\ m.buckets[c].fired <=> Members[c] \subseteq Marked(h)
    BY DEF MgrOk
  <2> QED BY <2>1, <2>2
<1> QED BY <1>1, <1>2

Complete(h) == {b \in BucketIds : Members[b] \subseteq Marked(h)}

(* The buckets complete one more exactly when the bucket of the parameter  *)
(* fires, in its turn.                                                     *)
LEMMA MarkCompletes ==
  ASSUME NEW p \in Params, NEW b, b = BucketOf[p], NEW h, NEW i, NEW m, MgrOk(h, m),
         Marked(h) = MarkedBy(p) \ {p}, Marked(i) = MarkedBy(p)
  PROVE  /\ ~Completes(m.buckets[b]) => Complete(i) = Complete(h)
         /\ Completes(m.buckets[b]) => /\ Cardinality(Complete(i)) = Cardinality(Complete(h)) + 1
                                       /\ Cardinality(Complete(i)) = Turn(b)
<1>0. Counted(p, b, h, i, m)
  BY MarkCounts
<1>1. /\ b \in BucketIds /\ p \in Members[b]
      /\ Completes(m.buckets[b]) <=> Members[b] \subseteq Marked(i)
      /\ \A c \in BucketIds \ {b} : Members[c] \subseteq Marked(i) <=> Members[c] \subseteq Marked(h)
  BY <1>0 DEF Counted
<1>2. ~(Members[b] \subseteq Marked(h))
  BY <1>1
<1>3. Complete(h) \in SUBSET BucketIds /\ b \notin Complete(h)
  BY <1>2 DEF Complete
<1>4. ~Completes(m.buckets[b]) => Complete(i) = Complete(h)
  BY <1>1, <1>2 DEF Complete
<1>5. ASSUME Completes(m.buckets[b])
      PROVE  Cardinality(Complete(i)) = Cardinality(Complete(h)) + 1 /\ Cardinality(Complete(i)) = Turn(b)
  <2>1. Complete(i) = Complete(h) \cup {b}
    BY <1>1, <1>3, <1>5 DEF Complete
  <2>2. IsFiniteSet(Complete(h))
    BY <1>3, BucketFacts, FS_Subset
  <2>3. Cardinality(Complete(i)) = Cardinality(Complete(h)) + 1
    BY <1>3, <2>1, <2>2, FS_AddElement
  <2>4. p = LastOf(b)
    BY <1>1, <1>5, LastUnique
  <2>5. Complete(i) = CompletedBy(p)
    BY DEF Complete, CompletedBy
  <2> QED BY <2>3, <2>4, <2>5 DEF Turn
<1> QED BY <1>4, <1>5

-----------------------------------------------------------------------------
(* A firing on the comm stream. *)
Firing(f, b) ==
  << [op |-> "wait", ready |-> f], [op |-> "reduce", bucket |-> b] >>
    \o IF f \in BucketIds THEN << [op |-> "done", event |-> f] >> ELSE << >>

(* What a firing enqueues on the comm stream. *)
LEMMA FiringIs ==
  ASSUME NEW f \in Nat, NEW b \in BucketIds
  PROVE  /\ Firing(f, b) \in Seq(CommOps)
         /\ Len(Firing(f, b)) = IF f \in BucketIds THEN 3 ELSE 2
         /\ Firing(f, b)[1].op = "wait" /\ Firing(f, b)[1].ready = f
         /\ Firing(f, b)[2].op = "reduce" /\ Firing(f, b)[2].bucket = b
         /\ f \in BucketIds => Firing(f, b)[3].op = "done" /\ Firing(f, b)[3].event = f
<1> DEFINE x == [op |-> "wait", ready |-> f]
           y == [op |-> "reduce", bucket |-> b]
           z == [op |-> "done", event |-> f]
           t == IF f \in BucketIds THEN <<z>> ELSE << >>
<1>1. x \in CommOps /\ x.op = "wait" /\ x.ready = f
  BY DEF CommOps
<1>2. y \in CommOps /\ y.op = "reduce" /\ y.bucket = b
  BY DEF CommOps
<1>3. f \in BucketIds => z \in CommOps /\ z.op = "done" /\ z.event = f
  BY DEF CommOps
<1>4. Firing(f, b) = <<x, y>> \o t
  BY DEF Firing
<1> HIDE DEF x, y, z
<1>5. <<x, y>> \in Seq(CommOps) /\ Len(<<x, y>>) = 2 /\ <<x, y>>[1] = x /\ <<x, y>>[2] = y
  BY <1>1, <1>2
<1>6. t \in Seq(CommOps) /\ Len(t) = (IF f \in BucketIds THEN 1 ELSE 0) /\ (f \in BucketIds => t[1] = z)
  <2>1. CASE f \in BucketIds
    BY <1>3, <2>1
  <2>2. CASE f \notin BucketIds
    BY <2>2
  <2> QED BY <2>1, <2>2
<1> DEFINE s == <<x, y>>
           a == s \o t
<1> HIDE DEF s, t
<1>7. s \in Seq(CommOps) /\ Len(s) = 2 /\ s[1] = x /\ s[2] = y
  BY <1>5 DEF s
<1>8. a \in Seq(CommOps) /\ Joined(s, t, a)
  BY <1>6, <1>7, ConcatJoins
<1> HIDE DEF a
<1>9. Len(a) = 2 + Len(t) /\ a[1] = x /\ a[2] = y /\ (Len(t) = 1 => a[3] = t[1])
  <2>1. 1 \in 1 .. 2 /\ 2 \in 1 .. 2 /\ 1 \in 1 .. 1 /\ 2 + 1 = 3
    OBVIOUS
  <2> QED BY <1>7, <1>8, <2>1 DEF Joined
<1>10. Firing(f, b) = a
  BY <1>4 DEF a, s
<1> QED BY <1>1, <1>2, <1>3, <1>6, <1>8, <1>9, <1>10

(* CommOk when a firing is enqueued. *)
LEMMA CommJoin ==
  ASSUME NEW c \in Seq(CommOps), NEW rd \in Nat, NEW fires \in Nat, CommOk(c, rd, fires), NEW b \in BucketIds,
         fires + 1 <= NB => Turn(b) = fires + 1
  PROVE  /\ c \o Firing(fires + 1, b) \in Seq(CommOps)
         /\ CommOk(c \o Firing(fires + 1, b), rd, fires + 1)
         /\ (c \o Firing(fires + 1, b))[1].op = "reduce" => c # << >> /\ c[1].op = "reduce"
         /\ c # << >> => (c \o Firing(fires + 1, b))[1] = c[1]
         /\ c \o Firing(fires + 1, b) # << >>
<1> DEFINE f == fires + 1
           a == Firing(f, b)
           d == c \o a
           m == Len(c)
<1>1. f \in Nat /\ (f \in BucketIds <=> f <= NB)
  BY BucketFacts
<1>2. /\ a \in Seq(CommOps) /\ Len(a) = IF f \in BucketIds THEN 3 ELSE 2
      /\ a[1].op = "wait" /\ a[1].ready = f
      /\ a[2].op = "reduce" /\ a[2].bucket = b
      /\ f \in BucketIds => a[3].op = "done" /\ a[3].event = f
  <2> HIDE DEF f
  <2> QED BY <1>1, FiringIs
<1>3. d \in Seq(CommOps) /\ Joined(c, a, d)
  <2> HIDE DEF a
  <2> QED BY <1>2, ConcatJoins
<1>4. fires + 1 = f /\ (f <= NB => Turn(b) = f)
  OBVIOUS
<1> HIDE DEF f, a, d, m
<1>5. /\ m \in Nat /\ DOMAIN c = 1 .. m /\ \A k \in 1 .. m : d[k] = c[k]
      /\ DOMAIN d = 1 .. Len(d) /\ Len(d) = m + Len(a) /\ Len(d) \in Nat
      /\ Len(a) \in {2, 3} /\ (Len(a) = 3 <=> f <= NB)
      /\ d[m + 1] = a[1] /\ d[m + 2] = a[2] /\ (f <= NB => d[m + 3] = a[3])
  <2>1. Len(a) \in {2, 3} /\ (Len(a) = 3 <=> f <= NB)
    BY <1>1, <1>2
  <2>2. 1 \in 1 .. Len(a) /\ 2 \in 1 .. Len(a) /\ (f <= NB => 3 \in 1 .. Len(a))
    <3>1. CASE f <= NB
      <4>1. Len(a) = 3
        BY <2>1, <3>1
      <4> QED BY <4>1
    <3>2. CASE ~(f <= NB)
      <4>1. Len(a) = 2
        BY <2>1, <3>2
      <4> QED BY <3>2, <4>1
    <3> QED BY <3>1, <3>2
  <2>3. m \in Nat /\ Len(d) = m + Len(a) /\ Len(d) \in Nat
    BY <1>3, <2>1 DEF Joined, m
  <2>4. /\ DOMAIN c = 1 .. m /\ \A k \in 1 .. m : d[k] = c[k]
        /\ DOMAIN d = 1 .. Len(d)
        /\ \A k \in 1 .. Len(a) : d[m + k] = a[k]
    BY <1>3 DEF Joined, m
  <2> QED BY <2>1, <2>2, <2>3, <2>4
<1>6. /\ m + 1 \in DOMAIN d /\ m + 2 \in DOMAIN d /\ (f <= NB => m + 3 \in DOMAIN d /\ Len(d) = m + 3)
      /\ (~(f <= NB) => Len(d) = m + 2) /\ \A k \in 1 .. m : k \in DOMAIN d
      /\ \A k \in DOMAIN d : k \in 1 .. m \/ k = m + 1 \/ k = m + 2 \/ (k = m + 3 /\ f <= NB)
  <2>1. CASE f <= NB
    <3>1. m \in Nat /\ DOMAIN d = 1 .. m + 3 /\ Len(d) = m + 3
      BY <1>5, <2>1
    <3>2. \A x \in Nat : /\ x + 1 \in 1 .. x + 3 /\ x + 2 \in 1 .. x + 3 /\ x + 3 \in 1 .. x + 3
                         /\ \A k \in 1 .. x : k \in 1 .. x + 3
                         /\ \A k \in 1 .. x + 3 : k \in 1 .. x \/ k = x + 1 \/ k = x + 2 \/ k = x + 3
      OBVIOUS
    <3>3. /\ m + 1 \in DOMAIN d /\ m + 2 \in DOMAIN d /\ m + 3 \in DOMAIN d
          /\ \A k \in 1 .. m : k \in DOMAIN d
          /\ \A k \in DOMAIN d : k \in 1 .. m \/ k = m + 1 \/ k = m + 2 \/ k = m + 3
      BY <3>1, <3>2
    <3> QED BY <2>1, <3>1, <3>3
  <2>2. CASE ~(f <= NB)
    <3>1. m \in Nat /\ DOMAIN d = 1 .. m + 2 /\ Len(d) = m + 2
      <4>1. Len(a) = 2
        BY <1>5, <2>2
      <4> QED BY <1>5, <4>1
    <3> QED BY <2>2, <3>1
  <2> QED BY <2>1, <2>2
<1>7. m = 0 <=> c = << >>
  BY EmptySeq DEF m
<1>8. \A k \in 1 .. m : Num(d, rd, k) = Num(c, rd, k)
  <2> SUFFICES ASSUME NEW k \in 1 .. m PROVE Num(d, rd, k) = Num(c, rd, k)
    OBVIOUS
  <2>1. k # 1 => k - 1 \in 1 .. m
    BY <1>5
  <2> QED BY <1>5, <2>1 DEF Num
<1>9. Num(d, rd, m + 1) = f /\ Num(d, rd, m + 2) = f /\ (f <= NB => Num(d, rd, m + 3) = f)
  <2>1. Num(d, rd, m + 1) = f
    BY <1>2, <1>5 DEF Num
  <2>2. m + 2 # 1 /\ (m + 2) - 1 = m + 1
    BY <1>5
  <2>3. Num(d, rd, m + 2) = f
    BY <1>2, <1>5, <2>2 DEF Num
  <2>4. f <= NB => Num(d, rd, m + 3) = f
    BY <1>1, <1>2, <1>5 DEF Num
  <2> QED BY <2>1, <2>3, <2>4
<1>10. d # << >> /\ Num(d, rd, Len(d)) = f /\ d[Len(d)].op # "wait"
  <2>1. d # << >>
    BY <1>3, <1>5, EmptySeq
  <2>2. CASE f <= NB
    BY <1>1, <1>2, <1>5, <1>6, <1>9, <2>1, <2>2
  <2>3. CASE ~(f <= NB)
    BY <1>2, <1>5, <1>6, <1>9, <2>1, <2>3
  <2> QED BY <2>2, <2>3
<1>11. c # << >> => 1 \in 1 .. m /\ m \in 1 .. m /\ d[1] = c[1]
  BY <1>5, <1>7
<1>12. c = << >> => m + 1 = 1
  BY <1>7
<1>13. Num(d, rd, 1) = IF d[1].op = "done" THEN rd ELSE rd + 1
  <2>1. CASE c = << >>
    <3>1. rd = fires
      BY <2>1 DEF CommOk
    <3> QED BY <1>2, <1>4, <1>5, <1>9, <1>12, <2>1, <3>1
  <2>2. CASE c # << >>
    BY <1>8, <1>11, <2>2 DEF CommOk
  <2> QED BY <2>1, <2>2
<1>14. ASSUME NEW k \in DOMAIN d PROVE CommAt(d, rd, k)
  <2>1. CASE k \in 1 .. m
    <3>1. CommAt(c, rd, k) /\ d[k] = c[k] /\ Num(d, rd, k) = Num(c, rd, k) /\ k \in DOMAIN c
      BY <1>5, <1>8, <2>1 DEF CommOk
    <3>2. k > 1 => k - 1 \in 1 .. m
      BY <1>5, <2>1
    <3>3. k > 1 => d[k - 1] = c[k - 1] /\ Num(d, rd, k - 1) = Num(c, rd, k - 1)
      BY <1>5, <1>8, <3>2
    <3>4. k + 1 \in DOMAIN c => k + 1 \in DOMAIN d /\ d[k + 1] = c[k + 1]
      BY <1>5, <1>6
    <3> QED BY <3>1, <3>3, <3>4 DEF CommAt
  <2>2. CASE k = m + 1
    <3>1. k + 1 = m + 2 /\ (k > 1 => c # << >>) /\ k - 1 = m
      BY <1>5, <1>7, <2>2
    <3>2. d[k].op = "wait" /\ d[k].ready = f /\ d[k + 1].op = "reduce" /\ k + 1 \in DOMAIN d
      BY <1>2, <1>5, <1>6, <2>2, <3>1
    <3>3. c # << >> => Num(c, rd, m) = fires /\ c[m].op # "wait"
      BY DEF CommOk, m
    <3>4. c # << >> => Num(d, rd, m) = fires /\ d[m].op # "wait"
      BY <1>5, <1>8, <1>11, <3>3
    <3> QED BY <1>4, <3>1, <3>2, <3>4 DEF CommAt
  <2>3. CASE k = m + 2
    <3>1. k - 1 = m + 1 /\ k + 1 = m + 3
      BY <1>5, <2>3
    <3>2. d[k].op = "reduce" /\ d[k].bucket = b /\ d[k - 1].op = "wait" /\ Num(d, rd, k) = f
      BY <1>2, <1>5, <1>9, <2>3, <3>1
    <3>3. f <= NB => Turn(b) = f /\ k + 1 \in DOMAIN d /\ d[k + 1].op = "done"
      BY <1>1, <1>2, <1>4, <1>5, <1>6, <3>1
    <3> QED BY <3>2, <3>3 DEF CommAt
  <2>4. CASE k = m + 3 /\ f <= NB
    <3>1. k - 1 = m + 2
      BY <1>5, <2>4
    <3>2. d[k].op = "done" /\ d[k].event = f /\ d[k - 1].op = "reduce" /\ Num(d, rd, k - 1) = f
      BY <1>1, <1>2, <1>5, <1>9, <2>4, <3>1
    <3> QED BY <3>2 DEF CommAt
  <2> QED BY <1>6, <2>1, <2>2, <2>3, <2>4
<1>15. CommOk(d, rd, f)
  BY <1>10, <1>13, <1>14 DEF CommOk
<1>16. d[1].op = "reduce" => c # << >> /\ c[1].op = "reduce"
  BY <1>2, <1>5, <1>11, <1>12
<1> QED BY <1>3, <1>10, <1>11, <1>15, <1>16 DEF d, a, f

(* A turn is a number between 1 and NB. *)
LEMMA TurnNat ==
  ASSUME NEW b \in BucketIds
  PROVE  Turn(b) \in Nat /\ Turn(b) >= 1 /\ Turn(b) <= NB
<1>1. Turn(b) \in 1 .. NB
  BY TurnFacts
<1> QED BY <1>1, BucketFacts

(* TurnOk when a bucket fires in its turn. *)
LEMMA TurnFire ==
  ASSUME NEW q \in Seq(ComputeOps), NEW a, NEW w \in Seq(ComputeOps), Joined(q, a, w), Len(a) > 0,
         NEW b \in BucketIds, a[1].op = "gather", a[1].bucket = b, \A k \in DOMAIN a : k # 1 => a[k].op # "gather",
         NEW u, NEW n \in Nat, NEW fires \in Nat, TurnOk(q, u, n, fires),
         First(q, u, Len(q) + 1) => Turn(b) = fires + 1,
         u = << >> /\ ~First(q, u, Len(q) + 1) => fires >= NB
  PROVE  TurnOk(w, u, n, fires + 1)
<1> SUFFICES ASSUME u = << >> PROVE TurnOk(w, << >>, n, fires + 1)
  BY DEF TurnOk
<1> DEFINE G == Gathered(q, n)
           z == Len(q) + 1
<1>1. Gathered(w, n) = G
  BY GatheredJoin
<1>2. /\ G <= NB /\ G <= fires /\ G \in Nat
      /\ \A k \in DOMAIN q : FirstGather(q, << >>, k) =>
           /\ G < Turn(q[k].bucket) /\ Turn(q[k].bucket) <= fires
           /\ \A j \in 1 .. k - 1 : q[j].op = "gather" => Turn(q[j].bucket) < Turn(q[k].bucket)
      /\ \A m \in 1 .. NB : G < m /\ m <= fires => \E k \in DOMAIN q : FirstGather(q, << >>, k) /\ Turn(q[k].bucket) = m
  <2>1. G \in Nat
    BY DEF Gathered
  <2> QED BY <2>1 DEF TurnOk
<1>3. /\ Len(q) \in Nat /\ DOMAIN q = 1 .. Len(q) /\ z \in Nat /\ z \in DOMAIN w /\ w[z] = a[1]
      /\ \A k \in 1 .. Len(q) : k \in DOMAIN w /\ w[k] = q[k]
  <2>1. Len(q) \in Nat /\ Len(a) \in Nat /\ Len(w) = Len(q) + Len(a) /\ DOMAIN w = 1 .. Len(w) /\ DOMAIN q = 1 .. Len(q)
    BY DEF Joined
  <2>2. 1 \in 1 .. Len(a) /\ z \in 1 .. Len(w) /\ \A k \in 1 .. Len(q) : k \in 1 .. Len(w)
    BY <2>1
  <2> QED BY <2>1, <2>2 DEF Joined
<1> HIDE DEF G, z
<1>4. ASSUME NEW k \in DOMAIN w, w[k].op = "gather"
      PROVE  k \in Nat /\ ((k \in DOMAIN q /\ w[k] = q[k] /\ k <= Len(q)) \/ k = z)
  <2>1. CASE k \in DOMAIN q /\ w[k] = q[k] /\ k <= Len(q)
    BY <1>3, <2>1
  <2>2. CASE k - Len(q) \in DOMAIN a /\ w[k] = a[k - Len(q)] /\ k > Len(q)
    <3>1. k - Len(q) = 1
      BY <1>4, <2>2
    <3>2. k \in Nat
      BY JoinAt
    <3> QED BY <1>3, <3>1, <3>2 DEF z
  <2> QED BY <2>1, <2>2, JoinAt
<1>5. First(w, << >>, z) <=> First(q, << >>, z)
  <2>1. z \in Nat /\ z <= Len(q) + 1
    BY <1>3 DEF z
  <2> QED BY <2>1, FirstJoin
<1>6. First(q, << >>, z) => Turn(b) = fires + 1
  BY DEF z
<1>7. ~First(q, << >>, z) => fires >= NB
  BY DEF z
<1>8. ASSUME NEW k \in DOMAIN w, FirstGather(w, << >>, k)
      PROVE  /\ G < Turn(w[k].bucket) /\ Turn(w[k].bucket) <= fires + 1
             /\ \A j \in 1 .. k - 1 : w[j].op = "gather" => Turn(w[j].bucket) < Turn(w[k].bucket)
  <2>1. w[k].op = "gather" /\ First(w, << >>, k)
    BY <1>8 DEF FirstGather
  <2>2. CASE k \in DOMAIN q /\ w[k] = q[k] /\ k <= Len(q)
    <3>1. k \in Nat /\ k <= Len(q) + 1
      BY <1>3, <2>2
    <3>2. FirstGather(q, << >>, k)
      BY <2>1, <2>2, <3>1, FirstJoin DEF FirstGather
    <3>3. \A j \in 1 .. k - 1 : w[j] = q[j]
      BY <1>3, <2>2
    <3>4. q[k].bucket \in BucketIds
      BY <2>1, <2>2, ElementOfSeq, <1>3, OpTypes
    <3>5. Turn(q[k].bucket) \in Nat
      BY <3>4, TurnNat
    <3>6. /\ G < Turn(q[k].bucket) /\ Turn(q[k].bucket) <= fires
          /\ \A j \in 1 .. k - 1 : q[j].op = "gather" => Turn(q[j].bucket) < Turn(q[k].bucket)
      BY <1>2, <2>2, <3>2
    <3>7. Turn(q[k].bucket) <= fires + 1
      BY <3>5, <3>6
    <3> QED BY <2>2, <3>3, <3>6, <3>7
  <2>3. CASE k = z
    <3>1. Turn(w[k].bucket) = fires + 1 /\ First(q, << >>, z)
      BY <1>3, <1>5, <1>6, <2>1, <2>3
    <3>2. ASSUME NEW j \in 1 .. k - 1, w[j].op = "gather" PROVE Turn(w[j].bucket) < fires + 1
      <4>1. j \in DOMAIN q /\ w[j] = q[j] /\ \A x \in 1 .. j - 1 : x \in 1 .. z - 1
        BY <1>3, <2>3 DEF z
      <4>2. FirstGather(q, << >>, j)
        BY <3>1, <3>2, <4>1 DEF FirstGather, First, Without
      <4>3. Turn(q[j].bucket) <= fires
        BY <1>2, <4>1, <4>2
      <4>4. q[j].bucket \in BucketIds
        BY <3>2, <4>1, ElementOfSeq, <1>3, OpTypes
      <4>5. Turn(q[j].bucket) \in Nat
        BY <4>4, TurnNat
      <4> QED BY <4>1, <4>3, <4>5
    <3> QED BY <1>2, <3>1, <3>2
  <2> QED BY <1>4, <2>1, <2>2, <2>3
<1>9. ASSUME NEW m \in 1 .. NB, G < m, m <= fires + 1
      PROVE  \E k \in DOMAIN w : FirstGather(w, << >>, k) /\ Turn(w[k].bucket) = m
  <2>1. CASE m <= fires
    <3>1. PICK k \in DOMAIN q : FirstGather(q, << >>, k) /\ Turn(q[k].bucket) = m
      BY <1>2, <1>9, <2>1
    <3>2. k \in Nat /\ k <= Len(q) + 1 /\ k \in DOMAIN w /\ w[k] = q[k]
      BY <1>3
    <3>3. FirstGather(w, << >>, k)
      BY <3>1, <3>2, FirstJoin DEF FirstGather
    <3> QED BY <3>1, <3>2, <3>3
  <2>2. CASE m = fires + 1
    <3>1. ~(fires >= NB)
      BY <2>2, BucketFacts
    <3>2. First(w, << >>, z) /\ Turn(b) = m
      BY <1>5, <1>6, <1>7, <2>2, <3>1
    <3>3. FirstGather(w, << >>, z) /\ Turn(w[z].bucket) = m
      BY <1>3, <3>2 DEF FirstGather
    <3> QED BY <1>3, <3>3
  <2>3. m \in Nat
    BY BucketFacts
  <2> QED BY <1>9, <2>1, <2>2, <2>3
<1>10. G <= fires + 1
  BY <1>2
<1> QED BY <1>1, <1>2, <1>8, <1>9, <1>10 DEF TurnOk, G

(* The firing of a bucket keeps the counts. *)
LEMMA FireCounts ==
  ASSUME NEW p \in Params, NEW b, b = BucketOf[p], NEW h, NEW i, NEW m, NEW n, NEW rec, NEW new, MgrOk(h, m),
         Marked(h) = MarkedBy(p) \ {p}, Marked(i) = MarkedBy(p), Completes(m.buckets[b]),
         CountOk(h, m, rec), m.fires \in Nat, rec.done \in [BucketIds -> Nat],
         h.pc = "mark", i.pc \in {"backward", "mark", "sync"}, i.step = h.step, h.step \in Nat, h.step > 0,
         n.fires = m.fires + 1, new.ready = rec.ready + 1,
         \A e \in BucketIds : new.done[e] = rec.done[e] + IF e = m.fires + 1 THEN 1 ELSE 0
  PROVE  /\ CountOk(i, n, new)
         /\ h.step = 1 => Turn(b) = m.fires + 1
         /\ h.step # 1 => m.fires >= NB
<1>1. Cardinality(Complete(i)) = Cardinality(Complete(h)) + 1 /\ Cardinality(Complete(i)) = Turn(b)
  BY MarkCompletes
<1>2. /\ m.fires = rec.ready
      /\ \A e \in BucketIds : rec.done[e] = IF e <= m.fires THEN 1 ELSE 0
      /\ h.step = 1 => m.fires = Cardinality(Complete(h))
      /\ h.step > 1 => m.fires >= NB
  BY DEF CountOk, Complete
<1>3. \A e \in BucketIds : new.done[e] = IF e <= m.fires + 1 THEN 1 ELSE 0
  <2> SUFFICES ASSUME NEW e \in BucketIds PROVE new.done[e] = IF e <= m.fires + 1 THEN 1 ELSE 0
    OBVIOUS
  <2>1. e \in Nat /\ rec.done[e] = (IF e <= m.fires THEN 1 ELSE 0)
        /\ new.done[e] = rec.done[e] + IF e = m.fires + 1 THEN 1 ELSE 0
    BY <1>2, BucketFacts
  <2> DEFINE f == m.fires
             x == rec.done[e]
             y == new.done[e]
  <2>2. f \in Nat /\ x = (IF e <= f THEN 1 ELSE 0) /\ y = x + IF e = f + 1 THEN 1 ELSE 0
    BY <2>1
  <2> HIDE DEF f, x, y
  <2>3. y = IF e <= f + 1 THEN 1 ELSE 0
    BY <2>1, <2>2
  <2> QED BY <2>3 DEF f, y
<1>4. /\ h.step = 1 => Turn(b) = m.fires + 1 /\ n.fires = Cardinality(Complete(i))
      /\ h.step # 1 => h.step > 1 /\ m.fires >= NB /\ n.fires >= NB
  <2>1. h.step = 1 => Turn(b) = m.fires + 1 /\ n.fires = Cardinality(Complete(i))
    BY <1>1, <1>2
  <2>2. NB \in Nat
    BY BucketFacts
  <2>3. h.step # 1 => h.step > 1
    OBVIOUS
  <2> QED BY <1>2, <2>1, <2>2, <2>3
<1>5. CountOk(i, n, new)
  <2>1. n.fires = new.ready /\ i.step # 0
    BY <1>2
  <2>2. \A e \in BucketIds : new.done[e] = IF e <= n.fires THEN 1 ELSE 0
    BY <1>3
  <2> QED BY <1>4, <2>1, <2>2 DEF CountOk, Complete
<1> QED BY <1>4, <1>5

MgrCounts(r, b) == mgr' = [mgr EXCEPT ![r].buckets[b].remaining = @ - 1]

MgrFires(r, b) ==
  mgr' = [mgr EXCEPT ![r].buckets[b] = [remaining |-> 0, fired |-> TRUE], ![r].fires = @ + 1]

EventsFire(r, f, n) ==
  events' = [events EXCEPT ![r].recorded =
    [ ready |-> n, done |-> [e \in BucketIds |-> events[r].recorded.done[e] + IF e = f THEN 1 ELSE 0] ]]

(* What the two do to the manager m of a rank. *)
CanCount(m, b) == b \in BucketIds /\ m.buckets[b].remaining \in Nat \ {0}

Counts(m, n, b) ==
  /\ n.fires = m.fires
  /\ n.buckets[b].remaining = m.buckets[b].remaining - 1 /\ n.buckets[b].fired = m.buckets[b].fired
  /\ \A c \in BucketIds \ {b} : n.buckets[c] = m.buckets[c]

Fires(m, n, b) ==
  /\ n.fires = m.fires + 1
  /\ n.buckets[b].remaining = 0 /\ n.buckets[b].fired = TRUE
  /\ \A c \in BucketIds \ {b} : n.buckets[c] = m.buckets[c]

RecFires(rec, new, f, n) ==
  /\ new.ready = n
  /\ \A e \in BucketIds : new.done[e] = rec.done[e] + IF e = f THEN 1 ELSE 0

(* mark_ready() counts a bucket down. *)
LEMMA QuietMgr ==
  ASSUME Types, NEW r \in Ranks, NEW b, CanCount(mgr[r], b), MgrCounts(r, b)
  PROVE  /\ mgr' \in [Ranks -> Managers] /\ \A q \in Ranks \ {r} : mgr'[q] = mgr[q]
         /\ Counts(mgr[r], mgr'[r], b)
<1> DEFINE m == mgr[r]
           T == [remaining : Nat, fired : BOOLEAN]
           x == [m.buckets[b] EXCEPT !.remaining = @ - 1]
           z == [m.buckets EXCEPT ![b] = x]
           y == [m EXCEPT !.buckets = z]
<1>0. b \in BucketIds /\ m.buckets[b].remaining \in Nat \ {0}
  BY DEF CanCount
<1>1. mgr \in [Ranks -> Managers] /\ m \in Managers /\ m.buckets \in [BucketIds -> T] /\ m.buckets[b] \in T
  <2>1. mgr \in [Ranks -> Managers] /\ m \in Managers
    BY DEF Types
  <2> HIDE DEF m
  <2>2. m.buckets \in [BucketIds -> T]
    BY <2>1 DEF Managers
  <2> HIDE DEF T
  <2> QED BY <1>0, <2>1, <2>2
<1>2. mgr' = [mgr EXCEPT ![r] = y]
  BY <1>0, <1>1 DEF Managers, MgrCounts
<1>3. x \in T /\ x.remaining = m.buckets[b].remaining - 1 /\ x.fired = m.buckets[b].fired
  BY <1>0, <1>1
<1> HIDE DEF x
<1>4. z \in [BucketIds -> T] /\ z[b] = x /\ \A c \in BucketIds \ {b} : z[c] = m.buckets[c]
  <2> HIDE DEF T
  <2> QED BY <1>0, <1>1, <1>3
<1> HIDE DEF z
<1>5. y \in Managers /\ y.buckets = z /\ y.fires = m.fires
  BY <1>1, <1>4 DEF Managers
<1> HIDE DEF y
<1>6. mgr' \in [Ranks -> Managers] /\ mgr'[r] = y /\ \A q \in Ranks \ {r} : mgr'[q] = mgr[q]
  BY <1>1, <1>2, <1>5
<1>7. Counts(m, y, b)
  <2> HIDE DEF m
  <2> QED BY <1>3, <1>4, <1>5 DEF Counts
<1> QED BY <1>6, <1>7

(* mark_ready() fires a bucket. *)
LEMMA FireMgr ==
  ASSUME Types, NEW r \in Ranks, NEW b \in BucketIds,
         MgrFires(r, b)
  PROVE  /\ mgr' \in [Ranks -> Managers] /\ \A q \in Ranks \ {r} : mgr'[q] = mgr[q]
         /\ Fires(mgr[r], mgr'[r], b)
<1> DEFINE m == mgr[r]
           T == [remaining : Nat, fired : BOOLEAN]
           x == [remaining |-> 0, fired |-> TRUE]
           z == [m.buckets EXCEPT ![b] = x]
           y == [buckets |-> z, fires |-> m.fires + 1]
<1>1. mgr \in [Ranks -> Managers] /\ m \in Managers /\ m.buckets \in [BucketIds -> T] /\ m.fires \in Nat
  <2>1. mgr \in [Ranks -> Managers] /\ m \in Managers
    BY DEF Types
  <2> QED BY <2>1 DEF Managers
<1>2. mgr' = [mgr EXCEPT ![r] = y]
  BY <1>1 DEF Managers, MgrFires
<1>3. x \in T /\ x.remaining = 0 /\ x.fired = TRUE
  OBVIOUS
<1> HIDE DEF x
<1>4. z \in [BucketIds -> T] /\ z[b] = x /\ \A c \in BucketIds \ {b} : z[c] = m.buckets[c]
  <2> HIDE DEF T
  <2> QED BY <1>1, <1>3
<1> HIDE DEF z
<1>5. y \in Managers /\ y.buckets = z /\ y.fires = m.fires + 1
  <2>1. m.fires + 1 \in Nat
    BY <1>1
  <2> HIDE DEF m
  <2> QED BY <1>4, <2>1 DEF Managers
<1> HIDE DEF y
<1>6. mgr' \in [Ranks -> Managers] /\ mgr'[r] = y /\ \A q \in Ranks \ {r} : mgr'[q] = mgr[q]
  BY <1>1, <1>2, <1>5
<1>7. Fires(m, y, b)
  <2> HIDE DEF m
  <2> QED BY <1>3, <1>4, <1>5 DEF Fires
<1> QED BY <1>6, <1>7

(* The records that a firing enqueues. *)
LEMMA FireEvents ==
  ASSUME Types, NEW r \in Ranks, NEW f \in Nat, NEW n \in Nat,
         EventsFire(r, f, n)
  PROVE  /\ events' \in [Ranks -> [recorded : Records, completed : Records]]
         /\ \A q \in Ranks \ {r} : events'[q] = events[q]
         /\ events'[r].completed = events[r].completed
         /\ RecFires(events[r].recorded, events'[r].recorded, f, n)
<1> DEFINE old == events[r].recorded.done
           d == [e \in BucketIds |-> old[e] + IF e = f THEN 1 ELSE 0]
           x == [ready |-> n, done |-> d]
           y == [events[r] EXCEPT !.recorded = x]
<1>1. /\ events \in [Ranks -> [recorded : Records, completed : Records]]
      /\ events[r] \in [recorded : Records, completed : Records] /\ old \in [BucketIds -> Nat]
  BY TypesOf DEF Types
<1>2. events' = [events EXCEPT ![r] = y]
  BY <1>1 DEF EventsFire
<1>3. d \in [BucketIds -> Nat]
  <2> HIDE DEF old
  <2> QED BY <1>1
<1>4. \A e \in BucketIds : d[e] = old[e] + IF e = f THEN 1 ELSE 0
  OBVIOUS
<1> HIDE DEF d, old
<1>5. x \in Records /\ x.ready = n /\ x.done = d
  BY <1>3 DEF Records
<1> HIDE DEF x
<1>6. y \in [recorded : Records, completed : Records] /\ y.recorded = x /\ y.completed = events[r].completed
  BY <1>1, <1>5
<1> HIDE DEF y
<1>7. events' \in [Ranks -> [recorded : Records, completed : Records]] /\ events'[r] = y
      /\ \A q \in Ranks \ {r} : events'[q] = events[q]
  BY <1>1, <1>2, <1>6
<1>8. RecFires(events[r].recorded, x, f, n)
  BY <1>4, <1>5 DEF RecFires, old
<1> QED BY <1>6, <1>7, <1>8

(* The gather of a firing. *)
Gathering(b) == << [op |-> "gather", bucket |-> b], [op |-> "ready"] >>

(* What a firing enqueues on the compute stream. *)
LEMMA GatheringIs ==
  ASSUME NEW b \in BucketIds
  PROVE  /\ Gathering(b) \in Seq(ComputeOps) /\ Len(Gathering(b)) = 2 /\ DOMAIN Gathering(b) = 1 .. 2
         /\ Gathering(b)[1].op = "gather" /\ Gathering(b)[1].bucket = b /\ Gathering(b)[2].op = "ready"
         /\ \A k \in DOMAIN Gathering(b) :
              /\ k # 1 => Gathering(b)[k].op # "gather"
              /\ Gathering(b)[k].op \in {"gather", "ready"}
         /\ QueueOk(Gathering(b))
<1> DEFINE x == [op |-> "gather", bucket |-> b]
           y == [op |-> "ready"]
           a == <<x, y>>
<1>1. x \in ComputeOps /\ x.op = "gather" /\ x.bucket = b /\ y \in ComputeOps /\ y.op = "ready"
  BY DEF ComputeOps
<1> HIDE DEF x, y
<1>2. a \in Seq(ComputeOps) /\ Len(a) = 2 /\ DOMAIN a = 1 .. 2 /\ a[1] = x /\ a[2] = y
  BY <1>1
<1> HIDE DEF a
<1>3. \A k \in 1 .. 2 : k = 1 \/ k = 2
  OBVIOUS
<1>4. QueueOk(a)
  <2>1. 1 + 1 \in 1 .. 2 /\ 1 + 1 = 2 /\ 2 - 1 = 1
    OBVIOUS
  <2> QED BY <1>1, <1>2, <1>3, <2>1 DEF QueueOk
<1>5. a = Gathering(b)
  BY DEF a, x, y, Gathering
<1>6. \A k \in DOMAIN a : (k # 1 => a[k].op # "gather") /\ a[k].op \in {"gather", "ready"}
  BY <1>1, <1>2, <1>3
<1> QED BY <1>1, <1>2, <1>4, <1>5, <1>6

(* What is enqueued is at the end. *)
Late(q, a, w) == \A k \in DOMAIN w : k > Len(q) => \E j \in DOMAIN a : k = Len(q) + j /\ w[k] = a[j]

(* What is behind the old stream is what was enqueued. *)
LEMMA JoinLate ==
  ASSUME NEW q, NEW a, NEW w, Joined(q, a, w)
  PROVE  Late(q, a, w)
<1> SUFFICES ASSUME NEW k \in DOMAIN w, k > Len(q) PROVE \E j \in DOMAIN a : k = Len(q) + j /\ w[k] = a[j]
  BY DEF Late
<1>1. Len(q) \in Nat /\ Len(a) \in Nat /\ k \in 1 .. Len(q) + Len(a) /\ DOMAIN a = 1 .. Len(a)
  BY DEF Joined
<1>2. k - Len(q) \in 1 .. Len(a) /\ k = Len(q) + (k - Len(q))
  BY <1>1
<1>3. w[Len(q) + (k - Len(q))] = a[k - Len(q)]
  BY <1>2 DEF Joined
<1> QED BY <1>1, <1>2, <1>3

(* A firing: the host and the manager, the counts, and the two streams. *)
HostFired(r, h, i, p, b) ==
  /\ i \in Hosts /\ HostOk(i) /\ i.step = h.step /\ i.pc \in {"mark", "backward", "sync"}
  /\ p \in Params /\ Marked(h) = MarkedBy(p) \ {p} /\ Marked(i) = MarkedBy(p)
  /\ h.step \in 1 .. MaxSteps /\ b \in BucketIds
  /\ \A y \in Params : Sofar(r, i, y) = Sofar(r, h, y)
  /\ \A y \in Members[b] : Sofar(r, h, y) = Local(r, h.step)

FiredCounts(h, i, b, f, n, new) ==
  /\ CountOk(i, n, new)
  /\ h.step = 1 => Turn(b) = f + 1
  /\ h.step # 1 => f >= NB

ComputeFired(r, i, q, w, g, u, d, x, f) ==
  /\ w \in Seq(ComputeOps) /\ EndOk(r, i, w, g) /\ GatherOk(r, w, g, u) /\ RegionOk(i, w, u) /\ QueueOk(w)
  /\ TurnOk(w, u, x, f + 1) /\ Gathered(w, x) = Gathered(q, x)
  /\ SyncOk(i, w, u, d) /\ ScatterOk(i, w, g, u)

CommFired(c, v, rd, f) ==
  /\ v \in Seq(CommOps) /\ CommOk(v, rd, f + 1)
  /\ v[1].op = "reduce" => c # << >> /\ c[1].op = "reduce"
  /\ c # << >> => v[1] = c[1]
  /\ v # << >>

(* The compute stream when a bucket fires: its gather will find the        *)
(* gradients of the step complete.                                         *)
LEMMA FireCompute ==
  ASSUME NEW r \in Ranks, NEW h \in Hosts, h.pc = "mark", NEW i, NEW p, NEW b, HostFired(r, h, i, p, b),
         NEW fires \in Nat, NEW m, NEW new, FiredCounts(h, i, b, fires, m, new),
         NEW q \in Seq(ComputeOps), NEW w, w = q \o Gathering(b), NEW g, NEW u, NEW d, NEW n \in Nat,
         EndOk(r, h, q, g), GatherOk(r, q, g, u), RegionOk(h, q, u), QueueOk(q), TurnOk(q, u, n, fires),
         SyncOk(h, q, u, d), ScatterOk(h, q, g, u)
  PROVE  ComputeFired(r, i, q, w, g, u, d, n, fires)
<1> SUFFICES ASSUME i \in Hosts, p \in Params, b \in BucketIds,
                    i.pc \in {"mark", "backward", "sync"}, i.step = h.step, h.step \in 1 .. MaxSteps,
                    \A x \in Params : Sofar(r, i, x) = Sofar(r, h, x),
                    \A x \in Members[b] : Sofar(r, h, x) = Local(r, h.step),
                    h.step = 1 => Turn(b) = fires + 1, h.step # 1 => fires >= NB
             PROVE  /\ w \in Seq(ComputeOps) /\ EndOk(r, i, w, g) /\ GatherOk(r, w, g, u) /\ RegionOk(i, w, u) /\ QueueOk(w)
                    /\ TurnOk(w, u, n, fires + 1) /\ Gathered(w, n) = Gathered(q, n)
                    /\ SyncOk(i, w, u, d) /\ ScatterOk(i, w, g, u)
  BY Zenon DEF HostFired, FiredCounts, ComputeFired
<1> DEFINE a == Gathering(b)
           z == Len(q) + 1
<1>1. /\ a \in Seq(ComputeOps) /\ Len(a) = 2 /\ DOMAIN a = 1 .. 2
      /\ a[1].op = "gather" /\ a[1].bucket = b /\ a[2].op = "ready"
      /\ \A k \in DOMAIN a : (k # 1 => a[k].op # "gather") /\ a[k].op \in {"gather", "ready"}
      /\ QueueOk(a)
  BY GatheringIs
<1>2. w \in Seq(ComputeOps) /\ Joined(q, a, w)
  <2> HIDE DEF a
  <2>1. w = q \o a
    BY DEF a
  <2> QED BY <1>1, <2>1, ConcatJoins
<1> HIDE DEF a
<1>3. /\ Len(q) \in Nat /\ Len(w) = Len(q) + 2 /\ w[Len(q) + 1] = a[1] /\ w[Len(q) + 2] = a[2]
      /\ Len(a) > 0 /\ a[1].op # "ready" /\ DOMAIN q = 1 .. Len(q) /\ DOMAIN w = 1 .. Len(w)
  <2>1. 1 \in 1 .. 2 /\ 2 \in 1 .. 2 /\ 2 > 0
    OBVIOUS
  <2> QED BY <1>1, <1>2, <2>1 DEF Joined
<1>30. \A k \in DOMAIN w : k > Len(q) => \E j \in DOMAIN a : k = Len(q) + j /\ w[k] = a[j]
  <2>1. Late(q, a, w)
    BY <1>2, JoinLate
  <2> QED BY <2>1 DEF Late
<1>4. h.step \in Nat /\ h.step > 0 /\ h.step # 0 /\ i.pc # "optimize" /\ i.pc # "top" /\ h.pc # "top"
  OBVIOUS
<1>5. First(q, u, z) => h.step = 1
  BY <1>4 DEF RegionOk
<1>6. ASSUME NEW x \in Params, NEW V, Yields(q, g, x, Len(q), V) PROVE Yields(w, g, x, Len(q), V)
  <2>1. Len(q) <= Len(q)
    BY <1>3
  <2> QED BY <1>2, <1>3, <1>6, <2>1, YieldsJoin
<1>7. \A x \in Params : Yields(w, g, x, Len(q), Sofar(r, h, x))
  BY <1>6 DEF EndOk
<1>8. EndOk(r, i, w, g)
  <2> SUFFICES ASSUME NEW x \in Params PROVE Yields(w, g, x, Len(w), Sofar(r, i, x))
    BY DEF EndOk
  <2> DEFINE V == Sofar(r, h, x)
  <2>1. Sofar(r, i, x) = V /\ Yields(w, g, x, Len(q), V)
    BY <1>7
  <2> HIDE DEF V
  <2>2. Turns(a[1], x, V, V) /\ Turns(a[2], x, V, V)
    BY <1>1 DEF Turns, Adds
  <2>3. Yields(w, g, x, Len(q) + 1, V)
    <3>1. w[Len(q) + 1].op # "scatter" /\ Turns(w[Len(q) + 1], x, V, V)
      BY <1>1, <1>3, <2>2
    <3> QED BY <1>3, <2>1, <3>1, YieldsNext
  <2>4. Len(q) + 1 \in Nat /\ (Len(q) + 1) + 1 = Len(q) + 2
    BY <1>3
  <2>5. Yields(w, g, x, (Len(q) + 1) + 1, V)
    <3>1. w[(Len(q) + 1) + 1].op # "scatter" /\ Turns(w[(Len(q) + 1) + 1], x, V, V)
      BY <1>1, <1>3, <2>2, <2>4
    <3> QED BY <2>3, <2>4, <3>1, YieldsNext
  <2> QED BY <1>3, <2>1, <2>4, <2>5
<1>9. GatherOk(r, w, g, u)
  <2> SUFFICES ASSUME NEW k \in DOMAIN w, k > Len(q), w[k].op = "gather"
               PROVE  \E s \in 1 .. MaxSteps :
                        /\ First(w, u, k) => s = 1
                        /\ \A x \in Members[w[k].bucket] : Yields(w, g, x, k - 1, Local(r, s))
    BY <1>2, GatherJoin
  <2>1. k = Len(q) + 1 /\ k = z /\ k - 1 = Len(q)
    <3>1. PICK j \in DOMAIN a : k = Len(q) + j /\ w[k] = a[j]
      BY <1>30
    <3>2. j = 1
      BY <1>1, <3>1
    <3> QED BY <1>3, <3>1, <3>2
  <2>2. First(w, u, k) => h.step = 1
    <3>1. z \in Nat /\ z <= Len(q) + 1
      BY <1>3
    <3>2. First(w, u, z) <=> First(q, u, z)
      <4> HIDE DEF z
      <4> QED BY <1>2, <3>1, FirstJoin
    <3> QED BY <1>5, <2>1, <3>2
  <2>3. w[k].bucket = b
    BY <1>1, <1>3, <2>1
  <2>4. \A x \in Members[b] : x \in Params
    BY BucketFacts
  <2>5. \A x \in Members[b] : Yields(w, g, x, k - 1, Local(r, h.step))
    BY <1>7, <2>1, <2>4
  <2> QED BY <2>2, <2>3, <2>5
<1>10. \A k \in DOMAIN a : a[k].op # "adamw" /\ a[k].op # "scatter"
  BY <1>1
<1>11. RegionOk(i, w, u)
  <2>1. First(w, u, Len(w) + 1) <=> First(q, u, Len(q) + 1)
    BY <1>2, <1>10, RegionJoin
  <2> QED BY <1>4, <2>1 DEF RegionOk
<1>12. QueueOk(w)
  BY <1>1, <1>2, <1>3, QueueJoin
<1>13. Gathered(w, n) = Gathered(q, n)
  BY <1>2, <1>3, GatheredJoin
<1>14. TurnOk(w, u, n, fires + 1)
  <2>1. First(q, u, Len(q) + 1) => Turn(b) = fires + 1
    BY <1>5
  <2>2. u = << >> /\ ~First(q, u, Len(q) + 1) => fires >= NB
    <3>1. u = << >> /\ ~First(q, u, Len(q) + 1) => h.step # 1
      BY <1>4 DEF RegionOk
    <3> QED BY <3>1
  <2>3. \A k \in DOMAIN a : k # 1 => a[k].op # "gather"
    BY <1>1
  <2> QED BY <1>1, <1>2, <1>3, <2>1, <2>2, <2>3, TurnFire
<1>15. ASSUME NEW k \in DOMAIN w, k > Len(q) PROVE w[k].op # "scatter" /\ w[k].op # "adamw"
  <2>1. PICK j \in DOMAIN a : k = Len(q) + j /\ w[k] = a[j]
    BY <1>15, <1>30
  <2> QED BY <1>10, <2>1
<1>16. \A k \in 1 .. Len(w) + 1 : ~(k > Len(q) /\ FirstAdamW(i, w, u, k))
  BY <1>4, <1>15 DEF FirstAdamW
<1>17. SyncOk(i, w, u, d)
  BY <1>2, <1>3, <1>15, <1>16, SyncJoin
<1>18. ScatterOk(i, w, g, u)
  BY <1>2, <1>3, <1>16, ScatterJoin
<1> QED BY <1>2, <1>8, <1>9, <1>11, <1>12, <1>13, <1>14, <1>17, <1>18

(* The invariant when a bucket is counted down, part by part. *)
LEMMA MarkQuiet ==
  ASSUME NEW r \in Ranks, NEW h \in Hosts, HostOk(h), h.pc = "mark", NEW i, i = NextMark(h), NEW b, b = BucketOf[Head(h.marks)],
         NEW m, MgrOk(h, m), ~Completes(m.buckets[b]), NEW n, CanCount(m, b) => Counts(m, n, b),
         NEW rec, CountOk(h, m, rec), NEW q, NEW g, NEW u, NEW d,
         EndOk(r, h, q, g), RegionOk(h, q, u), SyncOk(h, q, u, d), ScatterOk(h, q, g, u)
  PROVE  /\ i \in Hosts /\ HostOk(i) /\ CanCount(m, b) /\ MgrOk(i, n) /\ CountOk(i, n, rec) /\ n.fires = m.fires
         /\ EndOk(r, i, q, g) /\ RegionOk(i, q, u) /\ SyncOk(i, q, u, d) /\ ScatterOk(i, q, g, u)
<1> DEFINE p == Head(h.marks)
<1>1. b = BucketOf[p]
  OBVIOUS
<1>2. /\ i \in Hosts /\ HostOk(i) /\ i.step = h.step /\ i.pc \in {"mark", "backward", "sync"}
      /\ p \in Params /\ Marked(h) = MarkedBy(p) \ {p} /\ Marked(i) = MarkedBy(p)
      /\ h.step \in 1 .. MaxSteps
      /\ \A x \in Params : Sofar(r, i, x) = Sofar(r, h, x)
  BY MarkHost
<1> HIDE DEF p
<1>3. Counted(p, b, h, i, m)
  BY <1>1, <1>2, MarkCounts
<1>4. CanCount(m, b)
  BY <1>3 DEF Counted, CanCount
<1>5. Counts(m, n, b)
  BY <1>4
<1>6. MgrOk(i, n)
  <2>1. /\ n.buckets[b].remaining = m.buckets[b].remaining - 1 /\ (n.buckets[b].fired <=> Completes(m.buckets[b]))
        /\ \A c \in BucketIds \ {b} : n.buckets[c] = m.buckets[c]
    BY <1>3, <1>5 DEF Counted, Counts
  <2> QED BY <1>1, <1>2, <2>1, MarkMgr
<1>7. CountOk(i, n, rec)
  <2>1. Complete(i) = Complete(h)
    BY <1>1, <1>2, MarkCompletes
  <2>2. h.step \in Nat /\ h.step > 0 /\ n.fires = m.fires
    BY <1>2, <1>5 DEF Counts
  <2>3. /\ m.fires = rec.ready
        /\ \A e \in BucketIds : rec.done[e] = IF e <= m.fires THEN 1 ELSE 0
        /\ h.step = 1 => m.fires = Cardinality(Complete(h))
        /\ h.step > 1 => m.fires >= NB
    BY DEF CountOk, Complete
  <2> QED BY <1>2, <2>1, <2>2, <2>3 DEF CountOk, Complete
<1>8. EndOk(r, i, q, g)
  BY <1>2 DEF EndOk
<1>9. RegionOk(i, q, u)
  BY <1>2 DEF RegionOk
<1>10. \A k : FirstAdamW(i, q, u, k) => FirstAdamW(h, q, u, k)
  BY <1>2 DEF FirstAdamW
<1>11. SyncOk(i, q, u, d) /\ ScatterOk(i, q, g, u)
  BY <1>10 DEF SyncOk, ScatterOk
<1>12. n.fires = m.fires
  BY <1>5 DEF Counts
<1> QED BY <1>2, <1>4, <1>6, <1>7, <1>8, <1>9, <1>11, <1>12

(* mark_ready() without a firing. *)
LEMMA MarkQuietKeeps ==
  ASSUME Types, NEW r \in Ranks, RankOk(r), host[r].pc = "mark", NEW b, b = BucketOf[Head(host[r].marks)],
         host' = [host EXCEPT ![r] = NextMark(host[r])], ~Completes(mgr[r].buckets[b]),
         MgrCounts(r, b), UNCHANGED <<streams, events, memory>>
  PROVE  Types' /\ RankOk(r)' /\ \A q \in Ranks \ {r} : Same(q)
<1> DEFINE h == host[r]
           i == NextMark(h)
           m == mgr[r]
           n == mgr'[r]
           q == compute[r]
           g == grads[r]
           u == used[r]
           rec == events[r].recorded
           d == events[r].completed.done
<1>1. /\ HostOk(h) /\ MgrOk(h, m) /\ CountOk(h, m, rec) /\ EndOk(r, h, q, g) /\ RegionOk(h, q, u)
      /\ SyncOk(h, q, u, d) /\ ScatterOk(h, q, g, u)
  BY DEF RankOk
<1>2. h \in Hosts /\ h.pc = "mark" /\ b = BucketOf[Head(h.marks)]
  BY TypesOf
<1>3. ~Completes(m.buckets[b]) /\ host' = [host EXCEPT ![r] = i]
  OBVIOUS
<1>4. UNCHANGED <<compute, comm, events, grads, staged, sent, reduced, used>>
  BY DEF streams, memory
<1>5. CanCount(m, b) => Counts(m, n, b) /\ mgr' \in [Ranks -> Managers] /\ \A x \in Ranks \ {r} : mgr'[x] = mgr[x]
  BY QuietMgr
<1>6. i = NextMark(h)
  OBVIOUS
<1> HIDE DEF h, i, m, n, q, g, u, rec, d
<1>7. /\ i \in Hosts /\ HostOk(i) /\ CanCount(m, b) /\ MgrOk(i, n) /\ CountOk(i, n, rec) /\ n.fires = m.fires
      /\ EndOk(r, i, q, g) /\ RegionOk(i, q, u) /\ SyncOk(i, q, u, d) /\ ScatterOk(i, q, g, u)
  BY <1>1, <1>2, <1>3, <1>5, <1>6, MarkQuiet
<1>8. /\ host' \in [Ranks -> Hosts] /\ host'[r] = i /\ \A y \in Ranks \ {r} : host'[y] = host[y]
  <2>1. host \in [Ranks -> Hosts]
    BY DEF Types
  <2> QED BY <1>3, <1>7, <2>1
<1>9. RankOk(r)'
  <2>1. /\ GatherOk(r, compute'[r], grads'[r], used'[r])
        /\ QueueOk(compute'[r])
        /\ TurnOk(compute'[r], used'[r], events'[r].completed.ready, mgr[r].fires)
        /\ CommOk(comm'[r], reduced'[r], mgr[r].fires)
        /\ ReadyOk(comm'[r], reduced'[r], events'[r].completed)
        /\ StagedOk(r, compute'[r], events'[r].completed.ready, used'[r], reduced'[r], staged'[r])
        /\ SentOk(r, comm'[r], sent'[r], reduced'[r])
        /\ UsedOk(used'[r], reduced'[r])
    BY <1>4 DEF RankOk
  <2>2. mgr'[r].fires = mgr[r].fires
    BY <1>7 DEF n, m
  <2>3. /\ HostOk(host'[r]) /\ MgrOk(host'[r], mgr'[r]) /\ CountOk(host'[r], mgr'[r], events'[r].recorded)
        /\ EndOk(r, host'[r], compute'[r], grads'[r]) /\ RegionOk(host'[r], compute'[r], used'[r])
    BY <1>4, <1>7, <1>8 DEF n, rec, q, g, u
  <2>4. /\ SyncOk(host'[r], compute'[r], used'[r], events'[r].completed.done)
        /\ ScatterOk(host'[r], compute'[r], grads'[r], used'[r])
    BY <1>4, <1>7, <1>8 DEF q, g, u, d
  <2> QED BY <2>1, <2>2, <2>3, <2>4 DEF RankOk
<1>10. Types'
  BY <1>4, <1>5, <1>7, <1>8 DEF Types
<1>11. \A y \in Ranks \ {r} : Same(y)
  BY <1>4, <1>5, <1>7, <1>8 DEF Same
<1> QED BY <1>9, <1>10, <1>11

(* The streams and events after Fire. *)
LEMMA FireIs ==
  ASSUME NEW r \in Ranks, NEW b, Fire(r, b), events[r].recorded.ready = mgr[r].fires
  PROVE  /\ compute' = [compute EXCEPT ![r] = compute[r] \o Gathering(b)]
         /\ comm' = [comm EXCEPT ![r] = comm[r] \o Firing(mgr[r].fires + 1, b)]
         /\ EventsFire(r, mgr[r].fires + 1, events[r].recorded.ready + 1)
<1> DEFINE n == events[r].recorded.ready + 1
           f == mgr[r].fires + 1
<1>1. n = f
  OBVIOUS
<1>2. compute' = [compute EXCEPT ![r] = compute[r] \o Gathering(b)]
  BY DEF Fire, Enqueue, Gathering
<1>3. comm' = [comm EXCEPT ![r] = comm[r] \o
        (<< [op |-> "wait", ready |-> n], [op |-> "reduce", bucket |-> b] >>
          \o IF f \in BucketIds THEN << [op |-> "done", event |-> f] >> ELSE << >>)]
  BY Zenon DEF Fire, Enqueue
<1>4. EventsFire(r, f, n)
  BY Zenon DEF Fire, EventsFire
<1> HIDE DEF n, f
<1>5. comm' = [comm EXCEPT ![r] = comm[r] \o Firing(f, b)]
  BY <1>1, <1>3 DEF Firing
<1> QED BY <1>2, <1>4, <1>5 DEF n, f

(* The host and the bucket when it fires. *)
LEMMA FireHost ==
  ASSUME NEW r \in Ranks, NEW h \in Hosts, HostOk(h), h.pc = "mark", NEW i, i = NextMark(h),
         NEW p, p = Head(h.marks), NEW b, b = BucketOf[p], NEW m, MgrOk(h, m), Completes(m.buckets[b])
  PROVE  HostFired(r, h, i, p, b)
<1>1. /\ i \in Hosts /\ HostOk(i) /\ i.step = h.step /\ i.pc \in {"mark", "backward", "sync"}
      /\ p \in Params /\ Marked(h) = MarkedBy(p) \ {p} /\ Marked(i) = MarkedBy(p)
      /\ h.step \in 1 .. MaxSteps
      /\ \A y \in Params : Sofar(r, i, y) = Sofar(r, h, y)
      /\ \A y \in MarkedBy(p) : Sofar(r, h, y) = Local(r, h.step)
  BY MarkHost
<1>2. Counted(p, b, h, i, m)
  BY <1>1, MarkCounts
<1>3. b \in BucketIds /\ Members[b] \subseteq MarkedBy(p)
  BY <1>1, <1>2 DEF Counted
<1> QED BY <1>1, <1>3 DEF HostFired

(* MgrOk when a bucket fires. *)
LEMMA FireMgrOk ==
  ASSUME NEW r, NEW h, NEW i, NEW p, NEW b, b = BucketOf[p], HostFired(r, h, i, p, b),
         NEW m, MgrOk(h, m), Completes(m.buckets[b]), NEW n, Fires(m, n, b)
  PROVE  MgrOk(i, n)
<1>1. p \in Params /\ Marked(h) = MarkedBy(p) \ {p} /\ Marked(i) = MarkedBy(p)
  BY DEF HostFired
<1>2. Counted(p, b, h, i, m)
  BY <1>1, MarkCounts
<1>3. m.buckets[b].remaining = 1
  BY <1>2 DEF Counted
<1>4. /\ n.buckets[b].remaining = m.buckets[b].remaining - 1 /\ (n.buckets[b].fired <=> Completes(m.buckets[b]))
      /\ \A y \in BucketIds \ {b} : n.buckets[y] = m.buckets[y]
  BY <1>3 DEF Fires
<1> QED BY <1>1, <1>4, MarkMgr

(* CountOk when a bucket fires, and the turn it has in the first step. *)
LEMMA FireCountOk ==
  ASSUME NEW r, NEW h, h.pc = "mark", NEW i, NEW p, NEW b, b = BucketOf[p], HostFired(r, h, i, p, b),
         NEW m, MgrOk(h, m), Completes(m.buckets[b]), m.fires \in Nat, NEW n, Fires(m, n, b),
         NEW rec, rec.done \in [BucketIds -> Nat], CountOk(h, m, rec), NEW new,
         RecFires(rec, new, m.fires + 1, rec.ready + 1)
  PROVE  FiredCounts(h, i, b, m.fires, n, new)
<1>1. /\ p \in Params /\ Marked(h) = MarkedBy(p) \ {p} /\ Marked(i) = MarkedBy(p)
      /\ i.step = h.step /\ i.pc \in {"backward", "mark", "sync"} /\ h.step \in 1 .. MaxSteps
  BY DEF HostFired
<1>2. n.fires = m.fires + 1 /\ new.ready = rec.ready + 1
      /\ \A e \in BucketIds : new.done[e] = rec.done[e] + IF e = m.fires + 1 THEN 1 ELSE 0
  BY DEF Fires, RecFires
<1>3. h.step \in Nat /\ h.step > 0
  BY <1>1
<1>4. /\ CountOk(i, n, new)
      /\ h.step = 1 => Turn(b) = m.fires + 1
      /\ h.step # 1 => m.fires >= NB
  BY <1>1, <1>2, <1>3, FireCounts
<1> QED BY <1>4 DEF FiredCounts

(* The comm stream when a bucket fires. *)
LEMMA FireCommOk ==
  ASSUME NEW r, NEW h, NEW i, NEW p, NEW b, HostFired(r, h, i, p, b),
         NEW f \in Nat, NEW n, NEW new, FiredCounts(h, i, b, f, n, new),
         NEW c \in Seq(CommOps), NEW rd \in Nat, CommOk(c, rd, f), NEW v, v = c \o Firing(f + 1, b)
  PROVE  CommFired(c, v, rd, f)
<1>1. b \in BucketIds
  BY DEF HostFired
<1>2. f + 1 <= NB => Turn(b) = f + 1
  <2>1. NB \in Nat
    BY BucketFacts
  <2> QED BY <2>1 DEF FiredCounts
<1> DEFINE t == c \o Firing(f + 1, b)
<1>3. /\ t \in Seq(CommOps) /\ CommOk(t, rd, f + 1)
      /\ t[1].op = "reduce" => c # << >> /\ c[1].op = "reduce"
      /\ c # << >> => t[1] = c[1]
      /\ t # << >>
  BY <1>1, <1>2, CommJoin
<1>4. v = t
  OBVIOUS
<1> HIDE DEF t
<1> QED BY <1>3, <1>4 DEF CommFired

(* What a rank is in before a firing, and what the firing makes of it. *)
Marking(r, b, h, m, rec, q, x, g, u, d, c, rd) ==
  /\ HostOk(h) /\ MgrOk(h, m) /\ CountOk(h, m, rec) /\ EndOk(r, h, q, g) /\ RegionOk(h, q, u)
  /\ SyncOk(h, q, u, d) /\ ScatterOk(h, q, g, u)
  /\ GatherOk(r, q, g, u) /\ QueueOk(q) /\ TurnOk(q, u, x, m.fires) /\ CommOk(c, rd, m.fires)
  /\ h \in Hosts /\ m.fires \in Nat /\ q \in Seq(ComputeOps) /\ c \in Seq(CommOps) /\ x \in Nat
  /\ rec.done \in [BucketIds -> Nat] /\ rec.ready \in Nat /\ rd \in Nat
  /\ h.pc = "mark" /\ b = BucketOf[Head(h.marks)] /\ Completes(m.buckets[b])

AllFired(r, i, n, new, q, w, x, g, u, d, c, v, rd) ==
  /\ i \in Hosts /\ HostOk(i) /\ MgrOk(i, n) /\ CountOk(i, n, new)
  /\ w \in Seq(ComputeOps) /\ EndOk(r, i, w, g) /\ GatherOk(r, w, g, u) /\ RegionOk(i, w, u) /\ QueueOk(w)
  /\ TurnOk(w, u, x, n.fires) /\ Gathered(w, x) = Gathered(q, x)
  /\ SyncOk(i, w, u, d) /\ ScatterOk(i, w, g, u)
  /\ v \in Seq(CommOps) /\ CommOk(v, rd, n.fires)
  /\ v[1].op = "reduce" => c # << >> /\ c[1].op = "reduce"
  /\ c # << >> => v[1] = c[1]
  /\ v # << >>

(* The bucket that fires is the one of the parameter signalled. *)
LEMMA MarkBucket ==
  ASSUME NEW r \in Ranks, NEW b, NEW h, NEW m, NEW rec, NEW q, NEW x, NEW g, NEW u, NEW d, NEW c, NEW rd,
         Marking(r, b, h, m, rec, q, x, g, u, d, c, rd)
  PROVE  HostFired(r, h, NextMark(h), Head(h.marks), b)
<1> SUFFICES ASSUME h \in Hosts, HostOk(h), h.pc = "mark", b = BucketOf[Head(h.marks)], MgrOk(h, m),
                    Completes(m.buckets[b])
             PROVE  HostFired(r, h, NextMark(h), Head(h.marks), b)
  BY DEF Marking
<1> QED BY FireHost

(* The invariant when a bucket fires, part by part. *)
LEMMA MarkFire ==
  ASSUME NEW r \in Ranks, NEW b, NEW h, NEW m, NEW rec, NEW q, NEW x, NEW g, NEW u, NEW d, NEW c, NEW rd,
         Marking(r, b, h, m, rec, q, x, g, u, d, c, rd),
         NEW n, Fires(m, n, b), NEW new, RecFires(rec, new, m.fires + 1, rec.ready + 1),
         NEW w, w = q \o Gathering(b), NEW v, v = c \o Firing(m.fires + 1, b)
  PROVE  AllFired(r, NextMark(h), n, new, q, w, x, g, u, d, c, v, rd)
<1> DEFINE i == NextMark(h)
           p == Head(h.marks)
           f == m.fires
<1>1. HostFired(r, h, i, p, b)
  BY MarkBucket
<1>2. /\ HostOk(h) /\ MgrOk(h, m) /\ CountOk(h, m, rec) /\ EndOk(r, h, q, g) /\ RegionOk(h, q, u)
      /\ SyncOk(h, q, u, d) /\ ScatterOk(h, q, g, u)
      /\ GatherOk(r, q, g, u) /\ QueueOk(q) /\ TurnOk(q, u, x, f) /\ CommOk(c, rd, f)
      /\ h \in Hosts /\ f \in Nat /\ q \in Seq(ComputeOps) /\ c \in Seq(CommOps) /\ x \in Nat
      /\ rec.done \in [BucketIds -> Nat] /\ rd \in Nat
      /\ h.pc = "mark" /\ b = BucketOf[p] /\ Completes(m.buckets[b])
  BY DEF Marking
<1> HIDE DEF i, p
<1>3. MgrOk(i, n)
  BY <1>1, <1>2, FireMgrOk
<1>4. FiredCounts(h, i, b, f, n, new)
  BY <1>1, <1>2, FireCountOk
<1>5. v = c \o Firing(f + 1, b)
  OBVIOUS
<1>6. n.fires = f + 1
  BY DEF Fires
<1> HIDE DEF f
<1>7. ComputeFired(r, i, q, w, g, u, d, x, f)
  BY <1>1, <1>2, <1>4, FireCompute
<1>8. CommFired(c, v, rd, f)
  BY <1>1, <1>2, <1>4, <1>5, FireCommOk
<1> QED BY <1>1, <1>3, <1>4, <1>6, <1>7, <1>8 DEF i, HostFired, FiredCounts, ComputeFired, CommFired, AllFired

MarkStep(r) == host' = [host EXCEPT ![r] = NextMark(host[r])]

FiringStep(r, b) ==
  /\ host[r].pc = "mark" /\ b = BucketOf[Head(host[r].marks)] /\ Completes(mgr[r].buckets[b])
  /\ MarkStep(r) /\ MgrFires(r, b) /\ Fire(r, b) /\ UNCHANGED memory

(* mark_ready() with a firing. *)
LEMMA MarkFireKeeps ==
  ASSUME Types, NEW r \in Ranks, RankOk(r), NEW b, FiringStep(r, b)
  PROVE  Types' /\ RankOk(r)' /\ \A q \in Ranks \ {r} : Same(q)
<1> DEFINE h == host[r]
           i == NextMark(h)
           m == mgr[r]
           n == mgr'[r]
           q == compute[r]
           w == q \o Gathering(b)
           c == comm[r]
           v == c \o Firing(m.fires + 1, b)
           g == grads[r]
           u == used[r]
           rd == reduced[r]
           rec == events[r].recorded
           new == events'[r].recorded
           cmp == events[r].completed
           x == cmp.ready
           d == cmp.done
<1>1. /\ HostOk(h) /\ MgrOk(h, m) /\ CountOk(h, m, rec) /\ EndOk(r, h, q, g) /\ RegionOk(h, q, u)
      /\ SyncOk(h, q, u, d) /\ ScatterOk(h, q, g, u)
      /\ GatherOk(r, q, g, u) /\ QueueOk(q) /\ TurnOk(q, u, x, m.fires)
      /\ CommOk(c, rd, m.fires) /\ ReadyOk(c, rd, cmp)
      /\ StagedOk(r, q, x, u, rd, staged[r]) /\ SentOk(r, c, sent[r], rd)
      /\ UsedOk(u, rd)
  BY DEF RankOk
<1>2. /\ h \in Hosts /\ m.fires \in Nat /\ q \in Seq(ComputeOps) /\ c \in Seq(CommOps) /\ x \in Nat
      /\ rec.done \in [BucketIds -> Nat] /\ rec.ready \in Nat /\ rd \in Nat
  BY TypesOf
<1>3. Completes(m.buckets[b]) /\ host' = [host EXCEPT ![r] = i] /\ h.pc = "mark" /\ b = BucketOf[Head(h.marks)]
  BY DEF FiringStep, MarkStep
<1>4. UNCHANGED <<grads, staged, sent, reduced, used>>
  BY DEF FiringStep, memory
<1>5. rec.ready = m.fires
  BY <1>1 DEF CountOk
<1>6. /\ compute' = [compute EXCEPT ![r] = w] /\ comm' = [comm EXCEPT ![r] = v]
      /\ EventsFire(r, m.fires + 1, rec.ready + 1)
  <2>1. Fire(r, b) /\ events[r].recorded.ready = mgr[r].fires
    BY <1>5 DEF FiringStep
  <2> HIDE DEF h, i, m, n, q, g, u, rd, rec, new, cmp, x, d, w, c, v
  <2>2. /\ compute' = [compute EXCEPT ![r] = compute[r] \o Gathering(b)]
        /\ comm' = [comm EXCEPT ![r] = comm[r] \o Firing(mgr[r].fires + 1, b)]
        /\ EventsFire(r, mgr[r].fires + 1, events[r].recorded.ready + 1)
    BY <2>1, FireIs
  <2> QED BY Zenon, <2>2 DEF w, v, q, c, m, rec
<1>7. b \in BucketIds => Fires(m, n, b) /\ mgr' \in [Ranks -> Managers] /\ \A y \in Ranks \ {r} : mgr'[y] = mgr[y]
  <2>1. MgrFires(r, b)
    BY DEF FiringStep
  <2> HIDE DEF h, i, q, g, u, rd, rec, new, cmp, x, d, w, c, v
  <2> QED BY <2>1, FireMgr
<1>8. /\ events' \in [Ranks -> [recorded : Records, completed : Records]]
      /\ \A y \in Ranks \ {r} : events'[y] = events[y]
      /\ events'[r].completed = events[r].completed
      /\ RecFires(events[r].recorded, events'[r].recorded, m.fires + 1, rec.ready + 1)
  <2>1. m.fires + 1 \in Nat /\ rec.ready + 1 \in Nat
    <3> HIDE DEF m, rec
    <3> QED BY <1>2
  <2>2. EventsFire(r, m.fires + 1, rec.ready + 1)
    BY <1>6
  <2> DEFINE f == m.fires + 1
             k == rec.ready + 1
  <2> HIDE DEF h, i, m, n, q, g, u, rd, rec, new, cmp, x, d, w, c, v
  <2>3. f \in Nat /\ k \in Nat /\ EventsFire(r, f, k)
    BY <2>1, <2>2
  <2> HIDE DEF f, k
  <2>4. /\ events' \in [Ranks -> [recorded : Records, completed : Records]]
        /\ \A y \in Ranks \ {r} : events'[y] = events[y]
        /\ events'[r].completed = events[r].completed
        /\ RecFires(events[r].recorded, events'[r].recorded, f, k)
    BY <2>3, FireEvents
  <2> QED BY <2>4 DEF f, k
<1>9. i = NextMark(h) /\ w = q \o Gathering(b) /\ v = c \o Firing(m.fires + 1, b)
      /\ events'[r].completed = cmp /\ RecFires(rec, new, m.fires + 1, rec.ready + 1)
  BY <1>8
<1>18. Marking(r, b, h, m, rec, q, x, g, u, d, c, rd)
  <2> HIDE DEF h, i, m, n, q, w, c, v, g, u, rd, rec, new, cmp, x, d
  <2> QED BY <1>1, <1>2, <1>3 DEF Marking
<1>19. Fires(m, n, b) /\ b \in BucketIds
  <2>1. HostFired(r, h, NextMark(h), Head(h.marks), b)
    <3> HIDE DEF h, i, m, n, q, w, c, v, g, u, rd, rec, new, cmp, x, d
    <3> QED BY <1>18, MarkBucket
  <2>2. b \in BucketIds
    BY <2>1 DEF HostFired
  <2> QED BY <1>7, <2>2
<1>20. AllFired(r, NextMark(h), n, new, q, w, x, g, u, d, c, v, rd)
  <2> HIDE DEF h, i, m, n, q, w, c, v, g, u, rd, rec, new, cmp, x, d
  <2>1. /\ Marking(r, b, h, m, rec, q, x, g, u, d, c, rd) /\ Fires(m, n, b)
        /\ RecFires(rec, new, m.fires + 1, rec.ready + 1)
        /\ w = q \o Gathering(b) /\ v = c \o Firing(m.fires + 1, b)
    BY <1>9, <1>18, <1>19
  <2> QED BY <2>1, MarkFire
<1> HIDE DEF h, i, m, n, q, w, c, v, g, u, rd, rec, new, cmp, x, d
<1>10. /\ i \in Hosts /\ HostOk(i) /\ MgrOk(i, n) /\ CountOk(i, n, new)
       /\ w \in Seq(ComputeOps) /\ EndOk(r, i, w, g) /\ GatherOk(r, w, g, u) /\ RegionOk(i, w, u) /\ QueueOk(w)
       /\ TurnOk(w, u, x, n.fires) /\ Gathered(w, x) = Gathered(q, x)
       /\ SyncOk(i, w, u, d) /\ ScatterOk(i, w, g, u)
       /\ v \in Seq(CommOps) /\ CommOk(v, rd, n.fires)
       /\ v[1].op = "reduce" => c # << >> /\ c[1].op = "reduce"
       /\ c # << >> => v[1] = c[1]
       /\ v # << >>
  BY <1>9, <1>20 DEF AllFired
<1>11. ReadyOk(v, rd, cmp)
  BY <1>1, <1>10 DEF ReadyOk
<1>12. SentOk(r, v, sent[r], rd)
  BY <1>1, <1>10 DEF SentOk
<1>13. StagedOk(r, w, x, u, rd, staged[r])
  BY <1>1, <1>10 DEF StagedOk
<1>14. /\ host' \in [Ranks -> Hosts] /\ host'[r] = i /\ \A y \in Ranks \ {r} : host'[y] = host[y]
       /\ compute' \in [Ranks -> Seq(ComputeOps)] /\ compute'[r] = w /\ \A y \in Ranks \ {r} : compute'[y] = compute[y]
       /\ comm' \in [Ranks -> Seq(CommOps)] /\ comm'[r] = v /\ \A y \in Ranks \ {r} : comm'[y] = comm[y]
  <2>1. host \in [Ranks -> Hosts] /\ compute \in [Ranks -> Seq(ComputeOps)] /\ comm \in [Ranks -> Seq(CommOps)]
    BY DEF Types
  <2>2. host' \in [Ranks -> Hosts] /\ host'[r] = i /\ \A y \in Ranks \ {r} : host'[y] = host[y]
    BY <1>3, <1>10, <2>1
  <2>3. compute' \in [Ranks -> Seq(ComputeOps)] /\ compute'[r] = w /\ \A y \in Ranks \ {r} : compute'[y] = compute[y]
    BY <1>6, <1>10, <2>1
  <2>4. comm' \in [Ranks -> Seq(CommOps)] /\ comm'[r] = v /\ \A y \in Ranks \ {r} : comm'[y] = comm[y]
    BY <1>6, <1>10, <2>1
  <2> QED BY <2>2, <2>3, <2>4
<1>15. RankOk(r)'
  <2>1. /\ HostOk(host'[r]) /\ MgrOk(host'[r], mgr'[r]) /\ CountOk(host'[r], mgr'[r], events'[r].recorded)
    BY <1>10, <1>14 DEF n, new
  <2>2. /\ EndOk(r, host'[r], compute'[r], grads'[r])
        /\ GatherOk(r, compute'[r], grads'[r], used'[r])
        /\ RegionOk(host'[r], compute'[r], used'[r])
        /\ QueueOk(compute'[r])
    BY <1>4, <1>10, <1>14 DEF g, u
  <2>3. events'[r].completed = cmp
    BY <1>9
  <2>4. TurnOk(compute'[r], used'[r], events'[r].completed.ready, mgr'[r].fires)
    BY <1>4, <1>10, <1>14, <2>3 DEF u, n, x
  <2>5. /\ CommOk(comm'[r], reduced'[r], mgr'[r].fires)
        /\ ReadyOk(comm'[r], reduced'[r], events'[r].completed)
        /\ SentOk(r, comm'[r], sent'[r], reduced'[r])
    BY <1>4, <1>10, <1>11, <1>12, <1>14, <2>3 DEF rd, n
  <2>6. /\ SyncOk(host'[r], compute'[r], used'[r], events'[r].completed.done)
        /\ ScatterOk(host'[r], compute'[r], grads'[r], used'[r])
    BY <1>4, <1>10, <1>14, <2>3 DEF g, u, d
  <2>7. /\ StagedOk(r, compute'[r], events'[r].completed.ready, used'[r], reduced'[r], staged'[r])
        /\ UsedOk(used'[r], reduced'[r])
    BY <1>1, <1>4, <1>13, <1>14, <2>3 DEF u, rd, x
  <2> QED BY <2>1, <2>2, <2>4, <2>5, <2>6, <2>7 DEF RankOk
<1>26. mgr' \in [Ranks -> Managers] /\ \A y \in Ranks \ {r} : mgr'[y] = mgr[y]
  BY <1>7, <1>19
<1>16. Types'
  BY <1>4, <1>26, <1>8, <1>14 DEF Types
<1>17. \A y \in Ranks \ {r} : Same(y)
  BY <1>4, <1>26, <1>8, <1>14 DEF Same
<1> QED BY <1>15, <1>16, <1>17

MarkingIs(r, b) ==
  /\ host[r].pc = "mark" /\ b = BucketOf[Head(host[r].marks)] /\ MarkStep(r)
  /\ \/ Completes(mgr[r].buckets[b]) /\ Fire(r, b) /\ MgrFires(r, b)
     \/ ~Completes(mgr[r].buckets[b]) /\ MgrCounts(r, b) /\ UNCHANGED <<streams, events>>
  /\ UNCHANGED memory

(* mark_ready(). *)
LEMMA MarkReadyKeeps ==
  ASSUME Types, NEW r \in Ranks, RankOk(r), MarkReady(r)
  PROVE  Types' /\ RankOk(r)' /\ \A q \in Ranks \ {r} : Same(q)
<1>1. ASSUME NEW b, b = BucketOf[Head(host[r].marks)] PROVE MarkingIs(r, b)
  <2>1. host[r].pc = "mark" /\ MarkStep(r) /\ UNCHANGED memory
    BY Zenon DEF MarkReady, NextMark, MarkStep
  <2>2. CASE Completes(mgr[r].buckets[b])
    <3>1. Fire(r, b)
      BY Zenon, <1>1, <2>2 DEF MarkReady, Fire
    <3>2. MgrFires(r, b)
      BY Zenon, <1>1, <2>2 DEF MarkReady, MgrFires
    <3> QED BY <1>1, <2>1, <2>2, <3>1, <3>2 DEF MarkingIs
  <2>3. CASE ~Completes(mgr[r].buckets[b])
    <3>1. MgrCounts(r, b) /\ UNCHANGED <<streams, events>>
      BY Zenon, <1>1, <2>3 DEF MarkReady, MgrCounts
    <3> QED BY <1>1, <2>1, <2>3, <3>1 DEF MarkingIs
  <2> QED BY <2>2, <2>3
<1>2. PICK b : MarkingIs(r, b)
  BY <1>1
<1>3. CASE Completes(mgr[r].buckets[b])
  <2>1. FiringStep(r, b)
    BY <1>2, <1>3 DEF MarkingIs, FiringStep
  <2> QED BY <2>1, MarkFireKeeps
<1>4. CASE ~Completes(mgr[r].buckets[b])
  <2>1. /\ host[r].pc = "mark" /\ host' = [host EXCEPT ![r] = NextMark(host[r])]
        /\ MgrCounts(r, b) /\ UNCHANGED <<streams, events, memory>>
        /\ b = BucketOf[Head(host[r].marks)]
    BY <1>2, <1>4 DEF MarkingIs, MarkStep
  <2> QED BY <1>4, <2>1, MarkQuietKeeps
<1> QED BY <1>3, <1>4

-----------------------------------------------------------------------------
(* sync_and_finalize().                                                    *)

Waits(done) == [b \in BucketIds |-> [op |-> "wait", event |-> b, n |-> done[b]]]

Scatters == [b \in BucketIds |-> [op |-> "scatter", bucket |-> b]]

Syncing(done) == Waits(done) \o Scatters

(* What sync_and_finalize() enqueues: a wait for every event, then a       *)
(* scatter of every bucket.                                                *)
LEMMA SyncingIs ==
  ASSUME NEW done \in [BucketIds -> Nat]
  PROVE  /\ Syncing(done) \in Seq(ComputeOps) /\ Len(Syncing(done)) = NB + NB
         /\ \A k \in 1 .. NB : /\ Syncing(done)[k].op = "wait" /\ Syncing(done)[k].event = k
                               /\ Syncing(done)[k].n = done[k]
                               /\ Syncing(done)[NB + k].op = "scatter" /\ Syncing(done)[NB + k].bucket = k
<1> DEFINE x == Waits(done)
           y == Scatters
           a == x \o y
<1>1. NB \in Nat /\ BucketIds = 1 .. NB
  BY BucketFacts
<1>2. /\ x \in Seq(ComputeOps) /\ Len(x) = NB
      /\ \A k \in 1 .. NB : x[k].op = "wait" /\ x[k].event = k /\ x[k].n = done[k]
  <2>1. ASSUME NEW k \in 1 .. NB
        PROVE  x[k] \in ComputeOps /\ x[k].op = "wait" /\ x[k].event = k /\ x[k].n = done[k]
    <3> DEFINE z == [op |-> "wait", event |-> k, n |-> done[k]]
    <3>1. k \in BucketIds
      BY <1>1
    <3>2. x[k] = z
      BY <3>1 DEF Waits
    <3>3. z \in ComputeOps /\ z.op = "wait" /\ z.event = k /\ z.n = done[k]
      BY <3>1 DEF ComputeOps
    <3> HIDE DEF z, x
    <3> QED BY <3>2, <3>3
  <2>2. x = [k \in 1 .. NB |-> x[k]]
    BY <1>1 DEF Waits
  <2> HIDE DEF x
  <2> QED BY <1>1, <2>1, <2>2
<1>3. /\ y \in Seq(ComputeOps) /\ Len(y) = NB
      /\ \A k \in 1 .. NB : y[k].op = "scatter" /\ y[k].bucket = k
  <2>1. ASSUME NEW k \in 1 .. NB
        PROVE  y[k] \in ComputeOps /\ y[k].op = "scatter" /\ y[k].bucket = k
    <3> DEFINE z == [op |-> "scatter", bucket |-> k]
    <3>1. k \in BucketIds
      BY <1>1
    <3>2. y[k] = z
      BY <3>1 DEF Scatters
    <3>3. z \in ComputeOps /\ z.op = "scatter" /\ z.bucket = k
      BY <3>1 DEF ComputeOps
    <3> HIDE DEF z, y
    <3> QED BY <3>2, <3>3
  <2>2. y = [k \in 1 .. NB |-> y[k]]
    BY <1>1 DEF Scatters
  <2> HIDE DEF y
  <2> QED BY <1>1, <2>1, <2>2
<1>4. Syncing(done) = a
  BY DEF Syncing
<1> HIDE DEF x, y
<1>5. a \in Seq(ComputeOps) /\ Joined(x, y, a)
  BY <1>2, <1>3, ConcatJoins
<1> HIDE DEF a
<1>6. Len(a) = NB + NB /\ \A k \in 1 .. NB : a[k] = x[k] /\ a[NB + k] = y[k]
  BY <1>1, <1>2, <1>3, <1>5 DEF Joined
<1> QED BY <1>2, <1>3, <1>4, <1>5, <1>6

(* All the buckets of the step have fired. *)
LEMMA SyncCounts ==
  ASSUME NEW h, h.pc = "sync", HostOk(h), NEW i, i.pc = "optimize", i.step = h.step,
         NEW m, NEW rec, m.fires \in Nat, CountOk(h, m, rec)
  PROVE  /\ CountOk(i, m, rec)
         /\ h.step \in Nat /\ h.step > 0
         /\ h.step = 1 => \A e \in BucketIds : rec.done[e] = 1
<1>1. NB \in Nat /\ BucketIds = 1 .. NB /\ \A b \in BucketIds : Members[b] \subseteq Params
  BY BucketFacts
<1>2. h.step \in Nat /\ h.step > 0
  <2>1. h.step \in 0 .. MaxSteps
    BY DEF HostOk
  <2>2. h.step > 0
    BY DEF HostOk
  <2> QED BY <2>1, <2>2
<1>3. {b \in BucketIds : Members[b] \subseteq Marked(h)} = BucketIds
  BY <1>1 DEF Marked
<1>4. Cardinality(BucketIds) = NB
  <2>1. Cardinality(1 .. NB) = NB
    BY <1>1, FS_Interval
  <2> QED BY <1>1, <2>1
<1>5. /\ m.fires = rec.ready
      /\ \A e \in BucketIds : rec.done[e] = IF e <= m.fires THEN 1 ELSE 0
      /\ h.step = 1 => m.fires = Cardinality({b \in BucketIds : Members[b] \subseteq Marked(h)})
      /\ h.step > 1 => m.fires >= NB
  BY DEF CountOk
<1>6. h.step = 1 => m.fires = NB
  BY <1>3, <1>4, <1>5
<1>7. h.step # 0 /\ (h.step = 1 => m.fires >= NB)
  BY <1>1, <1>2, <1>6
<1>8. CountOk(i, m, rec)
  BY <1>5, <1>7 DEF CountOk
<1>9. h.step = 1 => \A e \in BucketIds : rec.done[e] = 1
  BY <1>1, <1>5, <1>6
<1> QED BY <1>2, <1>8, <1>9

(* begin_step(). *)
LEMMA SyncMgr ==
  ASSUME NEW i, i.pc = "optimize", NEW n, n.buckets = FreshBuckets
  PROVE  MgrOk(i, n)
<1> SUFFICES ASSUME NEW b \in BucketIds
             PROVE  /\ n.buckets[b].remaining = Cardinality(Members[b] \ Marked(i))
                    /\ n.buckets[b].fired <=> Members[b] \subseteq Marked(i)
  BY DEF MgrOk
<1>1. Marked(i) = {}
  BY DEF Marked
<1>2. Members[b] # {} /\ Cardinality(Members[b]) = Len(Buckets[b])
  BY BucketFacts
<1>3. n.buckets[b].remaining = Len(Buckets[b]) /\ n.buckets[b].fired = FALSE
  <2>1. n.buckets[b] = [remaining |-> Len(Buckets[b]), fired |-> FALSE]
    BY DEF FreshBuckets
  <2> QED BY <2>1
<1>4. Members[b] \ Marked(i) = Members[b] /\ ~(Members[b] \subseteq Marked(i))
  BY <1>1, <1>2
<1> QED BY <1>2, <1>3, <1>4

Synchronised(r, i, q, w, g, u, d, x, f) ==
  /\ w \in Seq(ComputeOps) /\ EndOk(r, i, w, g) /\ GatherOk(r, w, g, u) /\ RegionOk(i, w, u) /\ QueueOk(w)
  /\ TurnOk(w, u, x, f) /\ Gathered(w, x) = Gathered(q, x)
  /\ SyncOk(i, w, u, d) /\ ScatterOk(i, w, g, u)

(* The compute stream after sync_and_finalize(): in the first step every   *)
(* wait is for a record.                                                   *)
LEMMA SyncCompute ==
  ASSUME NEW r \in Ranks, NEW h, h.pc = "sync", NEW i, i.pc = "optimize", i.step = h.step, h.step \in Nat, h.step > 0,
         NEW done \in [BucketIds -> Nat], h.step = 1 => \A e \in BucketIds : done[e] = 1,
         NEW q \in Seq(ComputeOps), NEW w, w = q \o Syncing(done), NEW g, NEW u, NEW d, NEW x \in Nat, NEW fires \in Nat,
         GatherOk(r, q, g, u), RegionOk(h, q, u), QueueOk(q), TurnOk(q, u, x, fires),
         SyncOk(h, q, u, d), ScatterOk(h, q, g, u)
  PROVE  Synchronised(r, i, q, w, g, u, d, x, fires)
<1> DEFINE a == Syncing(done)
           l == Len(q)
<1>1. /\ a \in Seq(ComputeOps) /\ Len(a) = NB + NB /\ NB \in Nat \ {0} /\ BucketIds = 1 .. NB
      /\ \A k \in 1 .. NB : /\ a[k].op = "wait" /\ a[k].event = k /\ a[k].n = done[k]
                            /\ a[NB + k].op = "scatter" /\ a[NB + k].bucket = k
  <2>1. NB \in Nat \ {0} /\ BucketIds = 1 .. NB
    BY BucketFacts
  <2>2. a \in Seq(ComputeOps) /\ Len(a) = NB + NB
    BY SyncingIs
  <2>3. \A k \in 1 .. NB : /\ a[k].op = "wait" /\ a[k].event = k /\ a[k].n = done[k]
                           /\ a[NB + k].op = "scatter" /\ a[NB + k].bucket = k
    BY SyncingIs
  <2> QED BY <2>1, <2>2, <2>3
<1>2. w \in Seq(ComputeOps) /\ Joined(q, a, w)
  <2> HIDE DEF a
  <2>1. w = q \o a
    BY DEF a
  <2> QED BY <1>1, <2>1, ConcatJoins
<1> HIDE DEF a
<1>3. /\ l \in Nat /\ Len(w) = l + (NB + NB) /\ DOMAIN a = 1 .. NB + NB /\ DOMAIN w = 1 .. l + (NB + NB)
      /\ \A j \in 1 .. NB + NB : w[l + j] = a[j]
  BY <1>1, <1>2 DEF Joined
<1>4. \A k \in DOMAIN a : a[k].op \in {"wait", "scatter"} /\ (a[k].op = "scatter" => k > NB)
  <2> SUFFICES ASSUME NEW k \in 1 .. NB + NB PROVE a[k].op \in {"wait", "scatter"} /\ (a[k].op = "scatter" => k > NB)
    BY <1>3
  <2>1. k \in 1 .. NB \/ (k > NB /\ k - NB \in 1 .. NB /\ NB + (k - NB) = k)
    BY <1>1
  <2>2. CASE k \in 1 .. NB
    BY <1>1, <2>2
  <2>3. CASE k > NB /\ k - NB \in 1 .. NB /\ NB + (k - NB) = k
    <3>1. a[NB + (k - NB)].op = "scatter"
      BY <1>1, <2>3
    <3> QED BY <2>3, <3>1
  <2> QED BY <2>1, <2>2, <2>3
<1>5. \A k \in DOMAIN w : k > l => \E j \in DOMAIN a : k = l + j /\ w[k] = a[j]
  <2>1. Late(q, a, w)
    BY <1>2, JoinLate
  <2> QED BY <2>1 DEF Late
<1>6. Len(a) > 0 /\ a[1].op = "wait" /\ a[1].op # "ready"
  <2>1. 1 \in 1 .. NB /\ NB + NB > 0
    BY <1>1
  <2> QED BY <1>1, <2>1
<1>7. ASSUME NEW k \in DOMAIN w, k > l
      PROVE  w[k].op \in {"wait", "scatter"} /\ (w[k].op = "scatter" => k > l + NB)
  <2>1. PICK j \in DOMAIN a : k = l + j /\ w[k] = a[j]
    BY <1>5, <1>7
  <2>2. a[j].op \in {"wait", "scatter"} /\ (a[j].op = "scatter" => j > NB)
    BY <1>4
  <2>3. j > NB => l + j > l + NB
    BY <1>1, <1>3
  <2> QED BY <2>1, <2>2, <2>3
<1>8. \A k \in DOMAIN a : a[k].op # "gather" /\ a[k].op # "ready" /\ a[k].op # "adamw"
  BY <1>4
<1>9. EndOk(r, i, w, g)
  BY DEF EndOk
<1>10. GatherOk(r, w, g, u)
  <2>1. \A k \in DOMAIN w : ~(k > l /\ w[k].op = "gather")
    BY <1>7
  <2> QED BY <1>2, <2>1, GatherJoin
<1>11. RegionOk(i, w, u)
  <2>1. First(w, u, Len(w) + 1) <=> First(q, u, l + 1)
    BY <1>2, <1>8, RegionJoin
  <2>2. h.pc # "top" /\ i.pc # "top"
    OBVIOUS
  <2> QED BY <2>1, <2>2 DEF RegionOk
<1>12. QueueOk(w)
  <2>1. QueueOk(a)
    BY <1>8 DEF QueueOk
  <2> QED BY <1>2, <1>6, <2>1, QueueJoin
<1>13. Gathered(w, x) = Gathered(q, x)
  BY <1>2, <1>6, GatheredJoin
<1>14. TurnOk(w, u, x, fires)
  <2>1. \A k \in DOMAIN a : a[k].op # "gather"
    BY <1>8
  <2> QED BY <1>2, <1>6, <2>1, TurnJoin
<1>15. ASSUME NEW k \in Nat, k > l, First(w, u, k) PROVE h.step = 1
  <2>1. k >= l + 1
    BY <1>3, <1>15
  <2>2. First(q, u, l + 1)
    BY <1>2, <1>15, <2>1, FirstJoin
  <2> QED BY <2>2 DEF RegionOk
<1>16. ASSUME NEW k \in Nat, k > l + NB, First(w, u, k) PROVE Synced(w, d, k)
  <2>1. h.step = 1
    <3>1. k > l
      BY <1>1, <1>3, <1>16
    <3> QED BY <1>15, <1>16, <3>1
  <2> SUFFICES ASSUME NEW e \in BucketIds
               PROVE  \E j \in 1 .. k - 1 : w[j].op = "wait" /\ w[j].event = e /\ w[j].n > 0
    BY DEF Synced
  <2>2. e \in 1 .. NB /\ done[e] = 1
    BY <1>1, <2>1
  <2>3. e \in 1 .. NB + NB /\ l + e \in 1 .. k - 1
    BY <1>1, <1>3, <1>16, <2>2
  <2>4. w[l + e] = a[e] /\ a[e].op = "wait" /\ a[e].event = e /\ a[e].n = 1
    BY <1>1, <1>3, <2>2, <2>3
  <2>5. w[l + e].op = "wait" /\ w[l + e].event = e /\ w[l + e].n > 0
    BY <2>4
  <2> QED BY <2>3, <2>5
<1>17. ASSUME NEW k \in 1 .. Len(w) + 1, k > l, FirstAdamW(i, w, u, k)
       PROVE  k = Len(w) + 1 /\ k \in Nat /\ k > l + NB /\ First(w, u, k)
  <2>1. First(w, u, k) /\ ((k \in DOMAIN w /\ w[k].op = "adamw") \/ k = Len(w) + 1)
    BY <1>17 DEF FirstAdamW
  <2>2. ~(k \in DOMAIN w /\ w[k].op = "adamw")
    BY <1>7, <1>17
  <2>3. Len(w) + 1 \in Nat /\ Len(w) + 1 > l + NB
    BY <1>1, <1>3
  <2> QED BY <2>1, <2>2, <2>3
<1>18. SyncOk(i, w, u, d)
  <2>1. ASSUME NEW k \in DOMAIN w, k > l, w[k].op = "scatter", First(w, u, k) PROVE Synced(w, d, k)
    <3>1. k \in Nat /\ k > l + NB
      BY <1>3, <1>7, <2>1
    <3> QED BY <1>16, <2>1, <3>1
  <2>2. ASSUME NEW k \in 1 .. Len(w) + 1, k > l, FirstAdamW(i, w, u, k) PROVE Synced(w, d, k)
    BY <1>16, <1>17, <2>2
  <2> QED BY <1>2, <1>6, <2>1, <2>2, SyncJoin
<1>19. ScatterOk(i, w, g, u)
  <2>1. ASSUME NEW k \in 1 .. Len(w) + 1, k > l, FirstAdamW(i, w, u, k), NEW b \in BucketIds
        PROVE  Scattered(w, g, k, b)
    <3>1. k = Len(w) + 1
      BY <1>17, <2>1
    <3> DEFINE j == l + (NB + b)
    <3>2. b \in 1 .. NB /\ NB + b \in 1 .. NB + NB
      BY <1>1
    <3>3. j \in 1 .. k - 1 /\ j > l /\ k - 1 = Len(w)
      BY <1>1, <1>3, <3>1, <3>2
    <3>4. w[j].op = "scatter" /\ w[j].bucket = b
      <4>1. w[j] = a[NB + b]
        BY <1>3, <3>2
      <4>2. a[NB + b].op = "scatter" /\ a[NB + b].bucket = b
        BY <1>1, <3>2
      <4> QED BY <4>1, <4>2
    <3>5. ASSUME NEW y \in j + 1 .. k - 1 PROVE w[y].op \notin {"zero", "backward"}
      <4>1. y \in DOMAIN w /\ y > l
        BY <1>1, <1>3, <3>2, <3>3, <3>5
      <4>2. w[y].op \in {"wait", "scatter"}
        BY <1>7, <4>1
      <4> QED BY <4>2
    <3> HIDE DEF j
    <3>6. Without(w, j + 1, k - 1, {"zero", "backward"})
      BY <3>5 DEF Without
    <3> QED BY <3>3, <3>4, <3>6 DEF Scattered
  <2> QED BY <1>2, <1>6, <2>1, ScatterJoin
<1> QED BY <1>2, <1>9, <1>10, <1>11, <1>12, <1>13, <1>14, <1>18, <1>19 DEF Synchronised

SyncStep(r) ==
  /\ host[r].pc = "sync"
  /\ compute' = [compute EXCEPT ![r] = compute[r] \o Syncing(events[r].recorded.done)]
  /\ mgr' = [mgr EXCEPT ![r].buckets = FreshBuckets]
  /\ host' = [host EXCEPT ![r].pc = "optimize"]
  /\ UNCHANGED <<comm, events, memory>>

(* SyncAndFinalize, its loops written out. *)
LEMMA SyncStepIs ==
  ASSUME NEW r \in Ranks, SyncAndFinalize(r)
  PROVE  SyncStep(r)
BY Zenon DEF SyncAndFinalize, SyncStep, Enqueue, EachBucket, Syncing, Waits, Scatters

(* The host after sync_and_finalize(). *)
LEMMA SyncHostStep ==
  ASSUME NEW r \in Ranks, NEW h, h = host[r], h \in Hosts, HostOk(h), h.pc = "sync", host \in [Ranks -> Hosts],
         host' = [host EXCEPT ![r].pc = "optimize"]
  PROVE  /\ host' \in [Ranks -> Hosts] /\ \A y \in Ranks \ {r} : host'[y] = host[y]
         /\ host'[r] \in Hosts /\ host'[r].pc = "optimize" /\ host'[r].step = h.step /\ HostOk(host'[r])
<1> DEFINE i == [pc |-> "optimize", step |-> h.step, micro |-> h.micro, layer |-> h.layer, marks |-> h.marks]
<1>1. h.step \in Nat /\ h.micro \in Nat /\ h.layer \in Nat /\ h.marks \in Seq(Params)
      /\ h = [pc |-> h.pc, step |-> h.step, micro |-> h.micro, layer |-> h.layer, marks |-> h.marks]
  BY DEF Hosts
<1>2. i \in Hosts /\ i.pc = "optimize" /\ i.step = h.step /\ i.micro = h.micro
  BY <1>1 DEF Hosts
<1>3. host' = [host EXCEPT ![r] = i]
  <2> DEFINE k == [h EXCEPT !.pc = "optimize"]
  <2>1. host' = [host EXCEPT ![r] = k]
    OBVIOUS
  <2>2. k = i
    <3>1. h \in Hosts
      OBVIOUS
    <3> QED BY <3>1 DEF Hosts
  <2> HIDE DEF k, i
  <2> QED BY <2>1, <2>2
<1>4. h.step \in 0 .. MaxSteps /\ h.step > 0 /\ h.micro \in 1 .. Accum
  BY DEF HostOk
<1> HIDE DEF i
<1>5. HostOk(i)
  BY <1>2, <1>4 DEF HostOk
<1>6. host' \in [Ranks -> Hosts] /\ host'[r] = i /\ \A y \in Ranks \ {r} : host'[y] = host[y]
  BY <1>2, <1>3
<1> QED BY <1>2, <1>5, <1>6

(* The manager after sync_and_finalize(). *)
LEMMA SyncMgrStep ==
  ASSUME Types, NEW r \in Ranks, mgr' = [mgr EXCEPT ![r].buckets = FreshBuckets]
  PROVE  /\ mgr' \in [Ranks -> Managers] /\ \A y \in Ranks \ {r} : mgr'[y] = mgr[y]
         /\ mgr'[r].buckets = FreshBuckets /\ mgr'[r].fires = mgr[r].fires
<1> DEFINE m == mgr[r]
           T == [remaining : Nat, fired : BOOLEAN]
           n == [buckets |-> FreshBuckets, fires |-> m.fires]
<1>1. mgr \in [Ranks -> Managers] /\ m \in Managers /\ m.fires \in Nat
  BY TypesOf DEF Types
<1>2. FreshBuckets \in [BucketIds -> T]
  <2>1. \A b \in BucketIds : Len(Buckets[b]) \in Nat
    <3>1. ASSUME NEW b \in BucketIds PROVE Len(Buckets[b]) \in Nat
      <4>1. IsFiniteSet(Members[b]) /\ Cardinality(Members[b]) = Len(Buckets[b])
        BY BucketFacts
      <4> QED BY <4>1, FS_CardinalityType
    <3> QED BY <3>1
  <2> QED BY <2>1 DEF FreshBuckets
<1> HIDE DEF T
<1>3. m = [buckets |-> m.buckets, fires |-> m.fires]
  BY <1>1 DEF Managers
<1>4. mgr' = [mgr EXCEPT ![r] = n]
  <2> DEFINE k == [m EXCEPT !.buckets = FreshBuckets]
  <2>1. mgr' = [mgr EXCEPT ![r] = k]
    OBVIOUS
  <2>2. k = n
    <3> HIDE DEF m
    <3> QED BY <1>1 DEF Managers
  <2> HIDE DEF k, n, m
  <2> QED BY <2>1, <2>2
<1>5. n \in Managers /\ n.buckets = FreshBuckets /\ n.fires = m.fires
  BY <1>1, <1>2 DEF Managers, T
<1> HIDE DEF n
<1>6. mgr' \in [Ranks -> Managers] /\ mgr'[r] = n /\ \A y \in Ranks \ {r} : mgr'[y] = mgr[y]
  BY <1>1, <1>4, <1>5
<1> QED BY <1>5, <1>6

(* sync_and_finalize(). *)
LEMMA SyncAndFinalizeKeeps ==
  ASSUME Types, NEW r \in Ranks, RankOk(r), SyncAndFinalize(r)
  PROVE  Types' /\ RankOk(r)' /\ \A q \in Ranks \ {r} : Same(q)
<1> SUFFICES ASSUME SyncStep(r)
             PROVE  Types' /\ RankOk(r)' /\ \A q \in Ranks \ {r} : Same(q)
  BY SyncStepIs
<1> DEFINE h == host[r]
           i == host'[r]
           m == mgr[r]
           n == mgr'[r]
           rec == events[r].recorded
           done == rec.done
           q == compute[r]
           w == q \o Syncing(done)
           g == grads[r]
           u == used[r]
           cmp == events[r].completed
           x == cmp.ready
           d == cmp.done
<1>1. /\ HostOk(h) /\ CountOk(h, m, rec) /\ RegionOk(h, q, u)
      /\ SyncOk(h, q, u, d) /\ ScatterOk(h, q, g, u)
      /\ GatherOk(r, q, g, u) /\ QueueOk(q) /\ TurnOk(q, u, x, m.fires)
      /\ CommOk(comm[r], reduced[r], m.fires) /\ ReadyOk(comm[r], reduced[r], cmp)
      /\ StagedOk(r, q, x, u, reduced[r], staged[r]) /\ SentOk(r, comm[r], sent[r], reduced[r])
      /\ UsedOk(u, reduced[r])
  BY DEF RankOk
<1>2. /\ h \in Hosts /\ m.fires \in Nat /\ q \in Seq(ComputeOps) /\ x \in Nat
      /\ done \in [BucketIds -> Nat]
  BY TypesOf
<1>3. h.pc = "sync"
  BY DEF SyncStep
<1>4. UNCHANGED <<comm, events, grads, staged, sent, reduced, used>>
  BY DEF SyncStep, memory
<1>5. /\ host' \in [Ranks -> Hosts] /\ \A y \in Ranks \ {r} : host'[y] = host[y]
      /\ i \in Hosts /\ i.pc = "optimize" /\ i.step = h.step /\ HostOk(i)
  <2>1. host \in [Ranks -> Hosts] /\ host' = [host EXCEPT ![r].pc = "optimize"]
    BY DEF Types, SyncStep
  <2> QED BY <1>1, <1>2, <1>3, <2>1, SyncHostStep
<1>6. /\ mgr' \in [Ranks -> Managers] /\ \A y \in Ranks \ {r} : mgr'[y] = mgr[y]
      /\ n.buckets = FreshBuckets /\ n.fires = m.fires
  <2>1. mgr' = [mgr EXCEPT ![r].buckets = FreshBuckets]
    BY DEF SyncStep
  <2> QED BY <2>1, SyncMgrStep
<1>7. compute' = [compute EXCEPT ![r] = w]
  BY DEF SyncStep
<1>8. w = q \o Syncing(done)
  OBVIOUS
<1> HIDE DEF h, i, m, n, rec, q, w, g, u, cmp, x, d
<1>9. /\ CountOk(i, m, rec) /\ h.step \in Nat /\ h.step > 0
      /\ h.step = 1 => \A e \in BucketIds : rec.done[e] = 1
  BY <1>1, <1>2, <1>3, <1>5, SyncCounts
<1>10. CountOk(i, n, rec)
  BY <1>6, <1>9 DEF CountOk
<1>11. MgrOk(i, n)
  BY <1>5, <1>6, SyncMgr
<1> HIDE DEF done
<1>12. Synchronised(r, i, q, w, g, u, d, x, m.fires)
  <2>1. h.step = 1 => \A e \in BucketIds : done[e] = 1
    BY <1>9 DEF done
  <2> QED BY <1>1, <1>2, <1>3, <1>5, <1>8, <1>9, <2>1, SyncCompute
<1>13. /\ w \in Seq(ComputeOps) /\ EndOk(r, i, w, g) /\ GatherOk(r, w, g, u) /\ RegionOk(i, w, u) /\ QueueOk(w)
       /\ TurnOk(w, u, x, m.fires) /\ Gathered(w, x) = Gathered(q, x)
       /\ SyncOk(i, w, u, d) /\ ScatterOk(i, w, g, u)
  BY <1>12 DEF Synchronised
<1>14. StagedOk(r, w, x, u, reduced[r], staged[r])
  BY <1>1, <1>13 DEF StagedOk
<1>15. /\ compute' \in [Ranks -> Seq(ComputeOps)] /\ compute'[r] = w
       /\ \A y \in Ranks \ {r} : compute'[y] = compute[y]
  <2>1. compute \in [Ranks -> Seq(ComputeOps)]
    BY DEF Types
  <2> QED BY <1>7, <1>13, <2>1
<1>16. RankOk(r)'
  <2>1. /\ HostOk(host'[r]) /\ MgrOk(host'[r], mgr'[r]) /\ CountOk(host'[r], mgr'[r], events'[r].recorded)
    BY <1>4, <1>5, <1>10, <1>11 DEF i, n, rec
  <2>2. /\ EndOk(r, host'[r], compute'[r], grads'[r])
        /\ GatherOk(r, compute'[r], grads'[r], used'[r])
        /\ RegionOk(host'[r], compute'[r], used'[r])
        /\ QueueOk(compute'[r])
    BY <1>4, <1>13, <1>15 DEF i, g, u
  <2>3. mgr'[r].fires = mgr[r].fires
    BY <1>6 DEF m, n
  <2>4. TurnOk(compute'[r], used'[r], events'[r].completed.ready, mgr'[r].fires)
    BY <1>4, <1>13, <1>15, <2>3 DEF u, x, m, cmp
  <2>5. /\ CommOk(comm'[r], reduced'[r], mgr'[r].fires)
        /\ ReadyOk(comm'[r], reduced'[r], events'[r].completed)
        /\ SentOk(r, comm'[r], sent'[r], reduced'[r])
        /\ UsedOk(used'[r], reduced'[r])
    BY <1>1, <1>4, <2>3 DEF m, cmp, u
  <2>6. /\ SyncOk(host'[r], compute'[r], used'[r], events'[r].completed.done)
        /\ ScatterOk(host'[r], compute'[r], grads'[r], used'[r])
    BY <1>4, <1>13, <1>15 DEF i, g, u, d, cmp
  <2>7. StagedOk(r, compute'[r], events'[r].completed.ready, used'[r], reduced'[r], staged'[r])
    BY <1>4, <1>14, <1>15 DEF u, x, cmp
  <2> QED BY <2>1, <2>2, <2>4, <2>5, <2>6, <2>7 DEF RankOk
<1>17. Types'
  BY <1>4, <1>5, <1>6, <1>15 DEF Types
<1>18. \A y \in Ranks \ {r} : Same(y)
  BY <1>4, <1>5, <1>6, <1>15 DEF Same
<1> QED BY <1>16, <1>17, <1>18

-----------------------------------------------------------------------------
(* The theorems. *)

(* Nothing enqueued, nothing run. *)
LEMMA EmptyOk ==
  ASSUME NEW r \in Ranks, NEW q, q = << >>, NEW h, h.pc = "top", h.step = 0, NEW m, m.fires = 0,
         m.buckets = FreshBuckets, NEW rec, rec.ready = 0, \A e \in BucketIds : rec.done[e] = 0,
         NEW g, NEW d, NEW st
  PROVE  /\ HostOk(h) /\ MgrOk(h, m) /\ CountOk(h, m, rec) /\ EndOk(r, h, q, g)
         /\ GatherOk(r, q, g, q) /\ RegionOk(h, q, q) /\ QueueOk(q) /\ TurnOk(q, q, 0, 0)
         /\ CommOk(q, 0, 0) /\ ReadyOk(q, 0, rec)
         /\ SyncOk(h, q, q, d) /\ ScatterOk(h, q, g, q)
         /\ StagedOk(r, q, 0, q, 0, st) /\ SentOk(r, q, q, 0) /\ UsedOk(q, 0)
<1>1. Len(q) = 0 /\ DOMAIN q = {}
  OBVIOUS
<1>2. NB \in Nat \ {0} /\ BucketIds = 1 .. NB /\ MaxSteps \in Nat
  BY BucketFacts, DdpAssumption
<1>3. HostOk(h)
  BY <1>2 DEF HostOk
<1>4. Marked(h) = {}
  BY DEF Marked
<1>5. MgrOk(h, m)
  <2> SUFFICES ASSUME NEW b \in BucketIds
               PROVE  /\ m.buckets[b].remaining = Cardinality(Members[b] \ Marked(h))
                      /\ m.buckets[b].fired <=> Members[b] \subseteq Marked(h)
    BY DEF MgrOk
  <2>1. Members[b] # {} /\ Cardinality(Members[b]) = Len(Buckets[b])
    BY BucketFacts
  <2>2. m.buckets[b].remaining = Len(Buckets[b]) /\ m.buckets[b].fired = FALSE
    <3>1. m.buckets[b] = [remaining |-> Len(Buckets[b]), fired |-> FALSE]
      BY DEF FreshBuckets
    <3> QED BY <3>1
  <2>3. Members[b] \ Marked(h) = Members[b] /\ ~(Members[b] \subseteq Marked(h))
    BY <1>4, <2>1
  <2> QED BY <2>1, <2>2, <2>3
<1>6. \A e \in 1 .. NB : ~(e <= 0)
  BY <1>2
<1>7. CountOk(h, m, rec)
  BY <1>2, <1>6 DEF CountOk
<1>8. EndOk(r, h, q, g) /\ GatherOk(r, q, g, q) /\ QueueOk(q)
  BY <1>1 DEF EndOk, GatherOk, QueueOk
<1>9. RegionOk(h, q, q)
  <2>1. 1 .. (Len(q) + 1) - 1 = {}
    BY <1>1
  <2>2. First(q, q, Len(q) + 1)
    BY <2>1 DEF First, Without
  <2> QED BY <2>2 DEF RegionOk
<1>10. Gathered(q, 0) = 0
  BY DEF Gathered
<1>11. TurnOk(q, q, 0, 0)
  BY <1>1, <1>2, <1>10, <1>6 DEF TurnOk
<1>12. CommOk(q, 0, 0) /\ SentOk(r, q, q, 0) /\ UsedOk(q, 0)
  BY <1>1 DEF CommOk, SentOk, UsedOk
<1>13. ReadyOk(q, 0, rec)
  BY DEF ReadyOk
<1>14. \A k : ~FirstAdamW(h, q, q, k)
  BY <1>1 DEF FirstAdamW
<1>15. SyncOk(h, q, q, d) /\ ScatterOk(h, q, g, q)
  BY <1>1, <1>14 DEF SyncOk, ScatterOk
<1>16. StagedOk(r, q, 0, q, 0, st)
  <2>1. ASSUME NEW b \in BucketIds PROVE ~(Turn(b) <= 0)
    <3>1. Turn(b) \in Nat /\ Turn(b) >= 1
      BY TurnNat
    <3> QED BY <3>1
  <2> QED BY <1>10, <2>1 DEF StagedOk
<1> QED BY <1>3, <1>5, <1>7, <1>8, <1>9, <1>11, <1>12, <1>13, <1>15, <1>16

(* The invariant holds before anything is enqueued. *)
LEMMA InitInv == Init => IInv
<1> SUFFICES ASSUME Init PROVE IInv
  OBVIOUS
<1>1. Types
  <2>1. host \in [Ranks -> Hosts]
    <3>1. [pc |-> "top", step |-> 0, micro |-> 0, layer |-> 0, marks |-> << >>] \in Hosts
      <4>1. << >> \in Seq(Params)
        OBVIOUS
      <4> QED BY <4>1 DEF Hosts
    <3> QED BY <3>1 DEF Init
  <2>2. mgr \in [Ranks -> Managers]
    <3>1. [buckets |-> FreshBuckets, fires |-> 0] \in Managers
      <4>1. ASSUME NEW b \in BucketIds PROVE Len(Buckets[b]) \in Nat
        <5>1. IsFiniteSet(Members[b]) /\ Cardinality(Members[b]) = Len(Buckets[b])
          BY BucketFacts
        <5> QED BY <5>1, FS_CardinalityType
      <4>2. FreshBuckets \in [BucketIds -> [remaining : Nat, fired : BOOLEAN]]
        BY <4>1 DEF FreshBuckets
      <4> QED BY <4>2 DEF Managers
    <3> QED BY <3>1 DEF Init
  <2>3. events \in [Ranks -> [recorded : Records, completed : Records]]
    <3>1. NoRecords \in Records
      BY DEF NoRecords, Records
    <3> QED BY <3>1 DEF Init
  <2>4. compute \in [Ranks -> Seq(ComputeOps)] /\ comm \in [Ranks -> Seq(CommOps)]
        /\ sent \in [Ranks -> Seq(Buffers)] /\ used \in [Ranks -> Seq(Buffers)] /\ reduced \in [Ranks -> Nat]
    <3>1. << >> \in Seq(ComputeOps) /\ << >> \in Seq(CommOps) /\ << >> \in Seq(Buffers)
      OBVIOUS
    <3> QED BY <3>1 DEF Init
  <2>5. grads \in [Ranks -> Buffers] /\ staged \in [Ranks -> Buffers]
    BY DEF Init, Buffers
  <2> QED BY <2>1, <2>2, <2>3, <2>4, <2>5 DEF Types
<1>2. ASSUME NEW r \in Ranks PROVE RankOk(r)
  <2> DEFINE h == host[r]
             m == mgr[r]
             rec == events[r].recorded
             cmp == events[r].completed
  <2>1. h.pc = "top" /\ h.step = 0
    BY DEF Init
  <2>2. m.fires = 0 /\ m.buckets = FreshBuckets
    BY DEF Init
  <2>3. rec = NoRecords /\ cmp = NoRecords
    BY DEF Init
  <2>4. NoRecords.ready = 0 /\ \A e \in BucketIds : NoRecords.done[e] = 0
    BY DEF NoRecords
  <2>5. compute[r] = << >> /\ comm[r] = << >> /\ sent[r] = << >> /\ used[r] = << >> /\ reduced[r] = 0
    BY DEF Init
  <2> DEFINE q == compute[r]
             g == grads[r]
             d == cmp.done
             st == staged[r]
  <2>6. q = << >>
    BY <2>5
  <2> HIDE DEF h, m, rec, cmp, q, g, d, st
  <2>7. rec.ready = 0 /\ \A e \in BucketIds : rec.done[e] = 0
    BY <2>3, <2>4
  <2>8. /\ HostOk(h) /\ MgrOk(h, m) /\ CountOk(h, m, rec) /\ EndOk(r, h, q, g)
        /\ GatherOk(r, q, g, q) /\ RegionOk(h, q, q) /\ QueueOk(q) /\ TurnOk(q, q, 0, 0)
        /\ CommOk(q, 0, 0) /\ ReadyOk(q, 0, rec)
        /\ SyncOk(h, q, q, d) /\ ScatterOk(h, q, g, q)
        /\ StagedOk(r, q, 0, q, 0, st) /\ SentOk(r, q, q, 0) /\ UsedOk(q, 0)
    BY <2>1, <2>2, <2>6, <2>7, EmptyOk
  <2>9. comm[r] = q /\ sent[r] = q /\ used[r] = q /\ reduced[r] = 0 /\ cmp = rec /\ cmp.ready = 0 /\ m.fires = 0
    BY <2>2, <2>3, <2>4, <2>5, <2>6
  <2> QED BY <2>8, <2>9 DEF RankOk, h, m, rec, cmp, q, g, d, st
<1> QED BY <1>1, <1>2 DEF IInv

(* Every step of a host thread or of a stream keeps the invariant of all   *)
(* ranks.                                                                  *)
LEMMA ActionKeeps ==
  ASSUME IInv, NEW r \in Ranks, Host(r) \/ Compute(r) \/ Comm(r)
  PROVE  IInv'
<1>1. Types /\ RankOk(r) /\ \A q \in Ranks : RankOk(q)
  BY DEF IInv
<1>2. Types' /\ RankOk(r)' /\ \A q \in Ranks \ {r} : Same(q)
  <2>1. CASE StartStep(r)
    BY <1>1, <2>1, StartStepKeeps
  <2>2. CASE BackwardLayer(r)
    BY <1>1, <2>2, BackwardLayerKeeps
  <2>3. CASE MarkReady(r)
    BY <1>1, <2>3, MarkReadyKeeps
  <2>4. CASE SyncAndFinalize(r)
    BY <1>1, <2>4, SyncAndFinalizeKeeps
  <2>5. CASE OptStep(r)
    BY <1>1, <2>5, OptStepKeeps
  <2>6. CASE RunZeroGrad(r)
    BY <1>1, <2>6, RunZeroGradKeeps
  <2>7. CASE RunBackward(r)
    BY <1>1, <2>7, RunBackwardKeeps
  <2>8. CASE RunGather(r)
    BY <1>1, <2>8, RunGatherKeeps
  <2>9. CASE RunRecordReady(r)
    BY <1>1, <2>9, RunRecordReadyKeeps
  <2>10. CASE RunWaitDone(r)
    BY <1>1, <2>10, RunWaitDoneKeeps
  <2>11. CASE RunScatter(r)
    BY <1>1, <2>11, RunScatterKeeps
  <2>12. CASE RunAdamW(r)
    BY <1>1, <2>12, RunAdamWKeeps
  <2>13. CASE RunWaitReady(r)
    BY <1>1, <2>13, RunWaitReadyKeeps
  <2>14. CASE JoinAllReduce(r)
    BY <1>1, <2>14, JoinAllReduceKeeps
  <2>15. CASE FinishAllReduce(r)
    BY <1>1, <2>15, FinishAllReduceKeeps
  <2>16. CASE RunRecordDone(r)
    BY <1>1, <2>16, RunRecordDoneKeeps
  <2> QED BY <2>1, <2>2, <2>3, <2>4, <2>5, <2>6, <2>7, <2>8, <2>9, <2>10, <2>11, <2>12, <2>13, <2>14, <2>15, <2>16
          DEF Host, Compute, Comm
<1>3. ASSUME NEW q \in Ranks \ {r} PROVE RankOk(q)'
  BY <1>1, <1>2, SameKeeps
<1>4. \A q \in Ranks : RankOk(q)'
  BY <1>2, <1>3
<1> QED BY <1>2, <1>4 DEF IInv

(* The invariant is inductive. *)
LEMMA StepInv == IInv /\ [Next]_vars => IInv'
<1> SUFFICES ASSUME IInv, [Next]_vars PROVE IInv'
  OBVIOUS
<1>1. CASE Next
  BY <1>1, ActionKeeps DEF Next
<1>2. CASE UNCHANGED vars
  <2>1. \A q \in Ranks : RankOk(q) /\ Same(q)
    BY <1>2 DEF IInv, vars, Same
  <2>2. \A q \in Ranks : RankOk(q)'
    BY <2>1, SameKeeps
  <2>3. Types'
    BY <1>2 DEF IInv, vars, Types
  <2> QED BY <2>2, <2>3 DEF IInv
<1> QED BY <1>1, <1>2

(* The queues of the two streams of every rank always hold what the step   *)
(* loop, the bucket manager and the callback of OverlapHookup mean them to *)
(* hold: complete gathers, collectives in one order on all ranks, and in   *)
(* the first step waits for every all-reduce before the scatters and AdamW *)
(* (types, the counts of BucketManager and the contents of the buffers     *)
(* included).                                                              *)
THEOREM DdpSound == Spec => []IInv
<1> QED BY InitInv, StepInv, PTL DEF Spec

(* A bucket is gathered with the gradients of every micro-batch of one     *)
(* step and no other, on every rank: mark_ready() fires a bucket behind    *)
(* the last backward kernel that adds to it, and the next zero_grad() and  *)
(* the scatters cannot come between.                                       *)
THEOREM GatherKept == Spec => []GatherComplete
<1>1. IInv => GatherComplete
  <2> SUFFICES ASSUME IInv, NEW r \in Ranks, ComputeOp(r, "gather"), NEW p \in Members[Head(compute[r]).bucket]
               PROVE  \E s \in 1 .. MaxSteps : grads[r][p] = Local(r, s)
    BY DEF GatherComplete
  <2> DEFINE q == compute[r]
             g == grads[r]
             u == used[r]
  <2>1. q \in Seq(ComputeOps) /\ q # << >> /\ Head(q).op = "gather"
    BY TypesOf DEF IInv, ComputeOp
  <2>2. GatherOk(r, q, g, u)
    BY DEF IInv, RankOk
  <2>3. p \in Members[Head(q).bucket]
    OBVIOUS
  <2> HIDE DEF q, g, u
  <2>4. Head(q) = q[1] /\ 1 \in DOMAIN q
    BY <2>1
  <2>5. PICK s \in 1 .. MaxSteps : \A x \in Members[q[1].bucket] : Yields(q, g, x, 1 - 1, Local(r, s))
    BY <2>1, <2>2, <2>4 DEF GatherOk
  <2>6. Yields(q, g, p, 0, Local(r, s))
    BY <2>3, <2>4, <2>5
  <2>7. g[p] = Local(r, s)
    BY <2>6, YieldsNow
  <2> QED BY <2>7 DEF g
<1> QED BY <1>1, DdpSound, PTL

(* The first AdamW step of every rank reads, for every parameter, the mean *)
(* over all ranks and micro-batches of the first step: the bucket_done_    *)
(* events order its scatters behind the all-reduces (comm.hpp:28).         *)
THEOREM FirstStepMean == Spec => []FirstStepUsesMean
<1>1. IInv => FirstStepUsesMean
  <2> SUFFICES ASSUME IInv, NEW r \in Ranks, NEW p \in Params, 1 \in DOMAIN used[r]
               PROVE  used[r][1][p] = Mean(1)
    BY DEF FirstStepUsesMean, UsesMean
  <2>1. UsedOk(used[r], reduced[r])
    BY DEF IInv, RankOk
  <2>2. used[r] # << >>
    OBVIOUS
  <2> QED BY <2>1, <2>2 DEF UsedOk
<1> QED BY <1>1, DdpSound, PTL

=============================================================================
