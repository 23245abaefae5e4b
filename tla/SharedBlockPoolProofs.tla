----------------------- MODULE SharedBlockPoolProofs -----------------------
(***************************************************************************)
(* Proofs about the shared page pool for any number of pages, hashes and   *)
(* references: first what each call does to the pool's bookkeeping, which  *)
(* the proofs about Scheduler use too; then the inductive invariant of     *)
(* SharedBlockPool, and the refinement of PageLease.                       *)
(***************************************************************************)
EXTENDS SharedBlockPool, FiniteSetTheorems, TLAPS

(* The bookkeeping of the pool is well formed and exact. *)
Sound(q) == q \in PoolType /\ FreeExact(q) /\ IndexExact(q)

-----------------------------------------------------------------------------
(* The constructor leaves every page free and nothing registered. *)
LEMMA EmptyPoolSound == Sound(EmptyPool)
<1>1. EmptyPool \in PoolType
  BY PoolAssumption DEF EmptyPool, PoolType, Pages, NoPage
<1>2. FreeExact(EmptyPool)
  <2>1. \A p \in Pages : MaxPages - p \in 1 .. MaxPages
                         /\ EmptyPool.free[MaxPages - p] = p
    BY PoolAssumption DEF EmptyPool, Pages
  <2>2. /\ EmptyPool.free = [i \in 1 .. MaxPages |-> MaxPages - i]
        /\ EmptyPool.refs = [p \in Pages |-> 0]
    BY DEF EmptyPool
  <2>3. DOMAIN EmptyPool.free = 1 .. MaxPages
    BY <2>2
  <2>4. \A i, j \in DOMAIN EmptyPool.free : EmptyPool.free[i] = EmptyPool.free[j] => i = j
    BY <2>2, PoolAssumption
  <2>5. \A p \in Pages : EmptyPool.refs[p] = 0 /\ \E i \in DOMAIN EmptyPool.free : EmptyPool.free[i] = p
    BY <2>1, <2>2, <2>3
  <2> QED
    BY <2>4, <2>5 DEF FreeExact
<1>3. IndexExact(EmptyPool)
  BY PoolAssumption DEF EmptyPool, IndexExact, Pages, NoPage
<1> QED
  BY <1>1, <1>2, <1>3 DEF Sound

(* allocate() hands out a page that had no reference and no hash, and      *)
(* keeps the bookkeeping sound.                                            *)
LEMMA AllocateSound ==
  ASSUME NEW q, Sound(q), HasFree(q)
  PROVE  /\ TopFree(q) \in Pages
         /\ q.refs[TopFree(q)] = 0
         /\ q.hashes[TopFree(q)] = NoHash
         /\ Sound(Allocate(q))
         /\ Allocate(q).refs = [q.refs EXCEPT ![TopFree(q)] = 1]
         /\ Allocate(q).hashes = q.hashes
         /\ Allocate(q).index = q.index
<1> DEFINE n == Len(q.free)
           t == TopFree(q)
           r == Allocate(q)
<1>1. /\ q.free \in Seq(Pages)
      /\ n \in Nat \ {0}
      /\ t = q.free[n]
      /\ t \in Pages
  BY DEF Sound, PoolType, HasFree, TopFree
<1>2. q.refs[t] = 0 /\ q.hashes[t] = NoHash
  BY <1>1 DEF Sound, FreeExact, IndexExact
<1>3. /\ r.free = SubSeq(q.free, 1, n - 1)
      /\ r.refs = [q.refs EXCEPT ![t] = 1]
      /\ r.hashes = q.hashes
      /\ r.index = q.index
  BY DEF Allocate, Sound, PoolType
<1>4. r \in PoolType
  <2>1. SubSeq(q.free, 1, n - 1) \in Seq(Pages)
    BY <1>1
  <2>2. [q.refs EXCEPT ![t] = 1] \in [Pages -> Nat]
    BY <1>1 DEF Sound, PoolType
  <2>3. q \in PoolType
    BY DEF Sound
  <2> QED
    BY <2>1, <2>2, <2>3 DEF Allocate, PoolType
<1>5. DOMAIN r.free = 1 .. n - 1 /\ \A i \in 1 .. n - 1 : r.free[i] = q.free[i]
  BY <1>1, <1>3
<1>6. FreeExact(r)
  <2>1. \A i, j \in DOMAIN r.free : r.free[i] = r.free[j] => i = j
    BY <1>1, <1>5 DEF Sound, FreeExact
  <2>2. ASSUME NEW p \in Pages
        PROVE  r.refs[p] = 0 <=> \E i \in DOMAIN r.free : r.free[i] = p
    <3>1. r.refs[p] = IF p = t THEN 1 ELSE q.refs[p]
      BY <1>3 DEF Sound, PoolType
    <3>2. q.refs[p] = 0 <=> \E i \in 1 .. n : q.free[i] = p
      BY <1>1 DEF Sound, FreeExact
    <3>3. (\E i \in 1 .. n - 1 : q.free[i] = p) <=> (p # t /\ \E i \in 1 .. n : q.free[i] = p)
      BY <1>1 DEF Sound, FreeExact
    <3>4. r.refs[p] = 0 <=> (p # t /\ q.refs[p] = 0)
      BY <1>2, <3>1
    <3> QED
      BY <1>5, <3>2, <3>3, <3>4
  <2> QED
    BY <2>1, <2>2 DEF FreeExact
<1>7. IndexExact(r)
  BY <1>1, <1>2, <1>3 DEF Sound, IndexExact, PoolType
<1> QED
  BY <1>1, <1>2, <1>3, <1>4, <1>6, <1>7 DEF Sound

(* One more reference to a page in use. *)
LEMMA IncRefSound ==
  ASSUME NEW q, Sound(q), NEW p \in Pages, q.refs[p] > 0
  PROVE  /\ Sound(IncRef(q, p))
         /\ IncRef(q, p).refs = [q.refs EXCEPT ![p] = q.refs[p] + 1]
         /\ IncRef(q, p).hashes = q.hashes
<1> DEFINE r == IncRef(q, p)
<1>1. q \in PoolType /\ q.refs \in [Pages -> Nat]
  BY DEF Sound, PoolType
<1>2. /\ r.free = q.free
      /\ r.refs = [q.refs EXCEPT ![p] = q.refs[p] + 1]
      /\ r.hashes = q.hashes
      /\ r.index = q.index
  BY <1>1 DEF IncRef, PoolType
<1>3. r.refs \in [Pages -> Nat]
  BY <1>1, <1>2
<1>4. r \in PoolType
  BY <1>1, <1>2, <1>3 DEF IncRef, PoolType
<1>5. \A x \in Pages : r.refs[x] = 0 <=> q.refs[x] = 0
  BY <1>1, <1>2
<1>6. FreeExact(r) /\ IndexExact(r)
  BY <1>2, <1>5 DEF Sound, FreeExact, IndexExact
<1> QED
  BY <1>2, <1>4, <1>6 DEF Sound

(* find_or_lease(): a hit is the page in use that carries the hash, a miss *)
(* is a page without a reference, which then carries it; the reference     *)
(* count of the page returned grows by one.                                *)
LEMMA FindOrLeaseSound ==
  ASSUME NEW q, Sound(q), NEW k \in Hashes, CanLease(q, k)
  PROVE  /\ LeasedPage(q, k) \in Pages
         /\ Sound(FindOrLease(q, k))
         /\ FindOrLease(q, k).refs =
              [q.refs EXCEPT ![LeasedPage(q, k)] = q.refs[LeasedPage(q, k)] + 1]
         /\ \/ /\ Hit(q, k)
               /\ q.refs[LeasedPage(q, k)] > 0
               /\ q.hashes[LeasedPage(q, k)] = k
               /\ FindOrLease(q, k).hashes = q.hashes
            \/ /\ ~Hit(q, k)
               /\ q.refs[LeasedPage(q, k)] = 0
               /\ \A p \in Pages : q.hashes[p] # k
               /\ FindOrLease(q, k).hashes = [q.hashes EXCEPT ![LeasedPage(q, k)] = k]
<1> DEFINE p == LeasedPage(q, k)
<1>1. q \in PoolType
  BY DEF Sound
<1>2. CASE Hit(q, k)
  <2>1. p = q.index[k] /\ p \in Pages
    BY <1>1, <1>2 DEF LeasedPage, Hit, PoolType
  <2>2. q.hashes[p] = k
    BY <2>1 DEF Sound, IndexExact
  <2>3. q.refs[p] # 0
    BY <2>1, <2>2, PoolAssumption DEF Sound, IndexExact
  <2>4. q.refs[p] > 0
    BY <1>1, <2>1, <2>3 DEF PoolType
  <2>5. FindOrLease(q, k) = IncRef(q, p)
    BY <1>2, <2>1 DEF FindOrLease
  <2> QED
    BY <1>2, <2>1, <2>2, <2>4, <2>5, IncRefSound
<1>3. CASE ~Hit(q, k)
  <2> DEFINE a == Allocate(q)
             r == Register(a, p, k)
  <2>1. HasFree(q) /\ p = TopFree(q)
    BY <1>3 DEF CanLease, LeasedPage
  <2>2. /\ p \in Pages
        /\ q.refs[p] = 0
        /\ q.hashes[p] = NoHash
        /\ Sound(a)
        /\ a.refs = [q.refs EXCEPT ![p] = 1]
        /\ a.hashes = q.hashes
        /\ a.index = q.index
    BY <2>1, AllocateSound
  <2>3. \A x \in Pages : q.hashes[x] # k
    BY <1>3, <1>1 DEF Hit, Sound, IndexExact, Pages, NoPage
  <2>4. a \in PoolType
    BY <2>2 DEF Sound
  <2>5. /\ r.free = a.free
        /\ r.refs = a.refs
        /\ r.hashes = [a.hashes EXCEPT ![p] = k]
        /\ r.index = [a.index EXCEPT ![k] = p]
    BY <2>4 DEF Register, PoolType
  <2>6. r \in PoolType
    <3>1. /\ [a.hashes EXCEPT ![p] = k] \in [Pages -> Hashes \cup {NoHash}]
          /\ [a.index EXCEPT ![k] = p] \in [Hashes -> Pages \cup {NoPage}]
      BY <2>2, <2>4 DEF PoolType
    <3> QED
      BY <2>4, <3>1 DEF Register, PoolType
  <2>7. FreeExact(r)
    BY <2>2, <2>5 DEF Sound, FreeExact
  <2>8. IndexExact(r)
    <3>1. r.refs[p] = 1
      BY <1>1, <2>2, <2>5 DEF PoolType
    <3>2. ASSUME NEW h \in Hashes, NEW x \in Pages
          PROVE  r.index[h] = x <=> r.hashes[x] = h
      <4>1. q.index[h] = x <=> q.hashes[x] = h
        BY DEF Sound, IndexExact
      <4>2. /\ r.index[h] = IF h = k THEN p ELSE q.index[h]
            /\ r.hashes[x] = IF x = p THEN k ELSE q.hashes[x]
        BY <1>1, <2>2, <2>5 DEF PoolType
      <4> QED
        BY <4>1, <4>2, <2>2, <2>3, PoolAssumption
    <3>3. ASSUME NEW x \in Pages, r.refs[x] = 0
          PROVE  r.hashes[x] = NoHash
      <4>1. x # p
        BY <3>1, <3>3
      <4>2. r.refs[x] = a.refs[x] /\ r.hashes[x] = a.hashes[x]
        BY <2>4, <2>5, <4>1 DEF PoolType
      <4> QED
        BY <2>2, <3>3, <4>2 DEF Sound, IndexExact
    <3> QED
      BY <3>2, <3>3 DEF IndexExact
  <2>9. FindOrLease(q, k) = r
    BY <1>3, <2>1 DEF FindOrLease
  <2>10. 1 = q.refs[p] + 1
    BY <2>2
  <2> QED
    BY <1>3, <2>2, <2>3, <2>5, <2>6, <2>7, <2>8, <2>9, <2>10 DEF Sound
<1> QED
  BY <1>2, <1>3

(* dec_ref(): the count of the page drops by one, and a page that loses    *)
(* its last reference loses its hash.                                      *)
LEMMA DecRefSound ==
  ASSUME NEW q, Sound(q), NEW p \in Pages, q.refs[p] > 0
  PROVE  /\ Sound(DecRef(q, p))
         /\ DecRef(q, p).refs = [q.refs EXCEPT ![p] = q.refs[p] - 1]
         /\ DecRef(q, p).hashes =
              IF q.refs[p] = 1 THEN [q.hashes EXCEPT ![p] = NoHash] ELSE q.hashes
<1> DEFINE r == [q EXCEPT !.refs[p] = @ - 1]
           u == Unregister(r, p)
           d == Release(r, p)
           n == Len(q.free)
<1>1. /\ q \in PoolType
      /\ q.free \in Seq(Pages)
      /\ n \in Nat
      /\ q.refs \in [Pages -> Nat]
      /\ q.hashes \in [Pages -> Hashes \cup {NoHash}]
      /\ q.index \in [Hashes -> Pages \cup {NoPage}]
  BY DEF Sound, PoolType
<1>2. /\ r.free = q.free
      /\ r.refs = [q.refs EXCEPT ![p] = q.refs[p] - 1]
      /\ r.hashes = q.hashes
      /\ r.index = q.index
  BY <1>1 DEF PoolType
<1>3. r.refs \in [Pages -> Nat] /\ r.refs[p] = q.refs[p] - 1
  BY <1>1, <1>2
<1>4. r \in PoolType
  BY <1>1, <1>3 DEF PoolType
<1>5. CASE r.refs[p] # 0
  <2>1. DecRef(q, p) = r
    BY <1>5 DEF DecRef
  <2>2. q.refs[p] # 1
    BY <1>1, <1>3, <1>5
  <2>3. \A x \in Pages : r.refs[x] = 0 <=> q.refs[x] = 0
    BY <1>1, <1>2, <1>5
  <2>4. FreeExact(r) /\ IndexExact(r)
    BY <1>2, <2>3 DEF Sound, FreeExact, IndexExact
  <2> QED
    BY <1>2, <1>4, <2>1, <2>2, <2>4 DEF Sound
<1>6. CASE r.refs[p] = 0
  <2>1. DecRef(q, p) = d /\ q.refs[p] = 1
    BY <1>1, <1>3, <1>6 DEF DecRef
  <2>2. /\ u \in PoolType
        /\ u.free = q.free
        /\ u.refs = r.refs
        /\ u.hashes = [q.hashes EXCEPT ![p] = NoHash]
        /\ \A h \in Hashes :
              u.index[h] = IF h = q.hashes[p] THEN NoPage ELSE q.index[h]
    <3>1. CASE q.hashes[p] = NoHash
      <4>1. u = r
        BY <1>2, <3>1 DEF Unregister
      <4>2. q.hashes = [q.hashes EXCEPT ![p] = NoHash]
        BY <1>1, <3>1
      <4> QED
        BY <1>2, <1>4, <3>1, <4>1, <4>2, PoolAssumption
    <3>2. CASE q.hashes[p] # NoHash
      <4> DEFINE k == q.hashes[p]
      <4>1. k \in Hashes /\ q.index[k] = p
        BY <1>1, <3>2 DEF Sound, IndexExact
      <4>2. u = [r EXCEPT !.hashes[p] = NoHash, !.index[k] = NoPage]
        BY <1>2, <3>2, <4>1 DEF Unregister
      <4>3. /\ [q.hashes EXCEPT ![p] = NoHash] \in [Pages -> Hashes \cup {NoHash}]
            /\ [q.index EXCEPT ![k] = NoPage] \in [Hashes -> Pages \cup {NoPage}]
        BY <1>1
      <4> HIDE DEF r, u
      <4>4. /\ u.free = q.free
            /\ u.refs = r.refs
            /\ u.hashes = [q.hashes EXCEPT ![p] = NoHash]
            /\ u.index = [q.index EXCEPT ![k] = NoPage]
        BY <1>2, <1>4, <4>2 DEF PoolType
      <4>5. u \in PoolType
        BY <1>2, <1>4, <4>2, <4>3 DEF PoolType
      <4> QED
        BY <1>1, <4>4, <4>5
    <3> QED
      BY <3>1, <3>2
  <2>3. /\ d \in PoolType
        /\ d.free = Append(q.free, p)
        /\ d.refs = r.refs
        /\ d.hashes = u.hashes
        /\ d.index = u.index
    <3>1. d = [u EXCEPT !.free = Append(@, p)]
      BY DEF Release
    <3>2. Append(q.free, p) \in Seq(Pages)
      BY <1>1
    <3> HIDE DEF u, d
    <3> QED
      BY <2>2, <3>1, <3>2 DEF PoolType
  <2> HIDE DEF u, d, r
  <2>4. /\ DOMAIN d.free = 1 .. n + 1
        /\ \A i \in 1 .. n : d.free[i] = q.free[i]
        /\ d.free[n + 1] = p
        /\ DOMAIN q.free = 1 .. n
    BY <1>1, <2>3
  <2>5. \A i \in 1 .. n : q.free[i] # p
    BY <1>1, <2>1 DEF Sound, FreeExact
  <2>6. FreeExact(d)
    <3> HIDE DEF n
    <3>0. \A i \in 1 .. n + 1 : i \in 1 .. n \/ i = n + 1
      BY <1>1 DEF n
    <3>1. ASSUME NEW i \in 1 .. n + 1, NEW j \in 1 .. n + 1, d.free[i] = d.free[j]
          PROVE  i = j
      <4>1. CASE i \in 1 .. n /\ j \in 1 .. n
        BY <2>4, <3>1, <4>1 DEF Sound, FreeExact
      <4>2. CASE i = n + 1 \/ j = n + 1
        BY <2>4, <2>5, <3>0, <3>1, <4>2
      <4> QED
        BY <3>0, <4>1, <4>2
    <3>2. ASSUME NEW x \in Pages
          PROVE  d.refs[x] = 0 <=> \E i \in DOMAIN d.free : d.free[i] = x
      <4>1. d.refs[x] = 0 <=> (x = p \/ q.refs[x] = 0)
        BY <1>1, <1>2, <1>6, <2>3
      <4>2. q.refs[x] = 0 <=> \E i \in 1 .. n : q.free[i] = x
        BY <2>4 DEF Sound, FreeExact
      <4>3. (\E i \in DOMAIN d.free : d.free[i] = x) <=> (x = p \/ \E i \in 1 .. n : q.free[i] = x)
        <5>1. n + 1 \in 1 .. n + 1 /\ 1 .. n \subseteq 1 .. n + 1
          BY <1>1 DEF n
        <5> QED
          BY <2>4, <3>0, <5>1
      <4> QED
        BY <4>1, <4>2, <4>3
    <3> QED
      BY <2>4, <3>1, <3>2 DEF FreeExact
  <2>7. IndexExact(d)
    <3>1. ASSUME NEW h \in Hashes, NEW x \in Pages
          PROVE  d.index[h] = x <=> d.hashes[x] = h
      <4>1. q.index[h] = x <=> q.hashes[x] = h
        BY DEF Sound, IndexExact
      <4>2. q.index[h] = p <=> q.hashes[p] = h
        BY DEF Sound, IndexExact
      <4>3. /\ d.index[h] = IF h = q.hashes[p] THEN NoPage ELSE q.index[h]
            /\ d.hashes[x] = IF x = p THEN NoHash ELSE q.hashes[x]
        BY <1>1, <2>2, <2>3
      <4>4. NoPage # x /\ h # NoHash
        BY PoolAssumption DEF NoPage, Pages
      <4> QED
        BY <4>1, <4>2, <4>3, <4>4
    <3>2. ASSUME NEW x \in Pages, d.refs[x] = 0
          PROVE  d.hashes[x] = NoHash
      <4>1. x = p \/ q.refs[x] = 0
        BY <1>1, <1>2, <2>3, <3>2
      <4>2. d.hashes[x] = IF x = p THEN NoHash ELSE q.hashes[x]
        BY <1>1, <2>2, <2>3
      <4> QED
        BY <4>1, <4>2 DEF Sound, IndexExact
    <3> QED
      BY <3>1, <3>2 DEF IndexExact
  <2> QED
    BY <1>2, <2>1, <2>2, <2>3, <2>6, <2>7 DEF Sound
<1> HIDE DEF r
<1> QED
  BY <1>5, <1>6

-----------------------------------------------------------------------------
(* Finitely many references exist, so the holders of a page can be counted *)
(* and a page without holders is the one that counts to zero.              *)
LEMMA HoldersFinite ==
  ASSUME NEW p
  PROVE  /\ IsFiniteSet(Holders(p))
         /\ Cardinality(Holders(p)) \in Nat
         /\ Cardinality(Holders(p)) = 0 <=> Holders(p) = {}
<1>1. Holders(p) \subseteq Handles
  BY DEF Holders
<1> QED
  BY <1>1, HandlesAssumption, FS_Subset, FS_CardinalityType, FS_EmptySet

-----------------------------------------------------------------------------
(* The inductive invariant: types, sound bookkeeping, and counts that      *)
(* agree with what the callers hold.  None of the parts is inductive by    *)
(* itself: the free list is exact because dec_ref() frees a page at count  *)
(* zero only, a page of count zero is free of holders because the counts   *)
(* agree, and the hash table is exact because a page handed out carries no *)
(* hash.                                                                   *)
IInv == TypeOK /\ FreeListExact /\ HashTableExact /\ RefsCountHolders

LEMMA IInvSound == IInv => Sound(pool)
  BY DEF IInv, TypeOK, FreeListExact, HashTableExact, Sound

LEMMA InitIInv == Init => IInv
<1> SUFFICES ASSUME Init PROVE IInv
  OBVIOUS
<1>1. Sound(pool) /\ pool.refs = [p \in Pages |-> 0]
  BY EmptyPoolSound DEF Init, EmptyPool
<1>2. lease = [h \in Handles |-> NoPage] /\ releasing = {}
  BY DEF Init
<1>3. TypeOK
  BY <1>1, <1>2 DEF TypeOK, Sound
<1>4. RefsCountHolders
  <2> SUFFICES ASSUME NEW p \in Pages PROVE pool.refs[p] = Cardinality(Holders(p))
    BY DEF RefsCountHolders
  <2>1. Holders(p) = {}
    BY <1>2 DEF Holders, Pages, NoPage
  <2> QED
    BY <1>1, <2>1, FS_EmptySet
<1> QED
  BY <1>1, <1>3, <1>4 DEF IInv, FreeListExact, HashTableExact, Sound

(* Every call that gives handle h a reference to page p keeps IInv. *)
LEMMA GainIInv ==
  ASSUME IInv, NEW h \in Handles, Idle(h), NEW p \in Pages,
         Sound(pool'),
         pool'.refs = [pool.refs EXCEPT ![p] = pool.refs[p] + 1],
         lease' = [lease EXCEPT ![h] = p],
         UNCHANGED releasing
  PROVE  IInv'
<1>1. TypeOK'
  BY DEF IInv, TypeOK, Idle, Sound, Held
<1>2. RefsCountHolders'
  <2>1. /\ lease \in [Handles -> Pages \cup {NoPage}]
        /\ lease[h] = NoPage
        /\ NoPage \notin Pages
    BY DEF IInv, TypeOK, Idle, NoPage, Pages
  <2>2. h \notin Holders(p) /\ Holders(p)' = Holders(p) \cup {h}
    BY <2>1 DEF Holders
  <2>3. \A x \in Pages \ {p} : Holders(x)' = Holders(x)
    BY <2>1 DEF Holders
  <2>4. Cardinality(Holders(p)') = Cardinality(Holders(p)) + 1
    BY <2>2, HoldersFinite, FS_AddElement
  <2>5. \A x \in Pages : pool'.refs[x] = IF x = p THEN pool.refs[x] + 1 ELSE pool.refs[x]
    BY DEF IInv, TypeOK, PoolType
  <2> QED
    BY <2>3, <2>4, <2>5 DEF IInv, RefsCountHolders
<1> QED
  BY <1>1, <1>2 DEF IInv, FreeListExact, HashTableExact, Sound

(* dec_ref() of a reference that is held keeps IInv, whatever part of a    *)
(* release_all() is still to come.                                         *)
LEMMA GiveBackIInv ==
  ASSUME IInv, NEW h \in Handles, h \in Held, GiveBack(h),
         releasing' \subseteq Held \ {h}
  PROVE  IInv'
<1> SUFFICES ASSUME NEW p \in Pages, p = lease[h] PROVE IInv'
  BY DEF Held, IInv, TypeOK
<1>1. lease \in [Handles -> Pages \cup {NoPage}]
  BY DEF IInv, TypeOK
<1>2. /\ Sound(pool')
      /\ pool'.refs = [pool.refs EXCEPT ![p] = pool.refs[p] - 1]
      /\ lease' = [lease EXCEPT ![h] = NoPage]
  BY <1>1, IInvSound, DecRefSound DEF GiveBack
<1>3. TypeOK'
  <2>1. lease' \in [Handles -> Pages \cup {NoPage}]
    BY <1>1, <1>2
  <2>2. Held \ {h} \subseteq Held'
    BY <1>1, <1>2 DEF Held
  <2> QED
    BY <1>2, <2>1, <2>2 DEF TypeOK, Sound
<1>4. RefsCountHolders'
  <2>1. h \in Holders(p) /\ Holders(p)' = Holders(p) \ {h}
    BY <1>1, <1>2 DEF Holders, NoPage, Pages
  <2>2. \A x \in Pages \ {p} : Holders(x)' = Holders(x)
    BY <1>1, <1>2 DEF Holders, NoPage, Pages
  <2>3. Cardinality(Holders(p)') = Cardinality(Holders(p)) - 1
    BY <2>1, HoldersFinite, FS_RemoveElement
  <2>4. \A x \in Pages : pool'.refs[x] = IF x = p THEN pool.refs[x] - 1 ELSE pool.refs[x]
    BY <1>1, <1>2 DEF IInv, TypeOK, PoolType
  <2> QED
    BY <1>1, <2>2, <2>3, <2>4 DEF IInv, RefsCountHolders
<1> QED
  BY <1>2, <1>3, <1>4 DEF IInv, FreeListExact, HashTableExact, Sound

LEMMA StepIInv == IInv /\ [Next]_vars => IInv'
<1> SUFFICES ASSUME IInv, [Next]_vars PROVE IInv'
  OBVIOUS
<1>1. Sound(pool) /\ pool.refs \in [Pages -> Nat]
  BY IInvSound DEF Sound, PoolType
<1>2. ASSUME NEW h \in Handles, AllocateCall(h) PROVE IInv'
  <2> DEFINE p == TopFree(pool)
  <2>1. /\ p \in Pages
        /\ Sound(pool')
        /\ pool'.refs = [pool.refs EXCEPT ![p] = 1]
        /\ pool.refs[p] = 0
    BY <1>1, <1>2, AllocateSound DEF AllocateCall
  <2>2. pool'.refs = [pool.refs EXCEPT ![p] = pool.refs[p] + 1]
    BY <2>1
  <2> QED
    BY <1>2, <2>1, <2>2, GainIInv DEF AllocateCall
<1>3. ASSUME NEW h \in Handles, NEW k \in Hashes, FindOrLeaseCall(h, k) PROVE IInv'
  <2> DEFINE p == LeasedPage(pool, k)
  <2>1. /\ p \in Pages
        /\ Sound(pool')
        /\ pool'.refs = [pool.refs EXCEPT ![p] = pool.refs[p] + 1]
    BY <1>1, <1>3, FindOrLeaseSound DEF FindOrLeaseCall
  <2> QED
    BY <1>3, <2>1, GainIInv DEF FindOrLeaseCall
<1>4. ASSUME NEW h \in Handles, NEW g \in Handles, IncRefCall(h, g) PROVE IInv'
  <2>1. lease[g] \in Pages
    BY <1>4 DEF IncRefCall, Held, IInv, TypeOK
  <2> QED
    BY <1>1, <1>4, <2>1, IncRefSound, GainIInv DEF IncRefCall
<1>5. ASSUME NEW h \in Handles, DecRefCall(h) PROVE IInv'
  BY <1>5, GiveBackIInv DEF DecRefCall
<1>6. ASSUME NEW S \in SUBSET Handles, ReleaseAllCall(S) PROVE IInv'
  BY <1>6 DEF ReleaseAllCall, IInv, TypeOK, Held, FreeListExact, HashTableExact,
              RefsCountHolders, Holders
<1>7. ASSUME NEW h \in Handles, ReleaseNext(h) PROVE IInv'
  <2>1. h \in Held /\ releasing' \subseteq Held \ {h}
    BY <1>7 DEF ReleaseNext, IInv, TypeOK
  <2> QED
    BY <1>7, <2>1, GiveBackIInv DEF ReleaseNext
<1>8. CASE UNCHANGED vars
  BY <1>8 DEF vars, IInv, TypeOK, Held, FreeListExact, HashTableExact, RefsCountHolders, Holders
<1> QED
  BY <1>2, <1>3, <1>4, <1>5, <1>6, <1>7, <1>8 DEF Next

LEMMA Invariance == Spec => []IInv
<1> QED
  BY InitIInv, StepIInv, PTL DEF Spec

(* The type invariant of the pool and of what its callers hold. *)
THEOREM TypeCorrect == Spec => []TypeOK
<1>1. IInv => TypeOK
  BY DEF IInv
<1> QED
  BY <1>1, Invariance, PTL

(* For any number of pages and callers: the free list is exactly the set   *)
(* of pages without a reference, each once.                                *)
THEOREM FreeListCorrect == Spec => []FreeListExact
<1>1. IInv => FreeListExact
  BY DEF IInv
<1> QED
  BY <1>1, Invariance, PTL

(* For any number of pages and callers: a reference count is the number of *)
(* references held, so no page is freed under a holder or leaked.          *)
THEOREM RefCountsCorrect == Spec => []RefsCountHolders
<1>1. IInv => RefsCountHolders
  BY DEF IInv
<1> QED
  BY <1>1, Invariance, PTL

(* For any number of pages, hashes and callers: find_or_lease() never      *)
(* returns a page freed or reused since it was registered.                 *)
THEOREM HashTableCorrect == Spec => []HashTableExact
<1>1. IInv => HashTableExact
  BY DEF IInv
<1> QED
  BY <1>1, Invariance, PTL

-----------------------------------------------------------------------------
(* A page has a positive count exactly when somebody holds it. *)
LEMMA FreeIffUnheld ==
  ASSUME IInv, NEW p \in Pages
  PROVE  pool.refs[p] = 0 <=> Promise!Holders(p) = {}
BY HoldersFinite DEF IInv, RefsCountHolders, Holders, Promise!Holders

LEMMA InitPromise == Init => Promise!Init
BY DEF Init, EmptyPool, Promise!Init

(* dec_ref() is the abstract Drop: the count is one exactly when h is the  *)
(* only holder of its page.                                                *)
LEMMA GiveBackDrops ==
  ASSUME IInv, NEW h \in Handles, h \in Held, GiveBack(h)
  PROVE  Promise!Drop(h)
<1> DEFINE p == lease[h]
           H == Holders(p)
<1>1. p \in Pages /\ h \in H
  BY DEF Held, Holders, IInv, TypeOK
<1>2. /\ lease' = [lease EXCEPT ![h] = NoPage]
      /\ pool'.hashes = IF pool.refs[p] = 1 THEN [pool.hashes EXCEPT ![p] = NoHash]
                                            ELSE pool.hashes
  BY <1>1, IInvSound, DecRefSound DEF GiveBack
<1>3. pool.refs[p] = Cardinality(H)
  BY <1>1 DEF IInv, RefsCountHolders
<1>4. Cardinality(H) = 1 <=> H = {h}
  <2>1. Cardinality(H) = 1 <=> \E x : H = {x}
    BY HoldersFinite, FS_Singleton
  <2> QED
    BY <1>1, <2>1
<1>5. H = Promise!Holders(p)
  BY DEF Holders, Promise!Holders
<1> QED
  BY <1>2, <1>3, <1>4, <1>5 DEF Promise!Drop, Promise!Idle, Held

LEMMA StepPromise == IInv /\ [Next]_vars => [Promise!Next]_(Promise!vars)
<1> SUFFICES ASSUME IInv, [Next]_vars PROVE [Promise!Next]_(Promise!vars)
  OBVIOUS
<1>1. Sound(pool) /\ pool.hashes \in [Pages -> Hashes \cup {NoHash}]
  BY IInvSound DEF Sound, PoolType
<1>2. ASSUME NEW h \in Handles, AllocateCall(h) PROVE Promise!Anonymous(h)
  <2> DEFINE p == TopFree(pool)
  <2>1. /\ p \in Pages
        /\ pool.refs[p] = 0
        /\ pool.hashes[p] = NoHash
        /\ pool'.hashes = pool.hashes
    BY <1>1, <1>2, AllocateSound DEF AllocateCall
  <2>2. pool'.hashes = [pool.hashes EXCEPT ![p] = NoHash]
    BY <1>1, <2>1
  <2>3. Promise!Holders(p) = {}
    BY <2>1, FreeIffUnheld
  <2> QED
    BY <1>2, <2>1, <2>2, <2>3 DEF AllocateCall, Idle, Promise!Anonymous, Promise!Idle, Promise!Fresh
<1>3. ASSUME NEW h \in Handles, NEW k \in Hashes, FindOrLeaseCall(h, k)
      PROVE  Promise!Lookup(h, k)
  <2> DEFINE p == LeasedPage(pool, k)
  <2>1. p \in Pages /\ lease' = [lease EXCEPT ![h] = p] /\ Promise!Idle(h)
    BY <1>1, <1>3, FindOrLeaseSound DEF FindOrLeaseCall, Idle, Promise!Idle
  <2>2. CASE Hit(pool, k)
    <3>1. /\ pool.refs[p] > 0
          /\ pool.hashes[p] = k
          /\ pool'.hashes = pool.hashes
      BY <1>1, <1>3, <2>2, FindOrLeaseSound DEF FindOrLeaseCall
    <3>2. Promise!Holders(p) # {}
      BY <2>1, <3>1, FreeIffUnheld
    <3> QED
      BY <2>1, <3>1, <3>2 DEF Promise!Lookup, Promise!Share
  <2>3. CASE ~Hit(pool, k)
    <3>1. /\ pool.refs[p] = 0
          /\ \A x \in Pages : pool.hashes[x] # k
          /\ pool'.hashes = [pool.hashes EXCEPT ![p] = k]
      BY <1>1, <1>3, <2>3, FindOrLeaseSound DEF FindOrLeaseCall
    <3>2. Promise!Holders(p) = {}
      BY <2>1, <3>1, FreeIffUnheld
    <3> QED
      BY <2>1, <3>1, <3>2 DEF Promise!Lookup, Promise!Fresh
  <2> QED
    BY <2>2, <2>3
<1>4. ASSUME NEW h \in Handles, NEW g \in Handles, IncRefCall(h, g) PROVE Promise!Dup(h, g)
  <2>1. lease[g] \in Pages /\ lease[g] # NoPage
    BY <1>4 DEF IncRefCall, Held, IInv, TypeOK
  <2>2. pool'.hashes = pool.hashes
    BY <1>1, <1>4, <2>1, IncRefSound DEF IncRefCall
  <2>3. Promise!Holders(lease[g]) # {}
    BY DEF Promise!Holders
  <2> QED
    BY <1>4, <2>1, <2>2, <2>3 DEF IncRefCall, Idle, Promise!Dup, Promise!Idle, Promise!Share
<1>5. ASSUME NEW h \in Handles, DecRefCall(h) PROVE Promise!Drop(h)
  BY <1>5, GiveBackDrops DEF DecRefCall
<1>6. ASSUME NEW S \in SUBSET Handles, ReleaseAllCall(S) PROVE UNCHANGED Promise!vars
  BY <1>6 DEF ReleaseAllCall, Promise!vars
<1>7. ASSUME NEW h \in Handles, ReleaseNext(h) PROVE Promise!Drop(h)
  <2>1. h \in Held
    BY <1>7 DEF ReleaseNext, IInv, TypeOK
  <2> QED
    BY <1>7, <2>1, GiveBackDrops DEF ReleaseNext
<1>8. CASE UNCHANGED vars
  BY <1>8 DEF vars, Promise!vars
<1> QED
  BY <1>2, <1>3, <1>4, <1>5, <1>6, <1>7, <1>8 DEF Next, Promise!Next

(* For any number of pages, hashes and callers the pool, with its stack,   *)
(* counters and tables, implements the promise of PageLease.               *)
THEOREM PoolImplementsPageLease == Spec => ImplementsPageLease
<1> QED
  BY InitPromise, StepPromise, Invariance, PTL DEF Spec, ImplementsPageLease, Promise!Spec
=============================================================================
