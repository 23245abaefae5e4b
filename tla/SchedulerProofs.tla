--------------------------- MODULE SchedulerProofs --------------------------
(***************************************************************************)
(* Proof that the shared pool stays sound under the scheduler, for every   *)
(* number of pages, page size, chunk size, prompts, budgets and sampler,   *)
(* whether or not a driver gives pages back, and whether or not admit()    *)
(* throws half-way, that no page is given back under a reader, and that no *)
(* registered block loses the blocks before it.                            *)
(*                                                                         *)
(* PoolSound is not inductive: a page that is given back must be a page    *)
(* and be counted, and a block looked up must be one the hash table has an *)
(* entry for.  IInv adds what page tables and the call in progress hold.   *)
(*                                                                         *)
(* LeaseInv adds who holds a page: no page has more entries in the tables  *)
(* than references (Counted), every full block of a table lies in a page   *)
(* registered under that block, and a page that is registered under        *)
(* nothing has one reader (Keyed).                                         *)
(*                                                                         *)
(* A registered block is followed back through the table that holds its    *)
(* page, so ChainUnbroken needs that there is one: no page has more        *)
(* references than entries.  An admission that throws leaves references    *)
(* without a table; ChainInv says that tables of full blocks for them      *)
(* exist, with which entries and references agree exactly.                 *)
(*                                                                         *)
(* CacheInv, at the end, is about what the pages hold while no admission   *)
(* throws: a registered page holds its block, or a request admitted before *)
(* the ones that share it is still to write it.                            *)
(***************************************************************************)
EXTENDS Scheduler, SequenceTheorems, FiniteSetTheorems, TLAPS

BP == INSTANCE SharedBlockPoolProofs WITH
        Hashes <- BlockHashes, NoHash <- << >>, Handles <- {}, lease <- << >>, releasing <- {}

Sound(q) == q \in PoolType /\ FreeExact(q) /\ IndexExact(q)

AdmitCalls ==
  [ kind : {"admit"}, prompt : Prompts, budget : Budgets, table : Seq(Pages),
    cached : Nat, hitting : BOOLEAN ]

ReleaseCalls == [ kind : {"release"}, todo : Seq(Pages) \ {<< >>} ]

(* What release_all() and the next admission rely on: the page tables hold *)
(* pages, and a request that is done has at least one; only a request that *)
(* is done has given its pages back.                                       *)
TableSound(r) ==
  /\ r.table \in Seq(Pages) /\ r.len \in Nat
  /\ r.prompt \in Prompts /\ r.done \in Nat
  /\ r.status = "Done" => r.table # << >>
  /\ r.released => r.status = "Done"

IInv ==
  /\ Sound(pool)
  /\ call = NoCall \/ call \in AdmitCalls \/ call \in ReleaseCalls
  /\ reqs \in Seq({reqs[i] : i \in DOMAIN reqs})
  /\ \A i \in DOMAIN reqs : TableSound(reqs[i])

-----------------------------------------------------------------------------
LEMMA DivNat == ASSUME NEW x \in Nat, NEW p \in Nat \ {0} PROVE x \div p \in Nat
  OBVIOUS

LEMMA DivTimes ==
  ASSUME NEW x \in Nat, NEW p \in Nat \ {0}, NEW b \in 1 .. x \div p
  PROVE  b * p \in 1 .. x
<1>1. x \div p \in Nat /\ (x \div p) * p <= x
  OBVIOUS
<1>2. b * p <= (x \div p) * p
  <2> DEFINE k == x \div p
  <2>1. b \in Nat /\ k \in Nat /\ b <= k
    BY <1>1
  <2> HIDE DEF k
  <2> QED BY <2>1
<1>3. b * p \in Nat /\ b * p >= 1
  BY <1>1
<1> DEFINE m == b * p
           n == (x \div p) * p
<1>4. n \in Nat
  BY <1>1
<1> HIDE DEF m, n
<1> QED BY <1>1, <1>2, <1>3, <1>4 DEF m, n

(* No block hashes to the sentinel. *)
LEMMA BlocksNotEmpty == << >> \notin BlockHashes
<1> SUFFICES ASSUME NEW s \in Prompts, NEW b \in 1 .. FullBlocks(s), Blocks(s, b) = << >> PROVE FALSE
  BY DEF BlockHashes
<1>1. s \in Seq(Tokens) /\ PageSize \in Nat \ {0} /\ Len(s) \in Nat
  BY SchedulerAssumption
<1> DEFINE n == b * PageSize
<1>2. n \in 1 .. Len(s)
  BY <1>1, DivTimes DEF FullBlocks
<1>3. SubSeq(s, 1, n) = << >>
  BY DEF Blocks
<1> HIDE DEF n
<1>4. Len(SubSeq(s, 1, n)) = n
  BY <1>1, <1>2
<1> QED BY <1>2, <1>3, <1>4

LEMMA TimesPage ==
  ASSUME NEW a \in Nat, NEW b \in Nat
  PROVE  /\ a * PageSize \in Nat
         /\ a <= b => a * PageSize <= b * PageSize
         /\ a < b => a * PageSize + PageSize <= b * PageSize
<1>1. PageSize \in Nat \ {0}
  BY SchedulerAssumption
<1>2. ASSUME NEW x \in Nat, NEW y \in Nat, x <= y PROVE x * PageSize <= y * PageSize
  BY <1>1, <1>2
<1>3. (a + 1) * PageSize = a * PageSize + PageSize
  BY <1>1
<1>4. a < b => (a + 1) * PageSize <= b * PageSize
  BY <1>2
<1> QED BY <1>1, <1>2, <1>3, <1>4

(* A full block of a prompt. *)
LEMMA FullBlock ==
  ASSUME NEW s \in Prompts, NEW b \in Nat, 1 <= b, b <= FullBlocks(s)
  PROVE  /\ b * PageSize \in 1 .. Len(s) /\ Blocks(s, b) \in Seq(Tokens)
         /\ Len(Blocks(s, b)) = b * PageSize /\ Blocks(s, b) # << >>
         /\ Blocks(s, b) \in BlockHashes
         /\ \A j \in 0 .. b * PageSize - 1 : SubSeq(Blocks(s, b), 1, j + 1) = SubSeq(s, 1, j + 1)
<1>1. s \in Seq(Tokens) /\ PageSize \in Nat \ {0} /\ Len(s) \in Nat
  BY SchedulerAssumption
<1>2. FullBlocks(s) \in Nat
  BY <1>1, DivNat DEF FullBlocks
<1>3. b \in 1 .. FullBlocks(s)
  BY <1>2
<1>4. b * PageSize \in 1 .. Len(s)
  BY <1>1, <1>3, DivTimes DEF FullBlocks
<1> DEFINE n == b * PageSize
<1> HIDE DEF n
<1>5. SubSeq(s, 1, n) \in Seq(Tokens) /\ Len(SubSeq(s, 1, n)) = n
  BY <1>1, <1>4 DEF n
<1>6. ASSUME NEW j \in 0 .. n - 1 PROVE SubSeq(SubSeq(s, 1, n), 1, j + 1) = SubSeq(s, 1, j + 1)
  BY <1>1, <1>4, SubSeqOfSubSeq DEF n
<1>7. Blocks(s, b) = SubSeq(s, 1, n)
  BY DEF Blocks, n
<1>8. Blocks(s, b) \in BlockHashes
  BY <1>3 DEF BlockHashes
<1> QED BY <1>4, <1>5, <1>6, <1>7, <1>8, BlocksNotEmpty DEF n

(* The bookkeeping the scheduler uses is that of a sound pool. *)
LEMMA PoolConstants == MaxPages \in Nat \ {0} /\ << >> \notin BlockHashes /\ BP!IsFiniteSet({})
<1>1. BP!IsFiniteSet({})
  BY FS_EmptySet DEF IsFiniteSet, BP!IsFiniteSet
<1> QED BY <1>1, SchedulerAssumption, BlocksNotEmpty

LEMMA SoundSame == ASSUME NEW q PROVE Sound(q) <=> BP!Sound(q)
  BY DEF Sound, BP!Sound, PoolType, BP!PoolType, FreeExact, BP!FreeExact, IndexExact, BP!IndexExact,
         Pages, BP!Pages, NoPage, BP!NoPage

LEMMA EmptyPoolKept == Sound(EmptyPool)
<1>1. BP!Sound(BP!EmptyPool)
  BY BP!EmptyPoolSound, PoolConstants
<1>2. BP!EmptyPool = EmptyPool
  BY DEF EmptyPool, BP!EmptyPool, Pages, BP!Pages, NoPage, BP!NoPage
<1> QED BY <1>1, <1>2, SoundSame

LEMMA AllocateKept ==
  ASSUME NEW q, Sound(q), HasFree(q)
  PROVE  /\ TopFree(q) \in Pages /\ Sound(Allocate(q))
         /\ q.refs[TopFree(q)] = 0 /\ q.hashes[TopFree(q)] = << >>
         /\ Allocate(q).refs = [q.refs EXCEPT ![TopFree(q)] = 1]
         /\ Allocate(q).hashes = q.hashes
<1>1. BP!Sound(q) /\ BP!HasFree(q)
  BY SoundSame DEF HasFree, BP!HasFree
<1>2. /\ BP!TopFree(q) \in BP!Pages /\ BP!Sound(BP!Allocate(q))
      /\ q.refs[BP!TopFree(q)] = 0 /\ q.hashes[BP!TopFree(q)] = << >>
      /\ BP!Allocate(q).refs = [q.refs EXCEPT ![BP!TopFree(q)] = 1]
      /\ BP!Allocate(q).hashes = q.hashes
  BY <1>1, BP!AllocateSound, PoolConstants
<1>3. BP!TopFree(q) = TopFree(q) /\ BP!Pages = Pages
  BY DEF TopFree, BP!TopFree, Pages, BP!Pages
<1>4. BP!Allocate(q) = Allocate(q)
  BY <1>3 DEF Allocate, BP!Allocate
<1> QED BY <1>2, <1>3, <1>4, SoundSame

LEMMA FindOrLeaseKept ==
  ASSUME NEW q, Sound(q), NEW k \in BlockHashes, CanLease(q, k)
  PROVE  LET p == LeasedPage(q, k)
             r == FindOrLease(q, k)
         IN  /\ p \in Pages /\ Sound(r)
             /\ r.refs = [q.refs EXCEPT ![p] = q.refs[p] + 1]
             /\ \/ Hit(q, k) /\ q.refs[p] > 0 /\ q.hashes[p] = k /\ r.hashes = q.hashes
                \/ /\ ~Hit(q, k) /\ q.refs[p] = 0 /\ \A x \in Pages : q.hashes[x] # k
                   /\ r.hashes = [q.hashes EXCEPT ![p] = k]
<1>1. /\ BP!TopFree(q) = TopFree(q) /\ BP!Pages = Pages /\ BP!Hit(q, k) = Hit(q, k)
      /\ BP!HasFree(q) = HasFree(q)
  BY DEF TopFree, BP!TopFree, Pages, BP!Pages, Hit, BP!Hit, NoPage, BP!NoPage, HasFree, BP!HasFree
<1>2. BP!Sound(q) /\ BP!CanLease(q, k)
  BY <1>1, SoundSame DEF CanLease, BP!CanLease
<1> DEFINE u == BP!LeasedPage(q, k)
           v == BP!FindOrLease(q, k)
<1>3. /\ u \in BP!Pages /\ BP!Sound(v)
      /\ v.refs = [q.refs EXCEPT ![u] = q.refs[u] + 1]
      /\ \/ BP!Hit(q, k) /\ q.refs[u] > 0 /\ q.hashes[u] = k /\ v.hashes = q.hashes
         \/ /\ ~BP!Hit(q, k) /\ q.refs[u] = 0 /\ \A x \in BP!Pages : q.hashes[x] # k
            /\ v.hashes = [q.hashes EXCEPT ![u] = k]
  BY <1>2, BP!FindOrLeaseSound, PoolConstants
<1>4. BP!LeasedPage(q, k) = LeasedPage(q, k)
  BY <1>1 DEF LeasedPage, BP!LeasedPage
<1>5. BP!FindOrLease(q, k) = FindOrLease(q, k)
  BY <1>1 DEF FindOrLease, BP!FindOrLease, IncRef, BP!IncRef, Register, BP!Register,
              Allocate, BP!Allocate
<1> QED BY <1>1, <1>3, <1>4, <1>5, SoundSame

LEMMA DecRefKept ==
  ASSUME NEW q, Sound(q), NEW p \in Pages, q.refs[p] > 0
  PROVE  /\ Sound(DecRef(q, p))
         /\ DecRef(q, p).refs = [q.refs EXCEPT ![p] = q.refs[p] - 1]
         /\ DecRef(q, p).hashes =
              IF q.refs[p] = 1 THEN [q.hashes EXCEPT ![p] = << >>] ELSE q.hashes
<1>1. BP!Sound(q) /\ p \in BP!Pages
  BY SoundSame DEF Pages, BP!Pages
<1>2. /\ BP!Sound(BP!DecRef(q, p))
      /\ BP!DecRef(q, p).refs = [q.refs EXCEPT ![p] = q.refs[p] - 1]
      /\ BP!DecRef(q, p).hashes =
           IF q.refs[p] = 1 THEN [q.hashes EXCEPT ![p] = << >>] ELSE q.hashes
  BY <1>1, BP!DecRefSound, PoolConstants
<1>3. BP!DecRef(q, p) = DecRef(q, p)
  BY DEF DecRef, BP!DecRef, Release, BP!Release, Unregister, BP!Unregister, NoPage, BP!NoPage
<1> QED BY <1>2, <1>3, SoundSame

-----------------------------------------------------------------------------
LEMMA InitInv == Init => IInv
  BY EmptyPoolKept DEF Init, IInv

LEMMA FunctionIsSeq ==
  ASSUME NEW T, NEW n \in Nat, NEW f \in [1 .. n -> T]
  PROVE  f \in Seq(T)
  BY SeqDef

(* One request replaced by one whose table is sound. *)
LEMMA RequestReplaced ==
  ASSUME IInv, NEW i \in DOMAIN reqs, NEW r, TableSound(r), reqs' = [reqs EXCEPT ![i] = r]
  PROVE  /\ reqs' \in Seq({reqs'[j] : j \in DOMAIN reqs'})
         /\ \A j \in DOMAIN reqs' : TableSound(reqs'[j])
<1> DEFINE S == {reqs[j] : j \in DOMAIN reqs}
           T == {reqs'[j] : j \in DOMAIN reqs'}
           n == Len(reqs)
<1>1. reqs \in Seq(S) /\ n \in Nat /\ DOMAIN reqs = 1 .. n
  BY DEF IInv
<1>2. reqs' = [j \in 1 .. n |-> IF j = i THEN r ELSE reqs[j]]
  BY <1>1
<1>3. \A j \in 1 .. n : reqs'[j] \in T
  BY <1>2
<1>4. reqs' \in [1 .. n -> T]
  BY <1>2, <1>3
<1>5. reqs' \in Seq(T)
  <2> HIDE DEF T
  <2> QED BY <1>1, <1>4, FunctionIsSeq
<1> QED BY <1>1, <1>2, <1>5 DEF IInv

(* One request added. *)
LEMMA RequestAdded ==
  ASSUME IInv, NEW r, TableSound(r), reqs' = Append(reqs, r)
  PROVE  /\ reqs' \in Seq({reqs'[j] : j \in DOMAIN reqs'})
         /\ \A j \in DOMAIN reqs' : TableSound(reqs'[j])
<1> DEFINE S == {reqs[j] : j \in DOMAIN reqs} \cup {r}
           T == {reqs'[j] : j \in DOMAIN reqs'}
           n == Len(reqs)
<1>1. reqs \in Seq(S) /\ r \in S /\ n \in Nat /\ DOMAIN reqs = 1 .. n
  BY DEF IInv
<1>2. /\ reqs' \in Seq(S) /\ Len(reqs') = n + 1 /\ DOMAIN reqs' = 1 .. n + 1
      /\ \A j \in 1 .. n : reqs'[j] = reqs[j]
      /\ reqs'[n + 1] = r
  BY <1>1
<1>3. \A j \in DOMAIN reqs' : reqs'[j] \in T
  OBVIOUS
<1>4. reqs' \in Seq(T)
  BY <1>1, <1>2, <1>3
<1>5. \A j \in 1 .. n + 1 : TableSound(reqs'[j])
  <2> SUFFICES ASSUME NEW j \in 1 .. n + 1 PROVE TableSound(reqs'[j])
    OBVIOUS
  <2>1. CASE j \in 1 .. n
    BY <1>1, <1>2, <2>1 DEF IInv
  <2>2. CASE j = n + 1
    BY <1>2, <2>2
  <2> QED BY <1>1, <2>1, <2>2
<1> QED BY <1>2, <1>4, <1>5

-----------------------------------------------------------------------------
LEMMA AdmitCallInv ==
  ASSUME IInv, NEW prompt \in Prompts, NEW budget \in Budgets, AdmitCall(prompt, budget)
  PROVE  IInv'
<1>1. call' \in AdmitCalls
  BY DEF AdmitCall, AdmitCalls
<1> QED BY <1>1 DEF AdmitCall, IInv, Sound, TableSound

(* What the walk of admit() relies on. *)
LEMMA WalkSound ==
  ASSUME IInv, Walking
  PROVE  /\ call \in AdmitCalls /\ call.prompt \in Prompts /\ call.table \in Seq(Pages)
         /\ Len(call.table) \in Nat /\ FullBlocks(call.prompt) \in Nat
         /\ Len(call.table) + 1 \in 1 .. FullBlocks(call.prompt)
         /\ NextBlock \in BlockHashes
<1>1. /\ call \in AdmitCalls /\ call.prompt \in Prompts /\ call.table \in Seq(Pages)
      /\ Len(call.table) \in Nat /\ Len(call.table) < FullBlocks(call.prompt)
  BY DEF IInv, Walking, NoCall, AdmitCalls, ReleaseCalls
<1>2. FullBlocks(call.prompt) \in Nat
  <2>1. Len(call.prompt) \in Nat /\ PageSize \in Nat \ {0}
    BY <1>1, SchedulerAssumption
  <2> QED BY <2>1, DivNat DEF FullBlocks
<1>3. Len(call.table) + 1 \in 1 .. FullBlocks(call.prompt)
  BY <1>1, <1>2
<1> QED BY <1>1, <1>2, <1>3 DEF NextBlock, BlockHashes

LEMMA AdmitBlockInv == IInv /\ AdmitBlock => IInv'
<1> SUFFICES ASSUME IInv, AdmitBlock PROVE IInv'
  OBVIOUS
<1>1. call \in AdmitCalls /\ call.table \in Seq(Pages) /\ NextBlock \in BlockHashes
      /\ call.cached \in Nat
  BY WalkSound DEF AdmitBlock, AdmitCalls
<1>2. LeasedPage(pool, NextBlock) \in Pages /\ Sound(pool')
  BY <1>1, FindOrLeaseKept DEF IInv, AdmitBlock
<1>3. call' \in AdmitCalls
  <2> DEFINE hit == call.hitting /\ Hit(pool, NextBlock)
  <2>1. hit \in BOOLEAN
    OBVIOUS
  <2>2. /\ Append(call.table, LeasedPage(pool, NextBlock)) \in Seq(Pages)
        /\ (IF hit THEN call.cached + 1 ELSE call.cached) \in Nat
    BY <1>1, <1>2
  <2>3. call' = [ call EXCEPT !.table = Append(@, LeasedPage(pool, NextBlock)),
                              !.cached = IF hit THEN @ + 1 ELSE @, !.hitting = hit ]
    BY DEF AdmitBlock
  <2> HIDE DEF hit
  <2> QED BY <1>1, <2>1, <2>2, <2>3 DEF AdmitCalls
<1> QED BY <1>2, <1>3 DEF IInv, AdmitBlock, Sound, TableSound

(* The request admit() enters. *)
LEMMA RequestSound ==
  ASSUME NEW c \in AdmitCalls PROVE TableSound(Request(c))
<1>1. c.cached \in Nat /\ PageSize \in Nat /\ c.table \in Seq(Pages) /\ c.prompt \in Prompts
  BY SchedulerAssumption DEF AdmitCalls
<1>2. CachedLen(c) \in Nat
  BY <1>1 DEF CachedLen
<1> QED BY <1>1, <1>2 DEF Request, TableSound

LEMMA AdmitReturnInv == IInv /\ AdmitReturn => IInv'
<1> SUFFICES ASSUME IInv, AdmitReturn PROVE IInv'
  OBVIOUS
<1>1. call \in AdmitCalls /\ call' = NoCall
  BY DEF IInv, AdmitReturn, NoCall, ReleaseCalls
<1>2. CASE Leftover(call.prompt)
  <2> DEFINE c == [call EXCEPT !.table = Append(@, TopFree(pool))]
  <2>1. TopFree(pool) \in Pages /\ Sound(pool')
    BY <1>2, AllocateKept DEF IInv, AdmitReturn
  <2>2. c \in AdmitCalls
    BY <1>1, <2>1 DEF AdmitCalls
  <2>3. reqs' = Append(reqs, Request(c))
    BY <1>2 DEF AdmitReturn
  <2> HIDE DEF c
  <2> QED BY <1>1, <2>1, <2>2, <2>3, RequestSound, RequestAdded DEF IInv
<1>3. CASE ~Leftover(call.prompt)
  <2>1. reqs' = Append(reqs, Request(call)) /\ pool' = pool
    BY <1>3 DEF AdmitReturn
  <2>2. Sound(pool')
    BY <2>1 DEF IInv
  <2> QED BY <1>1, <2>1, <2>2, RequestSound, RequestAdded DEF IInv
<1> QED BY <1>2, <1>3

LEMMA AdmitThrowInv == IInv /\ AdmitThrow => IInv'
  BY DEF IInv, AdmitThrow, Sound, TableSound

LEMMA ReleaseCallInv ==
  ASSUME IInv, NEW i \in DOMAIN reqs, ReleaseCall(i)
  PROVE  IInv'
<1>1. reqs[i].table \in Seq(Pages) \ {<< >>} /\ TableSound(reqs[i]) /\ pool' = pool
  BY DEF IInv, ReleaseCall, TableSound
<1>2. call' \in ReleaseCalls
  BY <1>1 DEF ReleaseCall, ReleaseCalls
<1> DEFINE r == [reqs[i] EXCEPT !.released = TRUE]
<1>3. TableSound(r) /\ reqs' = [reqs EXCEPT ![i] = r]
  BY <1>1 DEF ReleaseCall, TableSound
<1>4. Sound(pool')
  BY <1>1 DEF IInv
<1> HIDE DEF r
<1> QED BY <1>2, <1>3, <1>4, RequestReplaced DEF IInv

LEMMA ReleaseNextInv == IInv /\ ReleaseNext => IInv'
<1> SUFFICES ASSUME IInv, ReleaseNext PROVE IInv'
  OBVIOUS
<1>1. call \in ReleaseCalls /\ call.todo \in Seq(Pages) /\ call.todo # << >>
  BY DEF IInv, ReleaseNext, NoCall, AdmitCalls, ReleaseCalls
<1>2. Head(call.todo) \in Pages /\ Tail(call.todo) \in Seq(Pages)
  BY <1>1
<1>3. Sound(pool')
  BY <1>2, DecRefKept DEF IInv, ReleaseNext
<1>4. call' = NoCall \/ call' \in ReleaseCalls
  <2>1. CASE Len(call.todo) = 1
    BY <2>1 DEF ReleaseNext
  <2>2. CASE Len(call.todo) # 1
    <3> DEFINE n == Len(call.todo)
    <3>1. n \in Nat \ {0} /\ Len(Tail(call.todo)) = n - 1
      BY <1>1, EmptySeq
    <3>2. n - 1 # 0
      BY <2>2, <3>1
    <3>3. Tail(call.todo) # << >>
      BY <3>1, <3>2, EmptySeq
    <3> QED BY <1>1, <1>2, <2>2, <3>3 DEF ReleaseNext, ReleaseCalls
  <2> QED BY <2>1, <2>2
<1> QED BY <1>3, <1>4 DEF IInv, ReleaseNext, Sound, TableSound

-----------------------------------------------------------------------------
(* A step of the scheduler.  A request whose forward pass fitted its pages *)
(* has a page, so it has one when it is done.                              *)
LEMMA FitsHasPage ==
  ASSUME NEW r, TableSound(r), NEW n \in Nat \ {0}, Fits(r, n)
  PROVE  r.table # << >>
<1>1. PageSize \in Nat /\ r.len \in Nat /\ r.len + n <= Len(r.table) * PageSize
  BY SchedulerAssumption DEF TableSound, Fits
<1>2. r.table = << >> => Len(r.table) * PageSize = 0
  BY <1>1
<1> QED BY <1>1, <1>2

LEMMA WithTokenSound ==
  ASSUME NEW r, NEW t, r.table \in Seq(Pages), r.table # << >>, r.len \in Nat,
         r.prompt \in Prompts, r.done \in Nat, ~r.released
  PROVE  TableSound(WithToken(r, t))
  BY DEF TableSound, WithToken

LEMMA PrefillSkipInv ==
  ASSUME IInv, NEW i \in DOMAIN reqs, PrefillSkip(i), call' = call
  PROVE  IInv'
<1> DEFINE r == [reqs[i] EXCEPT !.status = "Decoding"]
<1>1. TableSound(reqs[i]) /\ pool' = pool /\ reqs[i].status = "Prefilling"
  BY DEF IInv, PrefillSkip
<1>2. TableSound(r) /\ reqs' = [reqs EXCEPT ![i] = r]
  BY <1>1 DEF PrefillSkip, TableSound
<1>3. Sound(pool')
  BY <1>1 DEF IInv
<1> HIDE DEF r
<1> QED BY <1>2, <1>3, RequestReplaced DEF IInv

LEMMA PrefillChunkInv ==
  ASSUME IInv, NEW i \in DOMAIN reqs, PrefillChunk(i), call' = call
  PROVE  IInv'
<1> DEFINE r == reqs[i]
           rest == Len(r.prompt) - r.done
           n == IF ChunkSize < rest THEN ChunkSize ELSE rest
           fed == SubSeq(r.prompt, r.done + 1, r.done + n)
           fwd == [r EXCEPT !.len = @ + n, !.done = @ + n]
<1>1. TableSound(r) /\ pool' = pool /\ r.status = "Prefilling" /\ rest > 0 /\ Fits(r, n)
  BY DEF IInv, PrefillChunk
<1>2. Len(r.prompt) \in Nat /\ r.done \in Nat /\ ChunkSize \in Nat \ {0} /\ r.len \in Nat
      /\ r.table \in Seq(Pages) /\ r.prompt \in Prompts
  BY <1>1, SchedulerAssumption DEF TableSound
<1>3. n \in Nat \ {0}
  BY <1>1, <1>2
<1>4. r.table # << >>
  BY <1>1, <1>3, FitsHasPage
<1>5. /\ fwd.table = r.table /\ fwd.prompt = r.prompt /\ fwd.len \in Nat /\ fwd.done \in Nat
      /\ ~fwd.released
  BY <1>1, <1>2, <1>3 DEF TableSound
<1>6. \/ reqs' = [reqs EXCEPT ![i] = fwd]
      \/ \E t : reqs' = [reqs EXCEPT ![i] = WithToken(fwd, t)]
  BY DEF PrefillChunk
<1>7. TableSound(fwd)
  BY <1>2, <1>4, <1>5 DEF TableSound
<1>8. \A t : TableSound(WithToken(fwd, t))
  BY <1>2, <1>4, <1>5, WithTokenSound
<1>9. Sound(pool')
  BY <1>1 DEF IInv
<1> HIDE DEF fwd
<1> QED BY <1>6, <1>7, <1>8, <1>9, RequestReplaced DEF IInv

LEMMA DecodeStepInv ==
  ASSUME IInv, NEW i \in DOMAIN reqs, DecodeStep(i), call' = call
  PROVE  IInv'
<1> DEFINE q == reqs[i]
           r == IF NeedsPage(q) THEN [q EXCEPT !.table = Append(@, TopFree(pool))] ELSE q
           fwd == [r EXCEPT !.len = @ + 1]
<1>1. /\ TableSound(q) /\ q.status = "Decoding" /\ q.len \in Nat /\ q.prompt \in Prompts
      /\ q.table \in Seq(Pages) /\ q.done \in Nat /\ ~q.released
  BY DEF IInv, DecodeStep, TableSound
<1>2. Sound(pool') /\ (NeedsPage(q) => TopFree(pool) \in Pages)
  BY AllocateKept DEF IInv, DecodeStep
<1>3. /\ r.table \in Seq(Pages) /\ r.len = q.len /\ r.prompt = q.prompt /\ r.done = q.done
      /\ r.status = "Decoding" /\ ~r.released
  BY <1>1, <1>2
<1>4. TableSound(r)
  BY <1>1, <1>3 DEF TableSound
<1>5. \/ reqs' = [reqs EXCEPT ![i] = r]
      \/ Fits(r, 1) /\ \E t : reqs' = [reqs EXCEPT ![i] = WithToken(fwd, t)]
  BY DEF DecodeStep
<1>6. ASSUME Fits(r, 1), NEW t PROVE TableSound(WithToken(fwd, t))
  <2>1. r.table # << >>
    BY <1>4, <1>6, FitsHasPage
  <2>2. /\ fwd.table = r.table /\ fwd.prompt = r.prompt /\ fwd.len \in Nat /\ fwd.done = r.done
        /\ ~fwd.released
    BY <1>1, <1>3
  <2> HIDE DEF fwd
  <2> QED BY <1>1, <1>3, <2>1, <2>2, WithTokenSound
<1> HIDE DEF fwd, r
<1> QED BY <1>2, <1>4, <1>5, <1>6, RequestReplaced DEF IInv

LEMMA StepInv == IInv /\ [Next]_vars => IInv'
<1> SUFFICES ASSUME IInv, [Next]_vars PROVE IInv'
  OBVIOUS
<1>1. CASE Admit
  BY <1>1, AdmitCallInv DEF Admit
<1>2. CASE \E i \in DOMAIN reqs : ReleaseCall(i)
  BY <1>2, ReleaseCallInv
<1>3. CASE InCall
  BY <1>3, AdmitBlockInv, AdmitReturnInv, AdmitThrowInv, ReleaseNextInv DEF InCall
<1>4. CASE Step
  BY <1>4, PrefillSkipInv, PrefillChunkInv, DecodeStepInv DEF Step
<1>5. CASE UNCHANGED vars
  BY <1>5 DEF vars, IInv, Sound, TableSound
<1> QED BY <1>1, <1>2, <1>3, <1>4, <1>5 DEF Next

-----------------------------------------------------------------------------
(* Counting the entries of page tables, for any family T of tables.        *)
Entries(T, p) ==
  {e \in UNION {{i} \X DOMAIN T[i] : i \in DOMAIN T} : T[e[1]][e[2]] = p}

(* At most n entries of T refer to p. *)
AtMost(T, p, n) == IsFiniteSet(Entries(T, p)) /\ Cardinality(Entries(T, p)) <= n

LEMMA EntriesIn ==
  ASSUME NEW T, NEW p, NEW e
  PROVE  e \in Entries(T, p) <=>
           /\ e[1] \in DOMAIN T /\ e[2] \in DOMAIN T[e[1]]
           /\ T[e[1]][e[2]] = p /\ e = <<e[1], e[2]>>
<1>1. ASSUME e \in Entries(T, p)
      PROVE  /\ e[1] \in DOMAIN T /\ e[2] \in DOMAIN T[e[1]]
             /\ T[e[1]][e[2]] = p /\ e = <<e[1], e[2]>>
  <2>1. PICK i \in DOMAIN T : e \in {i} \X DOMAIN T[i]
    BY <1>1 DEF Entries
  <2>2. e[1] = i /\ e[2] \in DOMAIN T[i] /\ e = <<e[1], e[2]>>
    BY <2>1
  <2> QED BY <1>1, <2>2 DEF Entries
<1>2. ASSUME e[1] \in DOMAIN T, e[2] \in DOMAIN T[e[1]], T[e[1]][e[2]] = p, e = <<e[1], e[2]>>
      PROVE  e \in Entries(T, p)
  <2> DEFINE i == e[1]
  <2>1. e \in {i} \X DOMAIN T[i]
    BY <1>2
  <2>2. e \in UNION {{j} \X DOMAIN T[j] : j \in DOMAIN T}
    BY <1>2, <2>1
  <2> QED BY <1>2, <2>2 DEF Entries
<1> QED BY <1>1, <1>2

LEMMA EntryIn ==
  ASSUME NEW T, NEW i \in DOMAIN T, NEW b \in DOMAIN T[i]
  PROVE  <<i, b>> \in Entries(T, T[i][b])
  BY EntriesIn

(* No entry without a reference. *)
LEMMA EntryCounted ==
  ASSUME NEW T, NEW n \in Nat, NEW i \in DOMAIN T, NEW b \in DOMAIN T[i], AtMost(T, T[i][b], n)
  PROVE  n > 0
<1> DEFINE E == Entries(T, T[i][b])
<1>1. <<i, b>> \in E /\ IsFiniteSet(E) /\ Cardinality(E) <= n
  BY EntryIn DEF AtMost
<1> HIDE DEF E
<1>2. Cardinality(E) # 0 /\ Cardinality(E) \in Nat
  BY <1>1, FS_EmptySet, FS_CardinalityType
<1> QED BY <1>1, <1>2

(* Two entries need two references. *)
LEMMA TwoEntriesCounted ==
  ASSUME NEW T, NEW n \in Nat,
         NEW i \in DOMAIN T, NEW b \in DOMAIN T[i], NEW j \in DOMAIN T, NEW d \in DOMAIN T[j],
         T[i][b] = T[j][d], AtMost(T, T[i][b], n), <<i, b>> # <<j, d>>
  PROVE  n > 1
<1> DEFINE E == Entries(T, T[i][b])
           x == <<i, b>>
           y == <<j, d>>
<1>1. x \in E /\ y \in E /\ x # y /\ IsFiniteSet(E) /\ Cardinality(E) <= n
  BY EntryIn DEF AtMost
<1> HIDE DEF E, x, y
<1>2. Cardinality(E) \in Nat /\ Cardinality(E) # 0
  BY <1>1, FS_EmptySet, FS_CardinalityType
<1>3. Cardinality(E) # 1
  BY <1>1, FS_Singleton
<1> QED BY <1>1, <1>2, <1>3

(* Fewer entries, or one more. *)
LEMMA AtMostSubset ==
  ASSUME NEW T, NEW U, NEW p, NEW n \in Nat, AtMost(T, p, n), Entries(U, p) \subseteq Entries(T, p)
  PROVE  AtMost(U, p, n)
<1>1. /\ IsFiniteSet(Entries(U, p)) /\ Cardinality(Entries(U, p)) <= Cardinality(Entries(T, p))
      /\ Cardinality(Entries(U, p)) \in Nat /\ Cardinality(Entries(T, p)) \in Nat
  BY FS_Subset, FS_CardinalityType DEF AtMost
<1> QED BY <1>1 DEF AtMost

LEMMA AtMostOneMore ==
  ASSUME NEW T, NEW U, NEW p, NEW n \in Nat, NEW x, AtMost(T, p, n),
         Entries(U, p) \subseteq Entries(T, p) \cup {x}
  PROVE  AtMost(U, p, n + 1)
<1> DEFINE E == Entries(T, p)
           F == E \cup {x}
<1>1. IsFiniteSet(E) /\ Cardinality(E) \in Nat /\ Cardinality(E) <= n
  BY FS_CardinalityType DEF AtMost
<1>2. IsFiniteSet(F) /\ Cardinality(F) \in Nat /\ Cardinality(F) <= Cardinality(E) + 1
  BY <1>1, FS_AddElement, FS_CardinalityType
<1>3. Entries(U, p) \subseteq F
  OBVIOUS
<1> HIDE DEF E, F
<1>4. /\ IsFiniteSet(Entries(U, p)) /\ Cardinality(Entries(U, p)) <= Cardinality(F)
      /\ Cardinality(Entries(U, p)) \in Nat
  BY <1>2, <1>3, FS_Subset, FS_CardinalityType
<1> QED BY <1>1, <1>2, <1>4 DEF AtMost

(* The table of number j becomes that of number i. *)
LEMMA AtMostMoved ==
  ASSUME NEW T, NEW U, NEW p, NEW n \in Nat, AtMost(T, p, n),
         NEW i \in DOMAIN U, NEW j \in DOMAIN T, i # j, U[i] = T[j],
         j \in DOMAIN U => DOMAIN U[j] = {},
         \A k \in DOMAIN U \ {i, j} : k \in DOMAIN T /\ U[k] = T[k]
  PROVE  AtMost(U, p, n)
<1> DEFINE E == Entries(T, p)
           F == Entries(U, p)
           back(e) == IF e[1] = i THEN <<j, e[2]>> ELSE e
           f == [e \in F |-> back(e)]
<1>1. ASSUME NEW e \in F PROVE f[e] \in E /\ f[e] = back(e) /\ e[1] # j /\ e = <<e[1], e[2]>>
  <2>1. e[1] \in DOMAIN U /\ e[2] \in DOMAIN U[e[1]] /\ U[e[1]][e[2]] = p /\ e = <<e[1], e[2]>>
    BY EntriesIn
  <2>2. e[1] # j
    BY <2>1
  <2>3. CASE e[1] = i
    <3>1. f[e] = <<j, e[2]>> /\ e[2] \in DOMAIN T[j] /\ T[j][e[2]] = p
      BY <2>1, <2>3
    <3>2. f[e] \in E
      BY <3>1, EntryIn
    <3> QED BY <2>1, <2>2, <3>2
  <2>4. CASE e[1] # i
    <3>1. e[1] \in DOMAIN T /\ U[e[1]] = T[e[1]] /\ f[e] = e
      BY <2>1, <2>2, <2>4
    <3>2. f[e] \in E
      BY <2>1, <3>1, EntriesIn
    <3> QED BY <2>1, <2>2, <3>2
  <2> QED BY <2>3, <2>4
<1>2. ASSUME NEW a \in F, NEW b \in F, f[a] = f[b] PROVE a = b
  <2>1. a[1] # j /\ b[1] # j /\ a = <<a[1], a[2]>> /\ b = <<b[1], b[2]>>
        /\ f[a] = back(a) /\ f[b] = back(b)
    BY <1>1
  <2> HIDE DEF F, f
  <2>2. CASE a[1] = i /\ b[1] = i
    <3>1. <<j, a[2]>> = <<j, b[2]>>
      BY <1>2, <2>1, <2>2
    <3> QED BY <2>1, <2>2, <3>1
  <2>3. CASE a[1] = i /\ b[1] # i
    <3>1. <<j, a[2]>> = b
      BY <1>2, <2>1, <2>3
    <3> QED BY <2>1, <2>3, <3>1
  <2>4. CASE a[1] # i /\ b[1] = i
    <3>1. a = <<j, b[2]>>
      BY <1>2, <2>1, <2>4
    <3> QED BY <2>1, <2>4, <3>1
  <2>5. CASE a[1] # i /\ b[1] # i
    BY <1>2, <2>1, <2>5
  <2> QED BY <2>2, <2>3, <2>4, <2>5
<1>3. f \in Injection(F, E)
  <2>1. f \in [F -> E]
    BY <1>1
  <2> QED BY <1>2, <2>1 DEF Injection, IsInjective
<1>4. IsFiniteSet(E)
  BY DEF AtMost
<1>5. IsFiniteSet(F) /\ Cardinality(F) <= Cardinality(E)
  BY <1>3, <1>4, FS_Injection
<1>6. Cardinality(F) \in Nat /\ Cardinality(E) \in Nat
  BY <1>4, <1>5, FS_CardinalityType
<1> QED BY <1>5, <1>6 DEF AtMost

(* The first entry of table i is gone. *)
LEMMA AtMostTail ==
  ASSUME NEW T, NEW U, NEW p, NEW n \in Nat, AtMost(T, p, n),
         NEW i \in DOMAIN T, NEW S, T[i] \in Seq(S), T[i] # << >>, DOMAIN U = DOMAIN T,
         U[i] = Tail(T[i]), \A k \in DOMAIN U \ {i} : U[k] = T[k]
  PROVE  /\ AtMost(U, p, n)
         /\ Head(T[i]) = p => AtMost(U, p, n - 1)
<1> DEFINE x == <<i, 1>>
           E == Entries(T, p)
           D == E \ {x}
           F == Entries(U, p)
           back(e) == IF e[1] = i THEN <<i, e[2] + 1>> ELSE e
           f == [e \in F |-> back(e)]
<1>1. /\ Len(T[i]) \in Nat \ {0} /\ Head(T[i]) = T[i][1] /\ 1 \in DOMAIN T[i]
      /\ DOMAIN U[i] = 1 .. Len(T[i]) - 1
      /\ \A b \in DOMAIN U[i] : b \in Nat \ {0} /\ b + 1 \in DOMAIN T[i] /\ U[i][b] = T[i][b + 1]
  <2>1. Len(T[i]) \in Nat \ {0} /\ DOMAIN T[i] = 1 .. Len(T[i])
    BY EmptySeq
  <2>2. U[i] \in Seq(S) /\ Len(U[i]) = Len(T[i]) - 1
    BY <2>1
  <2> QED BY <2>1, <2>2
<1>2. ASSUME NEW e \in F
      PROVE  /\ f[e] \in D /\ f[e] = back(e) /\ e = <<e[1], e[2]>>
             /\ e[1] = i => e[2] \in Nat
  <2>1. e[1] \in DOMAIN U /\ e[2] \in DOMAIN U[e[1]] /\ U[e[1]][e[2]] = p /\ e = <<e[1], e[2]>>
    BY EntriesIn
  <2>2. CASE e[1] = i
    <3>1. f[e] = <<i, e[2] + 1>> /\ e[2] + 1 \in DOMAIN T[i] /\ T[i][e[2] + 1] = p /\ e[2] \in Nat \ {0}
      BY <1>1, <2>1, <2>2
    <3>2. f[e] \in E
      BY <3>1, EntryIn
    <3>3. f[e] # x
      BY <3>1
    <3> QED BY <2>1, <3>1, <3>2, <3>3
  <2>3. CASE e[1] # i
    <3>1. e[1] \in DOMAIN T /\ U[e[1]] = T[e[1]] /\ f[e] = e
      BY <2>1, <2>3
    <3>2. f[e] \in E
      BY <2>1, <3>1, EntriesIn
    <3>3. f[e] # x
      BY <2>1, <2>3, <3>1
    <3> QED BY <2>1, <2>3, <3>2, <3>3
  <2> QED BY <2>2, <2>3
<1>3. ASSUME NEW a \in F, NEW b \in F, f[a] = f[b] PROVE a = b
  <2>1. /\ a = <<a[1], a[2]>> /\ b = <<b[1], b[2]>> /\ f[a] = back(a) /\ f[b] = back(b)
        /\ (a[1] = i => a[2] \in Nat) /\ (b[1] = i => b[2] \in Nat)
    BY <1>2
  <2> HIDE DEF F, f
  <2>2. CASE a[1] = i /\ b[1] = i
    <3>1. <<i, a[2] + 1>> = <<i, b[2] + 1>>
      BY <1>3, <2>1, <2>2
    <3>2. a[2] + 1 = b[2] + 1
      BY <3>1
    <3>3. a[2] = b[2]
      BY <2>1, <2>2, <3>2
    <3> QED BY <2>1, <2>2, <3>3
  <2>3. CASE a[1] = i /\ b[1] # i
    <3>1. <<i, a[2] + 1>> = b
      BY <1>3, <2>1, <2>3
    <3> QED BY <2>3, <3>1
  <2>4. CASE a[1] # i /\ b[1] = i
    <3>1. a = <<i, b[2] + 1>>
      BY <1>3, <2>1, <2>4
    <3> QED BY <2>4, <3>1
  <2>5. CASE a[1] # i /\ b[1] # i
    BY <1>3, <2>1, <2>5
  <2> QED BY <2>2, <2>3, <2>4, <2>5
<1>4. f \in Injection(F, D)
  <2>1. f \in [F -> D]
    BY <1>2
  <2> QED BY <1>3, <2>1 DEF Injection, IsInjective
<1>5. IsFiniteSet(E) /\ Cardinality(E) \in Nat /\ Cardinality(E) <= n
  BY FS_CardinalityType DEF AtMost
<1>6. /\ IsFiniteSet(D) /\ Cardinality(D) \in Nat
      /\ Cardinality(D) = IF x \in E THEN Cardinality(E) - 1 ELSE Cardinality(E)
  BY <1>5, FS_RemoveElement, FS_CardinalityType
<1>7. IsFiniteSet(F) /\ Cardinality(F) <= Cardinality(D)
  BY <1>4, <1>6, FS_Injection
<1>8. Cardinality(F) \in Nat
  BY <1>7, FS_CardinalityType
<1>9. Head(T[i]) = p => x \in E
  <2>1. Head(T[i]) = p => T[i][1] = p
    BY <1>1
  <2> QED BY <1>1, <2>1, EntryIn
<1> HIDE DEF D, E, F, f
<1>10. Cardinality(F) <= n /\ (x \in E => Cardinality(F) <= n - 1)
  BY <1>5, <1>6, <1>7, <1>8
<1> QED BY <1>7, <1>9, <1>10 DEF AtMost, F


(* Table i grows by one page. *)
LEMMA AtMostLonger ==
  ASSUME NEW T, NEW U, NEW p, NEW n \in Nat, AtMost(T, p, n), NEW S, NEW u,
         NEW i \in DOMAIN T, T[i] \in Seq(S), DOMAIN U = DOMAIN T,
         U[i] = Append(T[i], u), \A k \in DOMAIN U \ {i} : U[k] = T[k]
  PROVE  /\ AtMost(U, p, n + 1)
         /\ p # u => AtMost(U, p, n)
<1> DEFINE x == <<i, Len(T[i]) + 1>>
<1>1. ASSUME NEW e \in Entries(U, p) PROVE e \in Entries(T, p) \/ (e = x /\ p = u)
  <2>1. e[1] \in DOMAIN U /\ e[2] \in DOMAIN U[e[1]] /\ U[e[1]][e[2]] = p /\ e = <<e[1], e[2]>>
    BY EntriesIn
  <2>2. CASE e[1] = i
    <3>1. /\ Len(T[i]) \in Nat /\ DOMAIN T[i] = 1 .. Len(T[i])
          /\ e[2] \in 1 .. Len(T[i]) + 1
          /\ p = IF e[2] <= Len(T[i]) THEN T[i][e[2]] ELSE u
      <4>1. Len(T[i]) \in Nat /\ DOMAIN T[i] = 1 .. Len(T[i]) /\ U[i][e[2]] = p
        BY <2>1, <2>2
      <4>2. DOMAIN U[i] = 1 .. Len(T[i]) + 1
        BY <4>1
      <4> QED BY <2>1, <2>2, <4>1, <4>2
    <3>2. CASE e[2] <= Len(T[i])
      <4>1. e[2] \in DOMAIN T[i] /\ T[i][e[2]] = p
        BY <3>1, <3>2
      <4>2. e[1] \in DOMAIN T /\ e[2] \in DOMAIN T[e[1]] /\ T[e[1]][e[2]] = p
        BY <2>2, <4>1
      <4>3. e \in Entries(T, p)
        BY <2>1, <4>2, EntriesIn
      <4> QED BY <4>3
    <3>3. CASE ~(e[2] <= Len(T[i]))
      <4>1. e[2] = Len(T[i]) + 1 /\ p = u
        BY <3>1, <3>3
      <4> QED BY <2>1, <2>2, <4>1
    <3> QED BY <3>2, <3>3
  <2>3. CASE e[1] # i
    <3>1. e[1] \in DOMAIN T /\ U[e[1]] = T[e[1]]
      BY <2>1, <2>3
    <3>2. e \in Entries(T, p)
      BY <2>1, <3>1, EntriesIn
    <3> QED BY <3>2
  <2> QED BY <2>2, <2>3
<1>2. AtMost(U, p, n + 1)
  <2>1. Entries(U, p) \subseteq Entries(T, p) \cup {x}
    BY <1>1
  <2> QED BY <2>1, AtMostOneMore
<1>3. ASSUME p # u PROVE AtMost(U, p, n)
  BY <1>1, <1>3, AtMostSubset
<1> QED BY <1>2, <1>3

-----------------------------------------------------------------------------
(* The hash a page of a request that starts with s is registered under, if *)
(* the page stands for block b of its table: that of a full block of the   *)
(* prompt, and none from there on.                                         *)
KeyAt(s, b) == IF b <= FullBlocks(s) THEN Blocks(s, b) ELSE << >>

(* A page that is not registered has one reader. *)
KeyedPage(q, p, k) == q.hashes[p] = k /\ (k = << >> => q.refs[p] = 1)

KeyedTable(q, s, t) == \A b \in DOMAIN t : KeyedPage(q, t[b], KeyAt(s, b))

Counted == \A p \in Pages : AtMost(Tables, p, pool.refs[p])

Keyed ==
  /\ \A i \in DOMAIN reqs : ~reqs[i].released =>
       /\ Len(reqs[i].table) >= FullBlocks(reqs[i].prompt)
       /\ KeyedTable(pool, reqs[i].prompt, reqs[i].table)
  /\ call.kind = "admit" =>
       /\ Len(call.table) <= FullBlocks(call.prompt)
       /\ KeyedTable(pool, call.prompt, call.table)

LeaseInv == Counted /\ Keyed

LEMMA KeyedAfterLease ==
  ASSUME NEW q, Sound(q), NEW h \in BlockHashes, CanLease(q, h), NEW p \in Pages, NEW k,
         q.refs[p] > 0, KeyedPage(q, p, k)
  PROVE  KeyedPage(FindOrLease(q, h), p, k)
<1> DEFINE u == LeasedPage(q, h)
           r == FindOrLease(q, h)
<1>1. h # << >> /\ q.refs \in [Pages -> Nat] /\ q.hashes \in [Pages -> BlockHashes \cup {<< >>}]
  BY BlocksNotEmpty DEF Sound, PoolType
<1>2. /\ u \in Pages /\ r.refs = [q.refs EXCEPT ![u] = q.refs[u] + 1]
      /\ \/ q.hashes[u] = h /\ r.hashes = q.hashes
         \/ q.refs[u] = 0 /\ r.hashes = [q.hashes EXCEPT ![u] = h]
  BY FindOrLeaseKept
<1> HIDE DEF u, r
<1>3. CASE p = u
  <2>1. q.hashes[p] = h /\ r.hashes = q.hashes
    BY <1>2, <1>3
  <2> QED BY <1>1, <2>1 DEF KeyedPage, r
<1>4. CASE p # u
  <2>1. r.refs[p] = q.refs[p] /\ r.hashes[p] = q.hashes[p]
    BY <1>1, <1>2, <1>4
  <2> QED BY <2>1 DEF KeyedPage, r
<1> QED BY <1>3, <1>4

LEMMA KeyedAfterAllocate ==
  ASSUME NEW q, Sound(q), HasFree(q), NEW p \in Pages, NEW k, q.refs[p] > 0, KeyedPage(q, p, k)
  PROVE  KeyedPage(Allocate(q), p, k)
<1>1. q.refs \in [Pages -> Nat]
  BY DEF Sound, PoolType
<1> QED BY <1>1, AllocateKept DEF KeyedPage

LEMMA KeyedAfterDecRef ==
  ASSUME NEW q, Sound(q), NEW h \in Pages, NEW p \in Pages, NEW k, q.refs[h] > 0,
         p = h => q.refs[p] > 1, KeyedPage(q, p, k)
  PROVE  KeyedPage(DecRef(q, h), p, k)
<1>1. q.refs \in [Pages -> Nat] /\ q.hashes \in [Pages -> BlockHashes \cup {<< >>}]
  BY DEF Sound, PoolType
<1> DEFINE r == DecRef(q, h)
<1>2. /\ r.refs = [q.refs EXCEPT ![h] = q.refs[h] - 1]
      /\ r.hashes = IF q.refs[h] = 1 THEN [q.hashes EXCEPT ![h] = << >>] ELSE q.hashes
  BY DecRefKept
<1> HIDE DEF r
<1>3. CASE p = h
  <2>1. q.refs[h] # 1 /\ q.refs[p] # 1
    BY <1>1, <1>3
  <2> QED BY <1>2, <2>1 DEF KeyedPage, r
<1>4. CASE p # h
  <2>1. r.refs[p] = q.refs[p] /\ r.hashes[p] = q.hashes[p]
    BY <1>1, <1>2, <1>4
  <2> QED BY <2>1 DEF KeyedPage, r
<1> QED BY <1>3, <1>4

-----------------------------------------------------------------------------
(* The tables of the requests rs and the call c. *)
Family(rs, c) ==
  [i \in 0 .. Len(rs) |->
    IF i > 0 THEN (IF rs[i].released THEN << >> ELSE rs[i].table)
    ELSE CASE c.kind = "admit" -> c.table
           [] c.kind = "release" -> c.todo
           [] OTHER -> << >>]

LEMMA FamilyIs ==
  ASSUME NEW rs, NEW c, Len(rs) \in Nat, DOMAIN rs = 1 .. Len(rs)
  PROVE  /\ DOMAIN Family(rs, c) = 0 .. Len(rs)
         /\ \A i \in DOMAIN rs : /\ i \in DOMAIN Family(rs, c) /\ i # 0
                                 /\ Family(rs, c)[i] = IF rs[i].released THEN << >> ELSE rs[i].table
         /\ \A i \in DOMAIN Family(rs, c) : i = 0 \/ i \in DOMAIN rs
         /\ 0 \in DOMAIN Family(rs, c)
         /\ c.kind = "admit" => Family(rs, c)[0] = c.table
         /\ c.kind = "release" => Family(rs, c)[0] = c.todo
         /\ ~(c.kind = "admit") /\ ~(c.kind = "release") => Family(rs, c)[0] = << >>
<1> DEFINE F == Family(rs, c)
<1>1. DOMAIN F = 0 .. Len(rs) /\ 0 \in DOMAIN F
  BY DEF Family
<1>2. F[0] = CASE c.kind = "admit" -> c.table
               [] c.kind = "release" -> c.todo
               [] OTHER -> << >>
  BY <1>1 DEF Family
<1>3. ASSUME NEW i \in DOMAIN rs
      PROVE  i \in DOMAIN F /\ i # 0 /\ F[i] = IF rs[i].released THEN << >> ELSE rs[i].table
  BY <1>1 DEF Family
<1>4. \A i \in DOMAIN F : i = 0 \/ i \in DOMAIN rs
  BY <1>1
<1> HIDE DEF F
<1>5. c.kind = "admit" => F[0] = c.table
  BY <1>2
<1>6. c.kind = "release" => F[0] = c.todo
  <2> SUFFICES ASSUME c.kind = "release" PROVE F[0] = c.todo
    OBVIOUS
  <2>1. ~(c.kind = "admit")
    OBVIOUS
  <2> QED BY <1>2, <2>1
<1>7. ~(c.kind = "admit") /\ ~(c.kind = "release") => F[0] = << >>
  BY <1>2
<1> QED BY <1>1, <1>3, <1>4, <1>5, <1>6, <1>7 DEF F

LEMMA TablesFamily ==
  /\ Tables = Family(reqs, call)
  /\ IInv => Len(reqs) \in Nat /\ DOMAIN reqs = 1 .. Len(reqs)
  BY DEF Tables, Family, IInv

LEMMA TablesPages ==
  ASSUME IInv, NEW i \in DOMAIN Tables PROVE Tables[i] \in Seq(Pages)
<1>1. /\ \A j \in DOMAIN reqs : reqs[j].table \in Seq(Pages)
      /\ call.kind = "admit" => call.table \in Seq(Pages)
      /\ call.kind = "release" => call.todo \in Seq(Pages)
      /\ << >> \in Seq(Pages)
  BY DEF IInv, TableSound, NoCall, AdmitCalls, ReleaseCalls
<1>2. CASE i = 0
  BY <1>1, <1>2, TablesFamily, FamilyIs
<1>3. CASE i \in DOMAIN reqs
  <2>1. Tables[i] = IF reqs[i].released THEN << >> ELSE reqs[i].table
    BY <1>3, TablesFamily, FamilyIs
  <2> QED BY <1>1, <1>3, <2>1
<1> QED BY <1>2, <1>3, TablesFamily, FamilyIs

(* A page in a table has a reference. *)
LEMMA PagesCounted ==
  ASSUME IInv, Counted, NEW i \in DOMAIN Tables, NEW b \in DOMAIN Tables[i]
  PROVE  Tables[i][b] \in Pages /\ pool.refs[Tables[i][b]] \in Nat \ {0}
<1>1. Tables[i][b] \in Pages
  BY TablesPages
<1>2. pool.refs[Tables[i][b]] \in Nat /\ AtMost(Tables, Tables[i][b], pool.refs[Tables[i][b]])
  BY <1>1 DEF IInv, Sound, PoolType, Counted
<1> QED BY <1>1, <1>2, EntryCounted


LEMMA CountedAs ==
  ASSUME IInv, Counted, NEW p \in Pages
  PROVE  AtMost(Tables, p, pool.refs[p]) /\ pool.refs[p] \in Nat /\ pool.refs \in [Pages -> Nat]
  BY DEF IInv, Sound, PoolType, Counted

(* How a step changes a family of tables: table i grows by page u, loses  *)
(* its first page, or becomes that of number j.                            *)
TableLonger(T, U, i, u) ==
  /\ i \in DOMAIN T /\ T[i] \in Seq(Pages) /\ DOMAIN U = DOMAIN T
  /\ U[i] = Append(T[i], u) /\ \A k \in DOMAIN U \ {i} : U[k] = T[k]

TableShorter(T, U, i) ==
  /\ i \in DOMAIN T /\ T[i] \in Seq(Pages) /\ T[i] # << >> /\ DOMAIN U = DOMAIN T
  /\ U[i] = Tail(T[i]) /\ \A k \in DOMAIN U \ {i} : U[k] = T[k]

TableMoved(T, U, j, i) ==
  /\ i \in DOMAIN U /\ j \in DOMAIN T /\ i # j /\ U[i] = T[j]
  /\ j \in DOMAIN U /\ U[j] = << >>
  /\ i \in DOMAIN T => T[i] = << >>
  /\ DOMAIN U = DOMAIN T \cup {i}
  /\ \A k \in DOMAIN U \ {i, j} : k \in DOMAIN T /\ U[k] = T[k]

(* The page leased for the next block of the walk joins its table. *)
LEMMA AdmitBlockTables ==
  ASSUME IInv, AdmitBlock
  PROVE  LET u == LeasedPage(pool, NextBlock)
             t == call.table
         IN  /\ Walking /\ CanLease(pool, NextBlock) /\ pool' = FindOrLease(pool, NextBlock)
             /\ reqs' = reqs
             /\ call'.table = Append(t, u) /\ call'.kind = "admit" /\ call'.prompt = call.prompt
             /\ call.prompt \in Prompts /\ t \in Seq(Pages)
             /\ Len(t) \in Nat /\ FullBlocks(call.prompt) \in Nat
             /\ Len(t) + 1 <= FullBlocks(call.prompt)
             /\ NextBlock \in BlockHashes /\ call.kind = "admit"
             /\ u \in Pages /\ pool'.refs = [pool.refs EXCEPT ![u] = pool.refs[u] + 1]
             /\ pool'.hashes[u] = NextBlock
             /\ Tables[0] = t /\ TableLonger(Tables, Tables', 0, u)
<1> DEFINE u == LeasedPage(pool, NextBlock)
           t == call.table
<1>1. /\ Walking /\ CanLease(pool, NextBlock) /\ pool' = FindOrLease(pool, NextBlock)
      /\ reqs' = reqs
      /\ call'.table = Append(t, u) /\ call'.kind = "admit" /\ call'.prompt = call.prompt
  <2>1. Walking /\ call \in AdmitCalls
    BY WalkSound DEF AdmitBlock
  <2> QED BY <2>1 DEF AdmitBlock, AdmitCalls
<1>2. /\ call.prompt \in Prompts /\ t \in Seq(Pages)
      /\ Len(t) \in Nat /\ FullBlocks(call.prompt) \in Nat
      /\ Len(t) + 1 <= FullBlocks(call.prompt)
      /\ NextBlock \in BlockHashes /\ call.kind = "admit"
  BY <1>1, WalkSound DEF Walking
<1>3. /\ u \in Pages /\ pool'.refs = [pool.refs EXCEPT ![u] = pool.refs[u] + 1]
      /\ pool'.hashes[u] = NextBlock
  <2>1. pool.hashes \in [Pages -> BlockHashes \cup {<< >>}] /\ Sound(pool)
    BY DEF IInv, Sound, PoolType
  <2> DEFINE r == FindOrLease(pool, NextBlock)
  <2>2. /\ u \in Pages /\ r.refs = [pool.refs EXCEPT ![u] = pool.refs[u] + 1]
        /\ \/ pool.hashes[u] = NextBlock /\ r.hashes = pool.hashes
           \/ r.hashes = [pool.hashes EXCEPT ![u] = NextBlock]
    <3>1. Sound(pool) /\ NextBlock \in BlockHashes /\ CanLease(pool, NextBlock)
      BY <1>1, <1>2, <2>1
    <3> QED BY <3>1, FindOrLeaseKept
  <2> HIDE DEF u, r
  <2>3. pool' = r
    BY <1>1 DEF r
  <2> QED BY <2>1, <2>2, <2>3
<1>4. /\ DOMAIN Tables' = DOMAIN Tables /\ 0 \in DOMAIN Tables
      /\ Tables[0] = t /\ Tables'[0] = Append(Tables[0], u)
      /\ \A k \in DOMAIN Tables' \ {0} : Tables'[k] = Tables[k]
  <2>1. /\ Tables = Family(reqs, call) /\ Tables' = Family(reqs, call')
        /\ Len(reqs) \in Nat /\ DOMAIN reqs = 1 .. Len(reqs)
    BY <1>1, TablesFamily DEF Tables, Family
  <2> QED BY <1>1, <1>2, <2>1, FamilyIs
<1> QED BY <1>1, <1>2, <1>3, <1>4 DEF TableLonger

LEMMA AdmitBlockLeases == IInv /\ LeaseInv /\ AdmitBlock => LeaseInv'
<1> SUFFICES ASSUME IInv, Counted, Keyed, AdmitBlock PROVE LeaseInv'
  BY DEF LeaseInv
<1> DEFINE u == LeasedPage(pool, NextBlock)
           t == call.table
<1>1. /\ Walking /\ CanLease(pool, NextBlock) /\ pool' = FindOrLease(pool, NextBlock)
      /\ reqs' = reqs
      /\ call'.table = Append(t, u) /\ call'.kind = "admit" /\ call'.prompt = call.prompt
  BY AdmitBlockTables
<1>2. /\ call.prompt \in Prompts /\ t \in Seq(Pages)
      /\ Len(t) \in Nat /\ FullBlocks(call.prompt) \in Nat
      /\ Len(t) + 1 <= FullBlocks(call.prompt)
      /\ NextBlock \in BlockHashes /\ call.kind = "admit"
  BY AdmitBlockTables
<1>3. /\ u \in Pages /\ pool'.refs = [pool.refs EXCEPT ![u] = pool.refs[u] + 1]
      /\ pool'.hashes[u] = NextBlock
  BY AdmitBlockTables
<1>4. /\ DOMAIN Tables' = DOMAIN Tables /\ 0 \in DOMAIN Tables
      /\ Tables[0] = t /\ Tables'[0] = Append(Tables[0], u)
      /\ \A k \in DOMAIN Tables' \ {0} : Tables'[k] = Tables[k]
  BY AdmitBlockTables DEF TableLonger
<1>5. Counted'
  <2> SUFFICES ASSUME NEW p \in Pages PROVE AtMost(Tables', p, pool'.refs[p])
    BY DEF Counted
  <2>1. AtMost(Tables, p, pool.refs[p]) /\ pool.refs[p] \in Nat /\ pool.refs \in [Pages -> Nat]
    BY CountedAs
  <2> HIDE DEF u, t
  <2>2. /\ AtMost(Tables', p, pool.refs[p] + 1)
        /\ p # u => AtMost(Tables', p, pool.refs[p])
    <3>1. 0 \in DOMAIN Tables /\ Tables[0] \in Seq(Pages) /\ DOMAIN Tables' = DOMAIN Tables
      BY <1>2, <1>4
    <3> QED BY <1>4, <2>1, <3>1, AtMostLonger
  <2>3. pool'.refs[p] = IF p = u THEN pool.refs[p] + 1 ELSE pool.refs[p]
    BY <1>3, <2>1
  <2> QED BY <2>2, <2>3
<1>6. ASSUME NEW i \in DOMAIN Tables, NEW b \in DOMAIN Tables[i], NEW k, KeyedPage(pool, Tables[i][b], k)
      PROVE  KeyedPage(pool', Tables[i][b], k)
  <2>1. Tables[i][b] \in Pages /\ pool.refs[Tables[i][b]] > 0
    BY PagesCounted
  <2> QED BY <1>1, <1>2, <1>6, <2>1, KeyedAfterLease DEF IInv
<1>7. Keyed'
  <2>1. ASSUME NEW i \in DOMAIN reqs, ~reqs[i].released
        PROVE  Len(reqs[i].table) >= FullBlocks(reqs[i].prompt)
               /\ KeyedTable(pool', reqs[i].prompt, reqs[i].table)
    <3>1. i \in DOMAIN Tables /\ Tables[i] = reqs[i].table
      BY <2>1, TablesFamily, FamilyIs
    <3> QED BY <1>6, <2>1, <3>1 DEF Keyed, KeyedTable
  <2>2. KeyedTable(pool', call.prompt, t)
    BY <1>2, <1>4, <1>6 DEF Keyed, KeyedTable
  <2>3. KeyedPage(pool', u, KeyAt(call.prompt, Len(t) + 1))
    <3>1. KeyAt(call.prompt, Len(t) + 1) = NextBlock /\ NextBlock # << >>
      BY <1>2, BlocksNotEmpty DEF KeyAt, NextBlock
    <3> QED BY <1>3, <3>1 DEF KeyedPage
  <2>4. Len(call'.table) <= FullBlocks(call'.prompt) /\ KeyedTable(pool', call'.prompt, call'.table)
    <3>1. /\ call'.table = Append(t, u) /\ Len(Append(t, u)) = Len(t) + 1
          /\ \A b \in DOMAIN Append(t, u) :
               IF b = Len(t) + 1 THEN Append(t, u)[b] = u
               ELSE b \in DOMAIN t /\ Append(t, u)[b] = t[b]
      BY <1>1, <1>2, <1>3
    <3> HIDE DEF t, u
    <3>2. ASSUME NEW b \in DOMAIN Append(t, u)
          PROVE KeyedPage(pool', Append(t, u)[b], KeyAt(call.prompt, b))
      <4>1. CASE b = Len(t) + 1
        BY <2>3, <3>1, <4>1
      <4>2. CASE b # Len(t) + 1
        BY <2>2, <3>1, <4>2 DEF KeyedTable
      <4> QED BY <4>1, <4>2
    <3> QED BY <1>1, <1>2, <3>1, <3>2 DEF KeyedTable
  <2> QED BY <1>1, <2>1, <2>4 DEF Keyed
<1> QED BY <1>5, <1>7 DEF LeaseInv


(* An admission starts with an empty table. *)
LEMMA AdmitCallTables ==
  ASSUME IInv, NEW prompt \in Prompts, NEW budget \in Budgets, AdmitCall(prompt, budget)
  PROVE  /\ pool' = pool /\ reqs' = reqs /\ Tables' = Tables
         /\ call'.kind = "admit" /\ call'.table = << >> /\ call'.prompt = prompt
<1>1. /\ pool' = pool /\ reqs' = reqs /\ call.kind = "none"
      /\ call'.kind = "admit" /\ call'.table = << >> /\ call'.prompt = prompt
  BY DEF AdmitCall, NoCall
<1>2. Tables' = Tables
  <2>1. /\ Tables = Family(reqs, call) /\ Tables' = Family(reqs, call')
        /\ Len(reqs) \in Nat /\ DOMAIN reqs = 1 .. Len(reqs)
    BY <1>1, TablesFamily DEF Tables, Family
  <2>2. Tables[0] = << >> /\ Tables'[0] = << >>
    BY <1>1, <2>1, FamilyIs
  <2> QED BY <1>1, <2>1 DEF Family
<1> QED BY <1>1, <1>2

LEMMA AdmitCallLeases ==
  ASSUME IInv, LeaseInv, NEW prompt \in Prompts, NEW budget \in Budgets, AdmitCall(prompt, budget)
  PROVE  LeaseInv'
<1>1. /\ pool' = pool /\ reqs' = reqs
      /\ call'.kind = "admit" /\ call'.table = << >> /\ call'.prompt = prompt
  BY AdmitCallTables
<1>2. Tables' = Tables
  BY AdmitCallTables
<1>3. Counted'
  BY <1>1, <1>2 DEF Counted, LeaseInv
<1>4. Len(<< >>) <= FullBlocks(prompt)
  <2>1. prompt \in Seq(Tokens) /\ PageSize \in Nat \ {0}
    BY SchedulerAssumption
  <2>2. FullBlocks(prompt) \in Nat
    BY <2>1, DivNat DEF FullBlocks
  <2> QED BY <2>2
<1>5. Keyed'
  BY <1>1, <1>4 DEF Keyed, LeaseInv, KeyedTable
<1> QED BY <1>3, <1>5 DEF LeaseInv

(* The table of an admission that throws is forgotten. *)
LEMMA AdmitThrowTables ==
  ASSUME IInv, AdmitThrow
  PROVE  /\ pool' = pool /\ reqs' = reqs /\ call.kind = "admit" /\ call'.kind = "none"
         /\ 0 \in DOMAIN Tables /\ Tables[0] = call.table
         /\ Tables'[0] = << >> /\ DOMAIN Tables' = DOMAIN Tables
         /\ \A k \in DOMAIN Tables' \ {0} : Tables'[k] = Tables[k]
<1>1. pool' = pool /\ reqs' = reqs /\ call.kind = "admit" /\ call'.kind = "none"
  BY DEF AdmitThrow, NoCall, Walking
<1>2. /\ Tables = Family(reqs, call) /\ Tables' = Family(reqs, call')
      /\ Len(reqs) \in Nat /\ DOMAIN reqs = 1 .. Len(reqs)
  BY <1>1, TablesFamily DEF Tables, Family
<1> QED BY <1>1, <1>2, FamilyIs

LEMMA AdmitThrowLeases == IInv /\ LeaseInv /\ AdmitThrow => LeaseInv'
<1> SUFFICES ASSUME IInv, LeaseInv, AdmitThrow PROVE LeaseInv'
  OBVIOUS
<1>1. pool' = pool /\ reqs' = reqs /\ call'.kind = "none"
  BY AdmitThrowTables
<1>2. ASSUME NEW p \in Pages PROVE Entries(Tables', p) \subseteq Entries(Tables, p)
  <2>2. /\ Tables'[0] = << >> /\ DOMAIN Tables' = DOMAIN Tables
        /\ \A k \in DOMAIN Tables' \ {0} : Tables'[k] = Tables[k]
    BY AdmitThrowTables
  <2> SUFFICES ASSUME NEW e \in Entries(Tables', p) PROVE e \in Entries(Tables, p)
    OBVIOUS
  <2>3. /\ e[1] \in DOMAIN Tables' /\ e[2] \in DOMAIN Tables'[e[1]] /\ Tables'[e[1]][e[2]] = p
        /\ e = <<e[1], e[2]>>
    BY EntriesIn
  <2>4. e[1] # 0
    BY <2>2, <2>3
  <2>5. e[1] \in DOMAIN Tables /\ e[2] \in DOMAIN Tables[e[1]] /\ Tables[e[1]][e[2]] = p
    BY <2>2, <2>3, <2>4
  <2> QED BY <2>3, <2>5, EntriesIn
<1>3. Counted'
  BY <1>1, <1>2, CountedAs, AtMostSubset DEF Counted, LeaseInv
<1> QED BY <1>1, <1>3 DEF Keyed, LeaseInv

(* A step that leaves the tables and the pool alone. *)
LEMMA SameTables ==
  ASSUME IInv, NEW i \in DOMAIN reqs, NEW r, reqs' = [reqs EXCEPT ![i] = r],
         r.table = reqs[i].table, r.prompt = reqs[i].prompt, r.released = reqs[i].released,
         call' = call
  PROVE  /\ Tables' = Tables /\ DOMAIN reqs' = DOMAIN reqs
         /\ \A j \in DOMAIN reqs :
              /\ reqs'[j].table = reqs[j].table /\ reqs'[j].prompt = reqs[j].prompt
              /\ reqs'[j].released = reqs[j].released
<1>1. DOMAIN reqs' = DOMAIN reqs /\ Len(reqs') = Len(reqs)
  BY TablesFamily
<1>2. ASSUME NEW j \in DOMAIN reqs
      PROVE  /\ reqs'[j].table = reqs[j].table /\ reqs'[j].prompt = reqs[j].prompt
             /\ reqs'[j].released = reqs[j].released
  BY <1>2
<1>3. Tables' = Tables
  <2>1. /\ Tables = Family(reqs, call) /\ Tables' = Family(reqs', call)
        /\ Len(reqs) \in Nat /\ DOMAIN reqs = 1 .. Len(reqs)
    BY TablesFamily DEF Tables, Family
  <2> QED BY <1>1, <1>2, <2>1 DEF Family
<1> QED BY <1>1, <1>2, <1>3

LEMMA SameTableLeases ==
  ASSUME IInv, LeaseInv, NEW i \in DOMAIN reqs, NEW r, reqs' = [reqs EXCEPT ![i] = r],
         r.table = reqs[i].table, r.prompt = reqs[i].prompt, r.released = reqs[i].released,
         call' = call, pool' = pool
  PROVE  LeaseInv'
<1>1. /\ Tables' = Tables /\ DOMAIN reqs' = DOMAIN reqs
      /\ \A j \in DOMAIN reqs :
           /\ reqs'[j].table = reqs[j].table /\ reqs'[j].prompt = reqs[j].prompt
           /\ reqs'[j].released = reqs[j].released
  BY SameTables
<1>2. Counted'
  BY <1>1 DEF Counted, LeaseInv
<1>3. Keyed'
  BY <1>1 DEF Keyed, LeaseInv
<1> QED BY <1>2, <1>3 DEF LeaseInv

(* One request replaced: its table, and no other. *)
LEMMA ReplacedFamily ==
  ASSUME IInv, NEW i \in DOMAIN reqs, NEW r, reqs' = [reqs EXCEPT ![i] = r], call' = call
  PROVE  /\ i \in DOMAIN Tables /\ DOMAIN Tables' = DOMAIN Tables
         /\ Tables'[i] = IF r.released THEN << >> ELSE r.table
         /\ \A k \in DOMAIN Tables' \ {i} : Tables'[k] = Tables[k]
<1>1. /\ Tables = Family(reqs, call) /\ Tables' = Family(reqs', call)
      /\ Len(reqs) \in Nat /\ DOMAIN reqs = 1 .. Len(reqs)
  BY TablesFamily DEF Tables, Family
<1>2. DOMAIN reqs' = DOMAIN reqs /\ Len(reqs') = Len(reqs) /\ reqs'[i] = r
      /\ \A k \in DOMAIN reqs \ {i} : reqs'[k] = reqs[k]
  BY <1>1
<1>3. i \in DOMAIN Tables /\ DOMAIN Tables' = DOMAIN Tables
  BY <1>1, <1>2, FamilyIs
<1>4. Tables'[i] = IF r.released THEN << >> ELSE r.table
  BY <1>1, <1>2, FamilyIs
<1>5. ASSUME NEW k \in DOMAIN Tables' \ {i} PROVE Tables'[k] = Tables[k]
  <2>1. k \in 0 .. Len(reqs)
    BY <1>1, <1>2, FamilyIs
  <2> QED BY <1>1, <1>2, <2>1 DEF Family
<1> QED BY <1>3, <1>4, <1>5

(* A decode step that needs a page adds it to the table of its request. *)
LEMMA DecodeStepTables ==
  ASSUME IInv, NEW i \in DOMAIN reqs, DecodeStep(i), call' = call
  PROVE  LET q == reqs[i]
             u == TopFree(pool)
             t == IF NeedsPage(q) THEN Append(q.table, u) ELSE q.table
         IN  /\ ~q.released
             /\ \E z : /\ reqs' = [reqs EXCEPT ![i] = z]
                       /\ z.table = t /\ z.prompt = q.prompt /\ z.released = q.released
             /\ IF NeedsPage(q)
                  THEN HasFree(pool) /\ pool' = Allocate(pool) /\ TableLonger(Tables, Tables', i, u)
                  ELSE pool' = pool
<1> DEFINE q == reqs[i]
           u == TopFree(pool)
           r == IF NeedsPage(q) THEN [q EXCEPT !.table = Append(@, u)] ELSE q
<1>1. /\ NeedsPage(q) => HasFree(pool)
      /\ pool' = IF NeedsPage(q) THEN Allocate(pool) ELSE pool
      /\ \/ reqs' = [reqs EXCEPT ![i] = r]
         \/ \E t : reqs' = [reqs EXCEPT ![i] = WithToken([r EXCEPT !.len = @ + 1], t)]
  BY DEF DecodeStep
<1>2. PICK z : /\ reqs' = [reqs EXCEPT ![i] = z]
               /\ z.table = r.table /\ z.prompt = q.prompt /\ z.released = q.released
  <2>1. CASE reqs' = [reqs EXCEPT ![i] = r]
    <3>1. r.prompt = q.prompt /\ r.released = q.released
      OBVIOUS
    <3> HIDE DEF r
    <3> QED BY <2>1, <3>1
  <2>2. ASSUME NEW t, reqs' = [reqs EXCEPT ![i] = WithToken([r EXCEPT !.len = @ + 1], t)]
        PROVE  \E z : /\ reqs' = [reqs EXCEPT ![i] = z]
                      /\ z.table = r.table /\ z.prompt = q.prompt /\ z.released = q.released
    <3> DEFINE z == WithToken([r EXCEPT !.len = @ + 1], t)
    <3>1. z.table = r.table /\ z.prompt = q.prompt /\ z.released = q.released
      BY DEF WithToken
    <3> HIDE DEF z, r
    <3> QED BY <2>2, <3>1 DEF z
  <2> QED BY <1>1, <2>1, <2>2
<1>3. ~q.released /\ q.table \in Seq(Pages)
  BY DEF IInv, TableSound, DecodeStep
<1>4. NeedsPage(q) => TableLonger(Tables, Tables', i, u)
  <2> SUFFICES ASSUME NeedsPage(q) PROVE TableLonger(Tables, Tables', i, u)
    OBVIOUS
  <2>1. /\ i \in DOMAIN Tables /\ DOMAIN Tables' = DOMAIN Tables
        /\ Tables'[i] = IF z.released THEN << >> ELSE z.table
        /\ \A k \in DOMAIN Tables' \ {i} : Tables'[k] = Tables[k]
    BY <1>2, ReplacedFamily
  <2>2. Tables[i] = q.table
    BY <1>3, TablesFamily, FamilyIs
  <2>3. z.table = Append(q.table, u) /\ ~z.released
    BY <1>2, <1>3
  <2> HIDE DEF u, r
  <2> QED BY <1>3, <2>1, <2>2, <2>3 DEF TableLonger
<1>5. z.table = IF NeedsPage(q) THEN Append(q.table, u) ELSE q.table
  BY <1>2
<1> HIDE DEF r
<1> QED BY <1>1, <1>2, <1>3, <1>4, <1>5, Zenon

LEMMA DecodeStepLeases ==
  ASSUME IInv, LeaseInv, NEW i \in DOMAIN reqs, DecodeStep(i), call' = call
  PROVE  LeaseInv'
<1> DEFINE q == reqs[i]
           u == TopFree(pool)
           t == IF NeedsPage(q) THEN Append(q.table, u) ELSE q.table
<1>1. /\ ~q.released
      /\ IF NeedsPage(q)
           THEN HasFree(pool) /\ pool' = Allocate(pool) /\ TableLonger(Tables, Tables', i, u)
           ELSE pool' = pool
  BY DecodeStepTables
<1>2. PICK z : /\ reqs' = [reqs EXCEPT ![i] = z]
               /\ z.table = t /\ z.prompt = q.prompt /\ z.released = q.released
  BY DecodeStepTables
<1>3. CASE ~NeedsPage(q)
  BY <1>1, <1>2, <1>3, SameTableLeases
<1>4. CASE NeedsPage(q)
  <2>1. /\ HasFree(pool) /\ pool' = Allocate(pool) /\ Sound(pool)
        /\ t = Append(q.table, u) /\ q.table \in Seq(Pages) /\ Len(q.table) \in Nat
        /\ pool.refs \in [Pages -> Nat] /\ pool.hashes \in [Pages -> BlockHashes \cup {<< >>}]
    BY <1>1, <1>4 DEF IInv, TableSound, Sound, PoolType
  <2>2. /\ u \in Pages /\ pool.refs[u] = 0 /\ pool.hashes[u] = << >>
        /\ pool'.refs = [pool.refs EXCEPT ![u] = 1] /\ pool'.hashes = pool.hashes
    BY <2>1, AllocateKept
  <2> HIDE DEF u, t
  <2>3. Counted'
    <3> SUFFICES ASSUME NEW p \in Pages PROVE AtMost(Tables', p, pool'.refs[p])
      BY DEF Counted
    <3>1. AtMost(Tables, p, pool.refs[p]) /\ pool.refs[p] \in Nat
      BY CountedAs DEF LeaseInv
    <3>2. AtMost(Tables', p, pool.refs[p] + 1) /\ (p # u => AtMost(Tables', p, pool.refs[p]))
      BY <1>1, <1>4, <3>1, AtMostLonger DEF TableLonger
    <3>3. pool'.refs[p] = IF p = u THEN pool.refs[p] + 1 ELSE pool.refs[p]
      BY <2>1, <2>2
    <3> QED BY <3>2, <3>3
  <2>4. ASSUME NEW j \in DOMAIN Tables, NEW b \in DOMAIN Tables[j], NEW k, KeyedPage(pool, Tables[j][b], k)
        PROVE  KeyedPage(pool', Tables[j][b], k)
    <3>1. Tables[j][b] \in Pages /\ pool.refs[Tables[j][b]] > 0
      BY PagesCounted DEF LeaseInv
    <3> QED BY <2>1, <2>4, <3>1, KeyedAfterAllocate
  <2>5. ASSUME NEW j \in DOMAIN reqs, ~reqs[j].released
        PROVE  Len(reqs[j].table) >= FullBlocks(reqs[j].prompt)
               /\ KeyedTable(pool', reqs[j].prompt, reqs[j].table)
    <3>1. j \in DOMAIN Tables /\ Tables[j] = reqs[j].table
      BY <2>5, TablesFamily, FamilyIs
    <3> QED BY <2>4, <2>5, <3>1 DEF Keyed, KeyedTable, LeaseInv
  <2>6. Len(t) >= FullBlocks(q.prompt) /\ KeyedTable(pool', q.prompt, t)
    <3>1. Len(q.table) >= FullBlocks(q.prompt) /\ KeyedTable(pool', q.prompt, q.table)
      BY <1>1, <2>5
    <3>2. FullBlocks(q.prompt) \in Nat
      <4>1. q.prompt \in Prompts /\ Len(q.prompt) \in Nat /\ PageSize \in Nat \ {0}
        BY SchedulerAssumption DEF IInv, TableSound
      <4> QED BY <4>1, DivNat DEF FullBlocks
    <3>3. KeyedPage(pool', u, KeyAt(q.prompt, Len(q.table) + 1))
      <4>1. KeyAt(q.prompt, Len(q.table) + 1) = << >>
        BY <2>1, <3>1, <3>2 DEF KeyAt
      <4> QED BY <2>1, <2>2, <4>1 DEF KeyedPage
    <3>4. /\ Len(Append(q.table, u)) = Len(q.table) + 1
          /\ \A b \in DOMAIN Append(q.table, u) :
               IF b = Len(q.table) + 1 THEN Append(q.table, u)[b] = u
               ELSE b \in DOMAIN q.table /\ Append(q.table, u)[b] = q.table[b]
      BY <2>1, <2>2
    <3> QED BY <2>1, <3>1, <3>2, <3>3, <3>4 DEF KeyedTable
  <2>7. Keyed'
    <3>1. call.kind = "admit" => KeyedTable(pool', call.prompt, call.table)
      <4>1. call.kind = "admit" => 0 \in DOMAIN Tables /\ Tables[0] = call.table
        BY TablesFamily, FamilyIs
      <4> QED BY <2>4, <4>1 DEF Keyed, KeyedTable, LeaseInv
    <3>2. DOMAIN reqs' = DOMAIN reqs /\ reqs'[i] = z
          /\ \A k \in DOMAIN reqs \ {i} : reqs'[k] = reqs[k]
      BY <1>2
    <3> QED BY <1>2, <2>5, <2>6, <3>1, <3>2 DEF Keyed, LeaseInv
  <2> QED BY <2>3, <2>7 DEF LeaseInv
<1> QED BY <1>3, <1>4


LEMMA PrefillTables ==
  ASSUME NEW i \in DOMAIN reqs, PrefillSkip(i) \/ PrefillChunk(i), call' = call
  PROVE  /\ pool' = pool
         /\ \E z : /\ reqs' = [reqs EXCEPT ![i] = z] /\ z.table = reqs[i].table
                   /\ z.prompt = reqs[i].prompt /\ z.released = reqs[i].released
<1> DEFINE q == reqs[i]
           fwd(n) == [q EXCEPT !.len = @ + n, !.done = @ + n]
<1>1. pool' = pool
  BY DEF PrefillSkip, PrefillChunk
<1>2. PICK z : /\ reqs' = [reqs EXCEPT ![i] = z]
               /\ z.table = q.table /\ z.prompt = q.prompt /\ z.released = q.released
  <2>1. CASE PrefillSkip(i)
    <3> DEFINE z == [q EXCEPT !.status = "Decoding"]
    <3>1. reqs' = [reqs EXCEPT ![i] = z]
      BY <2>1 DEF PrefillSkip
    <3>2. z.table = q.table /\ z.prompt = q.prompt /\ z.released = q.released
      OBVIOUS
    <3> HIDE DEF z
    <3> QED BY <3>1, <3>2
  <2>2. CASE PrefillChunk(i)
    <3>1. \E n : \/ reqs' = [reqs EXCEPT ![i] = fwd(n)]
                 \/ \E t : reqs' = [reqs EXCEPT ![i] = WithToken(fwd(n), t)]
      BY <2>2 DEF PrefillChunk
    <3>2. \A n, t : /\ fwd(n).table = q.table /\ fwd(n).prompt = q.prompt
                    /\ fwd(n).released = q.released
                    /\ WithToken(fwd(n), t).table = q.table /\ WithToken(fwd(n), t).prompt = q.prompt
                    /\ WithToken(fwd(n), t).released = q.released
      BY DEF WithToken
    <3> HIDE DEF fwd
    <3> QED BY <3>1, <3>2
  <2> QED BY <2>1, <2>2
<1> QED BY <1>1, <1>2

LEMMA PrefillLeases ==
  ASSUME IInv, LeaseInv, NEW i \in DOMAIN reqs, PrefillSkip(i) \/ PrefillChunk(i), call' = call
  PROVE  LeaseInv'
  BY PrefillTables, SameTableLeases

(* release_all() works off the table of the request. *)
LEMMA ReleaseCallTables ==
  ASSUME IInv, NEW i \in DOMAIN reqs, ReleaseCall(i)
  PROVE  /\ pool' = pool /\ reqs' = [reqs EXCEPT ![i].released = TRUE]
         /\ call.kind = "none" /\ call'.kind = "release"
         /\ TableMoved(Tables, Tables', i, 0)
<1> DEFINE q == reqs[i]
           r == [q EXCEPT !.released = TRUE]
<1>1. /\ pool' = pool /\ reqs' = [reqs EXCEPT ![i] = r]
      /\ r.released = TRUE /\ ~q.released
      /\ call.kind = "none" /\ call'.kind = "release" /\ call'.todo = q.table
  BY DEF ReleaseCall, NoCall
<1> HIDE DEF r
<1>2. /\ Tables = Family(reqs, call) /\ Tables' = Family(reqs', call')
      /\ Len(reqs) \in Nat /\ DOMAIN reqs = 1 .. Len(reqs)
  BY TablesFamily DEF Tables, Family
<1>3. /\ DOMAIN reqs' = DOMAIN reqs /\ Len(reqs') = Len(reqs) /\ reqs'[i] = r
      /\ \A k \in DOMAIN reqs \ {i} : reqs'[k] = reqs[k]
  BY <1>1, <1>2
<1>4. /\ i \in DOMAIN Tables /\ 0 \in DOMAIN Tables' /\ i # 0 /\ DOMAIN Tables' = DOMAIN Tables
      /\ Tables'[0] = Tables[i] /\ Tables'[i] = << >>
  <2>1. i \in DOMAIN Tables /\ i # 0 /\ Tables[i] = q.table
    BY <1>1, <1>2, FamilyIs
  <2>2. Len(reqs') \in Nat /\ DOMAIN reqs' = 1 .. Len(reqs') /\ i \in DOMAIN reqs'
    BY <1>2, <1>3
  <2>3. 0 \in DOMAIN Tables' /\ DOMAIN Tables' = DOMAIN Tables
    BY <1>2, <1>3, <2>2, FamilyIs
  <2>4. Tables'[0] = q.table
    BY <1>1, <1>2, <2>2, FamilyIs
  <2>5. Tables'[i] = << >>
    BY <1>1, <1>2, <1>3, <2>2, FamilyIs
  <2> QED BY <2>1, <2>3, <2>4, <2>5
<1>5. ASSUME NEW k \in DOMAIN Tables' \ {0, i} PROVE k \in DOMAIN Tables /\ Tables'[k] = Tables[k]
  <2>1. k \in DOMAIN reqs \ {i}
    BY <1>2, <1>3, FamilyIs
  <2> QED BY <1>2, <1>3, <1>4, <2>1, FamilyIs
<1>6. Tables[0] = << >>
  <2>1. ~(call.kind = "admit") /\ ~(call.kind = "release")
    BY <1>1
  <2> QED BY <1>2, <2>1, FamilyIs
<1>7. i \in DOMAIN Tables' /\ DOMAIN Tables' = DOMAIN Tables \cup {0}
  BY <1>4
<1> QED BY <1>1, <1>4, <1>5, <1>6, <1>7 DEF TableMoved, ReleaseCall

LEMMA ReleaseCallLeases ==
  ASSUME IInv, LeaseInv, NEW i \in DOMAIN reqs, ReleaseCall(i)
  PROVE  LeaseInv'
<1>1. /\ pool' = pool /\ reqs' = [reqs EXCEPT ![i].released = TRUE]
      /\ call'.kind = "release" /\ TableMoved(Tables, Tables', i, 0)
  BY ReleaseCallTables
<1>2. Counted'
  <2> SUFFICES ASSUME NEW p \in Pages PROVE AtMost(Tables', p, pool.refs[p])
    BY <1>1 DEF Counted
  <2>1. AtMost(Tables, p, pool.refs[p]) /\ pool.refs[p] \in Nat
    BY CountedAs DEF LeaseInv
  <2>2. /\ 0 \in DOMAIN Tables' /\ i \in DOMAIN Tables /\ 0 # i /\ Tables'[0] = Tables[i]
        /\ DOMAIN Tables'[i] = {}
        /\ \A k \in DOMAIN Tables' \ {0, i} : k \in DOMAIN Tables /\ Tables'[k] = Tables[k]
    BY <1>1 DEF TableMoved
  <2> QED BY <2>1, <2>2, AtMostMoved
<1>3. /\ DOMAIN reqs' = DOMAIN reqs
      /\ \A k \in DOMAIN reqs : ~reqs'[k].released => reqs'[k] = reqs[k]
  BY <1>1
<1>4. Keyed'
  BY <1>1, <1>3 DEF Keyed, LeaseInv
<1> QED BY <1>2, <1>4 DEF LeaseInv

(* One page of the table that release_all() works off is given back. *)
LEMMA ReleaseNextTables ==
  ASSUME IInv, ReleaseNext
  PROVE  LET h == Head(call.todo)
         IN  /\ call.kind = "release" /\ call.todo \in Seq(Pages) /\ call.todo # << >>
             /\ pool.refs[h] > 0 /\ pool' = DecRef(pool, h) /\ reqs' = reqs /\ Sound(pool)
             /\ h \in Pages /\ 1 \in DOMAIN call.todo /\ call.todo[1] = h
             /\ pool.refs \in [Pages -> Nat]
             /\ pool'.refs = [pool.refs EXCEPT ![h] = pool.refs[h] - 1]
             /\ call'.kind # "admit"
             /\ Tables[0] = call.todo /\ TableShorter(Tables, Tables', 0)
<1> DEFINE h == Head(call.todo)
<1>1. /\ call.kind = "release" /\ call.todo \in Seq(Pages) /\ call.todo # << >>
      /\ pool.refs[h] > 0 /\ pool' = DecRef(pool, h) /\ reqs' = reqs /\ Sound(pool)
  BY DEF IInv, ReleaseNext, NoCall, AdmitCalls, ReleaseCalls
<1>2. /\ h \in Pages /\ Len(call.todo) \in Nat \ {0} /\ 1 \in DOMAIN call.todo /\ call.todo[1] = h
      /\ pool.refs \in [Pages -> Nat]
      /\ pool'.refs = [pool.refs EXCEPT ![h] = pool.refs[h] - 1]
  <2>1. h \in Pages /\ Len(call.todo) \in Nat \ {0} /\ 1 \in DOMAIN call.todo /\ call.todo[1] = h
    BY <1>1, EmptySeq
  <2> QED BY <1>1, <2>1, DecRefKept DEF Sound, PoolType
<1>3. /\ call'.kind # "admit"
      /\ \/ call'.kind = "none" /\ Len(call.todo) = 1
         \/ call'.kind = "release" /\ call'.todo = Tail(call.todo)
  <2>1. call \in ReleaseCalls
    BY DEF IInv, ReleaseNext, NoCall, AdmitCalls
  <2> QED BY <1>1, <2>1 DEF ReleaseNext, NoCall, ReleaseCalls
<1>4. /\ Tables = Family(reqs, call) /\ Tables' = Family(reqs, call')
      /\ Len(reqs) \in Nat /\ DOMAIN reqs = 1 .. Len(reqs)
  BY <1>1, TablesFamily DEF Tables, Family
<1>5. /\ 0 \in DOMAIN Tables /\ Tables[0] = call.todo /\ DOMAIN Tables' = DOMAIN Tables
      /\ Tables'[0] = Tail(call.todo)
      /\ \A k \in DOMAIN Tables' \ {0} : Tables'[k] = Tables[k]
  <2>1. Len(call.todo) = 1 => Tail(call.todo) = << >>
    <3>1. Tail(call.todo) \in Seq(Pages) /\ Len(Tail(call.todo)) = Len(call.todo) - 1
      BY <1>1, <1>2
    <3>2. ASSUME Len(call.todo) = 1 PROVE Len(Tail(call.todo)) = 0
      BY <3>1, <3>2
    <3> HIDE DEF h
    <3> QED BY <3>1, <3>2, EmptySeq
  <2>2. Tables'[0] = Tail(call.todo)
    <3>1. CASE call'.kind = "none" /\ Len(call.todo) = 1
      <4>1. ~(call'.kind = "admit") /\ ~(call'.kind = "release")
        BY <3>1
      <4> QED BY <1>4, <2>1, <3>1, <4>1, FamilyIs
    <3>2. CASE call'.kind = "release" /\ call'.todo = Tail(call.todo)
      BY <1>4, <3>2, FamilyIs
    <3> QED BY <1>3, <3>1, <3>2
  <2> QED BY <1>1, <1>4, <2>2, FamilyIs
<1> QED BY <1>1, <1>2, <1>3, <1>5 DEF TableShorter

LEMMA ReleaseNextLeases == IInv /\ LeaseInv /\ ReleaseNext => LeaseInv'
<1> SUFFICES ASSUME IInv, LeaseInv, ReleaseNext PROVE LeaseInv'
  OBVIOUS
<1> DEFINE h == Head(call.todo)
<1>1. /\ call.kind = "release" /\ call.todo \in Seq(Pages) /\ call.todo # << >>
      /\ pool.refs[h] > 0 /\ pool' = DecRef(pool, h) /\ reqs' = reqs /\ Sound(pool)
  BY ReleaseNextTables
<1>2. /\ h \in Pages /\ 1 \in DOMAIN call.todo /\ call.todo[1] = h
      /\ pool.refs \in [Pages -> Nat]
      /\ pool'.refs = [pool.refs EXCEPT ![h] = pool.refs[h] - 1]
  BY ReleaseNextTables
<1>3. call'.kind # "admit"
  BY ReleaseNextTables
<1>4. /\ Tables = Family(reqs, call) /\ Tables' = Family(reqs, call')
      /\ Len(reqs) \in Nat /\ DOMAIN reqs = 1 .. Len(reqs)
  BY <1>1, TablesFamily DEF Tables, Family
<1>5. /\ 0 \in DOMAIN Tables /\ Tables[0] = call.todo /\ DOMAIN Tables' = DOMAIN Tables
      /\ Tables'[0] = Tail(call.todo)
      /\ \A k \in DOMAIN Tables' \ {0} : Tables'[k] = Tables[k]
  BY ReleaseNextTables DEF TableShorter
<1>6. Counted'
  <2> SUFFICES ASSUME NEW p \in Pages PROVE AtMost(Tables', p, pool'.refs[p])
    BY DEF Counted
  <2>1. AtMost(Tables, p, pool.refs[p]) /\ pool.refs[p] \in Nat
    BY CountedAs DEF LeaseInv
  <2> HIDE DEF h
  <2>2. AtMost(Tables', p, pool.refs[p]) /\ (p = h => AtMost(Tables', p, pool.refs[p] - 1))
    <3>1. /\ Tables[0] \in Seq(Pages) /\ Tables[0] # << >> /\ Tables'[0] = Tail(Tables[0])
          /\ Head(Tables[0]) = h
      BY <1>1, <1>5 DEF h
    <3> QED BY <1>5, <2>1, <3>1, AtMostTail
  <2>3. pool'.refs[p] = IF p = h THEN pool.refs[p] - 1 ELSE pool.refs[p]
    BY <1>2
  <2> QED BY <2>2, <2>3
<1>7. ASSUME NEW j \in DOMAIN Tables, j # 0, NEW b \in DOMAIN Tables[j], NEW k,
             KeyedPage(pool, Tables[j][b], k)
      PROVE  KeyedPage(pool', Tables[j][b], k)
  <2>1. Tables[j][b] \in Pages /\ AtMost(Tables, Tables[j][b], pool.refs[Tables[j][b]])
        /\ pool.refs[Tables[j][b]] \in Nat
    BY PagesCounted, CountedAs DEF LeaseInv
  <2>2. Tables[j][b] = h => pool.refs[Tables[j][b]] > 1
    <3>1. 1 \in DOMAIN Tables[0] /\ Tables[0][1] = h /\ <<j, b>> # <<0, 1>>
      BY <1>2, <1>5, <1>7
    <3> HIDE DEF h
    <3> QED BY <1>5, <2>1, <3>1, TwoEntriesCounted
  <2> QED BY <1>1, <1>2, <1>7, <2>1, <2>2, KeyedAfterDecRef
<1>8. Keyed'
  <2>1. ASSUME NEW i \in DOMAIN reqs, ~reqs[i].released
        PROVE  Len(reqs[i].table) >= FullBlocks(reqs[i].prompt)
               /\ KeyedTable(pool', reqs[i].prompt, reqs[i].table)
    <3>1. i \in DOMAIN Tables /\ i # 0 /\ Tables[i] = reqs[i].table
      BY <1>4, <2>1, FamilyIs
    <3> QED BY <1>7, <2>1, <3>1 DEF Keyed, KeyedTable, LeaseInv
  <2> QED BY <1>1, <1>3, <2>1 DEF Keyed
<1> QED BY <1>6, <1>8 DEF LeaseInv

(* The request the admission enters takes its table over. *)
LEMMA AdmitReturnTables ==
  ASSUME IInv, AdmitReturn
  PROVE  LET t == call.table
             s == call.prompt
             u == TopFree(pool)
             n == Len(reqs)
         IN \E z :
              /\ reqs' = Append(reqs, z) /\ z.prompt = s /\ z.released = FALSE
              /\ \/ HasFree(pool) /\ pool' = Allocate(pool) /\ z.table = Append(t, u)
                 \/ pool' = pool /\ z.table = t
              /\ n + 1 \in DOMAIN Tables' /\ 0 \in DOMAIN Tables /\ n + 1 # 0
              /\ Tables[0] = t /\ Tables'[0] = << >> /\ Tables'[n + 1] = z.table
              /\ DOMAIN Tables = 0 .. n /\ DOMAIN Tables' = 0 .. n + 1
              /\ \A k \in DOMAIN Tables' \ {0, n + 1} : k \in DOMAIN Tables /\ Tables'[k] = Tables[k]
<1> DEFINE t == call.table
           s == call.prompt
           u == TopFree(pool)
           n == Len(reqs)
           c == [call EXCEPT !.table = Append(@, u)]
<1>1. /\ call \in AdmitCalls /\ call.kind = "admit" /\ call'.kind = "none"
      /\ t \in Seq(Pages) /\ Len(t) \in Nat /\ s \in Prompts
      /\ Sound(pool) /\ pool.refs \in [Pages -> Nat]
      /\ pool.hashes \in [Pages -> BlockHashes \cup {<< >>}]
  BY DEF IInv, AdmitReturn, NoCall, ReleaseCalls, AdmitCalls, Sound, PoolType
<1>3. PICK z : /\ reqs' = Append(reqs, z) /\ z.prompt = s /\ z.released = FALSE
               /\ \/ HasFree(pool) /\ pool' = Allocate(pool) /\ z.table = Append(t, u)
                  \/ pool' = pool /\ z.table = t
  <2>1. CASE Leftover(s)
    <3> DEFINE z == Request(c)
    <3>1. z.prompt = s /\ z.released = FALSE /\ z.table = Append(t, u)
      BY <1>1 DEF Request, AdmitCalls
    <3>2. HasFree(pool) /\ pool' = Allocate(pool) /\ reqs' = Append(reqs, z)
      BY <2>1 DEF AdmitReturn
    <3> HIDE DEF z
    <3> QED BY <3>1, <3>2
  <2>2. CASE ~Leftover(s)
    <3> DEFINE z == Request(call)
    <3>1. z.prompt = s /\ z.released = FALSE /\ z.table = t
      BY DEF Request
    <3>2. pool' = pool /\ reqs' = Append(reqs, z)
      BY <2>2 DEF AdmitReturn
    <3> HIDE DEF z
    <3> QED BY <3>1, <3>2
  <2> QED BY <2>1, <2>2
<1>4. /\ n \in Nat /\ DOMAIN reqs = 1 .. n /\ DOMAIN reqs' = 1 .. n + 1 /\ Len(reqs') = n + 1
      /\ reqs'[n + 1] = z /\ \A k \in 1 .. n : reqs'[k] = reqs[k]
  BY <1>3 DEF IInv
<1>5. Tables = Family(reqs, call) /\ Tables' = Family(reqs', call')
  BY TablesFamily DEF Tables, Family
<1>6. /\ n + 1 \in DOMAIN Tables' /\ 0 \in DOMAIN Tables /\ n + 1 # 0
      /\ Tables[0] = t /\ Tables'[0] = << >> /\ Tables'[n + 1] = z.table
      /\ DOMAIN Tables = 0 .. n /\ DOMAIN Tables' = 0 .. n + 1
      /\ \A k \in DOMAIN Tables' \ {0, n + 1} : k \in DOMAIN Tables /\ Tables'[k] = Tables[k]
  <2>1. Tables[0] = t /\ DOMAIN Tables = 0 .. n /\ 0 \in DOMAIN Tables
    BY <1>1, <1>4, <1>5, FamilyIs
  <2>2. /\ Tables'[0] = << >> /\ DOMAIN Tables' = 0 .. n + 1 /\ n + 1 \in DOMAIN Tables'
        /\ Tables'[n + 1] = z.table
    <3>1. ~(call'.kind = "admit") /\ ~(call'.kind = "release") /\ n + 1 \in DOMAIN reqs' /\ Len(reqs') \in Nat
      BY <1>1, <1>4
    <3>2. Tables'[0] = << >> /\ DOMAIN Tables' = 0 .. n + 1
      BY <1>4, <1>5, <3>1, FamilyIs
    <3>3. n + 1 \in DOMAIN Tables' /\ Tables'[n + 1] = z.table
      <4> DEFINE m == n + 1
      <4>1. m \in DOMAIN Family(reqs', call') /\ reqs'[m] = z
            /\ Family(reqs', call')[m] = IF reqs'[m].released THEN << >> ELSE reqs'[m].table
        BY <1>4, <3>1, FamilyIs
      <4> HIDE DEF m
      <4>2. Family(reqs', call')[m] = z.table
        BY <1>3, <4>1
      <4> QED BY <1>5, <4>1, <4>2 DEF m
    <3> QED BY <3>2, <3>3
  <2>3. ASSUME NEW k \in DOMAIN Tables' \ {0, n + 1} PROVE k \in DOMAIN Tables /\ Tables'[k] = Tables[k]
    <3>1. k \in 1 .. n /\ k \in 0 .. n /\ k \in 0 .. n + 1 /\ k > 0
      BY <1>4, <2>2
    <3>2. Tables'[k] = IF reqs'[k].released THEN << >> ELSE reqs'[k].table
      BY <1>4, <1>5, <3>1 DEF Family
    <3>3. Tables[k] = IF reqs[k].released THEN << >> ELSE reqs[k].table
      BY <1>4, <1>5, <3>1 DEF Family
    <3> QED BY <1>4, <2>1, <3>1, <3>2, <3>3
  <2> QED BY <1>4, <2>1, <2>2, <2>3
<1> HIDE DEF c
<1> QED BY <1>3, <1>6, Zenon

LEMMA AdmitReturnLeases == IInv /\ LeaseInv /\ AdmitReturn => LeaseInv'
<1> SUFFICES ASSUME IInv, LeaseInv, AdmitReturn PROVE LeaseInv'
  OBVIOUS
<1> DEFINE t == call.table
           s == call.prompt
           u == TopFree(pool)
           n == Len(reqs)
<1>1. /\ call \in AdmitCalls /\ call.kind = "admit" /\ call'.kind = "none"
      /\ t \in Seq(Pages) /\ Len(t) \in Nat /\ s \in Prompts
      /\ Sound(pool) /\ pool.refs \in [Pages -> Nat]
      /\ pool.hashes \in [Pages -> BlockHashes \cup {<< >>}]
  BY DEF IInv, AdmitReturn, NoCall, ReleaseCalls, AdmitCalls, Sound, PoolType
<1>2. FullBlocks(s) \in Nat /\ Len(t) = FullBlocks(s) /\ KeyedTable(pool, s, t)
  <2>1. Len(s) \in Nat /\ PageSize \in Nat \ {0}
    BY <1>1, SchedulerAssumption
  <2>2. FullBlocks(s) \in Nat
    BY <2>1, DivNat DEF FullBlocks
  <2> QED BY <1>1, <2>2 DEF AdmitReturn, Walking, Keyed, LeaseInv
<1>3. PICK z :
         /\ reqs' = Append(reqs, z) /\ z.prompt = s /\ z.released = FALSE
         /\ \/ HasFree(pool) /\ pool' = Allocate(pool) /\ z.table = Append(t, u)
            \/ pool' = pool /\ z.table = t
         /\ n + 1 \in DOMAIN Tables' /\ 0 \in DOMAIN Tables /\ n + 1 # 0
         /\ Tables[0] = t /\ Tables'[0] = << >> /\ Tables'[n + 1] = z.table
         /\ DOMAIN Tables = 0 .. n /\ DOMAIN Tables' = 0 .. n + 1
         /\ \A k \in DOMAIN Tables' \ {0, n + 1} : k \in DOMAIN Tables /\ Tables'[k] = Tables[k]
  BY AdmitReturnTables
<1>4. /\ n \in Nat /\ DOMAIN reqs = 1 .. n /\ DOMAIN reqs' = 1 .. n + 1 /\ Len(reqs') = n + 1
      /\ reqs'[n + 1] = z /\ \A k \in 1 .. n : reqs'[k] = reqs[k]
  BY <1>3 DEF IInv
<1>5. Tables = Family(reqs, call) /\ Tables' = Family(reqs', call')
  BY TablesFamily DEF Tables, Family
<1>6. /\ n + 1 \in DOMAIN Tables' /\ 0 \in DOMAIN Tables /\ n + 1 # 0
      /\ Tables[0] = t /\ Tables'[0] = << >> /\ Tables'[n + 1] = z.table
      /\ DOMAIN Tables = 0 .. n /\ DOMAIN Tables' = 0 .. n + 1
      /\ \A k \in DOMAIN Tables' \ {0, n + 1} : k \in DOMAIN Tables /\ Tables'[k] = Tables[k]
  BY <1>3
<1> DEFINE W == [Tables' EXCEPT ![n + 1] = t]
<1> HIDE DEF u, t, s
<1>7. ASSUME NEW p \in Pages PROVE AtMost(W, p, pool.refs[p])
  <2>1. AtMost(Tables, p, pool.refs[p]) /\ pool.refs[p] \in Nat
    BY CountedAs DEF LeaseInv
  <2>2. /\ n + 1 \in DOMAIN W /\ W[n + 1] = Tables[0] /\ DOMAIN W[0] = {}
        /\ \A k \in DOMAIN W \ {n + 1, 0} : k \in DOMAIN Tables /\ W[k] = Tables[k]
    BY <1>4, <1>6
  <2> HIDE DEF W
  <2> QED BY <1>6, <2>1, <2>2, AtMostMoved
<1>8. CASE pool' = pool /\ z.table = t
  <2>1. W = Tables'
    BY <1>5, <1>6, <1>8 DEF Family
  <2>2. Counted'
    BY <1>7, <1>8, <2>1 DEF Counted
  <2>3. Keyed'
    <3>1. ASSUME NEW i \in DOMAIN reqs', ~reqs'[i].released
          PROVE  Len(reqs'[i].table) >= FullBlocks(reqs'[i].prompt)
                 /\ KeyedTable(pool, reqs'[i].prompt, reqs'[i].table)
      <4>1. CASE i = n + 1
        BY <1>1, <1>2, <1>3, <1>4, <1>8, <4>1
      <4>2. CASE i # n + 1
        BY <1>4, <3>1, <4>2 DEF Keyed, LeaseInv
      <4> QED BY <4>1, <4>2
    <3> QED BY <1>1, <1>8, <3>1 DEF Keyed
  <2> QED BY <2>2, <2>3 DEF LeaseInv
<1>9. CASE HasFree(pool) /\ pool' = Allocate(pool) /\ z.table = Append(t, u)
  <2>1. /\ u \in Pages /\ pool.refs[u] = 0 /\ pool.hashes[u] = << >>
        /\ pool'.refs = [pool.refs EXCEPT ![u] = 1] /\ pool'.hashes = pool.hashes
    BY <1>1, <1>9, AllocateKept DEF u
  <2>2. Counted'
    <3> SUFFICES ASSUME NEW p \in Pages PROVE AtMost(Tables', p, pool'.refs[p])
      BY DEF Counted
    <3>1. AtMost(W, p, pool.refs[p]) /\ pool.refs[p] \in Nat
      BY <1>1, <1>7
    <3>2. /\ n + 1 \in DOMAIN W /\ W[n + 1] \in Seq(Pages) /\ DOMAIN Tables' = DOMAIN W
          /\ Tables'[n + 1] = Append(W[n + 1], u)
          /\ \A k \in DOMAIN Tables' \ {n + 1} : Tables'[k] = W[k]
      BY <1>1, <1>6, <1>9
    <3> HIDE DEF W
    <3>3. AtMost(Tables', p, pool.refs[p] + 1) /\ (p # u => AtMost(Tables', p, pool.refs[p]))
      BY <3>1, <3>2, AtMostLonger
    <3>4. pool'.refs[p] = IF p = u THEN pool.refs[p] + 1 ELSE pool.refs[p]
      BY <1>1, <2>1
    <3> QED BY <3>3, <3>4
  <2>3. ASSUME NEW j \in DOMAIN Tables, NEW b \in DOMAIN Tables[j], NEW k, KeyedPage(pool, Tables[j][b], k)
        PROVE  KeyedPage(pool', Tables[j][b], k)
    <3>1. Tables[j][b] \in Pages /\ pool.refs[Tables[j][b]] > 0
      BY PagesCounted DEF LeaseInv
    <3> QED BY <1>1, <1>9, <2>3, <3>1, KeyedAfterAllocate
  <2>4. Keyed'
    <3>1. ASSUME NEW i \in DOMAIN reqs, ~reqs[i].released
          PROVE  Len(reqs[i].table) >= FullBlocks(reqs[i].prompt)
                 /\ KeyedTable(pool', reqs[i].prompt, reqs[i].table)
      <4>1. i \in DOMAIN Tables /\ Tables[i] = reqs[i].table
        BY <1>4, <1>5, <3>1, FamilyIs
      <4> QED BY <2>3, <3>1, <4>1 DEF Keyed, KeyedTable, LeaseInv
    <3>2. KeyedTable(pool', s, t)
      BY <1>2, <1>6, <2>3 DEF KeyedTable
    <3>3. KeyedPage(pool', u, KeyAt(s, Len(t) + 1))
      <4>1. KeyAt(s, Len(t) + 1) = << >>
        BY <1>2 DEF KeyAt
      <4> QED BY <1>1, <2>1, <4>1 DEF KeyedPage
    <3>4. /\ Len(Append(t, u)) = Len(t) + 1
          /\ \A b \in DOMAIN Append(t, u) :
               IF b = Len(t) + 1 THEN Append(t, u)[b] = u
               ELSE b \in DOMAIN t /\ Append(t, u)[b] = t[b]
      BY <1>1, <2>1
    <3>5. Len(z.table) >= FullBlocks(s) /\ KeyedTable(pool', s, z.table)
      BY <1>1, <1>2, <1>9, <3>2, <3>3, <3>4 DEF KeyedTable
    <3>6. ASSUME NEW i \in DOMAIN reqs', ~reqs'[i].released
          PROVE  Len(reqs'[i].table) >= FullBlocks(reqs'[i].prompt)
                 /\ KeyedTable(pool', reqs'[i].prompt, reqs'[i].table)
      <4>1. CASE i = n + 1
        BY <1>3, <1>4, <3>5, <4>1
      <4>2. CASE i # n + 1
        BY <1>4, <3>1, <3>6, <4>2
      <4> QED BY <4>1, <4>2
    <3> QED BY <1>1, <3>6 DEF Keyed
  <2> QED BY <2>2, <2>4 DEF LeaseInv
<1> QED BY <1>3, <1>8, <1>9 DEF u, t

-----------------------------------------------------------------------------
LEMMA InitLeases == Init => LeaseInv
<1> SUFFICES ASSUME Init PROVE LeaseInv
  OBVIOUS
<1>1. reqs = << >> /\ call.kind = "none" /\ pool = EmptyPool
  BY DEF Init, NoCall
<1>2. ASSUME NEW p \in Pages PROVE AtMost(Tables, p, pool.refs[p])
  <2>1. Len(reqs) \in Nat /\ DOMAIN reqs = 1 .. Len(reqs) /\ DOMAIN reqs = {}
    BY <1>1
  <2>2. \A i \in DOMAIN Tables : Tables[i] = << >>
    BY <1>1, <2>1, TablesFamily, FamilyIs
  <2>3. Entries(Tables, p) = {}
    <3> SUFFICES ASSUME NEW e \in Entries(Tables, p) PROVE FALSE
      OBVIOUS
    <3>1. e[1] \in DOMAIN Tables /\ e[2] \in DOMAIN Tables[e[1]]
      BY EntriesIn
    <3> QED BY <2>2, <3>1
  <2>4. pool.refs[p] = 0
    BY <1>1 DEF EmptyPool
  <2> QED BY <2>3, <2>4, FS_EmptySet DEF AtMost
<1>3. Keyed
  BY <1>1 DEF Keyed
<1> QED BY <1>2, <1>3 DEF LeaseInv, Counted

LEMMA StepLeases == IInv /\ LeaseInv /\ [Next]_vars => LeaseInv'
<1> SUFFICES ASSUME IInv, LeaseInv, [Next]_vars PROVE LeaseInv'
  OBVIOUS
<1>1. CASE Admit
  BY <1>1, AdmitCallLeases DEF Admit
<1>2. CASE \E i \in DOMAIN reqs : ReleaseCall(i)
  BY <1>2, ReleaseCallLeases
<1>3. CASE InCall
  BY <1>3, AdmitBlockLeases, AdmitReturnLeases, AdmitThrowLeases, ReleaseNextLeases DEF InCall
<1>4. CASE Step
  BY <1>4, PrefillLeases, DecodeStepLeases DEF Step
<1>5. CASE UNCHANGED vars
  <2>1. Tables' = Tables
    BY <1>5 DEF vars, Tables
  <2> QED BY <1>5, <2>1 DEF vars, LeaseInv, Counted, Keyed
<1> QED BY <1>1, <1>2, <1>3, <1>4, <1>5 DEF Next

-----------------------------------------------------------------------------
(* No chain of blocks is broken. *)

(* Counting exactly: n entries of T refer to p. *)
Exactly(T, p, n) == IsFiniteSet(Entries(T, p)) /\ Cardinality(Entries(T, p)) = n

LEMMA ExactlyAtMost ==
  ASSUME NEW T, NEW p, NEW n
  PROVE  Exactly(T, p, n) => AtMost(T, p, n) /\ n \in Nat
<1> SUFFICES ASSUME Exactly(T, p, n) PROVE AtMost(T, p, n) /\ n \in Nat
  OBVIOUS
<1>1. n \in Nat
  BY FS_CardinalityType DEF Exactly
<1> QED BY <1>1 DEF AtMost, Exactly

(* At most n entries, and at least n. *)
LEMMA ExactlyBetween ==
  ASSUME NEW T, NEW U, NEW p, NEW n \in Nat, AtMost(U, p, n),
         Exactly(T, p, n), AtMost(T, p, Cardinality(Entries(U, p)))
  PROVE  Exactly(U, p, n)
<1>1. Cardinality(Entries(U, p)) \in Nat /\ Cardinality(Entries(U, p)) <= n
  BY FS_CardinalityType DEF AtMost
<1>2. n <= Cardinality(Entries(U, p))
  BY DEF Exactly, AtMost
<1> QED BY <1>1, <1>2 DEF Exactly, AtMost

LEMMA ExactlyLonger ==
  ASSUME NEW T, NEW U, NEW p, NEW n \in Nat, Exactly(T, p, n), NEW i, NEW u, TableLonger(T, U, i, u)
  PROVE  Exactly(U, p, IF p = u THEN n + 1 ELSE n)
<1> DEFINE x == <<i, Len(T[i]) + 1>>
           E == Entries(T, p)
           F == Entries(U, p)
<1>1. AtMost(U, p, n + 1) /\ (p # u => AtMost(U, p, n))
  BY ExactlyAtMost, AtMostLonger DEF TableLonger
<1>2. /\ Len(T[i]) \in Nat /\ DOMAIN T[i] = 1 .. Len(T[i])
      /\ DOMAIN U[i] = 1 .. Len(T[i]) + 1 /\ U[i][Len(T[i]) + 1] = u
      /\ \A b \in DOMAIN T[i] : U[i][b] = T[i][b]
  BY DEF TableLonger
<1>3. E \subseteq F
  <2> SUFFICES ASSUME NEW e \in E PROVE e \in F
    OBVIOUS
  <2>1. e[1] \in DOMAIN T /\ e[2] \in DOMAIN T[e[1]] /\ T[e[1]][e[2]] = p /\ e = <<e[1], e[2]>>
    BY EntriesIn
  <2>2. e[1] \in DOMAIN U /\ e[2] \in DOMAIN U[e[1]] /\ U[e[1]][e[2]] = p
    <3>1. CASE e[1] = i
      BY <1>2, <2>1, <3>1 DEF TableLonger
    <3>2. CASE e[1] # i
      BY <2>1, <3>2 DEF TableLonger
    <3> QED BY <3>1, <3>2
  <2> QED BY <2>1, <2>2, EntriesIn
<1>4. x \notin E
  <2> SUFFICES ASSUME x \in E PROVE FALSE
    OBVIOUS
  <2>1. x[1] = i /\ x[2] = Len(T[i]) + 1 /\ x[2] \in DOMAIN T[x[1]]
    BY EntriesIn
  <2> QED BY <1>2, <2>1
<1>5. ASSUME p = u PROVE x \in F
  <2>1. i \in DOMAIN U /\ Len(T[i]) + 1 \in DOMAIN U[i] /\ U[i][Len(T[i]) + 1] = p
    BY <1>2, <1>5 DEF TableLonger
  <2> QED BY <2>1, EntryIn
<1>6. IsFiniteSet(E) /\ Cardinality(E) = n /\ IsFiniteSet(F) /\ Cardinality(F) \in Nat
  BY <1>1, FS_CardinalityType DEF Exactly, AtMost
<1>7. CASE p # u
  <2>1. Cardinality(F) <= n /\ n <= Cardinality(F)
    BY <1>1, <1>3, <1>6, <1>7, FS_Subset DEF AtMost
  <2> QED BY <1>6, <1>7, <2>1 DEF Exactly
<1>8. CASE p = u
  <2> DEFINE G == E \cup {x}
  <2>1. IsFiniteSet(G) /\ Cardinality(G) = n + 1 /\ G \subseteq F
    BY <1>3, <1>4, <1>5, <1>6, <1>8, FS_AddElement
  <2> HIDE DEF G
  <2>2. Cardinality(F) <= n + 1 /\ n + 1 <= Cardinality(F)
    BY <1>1, <1>6, <2>1, FS_Subset DEF AtMost
  <2> QED BY <1>6, <1>8, <2>2 DEF Exactly
<1> QED BY <1>7, <1>8

LEMMA ExactlyMoved ==
  ASSUME NEW T, NEW U, NEW p, NEW n \in Nat, Exactly(T, p, n), NEW i, NEW j, TableMoved(T, U, j, i)
  PROVE  Exactly(U, p, n)
<1>1. AtMost(T, p, n)
  BY ExactlyAtMost
<1>2. AtMost(U, p, n)
  <2>1. /\ i \in DOMAIN U /\ j \in DOMAIN T /\ i # j /\ U[i] = T[j]
        /\ j \in DOMAIN U => DOMAIN U[j] = {}
        /\ \A k \in DOMAIN U \ {i, j} : k \in DOMAIN T /\ U[k] = T[k]
    BY DEF TableMoved
  <2> QED BY <1>1, <2>1, AtMostMoved
<1> DEFINE m == Cardinality(Entries(U, p))
<1>3. m \in Nat /\ AtMost(U, p, m)
  BY <1>2, FS_CardinalityType DEF AtMost
<1> HIDE DEF m
<1>4. AtMost(T, p, m)
  <2>1. /\ j \in DOMAIN T /\ i \in DOMAIN U /\ j # i /\ T[j] = U[i]
        /\ i \in DOMAIN T => DOMAIN T[i] = {}
        /\ \A k \in DOMAIN T \ {j, i} : k \in DOMAIN U /\ T[k] = U[k]
    BY DEF TableMoved
  <2> QED BY <1>3, <2>1, AtMostMoved
<1> QED BY <1>2, <1>4, ExactlyBetween DEF m

(* Every entry but the first of table i is still there. *)
LEMMA TailKeepsEntries ==
  ASSUME NEW T, NEW U, NEW p, NEW i, TableShorter(T, U, i),
         IsFiniteSet(Entries(T, p)), IsFiniteSet(Entries(U, p))
  PROVE  Cardinality(Entries(T, p) \ {<<i, 1>>}) <= Cardinality(Entries(U, p))
<1> DEFINE x == <<i, 1>>
           D == Entries(T, p) \ {x}
           F == Entries(U, p)
           on(e) == IF e[1] = i THEN <<i, e[2] - 1>> ELSE e
           f == [e \in D |-> on(e)]
<1>1. /\ Len(T[i]) \in Nat \ {0} /\ DOMAIN T[i] = 1 .. Len(T[i])
      /\ DOMAIN U[i] = 1 .. Len(T[i]) - 1
      /\ \A b \in DOMAIN T[i] : b # 1 => b - 1 \in DOMAIN U[i] /\ U[i][b - 1] = T[i][b]
  <2>1. Len(T[i]) \in Nat \ {0} /\ DOMAIN T[i] = 1 .. Len(T[i])
    BY EmptySeq DEF TableShorter
  <2>2. U[i] \in Seq(Pages) /\ Len(U[i]) = Len(T[i]) - 1
    BY <2>1 DEF TableShorter
  <2>3. ASSUME NEW b \in DOMAIN T[i], b # 1 PROVE b - 1 \in DOMAIN U[i] /\ U[i][b - 1] = T[i][b]
    BY <2>1, <2>2, <2>3 DEF TableShorter
  <2> QED BY <2>1, <2>2, <2>3
<1>2. ASSUME NEW e \in D
      PROVE  /\ f[e] \in F /\ f[e] = on(e) /\ e = <<e[1], e[2]>>
             /\ e[1] = i => e[2] \in Nat \ {0, 1}
  <2>1. e[1] \in DOMAIN T /\ e[2] \in DOMAIN T[e[1]] /\ T[e[1]][e[2]] = p /\ e = <<e[1], e[2]>>
    BY EntriesIn
  <2>2. CASE e[1] = i
    <3>1. e[2] # 1
      BY <2>1, <2>2
    <3>2. f[e] = <<i, e[2] - 1>> /\ e[2] \in Nat \ {0, 1} /\ e[2] - 1 \in DOMAIN U[i]
          /\ U[i][e[2] - 1] = p /\ i \in DOMAIN U
      BY <1>1, <2>1, <2>2, <3>1 DEF TableShorter
    <3>3. f[e] \in F
      BY <3>2, EntryIn
    <3> QED BY <2>1, <3>2, <3>3
  <2>3. CASE e[1] # i
    <3>1. e[1] \in DOMAIN U /\ U[e[1]] = T[e[1]] /\ f[e] = e
      BY <2>1, <2>3 DEF TableShorter
    <3>2. f[e] \in F
      BY <2>1, <3>1, EntriesIn
    <3> QED BY <2>1, <2>3, <3>2
  <2> QED BY <2>2, <2>3
<1>3. ASSUME NEW a \in D, NEW b \in D, f[a] = f[b] PROVE a = b
  <2>1. /\ a = <<a[1], a[2]>> /\ b = <<b[1], b[2]>> /\ f[a] = on(a) /\ f[b] = on(b)
        /\ (a[1] = i => a[2] \in Nat) /\ (b[1] = i => b[2] \in Nat)
    BY <1>2
  <2> HIDE DEF D, F, f
  <2>2. CASE a[1] = i /\ b[1] = i
    <3>1. <<i, a[2] - 1>> = <<i, b[2] - 1>>
      BY <1>3, <2>1, <2>2
    <3>2. a[2] - 1 = b[2] - 1
      BY <3>1
    <3>3. a[2] = b[2]
      BY <2>1, <2>2, <3>2
    <3> QED BY <2>1, <2>2, <3>3
  <2>3. CASE a[1] = i /\ b[1] # i
    <3>1. <<i, a[2] - 1>> = b
      BY <1>3, <2>1, <2>3
    <3> QED BY <2>3, <3>1
  <2>4. CASE a[1] # i /\ b[1] = i
    <3>1. a = <<i, b[2] - 1>>
      BY <1>3, <2>1, <2>4
    <3> QED BY <2>4, <3>1
  <2>5. CASE a[1] # i /\ b[1] # i
    BY <1>3, <2>1, <2>5
  <2> QED BY <2>2, <2>3, <2>4, <2>5
<1>4. f \in Injection(D, F)
  <2>1. f \in [D -> F]
    BY <1>2
  <2> QED BY <1>3, <2>1 DEF Injection, IsInjective
<1> QED BY <1>4, FS_Injection

LEMMA ExactlyShorter ==
  ASSUME NEW T, NEW U, NEW p, NEW n \in Nat, Exactly(T, p, n), NEW i, TableShorter(T, U, i)
  PROVE  Exactly(U, p, IF Head(T[i]) = p THEN n - 1 ELSE n)
<1> DEFINE x == <<i, 1>>
           E == Entries(T, p)
           F == Entries(U, p)
<1>1. AtMost(U, p, n) /\ (Head(T[i]) = p => AtMost(U, p, n - 1))
  BY ExactlyAtMost, AtMostTail DEF TableShorter
<1>2. IsFiniteSet(E) /\ Cardinality(E) = n /\ IsFiniteSet(F) /\ Cardinality(F) \in Nat
  BY <1>1, FS_CardinalityType DEF Exactly, AtMost
<1>3. Cardinality(E \ {x}) <= Cardinality(F)
  BY <1>2, TailKeepsEntries
<1>4. /\ Cardinality(E \ {x}) \in Nat
      /\ Cardinality(E \ {x}) = IF x \in E THEN n - 1 ELSE n
  BY <1>2, FS_RemoveElement, FS_CardinalityType
<1>5. Head(T[i]) # p => x \notin E
  <2> SUFFICES ASSUME x \in E PROVE Head(T[i]) = p
    OBVIOUS
  <2>1. x[1] = i /\ x[2] = 1 /\ T[x[1]][x[2]] = p
    BY EntriesIn
  <2> QED BY <2>1 DEF TableShorter
<1>6. CASE Head(T[i]) = p
  <2>1. Cardinality(F) <= n - 1 /\ n - 1 <= Cardinality(F)
    BY <1>1, <1>2, <1>3, <1>4, <1>6 DEF AtMost
  <2> QED BY <1>2, <1>6, <2>1 DEF Exactly
<1>7. CASE Head(T[i]) # p
  <2>1. Cardinality(F) <= n /\ n <= Cardinality(F)
    BY <1>1, <1>2, <1>3, <1>4, <1>5, <1>7 DEF AtMost
  <2> QED BY <1>2, <1>7, <2>1 DEF Exactly
<1> QED BY <1>6, <1>7

-----------------------------------------------------------------------------
(* The tables of G, then those of T. *)
Join(G, T) == [i \in DOMAIN G \cup DOMAIN T |-> IF i \in DOMAIN T THEN T[i] ELSE G[i]]

LEMMA JoinLonger ==
  ASSUME NEW G, NEW T, NEW U, NEW i, NEW u, TableLonger(T, U, i, u)
  PROVE  TableLonger(Join(G, T), Join(G, U), i, u)
  BY DEF TableLonger, Join

LEMMA JoinShorter ==
  ASSUME NEW G, NEW T, NEW U, NEW i, TableShorter(T, U, i)
  PROVE  TableShorter(Join(G, T), Join(G, U), i) /\ Join(G, T)[i] = T[i]
  BY DEF TableShorter, Join

LEMMA JoinMoved ==
  ASSUME NEW G, NEW T, NEW U, NEW i, NEW j, i \notin DOMAIN G, TableMoved(T, U, j, i)
  PROVE  TableMoved(Join(G, T), Join(G, U), j, i)
<1> DEFINE V == Join(G, T)
           W == Join(G, U)
<1>1. /\ DOMAIN V = DOMAIN G \cup DOMAIN T /\ DOMAIN W = DOMAIN G \cup DOMAIN U
      /\ \A k \in DOMAIN V : V[k] = IF k \in DOMAIN T THEN T[k] ELSE G[k]
      /\ \A k \in DOMAIN W : W[k] = IF k \in DOMAIN U THEN U[k] ELSE G[k]
  BY DEF Join
<1> HIDE DEF V, W
<1>2. /\ i \in DOMAIN W /\ j \in DOMAIN V /\ i # j /\ W[i] = V[j]
      /\ j \in DOMAIN W /\ W[j] = << >>
      /\ DOMAIN W = DOMAIN V \cup {i}
      /\ i \in DOMAIN V => V[i] = << >>
  BY <1>1 DEF TableMoved
<1>3. ASSUME NEW k \in DOMAIN W \ {i, j} PROVE k \in DOMAIN V /\ W[k] = V[k]
  BY <1>1, <1>3 DEF TableMoved
<1> QED BY <1>2, <1>3 DEF TableMoved, V, W

-----------------------------------------------------------------------------
(* The pages of a table lie where the blocks of some prompt are registered *)
(* and, from the end of its full blocks on, are registered under nothing.  *)
HashedTable(q, t) ==
  /\ t \in Seq(Pages)
  /\ \E s \in Prompts : \A b \in DOMAIN t : q.hashes[t[b]] = KeyAt(s, b)

(* With the tables G that admissions left behind when they threw, numbered *)
(* from -1 down, each page has as many references as entries.              *)
Chained(q, T, g, G) ==
  /\ DOMAIN G = -g .. -1 /\ DOMAIN T \subseteq Nat
  /\ \A i \in DOMAIN G : HashedTable(q, G[i])
  /\ \A p \in Pages : Exactly(Join(G, T), p, q.refs[p])

ChainInv == \E g \in Nat : \E G : Chained(pool, Tables, g, G)

(* A page in a table has a reference. *)
LEMMA ChainedCounted ==
  ASSUME NEW q, NEW T, NEW g \in Nat, NEW G, Chained(q, T, g, G),
         NEW i \in DOMAIN G, NEW b \in DOMAIN G[i]
  PROVE  /\ G[i][b] \in Pages /\ q.refs[G[i][b]] \in Nat \ {0}
         /\ i \in DOMAIN Join(G, T) /\ i \notin DOMAIN T /\ Join(G, T)[i] = G[i]
         /\ AtMost(Join(G, T), G[i][b], q.refs[G[i][b]])
<1>1. G[i][b] \in Pages
  BY DEF Chained, HashedTable
<1>2. i \in DOMAIN Join(G, T) /\ i \notin DOMAIN T /\ Join(G, T)[i] = G[i]
  BY DEF Chained, Join
<1>3. q.refs[G[i][b]] \in Nat /\ AtMost(Join(G, T), G[i][b], q.refs[G[i][b]])
  BY <1>1, ExactlyAtMost DEF Chained
<1> QED BY <1>1, <1>2, <1>3, EntryCounted

(* What keeps the hashes of the pages the tables left behind hold. *)
LEMMA LeftBehindKept ==
  ASSUME NEW q, NEW r, NEW G, NEW i \in DOMAIN G, HashedTable(q, G[i]),
         \A b \in DOMAIN G[i] : r.hashes[G[i][b]] = q.hashes[G[i][b]]
  PROVE  HashedTable(r, G[i])
  BY DEF HashedTable

(* A page more in table i, and a reference more. *)
LEMMA ChainedLonger ==
  ASSUME NEW q, NEW r, NEW T, NEW U, NEW g \in Nat, NEW G, Chained(q, T, g, G),
         NEW i, NEW u, TableLonger(T, U, i, u),
         \A p \in Pages : r.refs[p] = IF p = u THEN q.refs[p] + 1 ELSE q.refs[p],
         \A p \in Pages : q.refs[p] > 0 => r.hashes[p] = q.hashes[p]
  PROVE  Chained(r, U, g, G)
<1>1. DOMAIN U \subseteq Nat
  BY DEF Chained, TableLonger
<1>2. ASSUME NEW j \in DOMAIN G PROVE HashedTable(r, G[j])
  <2>1. ASSUME NEW b \in DOMAIN G[j] PROVE r.hashes[G[j][b]] = q.hashes[G[j][b]]
    <3>1. G[j][b] \in Pages /\ q.refs[G[j][b]] \in Nat \ {0}
      BY ChainedCounted
    <3>2. q.refs[G[j][b]] > 0
      BY <3>1
    <3> QED BY <3>1, <3>2
  <2>2. HashedTable(q, G[j])
    BY DEF Chained
  <2> QED BY <2>1, <2>2, LeftBehindKept
<1>3. ASSUME NEW p \in Pages PROVE Exactly(Join(G, U), p, r.refs[p])
  <2>1. Exactly(Join(G, T), p, q.refs[p]) /\ q.refs[p] \in Nat
    BY ExactlyAtMost DEF Chained
  <2>2. TableLonger(Join(G, T), Join(G, U), i, u)
    BY JoinLonger
  <2>3. Exactly(Join(G, U), p, IF p = u THEN q.refs[p] + 1 ELSE q.refs[p])
    BY <2>1, <2>2, ExactlyLonger
  <2> QED BY <2>3
<1> QED BY <1>1, <1>2, <1>3 DEF Chained

LEMMA ChainedMoved ==
  ASSUME NEW q, NEW T, NEW U, NEW g \in Nat, NEW G, Chained(q, T, g, G),
         NEW i \in Nat, NEW j, TableMoved(T, U, j, i)
  PROVE  Chained(q, U, g, G)
<1>1. DOMAIN U \subseteq Nat /\ i \notin DOMAIN G
  BY DEF Chained, TableMoved
<1>2. ASSUME NEW p \in Pages PROVE Exactly(Join(G, U), p, q.refs[p])
  <2>1. Exactly(Join(G, T), p, q.refs[p]) /\ q.refs[p] \in Nat
    BY ExactlyAtMost DEF Chained
  <2>2. TableMoved(Join(G, T), Join(G, U), j, i)
    BY <1>1, JoinMoved
  <2> QED BY <2>1, <2>2, ExactlyMoved
<1> QED BY <1>1, <1>2 DEF Chained

(* release_all() gives a page back: if another table holds the page, it    *)
(* keeps its hash.                                                         *)
LEMMA ChainedShorter ==
  ASSUME NEW q, Sound(q), NEW T, NEW U, NEW g \in Nat, NEW G, Chained(q, T, g, G),
         NEW i, TableShorter(T, U, i), NEW h \in Pages, Head(T[i]) = h, q.refs[h] > 0
  PROVE  Chained(DecRef(q, h), U, g, G)
<1> DEFINE r == DecRef(q, h)
<1>1. /\ r.refs = [q.refs EXCEPT ![h] = q.refs[h] - 1]
      /\ r.hashes = IF q.refs[h] = 1 THEN [q.hashes EXCEPT ![h] = << >>] ELSE q.hashes
  BY DecRefKept
<1> HIDE DEF r
<1>5. q.refs \in [Pages -> Nat] /\ q.hashes \in [Pages -> BlockHashes \cup {<< >>}]
  BY DEF Sound, PoolType
<1>2. DOMAIN U \subseteq Nat
  BY DEF Chained, TableShorter
<1>3. ASSUME NEW j \in DOMAIN G PROVE HashedTable(r, G[j])
  <2>1. ASSUME NEW b \in DOMAIN G[j] PROVE r.hashes[G[j][b]] = q.hashes[G[j][b]]
    <3> DEFINE p == G[j][b]
               J == Join(G, T)
    <3>1. /\ p \in Pages /\ q.refs[p] \in Nat \ {0}
          /\ j \in DOMAIN J /\ j \notin DOMAIN T /\ J[j] = G[j] /\ AtMost(J, p, q.refs[p])
      BY ChainedCounted
    <3>2. i \in DOMAIN J /\ 1 \in DOMAIN J[i] /\ J[i][1] = h /\ i # j
      <4>1. i \in DOMAIN J /\ J[i] = T[i] /\ i # j
        BY <3>1, JoinShorter DEF TableShorter, Join
      <4>2. 1 \in DOMAIN T[i] /\ T[i][1] = h
        BY EmptySeq DEF TableShorter
      <4> QED BY <4>1, <4>2
    <3>3. p = h => q.refs[p] > 1
      <4> SUFFICES ASSUME p = h PROVE q.refs[p] > 1
        OBVIOUS
      <4>1. J[j][b] = J[i][1] /\ <<j, b>> # <<i, 1>> /\ b \in DOMAIN J[j]
            /\ AtMost(J, J[j][b], q.refs[p])
        BY <3>1, <3>2
      <4> HIDE DEF J, p
      <4> QED BY <3>1, <3>2, <4>1, TwoEntriesCounted
    <3> HIDE DEF p
    <3>4. r.hashes[p] = q.hashes[p]
      BY <1>1, <1>5, <3>1, <3>3
    <3> QED BY <3>4 DEF p
  <2>2. HashedTable(q, G[j])
    BY DEF Chained
  <2> QED BY <2>1, <2>2, LeftBehindKept
<1>4. ASSUME NEW p \in Pages PROVE Exactly(Join(G, U), p, r.refs[p])
  <2>1. Exactly(Join(G, T), p, q.refs[p]) /\ q.refs[p] \in Nat
    BY ExactlyAtMost DEF Chained
  <2>2. TableShorter(Join(G, T), Join(G, U), i) /\ Join(G, T)[i] = T[i]
    BY JoinShorter
  <2>3. Exactly(Join(G, U), p, IF Head(Join(G, T)[i]) = p THEN q.refs[p] - 1 ELSE q.refs[p])
    BY <2>1, <2>2, ExactlyShorter
  <2>4. r.refs[p] = IF h = p THEN q.refs[p] - 1 ELSE q.refs[p]
    BY <1>1, <1>5
  <2>5. Head(Join(G, T)[i]) = h
    BY <2>2
  <2> QED BY <2>3, <2>4, <2>5
<1> QED BY <1>2, <1>3, <1>4 DEF Chained, r

(* An admission that throws leaves its table behind. *)
LEMMA ChainedLeft ==
  ASSUME NEW q, NEW T, NEW U, NEW g \in Nat, NEW G, Chained(q, T, g, G),
         0 \in DOMAIN T, HashedTable(q, T[0]), U[0] = << >>, DOMAIN U = DOMAIN T,
         \A k \in DOMAIN U \ {0} : U[k] = T[k]
  PROVE  \E H : Chained(q, U, g + 1, H)
<1> DEFINE n == -(g + 1)
           H == [i \in n .. -1 |-> IF i = n THEN T[0] ELSE G[i]]
<1>1. /\ n \in Int /\ n < 0 /\ n \notin Nat /\ n \notin DOMAIN G
      /\ n .. -1 = DOMAIN G \cup {n}
  BY DEF Chained
<1>2. /\ DOMAIN H = DOMAIN G \cup {n} /\ H[n] = T[0]
      /\ \A i \in DOMAIN G : H[i] = G[i]
  BY <1>1
<1>3. DOMAIN H = -(g + 1) .. -1
  OBVIOUS
<1> HIDE DEF H, n
<1>4. ASSUME NEW i \in DOMAIN H PROVE HashedTable(q, H[i])
  BY <1>2 DEF Chained
<1>5. TableMoved(Join(G, T), Join(H, U), 0, n)
  <2>1. DOMAIN G \cap DOMAIN T = {} /\ n \notin DOMAIN T /\ n # 0
    BY <1>1 DEF Chained
  <2>2. /\ DOMAIN Join(G, T) = DOMAIN G \cup DOMAIN T
        /\ DOMAIN Join(H, U) = DOMAIN G \cup {n} \cup DOMAIN T
        /\ \A k \in DOMAIN T : Join(G, T)[k] = T[k] /\ Join(H, U)[k] = U[k]
        /\ \A k \in DOMAIN G : Join(G, T)[k] = G[k] /\ Join(H, U)[k] = G[k]
        /\ Join(H, U)[n] = T[0]
    BY <1>2, <2>1 DEF Join
  <2> QED BY <1>1, <2>1, <2>2 DEF TableMoved
<1>6. ASSUME NEW p \in Pages PROVE Exactly(Join(H, U), p, q.refs[p])
  <2>1. Exactly(Join(G, T), p, q.refs[p]) /\ q.refs[p] \in Nat
    BY ExactlyAtMost DEF Chained
  <2> QED BY <1>5, <2>1, ExactlyMoved
<1>7. Chained(q, U, g + 1, H)
  BY <1>3, <1>4, <1>6 DEF Chained
<1> QED BY <1>7

-----------------------------------------------------------------------------
LEMMA InitChain == Init => ChainInv
<1> SUFFICES ASSUME Init PROVE ChainInv
  OBVIOUS
<1> DEFINE G == [i \in -0 .. -1 |-> << >>]
           J == Join(G, Tables)
<1>1. reqs = << >> /\ call.kind = "none" /\ pool = EmptyPool
  BY DEF Init, NoCall
<1>2. /\ DOMAIN Tables \subseteq Nat
      /\ \A i \in DOMAIN Tables : Tables[i] = << >>
  <2>1. Len(reqs) \in Nat /\ DOMAIN reqs = 1 .. Len(reqs) /\ DOMAIN reqs = {}
    BY <1>1
  <2> QED BY <1>1, <2>1, TablesFamily, FamilyIs
<1>3. DOMAIN G = {}
  OBVIOUS
<1>4. DOMAIN J = DOMAIN Tables /\ \A i \in DOMAIN J : J[i] = Tables[i]
  BY <1>3 DEF Join
<1> HIDE DEF J
<1>5. ASSUME NEW p \in Pages PROVE Exactly(J, p, pool.refs[p])
  <2>1. Entries(J, p) = {}
    <3> SUFFICES ASSUME NEW e \in Entries(J, p) PROVE FALSE
      OBVIOUS
    <3>1. e[1] \in DOMAIN J /\ e[2] \in DOMAIN J[e[1]]
      BY EntriesIn
    <3> QED BY <1>2, <1>4, <3>1
  <2>2. pool.refs[p] = 0
    BY <1>1 DEF EmptyPool
  <2> QED BY <2>1, <2>2, FS_EmptySet DEF Exactly
<1>6. Chained(pool, Tables, 0, G)
  BY <1>2, <1>3, <1>5 DEF Chained, J
<1> HIDE DEF G
<1> QED BY <1>6 DEF ChainInv

(* find_or_lease() counts one reference more and, on a miss, registers a   *)
(* page nobody holds.                                                      *)
LEMMA LeaseChain ==
  ASSUME NEW q, Sound(q), NEW k \in BlockHashes, CanLease(q, k),
         NEW T, NEW U, NEW g \in Nat, NEW G, Chained(q, T, g, G),
         NEW i, TableLonger(T, U, i, LeasedPage(q, k))
  PROVE  Chained(FindOrLease(q, k), U, g, G)
<1> DEFINE u == LeasedPage(q, k)
           r == FindOrLease(q, k)
<1>1. /\ u \in Pages /\ r.refs = [q.refs EXCEPT ![u] = q.refs[u] + 1]
      /\ \/ r.hashes = q.hashes
         \/ q.refs[u] = 0 /\ r.hashes = [q.hashes EXCEPT ![u] = k]
  BY FindOrLeaseKept
<1>2. q.refs \in [Pages -> Nat] /\ q.hashes \in [Pages -> BlockHashes \cup {<< >>}]
  BY DEF Sound, PoolType
<1> HIDE DEF u, r
<1>3. /\ \A p \in Pages : r.refs[p] = IF p = u THEN q.refs[p] + 1 ELSE q.refs[p]
      /\ \A p \in Pages : q.refs[p] > 0 => r.hashes[p] = q.hashes[p]
  BY <1>1, <1>2
<1>4. TableLonger(T, U, i, u)
  BY DEF u
<1>5. Chained(r, U, g, G)
  BY <1>3, <1>4, ChainedLonger
<1> QED BY <1>5 DEF r

LEMMA AdmitBlockChain == IInv /\ ChainInv /\ AdmitBlock => ChainInv'
<1> SUFFICES ASSUME IInv, AdmitBlock, NEW g \in Nat, NEW G, Chained(pool, Tables, g, G)
             PROVE  Chained(pool', Tables', g, G)
  BY DEF ChainInv
<1>1. /\ CanLease(pool, NextBlock) /\ pool' = FindOrLease(pool, NextBlock)
      /\ NextBlock \in BlockHashes /\ Sound(pool)
      /\ TableLonger(Tables, Tables', 0, LeasedPage(pool, NextBlock))
  BY AdmitBlockTables DEF IInv
<1>2. Chained(FindOrLease(pool, NextBlock), Tables', g, G)
  BY <1>1, LeaseChain
<1> QED BY <1>1, <1>2

(* allocate() hands out a page without a reference or a hash. *)
LEMMA AllocateChain ==
  ASSUME NEW q, Sound(q), HasFree(q), NEW T, NEW U, NEW g \in Nat, NEW G, Chained(q, T, g, G),
         NEW i, TableLonger(T, U, i, TopFree(q))
  PROVE  Chained(Allocate(q), U, g, G)
<1> DEFINE u == TopFree(q)
           r == Allocate(q)
<1>1. /\ u \in Pages /\ q.refs[u] = 0 /\ r.refs = [q.refs EXCEPT ![u] = 1] /\ r.hashes = q.hashes
  BY AllocateKept
<1>2. q.refs \in [Pages -> Nat]
  BY DEF Sound, PoolType
<1> HIDE DEF u, r
<1>3. /\ \A p \in Pages : r.refs[p] = IF p = u THEN q.refs[p] + 1 ELSE q.refs[p]
      /\ \A p \in Pages : q.refs[p] > 0 => r.hashes[p] = q.hashes[p]
  BY <1>1, <1>2
<1>4. TableLonger(T, U, i, u)
  BY DEF u
<1>5. Chained(r, U, g, G)
  BY <1>3, <1>4, ChainedLonger
<1> QED BY <1>5 DEF r

LEMMA AdmitReturnChain == IInv /\ ChainInv /\ AdmitReturn => ChainInv'
<1> SUFFICES ASSUME IInv, AdmitReturn, NEW g \in Nat, NEW G, Chained(pool, Tables, g, G)
             PROVE  Chained(pool', Tables', g, G)
  BY DEF ChainInv
<1> DEFINE t == call.table
           n == Len(reqs)
           m == n + 1
<1>1. PICK z :
         /\ \/ HasFree(pool) /\ pool' = Allocate(pool) /\ z.table = Append(t, TopFree(pool))
            \/ pool' = pool /\ z.table = t
         /\ n + 1 \in DOMAIN Tables' /\ 0 \in DOMAIN Tables /\ n + 1 # 0
         /\ Tables[0] = t /\ Tables'[0] = << >> /\ Tables'[n + 1] = z.table
         /\ DOMAIN Tables = 0 .. n /\ DOMAIN Tables' = 0 .. n + 1
         /\ \A k \in DOMAIN Tables' \ {0, n + 1} : k \in DOMAIN Tables /\ Tables'[k] = Tables[k]
  BY AdmitReturnTables
<1>2. /\ n \in Nat /\ m \in Nat /\ m \notin DOMAIN Tables /\ 0 \in DOMAIN Tables'
      /\ DOMAIN Tables' = DOMAIN Tables \cup {m}
      /\ Sound(pool) /\ t \in Seq(Pages)
  <2>1. n \in Nat /\ Sound(pool) /\ Tables[0] \in Seq(Pages)
    BY <1>1, TablesPages DEF IInv
  <2> QED BY <1>1, <2>1
<1> HIDE DEF m, t, n
<1> DEFINE V == [Tables' EXCEPT ![m] = t]
<1>3. /\ DOMAIN V = DOMAIN Tables' /\ V[m] = t
      /\ \A k \in DOMAIN V \ {m} : V[k] = Tables'[k]
  BY <1>1 DEF m
<1>4. Tables' = [k \in DOMAIN Tables' |-> Tables'[k]]
  BY DEF Tables
<1>5. z.table = t => V = Tables'
  BY <1>1, <1>4 DEF m
<1> HIDE DEF V
<1>6. TableMoved(Tables, V, 0, m)
  BY <1>1, <1>2, <1>3 DEF TableMoved, m
<1>7. Chained(pool, V, g, G)
  BY <1>2, <1>6, ChainedMoved
<1>8. CASE pool' = pool /\ z.table = t
  BY <1>5, <1>7, <1>8
<1>9. CASE HasFree(pool) /\ pool' = Allocate(pool) /\ z.table = Append(t, TopFree(pool))
  <2>1. TableLonger(V, Tables', m, TopFree(pool))
    BY <1>1, <1>2, <1>3, <1>9 DEF TableLonger, m
  <2>2. Chained(Allocate(pool), Tables', g, G)
    BY <1>2, <1>7, <1>9, <2>1, AllocateChain
  <2> QED BY <1>9, <2>2
<1> QED BY <1>1, <1>8, <1>9

LEMMA AdmitThrowChain == IInv /\ LeaseInv /\ ChainInv /\ AdmitThrow => ChainInv'
<1> SUFFICES ASSUME IInv, LeaseInv, AdmitThrow, NEW g \in Nat, NEW G, Chained(pool, Tables, g, G)
             PROVE  \E h \in Nat : \E H : Chained(pool', Tables', h, H)
  BY DEF ChainInv
<1>1. /\ pool' = pool /\ call.kind = "admit" /\ 0 \in DOMAIN Tables /\ Tables[0] = call.table
      /\ Tables'[0] = << >> /\ DOMAIN Tables' = DOMAIN Tables
      /\ \A k \in DOMAIN Tables' \ {0} : Tables'[k] = Tables[k]
  BY AdmitThrowTables
<1>2. HashedTable(pool, Tables[0])
  <2>1. call.prompt \in Prompts
    BY <1>1 DEF IInv, NoCall, AdmitCalls, ReleaseCalls
  <2>2. Tables[0] \in Seq(Pages)
    BY <1>1, TablesPages
  <2> QED BY <1>1, <2>1, <2>2 DEF HashedTable, LeaseInv, Keyed, KeyedTable, KeyedPage
<1>3. \E H : Chained(pool, Tables', g + 1, H)
  BY <1>1, <1>2, ChainedLeft
<1> QED BY <1>1, <1>3

LEMMA ReleaseNextChain == IInv /\ ChainInv /\ ReleaseNext => ChainInv'
<1> SUFFICES ASSUME IInv, ReleaseNext, NEW g \in Nat, NEW G, Chained(pool, Tables, g, G)
             PROVE  Chained(pool', Tables', g, G)
  BY DEF ChainInv
<1> DEFINE h == Head(call.todo)
<1>1. /\ pool.refs[h] > 0 /\ pool' = DecRef(pool, h) /\ Sound(pool) /\ h \in Pages
      /\ Tables[0] = call.todo /\ TableShorter(Tables, Tables', 0)
  BY ReleaseNextTables
<1>2. Head(Tables[0]) = h
  BY <1>1
<1> HIDE DEF h
<1>3. Chained(DecRef(pool, h), Tables', g, G)
  BY <1>1, <1>2, ChainedShorter
<1> QED BY <1>1, <1>3

LEMMA StepChain == IInv /\ LeaseInv /\ ChainInv /\ [Next]_vars => ChainInv'
<1> SUFFICES ASSUME IInv, LeaseInv, ChainInv, [Next]_vars PROVE ChainInv'
  OBVIOUS
<1>1. ASSUME pool' = pool, Tables' = Tables PROVE ChainInv'
  BY <1>1 DEF ChainInv
<1>2. CASE Admit
  <2>1. PICK prompt \in Prompts, budget \in Budgets : AdmitCall(prompt, budget)
    BY <1>2 DEF Admit
  <2> QED BY <1>1, <2>1, AdmitCallTables
<1>3. ASSUME NEW i \in DOMAIN reqs, ReleaseCall(i) PROVE ChainInv'
  <2>1. pool' = pool /\ TableMoved(Tables, Tables', i, 0)
    BY <1>3, ReleaseCallTables
  <2>2. ASSUME NEW g \in Nat, NEW G, Chained(pool, Tables, g, G) PROVE Chained(pool, Tables', g, G)
    BY <2>1, <2>2, ChainedMoved
  <2> QED BY <2>1, <2>2 DEF ChainInv
<1>4. CASE InCall
  BY <1>4, AdmitBlockChain, AdmitReturnChain, AdmitThrowChain, ReleaseNextChain DEF InCall
<1>5. ASSUME NEW i \in DOMAIN reqs, DecodeStep(i), call' = call PROVE ChainInv'
  <2>1. CASE ~NeedsPage(reqs[i])
    <3>1. pool' = pool
      BY <1>5, <2>1, DecodeStepTables
    <3>2. Tables' = Tables
      BY <1>5, <2>1, DecodeStepTables, SameTables
    <3> QED BY <1>1, <3>1, <3>2
  <2>2. CASE NeedsPage(reqs[i])
    <3>1. HasFree(pool) /\ pool' = Allocate(pool) /\ TableLonger(Tables, Tables', i, TopFree(pool))
          /\ Sound(pool)
      BY <1>5, <2>2, DecodeStepTables DEF IInv
    <3>2. ASSUME NEW g \in Nat, NEW G, Chained(pool, Tables, g, G)
          PROVE  Chained(Allocate(pool), Tables', g, G)
      BY <3>1, <3>2, AllocateChain
    <3> QED BY <3>1, <3>2 DEF ChainInv
  <2> QED BY <2>1, <2>2
<1>6. ASSUME NEW i \in DOMAIN reqs, PrefillSkip(i) \/ PrefillChunk(i), call' = call PROVE ChainInv'
  <2>1. pool' = pool /\ Tables' = Tables
    BY <1>6, PrefillTables, SameTables
  <2> QED BY <1>1, <2>1
<1>7. CASE Step
  BY <1>5, <1>6, <1>7 DEF Step
<1>8. CASE UNCHANGED vars
  BY <1>1, <1>8 DEF vars, Tables
<1> QED BY <1>2, <1>3, <1>4, <1>7, <1>8 DEF Next

-----------------------------------------------------------------------------
(* A block and the one before it. *)
LEMMA BlockBeforeLast ==
  ASSUME NEW s \in Prompts, NEW b \in Nat, 1 < b, b <= FullBlocks(s)
  PROVE  SubSeq(Blocks(s, b), 1, Len(Blocks(s, b)) - PageSize) = Blocks(s, b - 1)
<1> DEFINE c == b - 1
           x == b * PageSize
           y == c * PageSize
<1>1. s \in Seq(Tokens) /\ PageSize \in Nat \ {0} /\ FullBlocks(s) \in Nat
  <2>1. s \in Seq(Tokens) /\ PageSize \in Nat \ {0} /\ Len(s) \in Nat
    BY SchedulerAssumption
  <2> QED BY <2>1, DivNat DEF FullBlocks
<1>2. c \in Nat /\ 1 <= c /\ c < b /\ 1 <= b /\ c <= FullBlocks(s)
  BY <1>1
<1>3. /\ x \in 1 .. Len(s) /\ y \in 1 .. Len(s)
      /\ Len(Blocks(s, b)) = x /\ Blocks(s, b) = SubSeq(s, 1, x) /\ Blocks(s, c) = SubSeq(s, 1, y)
      /\ \A j \in 0 .. x - 1 : SubSeq(Blocks(s, b), 1, j + 1) = SubSeq(s, 1, j + 1)
  <2>1. /\ x \in 1 .. Len(s) /\ Len(Blocks(s, b)) = x
        /\ \A j \in 0 .. x - 1 : SubSeq(Blocks(s, b), 1, j + 1) = SubSeq(s, 1, j + 1)
    BY <1>2, FullBlock
  <2>2. y \in 1 .. Len(s)
    BY <1>2, FullBlock
  <2> QED BY <2>1, <2>2 DEF Blocks
<1>4. x - PageSize = y /\ y <= x
  <2>1. x = y + PageSize
    BY <1>1, <1>2
  <2> HIDE DEF x, y
  <2> QED BY <1>1, <1>3, <2>1
<1> HIDE DEF c, x, y
<1>5. SubSeq(Blocks(s, b), 1, (y - 1) + 1) = SubSeq(s, 1, (y - 1) + 1)
  <2>1. y - 1 \in 0 .. x - 1
    BY <1>3, <1>4
  <2> QED BY <1>3, <2>1
<1>6. (y - 1) + 1 = y
  BY <1>3
<1> QED BY <1>3, <1>4, <1>5, <1>6 DEF c

(* A registered page is held by a table, and so is the page of the block   *)
(* before, in the same one.                                                *)
LEMMA ChainFound == IInv /\ LeaseInv /\ ChainInv => ChainUnbroken
<1> SUFFICES ASSUME IInv, LeaseInv, call.kind # "release", NEW g \in Nat, NEW G,
                    Chained(pool, Tables, g, G),
                    NEW k \in BlockHashes, Hit(pool, k), Len(k) > PageSize
             PROVE  Hit(pool, SubSeq(k, 1, Len(k) - PageSize))
  BY DEF ChainInv, ChainUnbroken
<1> DEFINE p == pool.index[k]
           J == Join(G, Tables)
<1>1. /\ pool.refs \in [Pages -> Nat] /\ pool.index \in [BlockHashes -> Pages \cup {NoPage}]
      /\ \A h \in BlockHashes, x \in Pages : pool.index[h] = x <=> pool.hashes[x] = h
      /\ \A x \in Pages : pool.refs[x] = 0 => pool.hashes[x] = << >>
  BY DEF IInv, Sound, PoolType, IndexExact
<1>2. p \in Pages /\ pool.hashes[p] = k /\ k # << >> /\ pool.refs[p] \in Nat \ {0}
  BY <1>1, BlocksNotEmpty DEF Hit
<1> HIDE DEF p
<1>3. PICK e : e \in Entries(J, p)
  <2>1. IsFiniteSet(Entries(J, p)) /\ Cardinality(Entries(J, p)) # 0
    BY <1>2 DEF Chained, Exactly
  <2> QED BY <2>1, FS_EmptySet
<1> DEFINE i == e[1]
           b == e[2]
<1>4. i \in DOMAIN J /\ b \in DOMAIN J[i] /\ J[i][b] = p
  BY <1>3, EntriesIn
<1>5. HashedTable(pool, J[i])
  <2>1. CASE i \notin DOMAIN Tables
    BY <1>4, <2>1 DEF Join, Chained
  <2>2. CASE i \in DOMAIN Tables
    <3>1. J[i] = Tables[i] /\ Tables[i] \in Seq(Pages) /\ Tables[i] # << >>
      BY <1>4, <2>2, TablesPages DEF Join
    <3>2. CASE i = 0
      <4>1. call.kind = "admit" /\ Tables[i] = call.table
        BY <2>2, <3>1, <3>2, TablesFamily, FamilyIs
      <4>2. call.prompt \in Prompts
        BY <4>1 DEF IInv, NoCall, AdmitCalls, ReleaseCalls
      <4> QED BY <3>1, <4>1, <4>2 DEF HashedTable, LeaseInv, Keyed, KeyedTable, KeyedPage
    <3>3. CASE i \in DOMAIN reqs
      <4>1. ~reqs[i].released /\ Tables[i] = reqs[i].table
        BY <3>1, <3>3, TablesFamily, FamilyIs
      <4>2. reqs[i].prompt \in Prompts
        BY <3>3 DEF IInv, TableSound
      <4> QED BY <3>1, <3>3, <4>1, <4>2 DEF HashedTable, LeaseInv, Keyed, KeyedTable, KeyedPage
    <3> QED BY <2>2, <3>2, <3>3, TablesFamily, FamilyIs
  <2> QED BY <2>1, <2>2
<1> HIDE DEF i, b, J
<1>6. PICK s \in Prompts : \A d \in DOMAIN J[i] : pool.hashes[J[i][d]] = KeyAt(s, d)
  BY <1>5 DEF HashedTable
<1>7. /\ b \in Nat /\ 1 <= b /\ b <= FullBlocks(s) /\ k = Blocks(s, b)
      /\ \A d \in 1 .. b : d \in DOMAIN J[i] /\ J[i][d] \in Pages
  <2>1. J[i] \in Seq(Pages)
    BY <1>5 DEF HashedTable
  <2>2. b \in Nat /\ 1 <= b /\ \A d \in 1 .. b : d \in DOMAIN J[i] /\ J[i][d] \in Pages
    BY <1>4, <2>1
  <2> QED BY <1>2, <1>4, <1>6, <2>2 DEF KeyAt
<1>8. 1 < b
  <2>1. Len(k) = b * PageSize /\ PageSize \in Nat
    BY <1>7, FullBlock, SchedulerAssumption
  <2>2. b = 1 => Len(k) = PageSize
    BY <2>1
  <2> QED BY <1>7, <2>1, <2>2
<1> DEFINE c == b - 1
<1>9. c \in 1 .. b /\ c \in Nat /\ 1 <= c /\ c <= FullBlocks(s) /\ FullBlocks(s) \in Nat
  <2>1. Len(s) \in Nat /\ PageSize \in Nat \ {0}
    BY SchedulerAssumption
  <2>2. FullBlocks(s) \in Nat
    BY <2>1, DivNat DEF FullBlocks
  <2> QED BY <1>7, <1>8, <2>2
<1>10. SubSeq(k, 1, Len(k) - PageSize) = Blocks(s, c)
  BY <1>7, <1>8, BlockBeforeLast
<1> HIDE DEF c
<1>11. Blocks(s, c) \in BlockHashes /\ J[i][c] \in Pages /\ pool.hashes[J[i][c]] = Blocks(s, c)
  BY <1>6, <1>7, <1>9, FullBlock DEF KeyAt
<1>12. pool.index[Blocks(s, c)] = J[i][c]
  BY <1>1, <1>11
<1>13. J[i][c] # NoPage
  BY <1>11 DEF Pages, NoPage
<1> QED BY <1>10, <1>12, <1>13 DEF Hit

-----------------------------------------------------------------------------
(* Whatever is admitted, run, thrown and given back, the page tables hold  *)
(* pages and the pool stays sound.                                         *)
THEOREM SchedulerSound == Spec => []IInv
<1> QED BY InitInv, StepInv, PTL DEF Spec

(* admit(), its exception half-way, decode steps that take a page and      *)
(* release_all() leave the free list with exactly the pages nobody counts  *)
(* and the hash table with exactly the registered ones.                    *)
THEOREM PoolStaysSound == Spec => []PoolSound
<1>1. IInv => PoolSound
  BY DEF IInv, Sound, PoolSound
<1> QED BY <1>1, SchedulerSound, PTL

(* Every page is counted for each table entry that refers to it, and the   *)
(* blocks of a table lie in the pages registered under them: at most one   *)
(* request reads a page that is not registered.                            *)
THEOREM LeasesSound == Spec => [](IInv /\ LeaseInv)
<1>1. Init => IInv /\ LeaseInv
  BY InitInv, InitLeases
<1>2. (IInv /\ LeaseInv) /\ [Next]_vars => (IInv /\ LeaseInv)'
  BY StepInv, StepLeases
<1> QED BY <1>1, <1>2, PTL DEF Spec

(* However requests share prefixes, take pages in decode steps and give    *)
(* them back, and whether or not an admission throws half-way, a page that *)
(* a request still refers to keeps a reference for it: release_all() of    *)
(* one request never frees a page under another.                           *)
THEOREM LeasesKept == Spec => []NoLeaseLost
<1>1. IInv /\ LeaseInv => NoLeaseLost
  <2> SUFFICES ASSUME IInv, LeaseInv, NEW p \in Pages PROVE pool.refs[p] >= Cardinality(Leases(p))
    BY DEF NoLeaseLost
  <2>1. Leases(p) = Entries(Tables, p)
    BY DEF Leases, Entries
  <2>2. /\ IsFiniteSet(Entries(Tables, p)) /\ Cardinality(Entries(Tables, p)) <= pool.refs[p]
        /\ pool.refs[p] \in Nat
    BY CountedAs DEF LeaseInv, AtMost
  <2> QED BY <2>1, <2>2, FS_CardinalityType
<1> QED BY <1>1, LeasesSound, PTL

(* Every page has exactly as many references as entries in the tables of   *)
(* requests, of the call in progress and of admissions that threw.         *)
THEOREM ChainSound == Spec => [](IInv /\ LeaseInv /\ ChainInv)
<1>1. Init => IInv /\ LeaseInv /\ ChainInv
  BY InitInv, InitLeases, InitChain
<1>2. (IInv /\ LeaseInv /\ ChainInv) /\ [Next]_vars => (IInv /\ LeaseInv /\ ChainInv)'
  BY StepInv, StepLeases, StepChain
<1> QED BY <1>1, <1>2, PTL DEF Spec

(* Whatever requests share, whichever finish first and whether or not      *)
(* admissions throw half-way, a block that is registered has every block   *)
(* before it registered: release_all() never breaks a chain that a later   *)
(* admission walks, except while it runs.                                  *)
THEOREM ChainKept == Spec => []ChainUnbroken
  BY ChainSound, ChainFound, PTL

-----------------------------------------------------------------------------
(***************************************************************************)
(* Sharing pages is invisible: every request reads the K/V of its own      *)
(* tokens and serves what TokenService promises, for every number          *)
(* of pages, page size, chunk size, prompts, budgets and model, and for a  *)
(* driver that gives pages back or does not.                               *)
(*                                                                         *)
(* Two hypotheses: the sampler draws tokens (SamplerTyped), and no admit() *)
(* throws.  An admission that throws half-way leaves pages registered that *)
(* nobody will fill, and the properties are false after it.                *)
(*                                                                         *)
(* A hit leases a page that need not be filled yet, so no invariant says   *)
(* that a registered page holds its block.  Registered says that it does   *)
(* or that a request (Pending), or the admission in progress (Walked), is  *)
(* still to write it; Filled says that the positions a request takes as    *)
(* cached are filled, or pending for a request admitted before it.  First  *)
(* come, first served makes every request before the running one done, so  *)
(* that nothing it reads is pending.                                       *)
(***************************************************************************)

(* The number of the block position j lies in. *)
BlockOf(j) == j \div PageSize + 1

(* Arithmetic of pages and positions. *)
LEMMA DivMod ==
  ASSUME NEW x \in Nat, NEW p \in Nat \ {0}
  PROVE  x \div p \in Nat /\ x % p \in 0 .. p - 1 /\ x % p = x - (x \div p) * p
<1>1. x \div p \in Nat
  OBVIOUS
<1>2. x % p \in 0 .. p - 1
  OBVIOUS
<1>3. x % p = x - (x \div p) * p
  OBVIOUS
<1> QED BY <1>1, <1>2, <1>3

LEMMA BlockPosition ==
  ASSUME NEW j \in Nat
  PROVE  /\ BlockOf(j) \in Nat \ {0} /\ BlockOf(j) - 1 \in Nat
         /\ j % PageSize \in Offsets /\ j % PageSize \in 0 .. PageSize - 1
         /\ j = (BlockOf(j) - 1) * PageSize + (j % PageSize)
<1> DEFINE d == j \div PageSize
           o == j % PageSize
<1>1. PageSize \in Nat \ {0}
  BY SchedulerAssumption
<1>2. d \in Nat /\ o \in 0 .. PageSize - 1 /\ o = j - d * PageSize
  BY <1>1, DivMod
<1>3. d * PageSize \in Nat /\ BlockOf(j) = d + 1
  BY <1>2, TimesPage DEF BlockOf
<1> HIDE DEF d, o
<1>4. BlockOf(j) \in Nat \ {0} /\ BlockOf(j) - 1 = d
  BY <1>2, <1>3
<1>5. j = d * PageSize + o
  <2> DEFINE m == d * PageSize
  <2> HIDE DEF m
  <2>1. o = j - m /\ m \in Nat /\ o \in Int
    BY <1>1, <1>2, <1>3 DEF m
  <2>2. j = m + o
    BY <2>1
  <2> QED BY <2>2 DEF m
<1> QED BY <1>2, <1>4, <1>5 DEF Offsets, o

LEMMA PositionUnique ==
  ASSUME NEW j \in Nat, NEW k \in Nat, BlockOf(j) = BlockOf(k), j % PageSize = k % PageSize
  PROVE  j = k
<1>1. /\ j = (BlockOf(j) - 1) * PageSize + (j % PageSize)
      /\ k = (BlockOf(k) - 1) * PageSize + (k % PageSize)
  BY BlockPosition
<1> QED BY <1>1

LEMMA BlockBefore ==
  ASSUME NEW j \in Nat, NEW b \in Nat
  PROVE  j < b * PageSize <=> BlockOf(j) <= b
<1> DEFINE B == BlockOf(j)
           d == B - 1
           o == j % PageSize
<1>1. B \in Nat \ {0} /\ d \in Nat /\ o \in 0 .. PageSize - 1 /\ j = d * PageSize + o
  BY BlockPosition
<1>2. PageSize \in Nat /\ d * PageSize \in Nat /\ b * PageSize \in Nat
  BY <1>1, TimesPage, SchedulerAssumption
<1>3. B <= b => d * PageSize + PageSize <= b * PageSize
  BY <1>1, TimesPage
<1>4. ~(B <= b) => b * PageSize <= d * PageSize
  BY <1>1, TimesPage
<1> DEFINE x == d * PageSize
           y == b * PageSize
<1> HIDE DEF x, y, o
<1>5. B <= b => j < y
  BY <1>1, <1>2, <1>3 DEF x, y
<1>6. ~(B <= b) => ~(j < y)
  BY <1>1, <1>2, <1>4 DEF x, y
<1> QED BY <1>5, <1>6 DEF y

LEMMA BlockAfter ==
  ASSUME NEW j \in Nat, NEW b \in Nat
  PROVE  b * PageSize <= j <=> b < BlockOf(j)
<1>1. b * PageSize \in Nat /\ BlockOf(j) \in Nat
  BY TimesPage, BlockPosition
<1> QED BY <1>1, BlockBefore

(* The positions of block b. *)
LEMMA InBlock ==
  ASSUME NEW b \in Nat \ {0}, NEW j \in b * PageSize - PageSize .. b * PageSize - 1
  PROVE  j \in Nat /\ BlockOf(j) = b
<1>1. /\ b - 1 \in Nat /\ (b - 1) * PageSize \in Nat /\ b * PageSize \in Nat
      /\ PageSize \in Nat /\ (b - 1) * PageSize = b * PageSize - PageSize
  BY TimesPage, SchedulerAssumption
<1>2. j \in Nat /\ j < b * PageSize /\ (b - 1) * PageSize <= j
  BY <1>1
<1>3. BlockOf(j) \in Nat /\ BlockOf(j) <= b /\ b - 1 < BlockOf(j)
  BY <1>1, <1>2, BlockBefore, BlockAfter, BlockPosition
<1> QED BY <1>2, <1>3

LEMMA OfBlock ==
  ASSUME NEW j \in Nat
  PROVE  j \in BlockOf(j) * PageSize - PageSize .. BlockOf(j) * PageSize - 1
<1> DEFINE b == BlockOf(j)
<1>1. b \in Nat \ {0} /\ b - 1 \in Nat /\ PageSize \in Nat
  BY BlockPosition, SchedulerAssumption
<1> HIDE DEF b
<1>3. (b - 1) * PageSize \in Nat /\ b * PageSize \in Nat
      /\ (b - 1) * PageSize = b * PageSize - PageSize
  BY <1>1, TimesPage
<1>2. j < b * PageSize /\ (b - 1) * PageSize <= j
  <2>1. b <= b /\ b - 1 < b
    BY <1>1
  <2> QED BY <1>1, <2>1, BlockBefore, BlockAfter DEF b
<1> DEFINE n == b * PageSize
<1> HIDE DEF n
<1>4. j \in n - PageSize .. n - 1
  BY <1>1, <1>2, <1>3 DEF n
<1> QED BY <1>4 DEF n, b

-----------------------------------------------------------------------------
(* A request's cache ends where its stream does or one token before, so    *)
(* that the next token to feed is the one sampled last.                    *)
RequestOK(r) ==
  /\ r.prompt \in Prompts /\ r.budget \in Budgets /\ r.gen \in Seq(Tokens)
  /\ r.table \in Seq(Pages) /\ r.len \in Nat /\ r.len <= Len(r.table) * PageSize
  /\ r.status \in {"Prefilling", "Decoding", "Done"}
  /\ r.status = "Prefilling" =>
       /\ r.done = r.len /\ r.len <= Len(r.prompt)
       /\ r.gen = << >> /\ r.last = NoToken
  /\ r.status # "Prefilling" =>
       IF r.gen = << >> THEN r.len = Len(r.prompt) /\ r.last = NoToken
       ELSE r.len = Len(r.prompt) + Len(r.gen) - 1 /\ r.last = r.gen[Len(r.gen)]
  /\ r.released => r.status = "Done"

RequestsOK == \A i \in DOMAIN reqs : RequestOK(reqs[i])

(* The cached blocks of the walk are its first ones. *)
AdmitOK ==
  call.kind = "admit" =>
    /\ call.cached \in Nat /\ call.cached <= Len(call.table)
    /\ call.hitting => call.cached = Len(call.table)

(* Page p holds position j of the sequence s. *)
Holds(p, j, s) == kv[p][j % PageSize] = SubSeq(s, 1, j + 1)

(* Request i has still to write position j, and will write it to page p. *)
Pending(i, p, j) ==
  /\ reqs[i].status = "Prefilling" /\ reqs[i].len <= j
  /\ BlockOf(j) <= FullBlocks(reqs[i].prompt)
  /\ reqs[i].table[BlockOf(j)] = p

(* The call in progress has leased page p for the block of position j, and *)
(* the request it will enter is to write it.                               *)
Walked(p, j) ==
  /\ call.kind = "admit" /\ call.cached < BlockOf(j)
  /\ BlockOf(j) <= Len(call.table) /\ call.table[BlockOf(j)] = p

(* A registered page holds its block, or somebody is still to write it.    *)
Registered ==
  \A p \in Pages : LET k == pool.hashes[p] IN
    k # << >> =>
      \A j \in Len(k) - PageSize .. Len(k) - 1 :
        \/ Holds(p, j, k)
        \/ \E i \in DOMAIN reqs : Pending(i, p, j)
        \/ Walked(p, j)

(* What a request takes as cached is there, or pending for an earlier one. *)
Filled ==
  \A i \in DOMAIN reqs : reqs[i].status # "Done" =>
    \A j \in 0 .. reqs[i].len - 1 :
      \/ Holds(PageOf(reqs[i], j), j, Stream(reqs[i]))
      \/ \E h \in DOMAIN reqs : h < i /\ Pending(h, PageOf(reqs[i], j), j)

CacheInv == RequestsOK /\ AdmitOK /\ Registered /\ Filled

(* Two entries that refer to one page are one, or the same full block of   *)
(* two prompts that agree up to its end.                                   *)
SharedEntry(r, s, b, d) ==
  /\ b = d /\ b <= FullBlocks(r.prompt) /\ b <= FullBlocks(s.prompt)
  /\ Blocks(r.prompt, b) = Blocks(s.prompt, b)

Shared ==
  \A i, h \in DOMAIN reqs : ~reqs[i].released /\ ~reqs[h].released =>
    \A b \in DOMAIN reqs[i].table, d \in DOMAIN reqs[h].table :
      reqs[i].table[b] = reqs[h].table[d] =>
        (i = h /\ b = d) \/ SharedEntry(reqs[i], reqs[h], b, d)

(* A full block of a request lies in the page registered under it, and a   *)
(* page registered under a block is in no table for another one.           *)
BlocksKeyed ==
  \A i \in DOMAIN reqs : ~reqs[i].released =>
    /\ FullBlocks(reqs[i].prompt) <= Len(reqs[i].table)
    /\ \A b \in DOMAIN reqs[i].table :
         pool.hashes[reqs[i].table[b]] = KeyAt(reqs[i].prompt, b)

(* Both follow from the counts: a page in two entries has two references,  *)
(* so it is registered, under the block of either.                         *)
LEMMA SharedInv == IInv /\ LeaseInv => Shared /\ BlocksKeyed
<1> SUFFICES ASSUME IInv, LeaseInv PROVE Shared /\ BlocksKeyed
  OBVIOUS
<1>1. \A i \in DOMAIN reqs : reqs[i].prompt \in Prompts /\ reqs[i].table \in Seq(Pages)
      /\ FullBlocks(reqs[i].prompt) \in Nat
  <2> SUFFICES ASSUME NEW i \in DOMAIN reqs
               PROVE reqs[i].prompt \in Prompts /\ reqs[i].table \in Seq(Pages)
                     /\ FullBlocks(reqs[i].prompt) \in Nat
    OBVIOUS
  <2>1. reqs[i].prompt \in Prompts /\ reqs[i].table \in Seq(Pages)
    BY DEF IInv, TableSound
  <2>2. Len(reqs[i].prompt) \in Nat /\ PageSize \in Nat \ {0}
    BY <2>1, SchedulerAssumption
  <2> QED BY <2>1, <2>2, DivNat DEF FullBlocks
<1>2. BlocksKeyed
  <2> SUFFICES ASSUME NEW i \in DOMAIN reqs, ~reqs[i].released
               PROVE  /\ FullBlocks(reqs[i].prompt) <= Len(reqs[i].table)
                      /\ \A b \in DOMAIN reqs[i].table :
                           pool.hashes[reqs[i].table[b]] = KeyAt(reqs[i].prompt, b)
    BY DEF BlocksKeyed
  <2>1. Len(reqs[i].table) >= FullBlocks(reqs[i].prompt) /\ Len(reqs[i].table) \in Nat
    BY <1>1 DEF LeaseInv, Keyed
  <2> QED BY <1>1, <2>1 DEF LeaseInv, Keyed, KeyedTable, KeyedPage
<1>3. Shared
  <2> SUFFICES ASSUME NEW i \in DOMAIN reqs, NEW h \in DOMAIN reqs,
                      ~reqs[i].released, ~reqs[h].released,
                      NEW b \in DOMAIN reqs[i].table, NEW d \in DOMAIN reqs[h].table,
                      reqs[i].table[b] = reqs[h].table[d], ~(i = h /\ b = d)
               PROVE  SharedEntry(reqs[i], reqs[h], b, d)
    BY DEF Shared
  <2> DEFINE p == reqs[i].table[b]
             s == reqs[i].prompt
             t == reqs[h].prompt
             k == KeyAt(s, b)
  <2>1. /\ b \in Nat \ {0} /\ d \in Nat \ {0} /\ p \in Pages
        /\ s \in Prompts /\ t \in Prompts /\ FullBlocks(s) \in Nat /\ FullBlocks(t) \in Nat
    BY <1>1
  <2>2. KeyedPage(pool, p, KeyAt(s, b)) /\ KeyedPage(pool, p, KeyAt(t, d))
    BY DEF LeaseInv, Keyed, KeyedTable
  <2>3. pool.refs[p] > 1
    <3>1. /\ i \in DOMAIN Tables /\ h \in DOMAIN Tables
          /\ Tables[i] = reqs[i].table /\ Tables[h] = reqs[h].table
      BY TablesFamily, FamilyIs
    <3>2. AtMost(Tables, p, pool.refs[p]) /\ pool.refs[p] \in Nat
      BY <2>1, CountedAs DEF LeaseInv
    <3>3. <<i, b>> # <<h, d>>
      OBVIOUS
    <3> QED BY <3>1, <3>2, <3>3, TwoEntriesCounted
  <2>4. KeyAt(s, b) # << >> /\ KeyAt(s, b) = KeyAt(t, d)
    BY <2>2, <2>3 DEF KeyedPage
  <2>5. b <= FullBlocks(s) /\ d <= FullBlocks(t) /\ Blocks(s, b) = Blocks(t, d)
    BY <2>4 DEF KeyAt
  <2>6. b = d
    <3>1. b * PageSize = d * PageSize /\ 1 <= b /\ 1 <= d
      <4>1. 1 <= b /\ 1 <= d
        BY <2>1
      <4>2. Len(Blocks(s, b)) = b * PageSize /\ Len(Blocks(t, d)) = d * PageSize
        BY <2>1, <2>5, <4>1, FullBlock
      <4> QED BY <2>5, <4>1, <4>2
    <3>2. PageSize \in Nat \ {0} /\ b * PageSize \in Nat /\ d * PageSize \in Nat
      BY <2>1, TimesPage, SchedulerAssumption
    <3>3. ASSUME b < d PROVE FALSE
      <4>1. b * PageSize + PageSize <= d * PageSize
        BY <2>1, <3>3, TimesPage
      <4> QED BY <3>1, <3>2, <4>1
    <3>4. ASSUME d < b PROVE FALSE
      <4>1. d * PageSize + PageSize <= b * PageSize
        BY <2>1, <3>4, TimesPage
      <4> QED BY <3>1, <3>2, <4>1
    <3> QED BY <2>1, <3>3, <3>4
  <2> QED BY <2>5, <2>6 DEF SharedEntry
<1> QED BY <1>2, <1>3

-----------------------------------------------------------------------------
LEMMA StreamLength ==
  ASSUME NEW r, RequestOK(r)
  PROVE  /\ Stream(r) \in Seq(Tokens) /\ r.prompt \in Seq(Tokens)
         /\ Len(Stream(r)) = Len(r.prompt) + Len(r.gen)
         /\ Len(r.prompt) \in Nat /\ Len(r.gen) \in Nat
         /\ r.len \in Nat /\ r.len <= Len(Stream(r))
<1>1. r.prompt \in Seq(Tokens) /\ r.gen \in Seq(Tokens) /\ r.len \in Nat
  BY SchedulerAssumption DEF RequestOK
<1>2. /\ Stream(r) \in Seq(Tokens) /\ Len(Stream(r)) = Len(r.prompt) + Len(r.gen)
      /\ Len(r.prompt) \in Nat /\ Len(r.gen) \in Nat
  BY <1>1 DEF Stream
<1> DEFINE n == Len(Stream(r))
           a == Len(r.prompt)
           g == Len(r.gen)
           l == r.len
<1>3. n = a + g /\ a \in Nat /\ g \in Nat /\ l \in Nat
  BY <1>1, <1>2
<1>4. l <= a \/ l = a \/ (l = a + g - 1)
  BY DEF RequestOK
<1> HIDE DEF n, a, g, l
<1>5. l <= n
  BY <1>3, <1>4
<1> QED BY <1>1, <1>2, <1>5 DEF l, n

LEMMA PageOfBlock == ASSUME NEW r, NEW j PROVE PageOf(r, j) = r.table[BlockOf(j)]
  BY DEF PageOf, BlockOf

(* A position in the cache of a request lies in one of its pages. *)
LEMMA PositionHasPage ==
  ASSUME NEW r, RequestOK(r), NEW j \in Nat, j < r.len
  PROVE  BlockOf(j) \in DOMAIN r.table /\ PageOf(r, j) \in Pages /\ j % PageSize \in Offsets
<1>1. r.table \in Seq(Pages) /\ Len(r.table) \in Nat /\ r.len \in Nat
      /\ r.len <= Len(r.table) * PageSize
  BY DEF RequestOK
<1>2. Len(r.table) * PageSize \in Nat
  BY <1>1, TimesPage
<1>3. j < Len(r.table) * PageSize
  BY <1>1, <1>2
<1>4. BlockOf(j) \in Nat \ {0} /\ BlockOf(j) <= Len(r.table) /\ j % PageSize \in Offsets
  BY <1>1, <1>3, BlockBefore, BlockPosition
<1> QED BY <1>1, <1>4, PageOfBlock

(* A cache whose slots are the prefixes of s. *)
LEMMA CachedIs ==
  ASSUME NEW r, NEW s \in Seq(Tokens), r.len \in Nat, r.len <= Len(s),
         \A j \in 0 .. r.len - 1 : Slot(r, j) = SubSeq(s, 1, j + 1)
  PROVE  Cached(r) = SubSeq(s, 1, r.len)
<1> DEFINE c == SubSeq(s, 1, r.len)
           x == IF r.len = 0 THEN << >> ELSE Slot(r, r.len - 1)
<1>1. c \in Seq(Tokens) /\ Len(c) = r.len
  OBVIOUS
<1>2. ASSUME NEW j \in 0 .. r.len - 1 PROVE SubSeq(c, 1, j + 1) = SubSeq(s, 1, j + 1)
  BY SubSeqOfSubSeq
<1>3. x = c
  <2>1. CASE r.len = 0
    BY <1>1, <2>1, EmptySeq
  <2>2. CASE r.len # 0
    <3>1. r.len - 1 \in 0 .. r.len - 1 /\ (r.len - 1) + 1 = r.len
      BY <2>2
    <3>2. Slot(r, r.len - 1) = SubSeq(s, 1, (r.len - 1) + 1)
      BY <3>1
    <3> QED BY <2>2, <3>1, <3>2
  <2> QED BY <2>1, <2>2
<1>4. x # Junk /\ Len(x) = r.len
  BY <1>1, <1>3, SchedulerAssumption
<1>5. \A j \in 0 .. r.len - 1 : Slot(r, j) = SubSeq(x, 1, j + 1)
  BY <1>2, <1>3
<1> HIDE DEF x, c
<1> QED BY <1>3, <1>4, <1>5 DEF Cached, x, c

(* The cache of a request whose turn it is holds its own tokens. *)
LEMMA PickedSlots ==
  ASSUME IInv, CacheInv, NEW i \in DOMAIN reqs, Picked(i), NEW j \in 0 .. reqs[i].len - 1
  PROVE  Slot(reqs[i], j) = SubSeq(Stream(reqs[i]), 1, j + 1)
<1>1. DOMAIN reqs = 1 .. Len(reqs) /\ Len(reqs) \in Nat
  BY TablesFamily
<1>2. reqs[i].status # "Done" /\ \A h \in DOMAIN reqs : h < i => reqs[h].status = "Done"
  BY <1>1 DEF Picked
<1>3. Holds(PageOf(reqs[i], j), j, Stream(reqs[i]))
  BY <1>2 DEF CacheInv, Filled, Pending
<1> QED BY <1>3 DEF Holds, Slot

LEMMA PickedCache ==
  ASSUME IInv, CacheInv, NEW i \in DOMAIN reqs, Picked(i)
  PROVE  Cached(reqs[i]) = SubSeq(Stream(reqs[i]), 1, reqs[i].len)
<1>1. /\ Stream(reqs[i]) \in Seq(Tokens) /\ reqs[i].len \in Nat
      /\ reqs[i].len <= Len(Stream(reqs[i]))
  BY StreamLength DEF CacheInv, RequestsOK
<1> QED BY <1>1, PickedSlots, CachedIs

(* The part of a sequence behind its first l elements. *)
LEMMA Behind ==
  ASSUME NEW s \in Seq(Tokens), NEW l \in Nat, NEW n \in Nat, NEW m \in 1 .. n, l + n <= Len(s)
  PROVE  /\ SubSeq(SubSeq(s, l + 1, l + n), 1, m) = SubSeq(s, l + 1, l + m)
         /\ SubSeq(s, 1, l) \o SubSeq(s, l + 1, l + m) = SubSeq(s, 1, l + m)
<1> DEFINE a == l + 1
           b == l + n
           e == l + m
<1>1. Len(s) \in Nat
  OBVIOUS
<1>2. a \in 1 .. Len(s) /\ b \in 1 .. Len(s) /\ l \in (1 - 1) .. Len(s) /\ e \in l .. Len(s)
  BY <1>1
<1>3. m \in 1 .. (b - a + 1) /\ 1 \in 1 .. (b - a + 1) /\ 1 \in 1 .. (Len(s) + 1)
  BY <1>1
<1>4. a + 1 - 1 = a /\ a + m - 1 = e
  BY <1>1
<1>5. SubSeq(SubSeq(s, a, b), 1, m) = SubSeq(s, a, e)
  <2> HIDE DEF a, b, e
  <2>1. SubSeq(SubSeq(s, a, b), 1, m) = SubSeq(s, a + 1 - 1, a + m - 1)
    BY <1>2, <1>3, SubSeqOfSubSeq
  <2> QED BY <1>4, <2>1
<1>6. SubSeq(s, 1, l) \o SubSeq(s, l + 1, e) = SubSeq(s, 1, e)
  <2> HIDE DEF a, b, e
  <2> QED BY <1>2, <1>3, ConcatAdjacentSubSeq
<1> QED BY <1>5, <1>6

(* The n tokens fed are those of s behind the cache, which holds the ones  *)
(* before.                                                                 *)
Feeds(r, s, fed, n) ==
  /\ r.len + n <= Len(s) /\ fed = SubSeq(s, r.len + 1, r.len + n)
  /\ Cached(r) = SubSeq(s, 1, r.len)

LEMMA FedLength ==
  ASSUME NEW r, NEW s \in Seq(Tokens), NEW fed, r.len \in Nat, NEW n \in Nat, Feeds(r, s, fed, n)
  PROVE  Len(fed) = n /\ Cached(r) # Junk
<1> DEFINE l == r.len
<1>1. l \in Nat /\ l + n <= Len(s) /\ fed = SubSeq(s, l + 1, l + n) /\ Cached(r) = SubSeq(s, 1, l)
  BY DEF Feeds
<1> HIDE DEF l
<1>2. Len(SubSeq(s, l + 1, l + n)) = n
  BY <1>1
<1>3. SubSeq(s, 1, l) \in Seq(Tokens)
  BY <1>1
<1> QED BY <1>1, <1>2, <1>3, SchedulerAssumption

LEMMA ExtendedIs ==
  ASSUME NEW r, NEW s \in Seq(Tokens), NEW fed, r.len \in Nat, NEW n \in Nat, Feeds(r, s, fed, n),
         NEW m \in 1 .. n
  PROVE  Extended(r, fed, m) = SubSeq(s, 1, r.len + m)
<1> DEFINE l == r.len
<1>1. l \in Nat /\ l + n <= Len(s) /\ fed = SubSeq(s, l + 1, l + n) /\ Cached(r) = SubSeq(s, 1, l)
  BY DEF Feeds
<1>2. Cached(r) # Junk
  BY FedLength
<1>3. Extended(r, fed, m) = SubSeq(s, 1, l) \o SubSeq(SubSeq(s, l + 1, l + n), 1, m)
  BY <1>1, <1>2 DEF Extended
<1> HIDE DEF l
<1>4. /\ SubSeq(SubSeq(s, l + 1, l + n), 1, m) = SubSeq(s, l + 1, l + m)
      /\ SubSeq(s, 1, l) \o SubSeq(s, l + 1, l + m) = SubSeq(s, 1, l + m)
  BY <1>1, Behind
<1> QED BY <1>3, <1>4 DEF l

(* What append() leaves in the pool. *)
LEMMA Written ==
  ASSUME NEW r, NEW fed, NEW s \in Seq(Tokens), Write(r, fed),
         r.len \in Nat, NEW n \in Nat, Feeds(r, s, fed, n),
         NEW p \in Pages, NEW o \in Offsets
  PROVE  \/ /\ kv'[p][o] = kv[p][o]
            /\ \A j \in r.len .. r.len + n - 1 : ~(PageOf(r, j) = p /\ j % PageSize = o)
         \/ \E j \in r.len .. r.len + n - 1 :
              PageOf(r, j) = p /\ j % PageSize = o /\ kv'[p][o] = SubSeq(s, 1, j + 1)
<1> DEFINE new == {j \in r.len .. r.len + Len(fed) - 1 : PageOf(r, j) = p /\ j % PageSize = o}
           x == CHOOSE j \in new : TRUE
<1>1. kv'[p][o] = IF new = {} THEN kv[p][o] ELSE Extended(r, fed, x - r.len + 1)
  BY DEF Write
<1>2. new = {j \in r.len .. r.len + n - 1 : PageOf(r, j) = p /\ j % PageSize = o}
  BY FedLength
<1> HIDE DEF new
<1>3. CASE new = {}
  BY <1>1, <1>2, <1>3
<1>4. CASE new # {}
  <2>1. x \in new
    BY <1>4
  <2>2. kv'[p][o] = Extended(r, fed, x - r.len + 1)
    BY <1>1, <1>4
  <2> HIDE DEF x
  <2>3. x \in r.len .. r.len + n - 1 /\ PageOf(r, x) = p /\ x % PageSize = o
    BY <1>2, <2>1
  <2>4. x - r.len + 1 \in 1 .. n /\ r.len + (x - r.len + 1) = x + 1
    BY <2>3
  <2>5. Extended(r, fed, x - r.len + 1) = SubSeq(s, 1, r.len + (x - r.len + 1))
    BY <2>4, ExtendedIs
  <2> QED BY <2>2, <2>3, <2>4, <2>5
<1> QED BY <1>3, <1>4

-----------------------------------------------------------------------------
(* A position in a full block of the prompt. *)
LEMMA StreamBlock ==
  ASSUME NEW r, RequestOK(r), NEW j \in Nat, BlockOf(j) <= FullBlocks(r.prompt)
  PROVE  /\ j < Len(r.prompt) /\ Len(Blocks(r.prompt, BlockOf(j))) = BlockOf(j) * PageSize
         /\ SubSeq(Stream(r), 1, j + 1) = SubSeq(Blocks(r.prompt, BlockOf(j)), 1, j + 1)
<1> DEFINE b == BlockOf(j)
           s == r.prompt
<1>1. b \in Nat \ {0} /\ s \in Prompts /\ s \in Seq(Tokens) /\ r.gen \in Seq(Tokens)
  BY BlockPosition, StreamLength DEF RequestOK
<1>2. j < b * PageSize /\ b * PageSize \in Nat /\ Len(s) \in Nat
  <2>1. b <= b
    BY <1>1
  <2> QED BY <1>1, <2>1, BlockBefore, TimesPage
<1>3. 1 <= b /\ b \in Nat
  BY <1>1
<1> HIDE DEF b
<1>4. /\ b * PageSize \in 1 .. Len(s) /\ Len(Blocks(s, b)) = b * PageSize
      /\ \A x \in 0 .. b * PageSize - 1 : SubSeq(Blocks(s, b), 1, x + 1) = SubSeq(s, 1, x + 1)
  BY <1>1, <1>3, FullBlock DEF b
<1> DEFINE n == b * PageSize
<1> HIDE DEF n
<1>5. j \in 0 .. n - 1 /\ j + 1 \in 1 .. Len(s) /\ 1 \in 1 .. Len(s) /\ j < Len(s)
  BY <1>2, <1>4 DEF n
<1>6. SubSeq(Blocks(s, b), 1, j + 1) = SubSeq(s, 1, j + 1)
  BY <1>4, <1>5 DEF n
<1>7. SubSeq(s \o r.gen, 1, j + 1) = SubSeq(s, 1, j + 1)
  BY <1>1, <1>5, SubSeqOfConcat1
<1> QED BY <1>4, <1>5, <1>6, <1>7 DEF Stream, b

LEMMA PrefixOfAppend ==
  ASSUME NEW s \in Seq(Tokens), NEW t \in Seq(Tokens), NEW n \in 1 .. Len(s)
  PROVE  SubSeq(s \o t, 1, n) = SubSeq(s, 1, n)
<1>1. 1 \in 1 .. Len(s)
  OBVIOUS
<1> QED BY <1>1, SubSeqOfConcat1

(* A request that has received a token or none. *)
Longer(r, z) ==
  /\ z.prompt = r.prompt
  /\ z.gen = r.gen \/ \E t \in Tokens : z.gen = Append(r.gen, t)

LEMMA StreamLonger ==
  ASSUME NEW r, RequestOK(r), NEW z, Longer(r, z), NEW n \in 1 .. Len(Stream(r))
  PROVE  SubSeq(Stream(z), 1, n) = SubSeq(Stream(r), 1, n)
<1>1. r.prompt \in Seq(Tokens) /\ r.gen \in Seq(Tokens) /\ Stream(r) \in Seq(Tokens)
  BY StreamLength DEF RequestOK
<1>2. CASE z.gen = r.gen
  BY <1>2 DEF Stream, Longer
<1>3. ASSUME NEW t \in Tokens, z.gen = Append(r.gen, t) PROVE SubSeq(Stream(z), 1, n) = SubSeq(Stream(r), 1, n)
  <2>1. <<t>> \in Seq(Tokens) /\ Append(r.gen, t) = r.gen \o <<t>>
    BY <1>1
  <2>2. r.prompt \o (r.gen \o <<t>>) = (r.prompt \o r.gen) \o <<t>>
    <3> DEFINE a == r.prompt
               g == r.gen
               u == <<t>>
    <3>1. a \in Seq(Tokens) /\ g \in Seq(Tokens) /\ u \in Seq(Tokens)
      BY <1>1, <2>1
    <3> HIDE DEF a, g, u
    <3>2. (a \o g) \o u = a \o (g \o u)
      BY <3>1, ConcatAssociative
    <3> QED BY <3>2 DEF a, g, u
  <2>3. Stream(z) = Stream(r) \o <<t>>
    BY <1>3, <2>1, <2>2 DEF Stream, Longer
  <2> QED BY <1>1, <2>1, <2>3, PrefixOfAppend
<1> QED BY <1>2, <1>3 DEF Longer

-----------------------------------------------------------------------------
(* What a step does to the request i whose turn it is: it becomes z, and   *)
(* the positions z has more in its cache than before are written, nothing  *)
(* else.                                                                   *)
Advanced(i, z) ==
  /\ reqs' = [reqs EXCEPT ![i] = z]
  /\ RequestOK(z) /\ Longer(reqs[i], z) /\ z.released = reqs[i].released
  /\ reqs[i].len <= z.len /\ z.len <= Len(Stream(reqs[i]))
  /\ \A b \in DOMAIN reqs[i].table : b \in DOMAIN z.table /\ z.table[b] = reqs[i].table[b]
  /\ z.status = "Prefilling" => reqs[i].status = "Prefilling"
  /\ \A p \in Pages, o \in Offsets :
       \/ /\ kv'[p][o] = kv[p][o]
          /\ \A j \in reqs[i].len .. z.len - 1 : ~(PageOf(z, j) = p /\ j % PageSize = o)
       \/ \E j \in reqs[i].len .. z.len - 1 :
            /\ PageOf(z, j) = p /\ j % PageSize = o
            /\ kv'[p][o] = SubSeq(Stream(reqs[i]), 1, j + 1)

(* Position j of a request h, in page p: if it held the request's token    *)
(* before, or if the step wrote it, it holds it after.                     *)
LEMMA AdvancedSlot ==
  ASSUME CacheInv, Shared', NEW i \in DOMAIN reqs, reqs[i].status # "Done", NEW z, Advanced(i, z),
         NEW h \in DOMAIN reqs, RequestOK(reqs'[h]), ~reqs'[h].released,
         NEW j \in Nat, BlockOf(j) \in DOMAIN reqs'[h].table,
         NEW p \in Pages, p = reqs'[h].table[BlockOf(j)], 
         \/ Holds(p, j, Stream(reqs'[h]))
         \/ j \in reqs[i].len .. z.len - 1 /\ PageOf(z, j) = p
  PROVE  kv'[p][j % PageSize] = SubSeq(Stream(reqs'[h]), 1, j + 1)
<1> DEFINE r == reqs[i]
           o == j % PageSize
           g == reqs'[h]
<1>1. /\ RequestOK(r) /\ RequestOK(z) /\ Longer(r, z) /\ ~z.released /\ r.len \in Nat /\ z.len \in Nat
      /\ z.len <= Len(Stream(r)) /\ Len(Stream(r)) \in Nat /\ reqs'[i] = z /\ DOMAIN reqs' = DOMAIN reqs
  <2>1. RequestOK(r) /\ RequestOK(z) /\ Longer(r, z) /\ reqs'[i] = z /\ DOMAIN reqs' = DOMAIN reqs
        /\ z.len <= Len(Stream(r)) /\ z.released = r.released
    BY DEF CacheInv, RequestsOK, Advanced
  <2>2. ~z.released
    BY <2>1 DEF RequestOK
  <2>3. r.len \in Nat /\ z.len \in Nat
    BY <2>1 DEF RequestOK
  <2>4. Stream(r) \in Seq(Tokens)
    BY <2>1, StreamLength
  <2>5. Len(Stream(r)) \in Nat
    BY <2>4
  <2> QED BY <2>1, <2>2, <2>3, <2>5
<1>2. o \in Offsets
  BY BlockPosition
<1>3. SUFFICES kv'[p][o] = SubSeq(Stream(g), 1, j + 1)
  OBVIOUS
<1>4. CASE kv'[p][o] = kv[p][o] /\ \A x \in r.len .. z.len - 1 : ~(PageOf(z, x) = p /\ x % PageSize = o)
  BY <1>4, Zenon DEF Holds
<1>5. ASSUME NEW x \in r.len .. z.len - 1, PageOf(z, x) = p, x % PageSize = o,
             kv'[p][o] = SubSeq(Stream(r), 1, x + 1)
      PROVE  kv'[p][o] = SubSeq(Stream(g), 1, j + 1)
  <2>1. x \in Nat /\ x < z.len /\ x + 1 \in 1 .. Len(Stream(r))
    BY <1>1
  <2>2. BlockOf(x) \in DOMAIN z.table /\ z.table[BlockOf(x)] = g.table[BlockOf(j)]
    BY <1>1, <1>5, <2>1, PositionHasPage, PageOfBlock
  <2>3. (i = h /\ BlockOf(x) = BlockOf(j)) \/ SharedEntry(z, g, BlockOf(x), BlockOf(j))
    BY <1>1, <2>2 DEF Shared
  <2>4. BlockOf(x) = BlockOf(j)
    BY <2>3 DEF SharedEntry
  <2>5. x = j
    BY <1>5, <2>1, <2>4, PositionUnique
  <2>6. SubSeq(Stream(z), 1, j + 1) = SubSeq(Stream(r), 1, j + 1)
    BY <1>1, <2>1, <2>5, StreamLonger
  <2>7. CASE i = h
    BY <1>1, <1>5, <2>5, <2>6, <2>7
  <2>8. CASE SharedEntry(z, g, BlockOf(x), BlockOf(j))
    <3>1. /\ BlockOf(j) <= FullBlocks(z.prompt) /\ BlockOf(j) <= FullBlocks(g.prompt)
          /\ Blocks(z.prompt, BlockOf(j)) = Blocks(g.prompt, BlockOf(j))
      BY <2>4, <2>8 DEF SharedEntry
    <3>2. SubSeq(Stream(z), 1, j + 1) = SubSeq(Stream(g), 1, j + 1)
      BY <1>1, <3>1, StreamBlock
    <3> QED BY <1>5, <2>5, <2>6, <3>2
  <2> QED BY <2>3, <2>7, <2>8
<1> HIDE DEF o, g
<1>6. \/ kv'[p][o] = kv[p][o] /\ \A x \in r.len .. z.len - 1 : ~(PageOf(z, x) = p /\ x % PageSize = o)
      \/ \E x \in r.len .. z.len - 1 :
            /\ PageOf(z, x) = p /\ x % PageSize = o
            /\ kv'[p][o] = SubSeq(Stream(r), 1, x + 1)
  BY <1>2 DEF Advanced
<1> QED BY <1>4, <1>5, <1>6, Zenon

(* The same for position j of the block page p is registered under. *)
LEMMA AdvancedBlock ==
  ASSUME CacheInv, BlocksKeyed', NEW i \in DOMAIN reqs, reqs[i].status # "Done", NEW z, Advanced(i, z),
         NEW p \in Pages, NEW k, pool'.hashes[p] = k, k # << >>,
         NEW j \in Len(k) - PageSize .. Len(k) - 1, j \in Nat,
         \/ Holds(p, j, k)
         \/ j \in reqs[i].len .. z.len - 1 /\ PageOf(z, j) = p
  PROVE  Holds(p, j, k)'
<1> DEFINE r == reqs[i]
           o == j % PageSize
<1>1. /\ RequestOK(r) /\ RequestOK(z) /\ Longer(r, z) /\ ~z.released /\ r.len \in Nat /\ z.len \in Nat
      /\ z.len <= Len(Stream(r)) /\ Len(Stream(r)) \in Nat /\ reqs'[i] = z /\ DOMAIN reqs' = DOMAIN reqs
  <2>1. RequestOK(r) /\ RequestOK(z) /\ Longer(r, z) /\ reqs'[i] = z /\ DOMAIN reqs' = DOMAIN reqs
        /\ z.len <= Len(Stream(r)) /\ z.released = r.released
    BY DEF CacheInv, RequestsOK, Advanced
  <2>2. ~z.released
    BY <2>1 DEF RequestOK
  <2>3. r.len \in Nat /\ z.len \in Nat
    BY <2>1 DEF RequestOK
  <2>4. Stream(r) \in Seq(Tokens)
    BY <2>1, StreamLength
  <2>5. Len(Stream(r)) \in Nat
    BY <2>4
  <2> QED BY <2>1, <2>2, <2>3, <2>5
<1>2. o \in Offsets
  BY BlockPosition
<1>3. SUFFICES kv'[p][o] = SubSeq(k, 1, j + 1)
  BY DEF Holds
<1>4. CASE kv'[p][o] = kv[p][o] /\ \A x \in r.len .. z.len - 1 : ~(PageOf(z, x) = p /\ x % PageSize = o)
  BY <1>4 DEF Holds
<1>5. ASSUME NEW x \in r.len .. z.len - 1, PageOf(z, x) = p, x % PageSize = o,
             kv'[p][o] = SubSeq(Stream(r), 1, x + 1)
      PROVE  kv'[p][o] = SubSeq(k, 1, j + 1)
  <2> DEFINE b == BlockOf(x)
  <2>1. x \in Nat /\ x < z.len /\ x + 1 \in 1 .. Len(Stream(r))
    BY <1>1
  <2>2. b \in DOMAIN z.table /\ z.table[b] = p /\ b \in Nat \ {0}
    BY <1>1, <1>5, <2>1, PositionHasPage, PageOfBlock, BlockPosition
  <2>3. KeyAt(z.prompt, b) = k
    BY <1>1, <2>2 DEF BlocksKeyed
  <2>4. b <= FullBlocks(z.prompt) /\ k = Blocks(z.prompt, b)
    BY <2>3 DEF KeyAt
  <2>5. Len(k) = b * PageSize /\ SubSeq(Stream(z), 1, x + 1) = SubSeq(k, 1, x + 1)
    BY <1>1, <2>1, <2>4, StreamBlock
  <2>6. BlockOf(j) = b
    <3> HIDE DEF b
    <3> QED BY <2>2, <2>5, InBlock
  <2>7. x = j
    BY <1>5, <2>1, <2>6, PositionUnique
  <2>8. SubSeq(Stream(z), 1, x + 1) = SubSeq(Stream(r), 1, x + 1)
    BY <1>1, <2>1, StreamLonger
  <2> QED BY <1>5, <2>5, <2>7, <2>8
<1> HIDE DEF o
<1>6. \/ kv'[p][o] = kv[p][o] /\ \A x \in r.len .. z.len - 1 : ~(PageOf(z, x) = p /\ x % PageSize = o)
      \/ \E x \in r.len .. z.len - 1 :
            /\ PageOf(z, x) = p /\ x % PageSize = o
            /\ kv'[p][o] = SubSeq(Stream(r), 1, x + 1)
  BY <1>2 DEF Advanced
<1> QED BY <1>4, <1>5, <1>6

-----------------------------------------------------------------------------
(* The action property of CachedSlotsStable. *)
SlotsKept ==
  \A i \in DOMAIN reqs : reqs[i].status # "Done" =>
    \A j \in 0 .. reqs[i].len - 1 :
      Slot(reqs[i], j) = SubSeq(Stream(reqs[i]), 1, j + 1) =>
        Slot(reqs[i], j)' = Slot(reqs[i], j)

(* A position that waits for the request whose turn it is was written by   *)
(* the step or waits still.                                                *)
LEMMA AdvancedPending ==
  ASSUME IInv, CacheInv, BlocksKeyed, NEW i \in DOMAIN reqs, reqs[i].status # "Done",
         NEW z, Advanced(i, z), NEW h \in DOMAIN reqs, NEW p, NEW j \in Nat, Pending(h, p, j)
  PROVE  \/ Pending(h, p, j)'
         \/ h = i /\ j \in reqs[i].len .. z.len - 1 /\ PageOf(z, j) = p
<1> DEFINE r == reqs[i]
           b == BlockOf(j)
<1>1. /\ RequestOK(r) /\ RequestOK(z) /\ z.prompt = r.prompt /\ reqs'[i] = z
      /\ \A x \in DOMAIN reqs \ {i} : reqs'[x] = reqs[x]
      /\ \A x \in DOMAIN r.table : x \in DOMAIN z.table /\ z.table[x] = r.table[x]
      /\ z.status = "Prefilling" => r.status = "Prefilling"
      /\ r.len \in Nat /\ z.len \in Nat
  BY DEF CacheInv, RequestsOK, Advanced, Longer, RequestOK
<1>2. CASE h # i
  BY <1>1, <1>2 DEF Pending
<1>3. CASE h = i
  <2>1. r.status = "Prefilling" /\ r.len <= j /\ b <= FullBlocks(r.prompt) /\ r.table[b] = p
    BY <1>3 DEF Pending
  <2>2. b \in DOMAIN r.table
    <3>1. ~r.released
      BY <1>1, <2>1 DEF RequestOK
    <3>2. FullBlocks(r.prompt) <= Len(r.table) /\ r.table \in Seq(Pages)
      BY <1>1, <3>1 DEF BlocksKeyed, RequestOK
    <3>3. b \in Nat \ {0} /\ FullBlocks(r.prompt) \in Nat
      <4>1. Len(r.prompt) \in Nat /\ PageSize \in Nat \ {0}
        BY <1>1, StreamLength, SchedulerAssumption
      <4> QED BY <4>1, BlockPosition, DivNat DEF FullBlocks
    <3> HIDE DEF b
    <3>4. Len(r.table) \in Nat /\ DOMAIN r.table = 1 .. Len(r.table)
      BY <3>2
    <3> QED BY <2>1, <3>2, <3>3, <3>4 DEF b
  <2>3. z.table[b] = p
    BY <1>1, <2>1, <2>2
  <2>4. CASE z.status = "Prefilling" /\ z.len <= j
    BY <1>1, <1>3, <2>1, <2>3, <2>4 DEF Pending
  <2>5. CASE z.status # "Prefilling" \/ ~(z.len <= j)
    <3>1. j < z.len
      <4>1. CASE ~(z.len <= j)
        BY <1>1, <4>1
      <4>2. CASE z.status # "Prefilling"
        <5>1. j < Len(z.prompt)
          BY <1>1, <2>1, StreamBlock
        <5>2. Len(z.prompt) \in Nat /\ Len(z.gen) \in Nat
          BY <1>1, StreamLength
        <5>3. Len(z.prompt) <= z.len
          <6>1. z.gen # << >> => Len(z.gen) # 0
            BY <1>1, EmptySeq DEF RequestOK
          <6>2. z.len = Len(z.prompt) \/ (z.gen # << >> /\ z.len = Len(z.prompt) + Len(z.gen) - 1)
            BY <1>1, <4>2 DEF RequestOK
          <6> DEFINE a == Len(z.prompt)
                     g == Len(z.gen)
                     l == z.len
          <6>3. /\ a \in Nat /\ g \in Nat /\ l \in Nat
                /\ l = a \/ (g # 0 /\ l = a + g - 1)
            BY <1>1, <5>2, <6>1, <6>2
          <6> HIDE DEF a, g, l
          <6>4. a <= l
            BY <6>3
          <6> QED BY <6>4 DEF a, l
        <5> QED BY <1>1, <5>1, <5>2, <5>3
      <4> QED BY <2>5, <4>1, <4>2
    <3> QED BY <1>1, <1>3, <2>1, <2>3, <3>1, PageOfBlock
  <2> QED BY <2>4, <2>5
<1> QED BY <1>2, <1>3

(* The tokens and positions of a registered block. *)
LEMMA RegisteredBlock ==
  ASSUME IInv, NEW p \in Pages, NEW k, k = pool.hashes[p], k # << >>,
         NEW j \in Len(k) - PageSize .. Len(k) - 1
  PROVE  j \in Nat
<1>1. k \in BlockHashes
  BY DEF IInv, Sound, PoolType
<1>2. PICK s \in Prompts : \E b \in 1 .. FullBlocks(s) : k = Blocks(s, b)
  BY <1>1 DEF BlockHashes
<1>3. PICK b \in 1 .. FullBlocks(s) : k = Blocks(s, b)
  BY <1>2
<1>4. b \in Nat \ {0} /\ 1 <= b /\ b <= FullBlocks(s)
  <2>1. Len(s) \in Nat /\ PageSize \in Nat \ {0}
    BY SchedulerAssumption
  <2>2. FullBlocks(s) \in Nat
    BY <2>1, DivNat DEF FullBlocks
  <2> QED BY <2>2
<1>5. Len(k) = b * PageSize
  BY <1>3, <1>4, FullBlock
<1> QED BY <1>4, <1>5, InBlock

(* The step of the request whose turn it is keeps the invariant.           *)
LEMMA AdvancedInv ==
  ASSUME IInv, CacheInv, BlocksKeyed, BlocksKeyed', Shared', NEW i \in DOMAIN reqs, Picked(i),
         NEW z, Advanced(i, z), pool'.hashes = pool.hashes, call = NoCall, call' = call
  PROVE  CacheInv' /\ SlotsKept
<1> DEFINE r == reqs[i]
<1>1. /\ r.status # "Done" /\ RequestOK(r) /\ RequestOK(z) /\ Longer(r, z) /\ reqs'[i] = z
      /\ DOMAIN reqs' = DOMAIN reqs /\ \A x \in DOMAIN reqs \ {i} : reqs'[x] = reqs[x]
      /\ \A x \in DOMAIN r.table : x \in DOMAIN z.table /\ z.table[x] = r.table[x]
      /\ r.len \in Nat /\ z.len \in Nat
      /\ z.status = "Prefilling" => r.status = "Prefilling"
  BY DEF CacheInv, RequestsOK, Advanced, RequestOK, Picked
<1>2. ASSUME NEW h \in DOMAIN reqs
      PROVE  /\ RequestOK(reqs[h]) /\ RequestOK(reqs'[h])
             /\ reqs[h].len \in Nat /\ reqs'[h].len \in Nat
  <2>1. RequestOK(reqs[h]) /\ RequestOK(reqs'[h])
    BY <1>1 DEF CacheInv, RequestsOK
  <2> QED BY <2>1 DEF RequestOK
<1>3. RequestsOK' /\ AdmitOK'
  <2>1. RequestsOK'
    BY <1>1, <1>2 DEF RequestsOK
  <2> QED BY <2>1 DEF AdmitOK, NoCall
<1>4. Registered'
  <2> SUFFICES ASSUME NEW p \in Pages, NEW k, k = pool.hashes[p], k # << >>,
                      NEW j \in Len(k) - PageSize .. Len(k) - 1
               PROVE  Holds(p, j, k)' \/ \E h \in DOMAIN reqs' : Pending(h, p, j)'
    BY DEF Registered
  <2>1. j \in Nat
    BY RegisteredBlock
  <2>2. \/ Holds(p, j, k)
        \/ \E h \in DOMAIN reqs : Pending(h, p, j)
    BY DEF CacheInv, Registered, Walked, NoCall
  <2>3. CASE Holds(p, j, k)
    BY <1>1, <2>1, <2>3, AdvancedBlock
  <2>4. ASSUME NEW h \in DOMAIN reqs, Pending(h, p, j)
        PROVE  Holds(p, j, k)' \/ \E x \in DOMAIN reqs' : Pending(x, p, j)'
    <3>1. Pending(h, p, j)' \/ (j \in r.len .. z.len - 1 /\ PageOf(z, j) = p)
      BY <1>1, <2>1, <2>4, AdvancedPending
    <3>2. CASE Pending(h, p, j)'
      BY <1>1, <3>2
    <3>3. CASE j \in r.len .. z.len - 1 /\ PageOf(z, j) = p
      BY <1>1, <2>1, <3>3, AdvancedBlock
    <3> QED BY <3>1, <3>2, <3>3
  <2> QED BY <2>2, <2>3, <2>4
<1>5. ASSUME NEW h \in DOMAIN reqs, reqs[h].status # "Done", NEW j \in Nat, j < reqs[h].len
      PROVE  /\ BlockOf(j) \in DOMAIN reqs[h].table /\ BlockOf(j) \in DOMAIN reqs'[h].table
             /\ PageOf(reqs'[h], j) = PageOf(reqs[h], j) /\ PageOf(reqs[h], j) \in Pages
             /\ PageOf(reqs'[h], j) = reqs'[h].table[BlockOf(j)]
             /\ SubSeq(Stream(reqs'[h]), 1, j + 1) = SubSeq(Stream(reqs[h]), 1, j + 1)
             /\ ~reqs'[h].released
  <2>1. RequestOK(reqs[h]) /\ BlockOf(j) \in DOMAIN reqs[h].table /\ PageOf(reqs[h], j) \in Pages
    BY <1>2, <1>5, PositionHasPage
  <2>2. BlockOf(j) \in DOMAIN reqs'[h].table /\ reqs'[h].table[BlockOf(j)] = reqs[h].table[BlockOf(j)]
    BY <1>1, <2>1
  <2>3. SubSeq(Stream(reqs'[h]), 1, j + 1) = SubSeq(Stream(reqs[h]), 1, j + 1)
    <3>1. CASE h # i
      BY <1>1, <3>1
    <3>2. CASE h = i
      <4>1. r.len <= Len(Stream(r)) /\ Stream(r) \in Seq(Tokens)
        BY <1>1, StreamLength
      <4>2. j + 1 \in 1 .. Len(Stream(r))
        BY <1>1, <1>5, <3>2, <4>1
      <4> QED BY <1>1, <3>2, <4>2, StreamLonger
    <3> QED BY <3>1, <3>2
  <2>4. ~reqs'[h].released
    <3>1. ~reqs[h].released
      BY <1>5, <2>1 DEF RequestOK
    <3>2. reqs'[h].released = reqs[h].released
      BY <1>1 DEF Advanced
    <3> QED BY <3>1, <3>2
  <2> QED BY <2>1, <2>2, <2>3, <2>4, PageOfBlock
<1>6. ASSUME NEW h \in DOMAIN reqs, reqs[h].status # "Done", NEW j \in Nat, j < reqs[h].len,
             Holds(PageOf(reqs[h], j), j, Stream(reqs[h]))
      PROVE  kv'[PageOf(reqs'[h], j)][j % PageSize] = SubSeq(Stream(reqs'[h]), 1, j + 1)
  <2> DEFINE p == PageOf(reqs[h], j)
  <2>1. /\ BlockOf(j) \in DOMAIN reqs'[h].table /\ PageOf(reqs'[h], j) = p /\ p \in Pages
        /\ p = reqs'[h].table[BlockOf(j)] /\ ~reqs'[h].released
        /\ SubSeq(Stream(reqs'[h]), 1, j + 1) = SubSeq(Stream(reqs[h]), 1, j + 1)
    BY <1>5, <1>6
  <2>2. Holds(p, j, Stream(reqs'[h])) /\ RequestOK(reqs'[h])
    BY <1>2, <1>6, <2>1 DEF Holds
  <2> HIDE DEF p
  <2> QED BY <1>1, <2>1, <2>2, AdvancedSlot
<1>7. SlotsKept
  <2> SUFFICES ASSUME NEW h \in DOMAIN reqs, reqs[h].status # "Done", NEW j \in 0 .. reqs[h].len - 1,
                      Slot(reqs[h], j) = SubSeq(Stream(reqs[h]), 1, j + 1)
               PROVE  Slot(reqs[h], j)' = Slot(reqs[h], j)
    BY DEF SlotsKept
  <2>1. j \in Nat /\ j < reqs[h].len
    BY <1>2
  <2>2. kv'[PageOf(reqs'[h], j)][j % PageSize] = SubSeq(Stream(reqs'[h]), 1, j + 1)
    BY <1>6, <2>1 DEF Holds, Slot
  <2>3. SubSeq(Stream(reqs'[h]), 1, j + 1) = SubSeq(Stream(reqs[h]), 1, j + 1)
    BY <1>5, <2>1
  <2>4. Slot(reqs[h], j)' = kv'[PageOf(reqs'[h], j)][j % PageSize]
    BY DEF Slot
  <2> QED BY <2>2, <2>3, <2>4
<1>8. Filled'
  <2> SUFFICES ASSUME NEW h \in DOMAIN reqs, reqs'[h].status # "Done",
                      NEW j \in 0 .. reqs'[h].len - 1, NEW p, p = PageOf(reqs'[h], j)
               PROVE  \/ kv'[p][j % PageSize] = SubSeq(Stream(reqs'[h]), 1, j + 1)
                      \/ \E x \in DOMAIN reqs' : x < h /\ Pending(x, p, j)'
    BY <1>1 DEF Filled, Holds
  <2>1. j \in Nat /\ j < reqs'[h].len
    BY <1>2
  <2>2. CASE j < reqs[h].len
    <3>1. reqs[h].status # "Done" /\ j \in 0 .. reqs[h].len - 1
      <4>1. h # i => reqs'[h] = reqs[h]
        BY <1>1
      <4> QED BY <1>1, <1>2, <2>1, <2>2, <4>1
    <3>5. p = PageOf(reqs[h], j)
      BY <1>5, <2>1, <2>2, <3>1
    <3>2. CASE Holds(p, j, Stream(reqs[h]))
      BY <1>6, <2>1, <2>2, <3>1, <3>2, <3>5
    <3>3. ASSUME NEW x \in DOMAIN reqs, x < h, Pending(x, p, j)
          PROVE  \/ kv'[p][j % PageSize] = SubSeq(Stream(reqs'[h]), 1, j + 1)
                 \/ \E y \in DOMAIN reqs' : y < h /\ Pending(y, p, j)'
      <4>1. /\ BlockOf(j) \in DOMAIN reqs'[h].table /\ p \in Pages
            /\ p = reqs'[h].table[BlockOf(j)] /\ ~reqs'[h].released
        BY <1>5, <2>1, <2>2, <3>1
      <4>2. Pending(x, p, j)' \/ (j \in r.len .. z.len - 1 /\ PageOf(z, j) = p)
        BY <1>1, <2>1, <3>3, AdvancedPending
      <4>3. CASE Pending(x, p, j)'
        BY <1>1, <3>3, <4>3
      <4>4. CASE j \in r.len .. z.len - 1 /\ PageOf(z, j) = p
        BY <1>1, <1>2, <2>1, <4>1, <4>4, AdvancedSlot
      <4> QED BY <4>2, <4>3, <4>4
    <3>4. \/ Holds(p, j, Stream(reqs[h]))
          \/ \E x \in DOMAIN reqs : x < h /\ Pending(x, p, j)
      BY <3>1, <3>5 DEF CacheInv, Filled
    <3> QED BY <3>2, <3>3, <3>4
  <2>3. CASE ~(j < reqs[h].len)
    <3>1. h = i
      BY <1>1, <2>1, <2>3
    <3>2. j \in r.len .. z.len - 1
      BY <1>1, <2>1, <2>3, <3>1
    <3>3. /\ BlockOf(j) \in DOMAIN z.table /\ PageOf(z, j) = z.table[BlockOf(j)] /\ PageOf(z, j) \in Pages
      BY <1>1, <2>1, <3>1, PositionHasPage, PageOfBlock
    <3>4. ~z.released
      BY <1>1, <2>1 DEF Advanced, RequestOK
    <3> QED BY <1>1, <2>1, <3>1, <3>2, <3>3, <3>4, AdvancedSlot
  <2> QED BY <2>2, <2>3
<1> QED BY <1>3, <1>4, <1>7, <1>8 DEF CacheInv

-----------------------------------------------------------------------------
(* The sampler draws an index of the vocabulary. *)
SamplerTyped == \A s \in Seq(Tokens) : Sampled(s) \subseteq Tokens

LEMMA DrawnIs ==
  ASSUME SamplerTyped, NEW r, NEW s \in Seq(Tokens), NEW fed, r.len \in Nat, NEW n \in Nat \ {0},
         Feeds(r, s, fed, n), NEW t \in Drawn(r, fed)
  PROVE  t \in Tokens /\ t \in Sampled(SubSeq(s, 1, r.len + n))
<1> DEFINE l == r.len
<1>1. l \in Nat /\ l + n <= Len(s) /\ fed = SubSeq(s, l + 1, l + n) /\ Cached(r) = SubSeq(s, 1, l)
  BY DEF Feeds
<1>2. Cached(r) # Junk
  BY FedLength
<1>3. Drawn(r, fed) = Sampled(SubSeq(s, 1, l) \o SubSeq(s, l + 1, l + n))
  BY <1>1, <1>2 DEF Drawn
<1> HIDE DEF l
<1>4. n \in 1 .. n
  OBVIOUS
<1>5. SubSeq(s, 1, l) \o SubSeq(s, l + 1, l + n) = SubSeq(s, 1, l + n)
  BY <1>1, <1>4, Behind
<1>6. SubSeq(s, 1, l + n) \in Seq(Tokens)
  BY <1>1
<1> QED BY <1>3, <1>5, <1>6 DEF SamplerTyped, l

-----------------------------------------------------------------------------
LEMMA PrefillSkipAdvances ==
  ASSUME IInv, CacheInv, NEW i \in DOMAIN reqs, Picked(i), PrefillSkip(i)
  PROVE  \E z : Advanced(i, z) /\ z.gen = reqs[i].gen /\ z.status # "Done" /\ z.budget = reqs[i].budget
<1> DEFINE r == reqs[i]
           z == [r EXCEPT !.status = "Decoding"]
<1>1. /\ RequestOK(r) /\ r.status = "Prefilling" /\ r.done >= Len(r.prompt)
      /\ reqs' = [reqs EXCEPT ![i] = z] /\ kv' = kv
  BY DEF CacheInv, RequestsOK, PrefillSkip
<1>2. r.len \in Nat /\ r.len <= Len(Stream(r)) /\ Len(r.prompt) \in Nat /\ r.table \in Seq(Pages)
  BY <1>1, StreamLength DEF RequestOK
<1>3. r.len = Len(r.prompt)
  BY <1>1, <1>2 DEF RequestOK
<1>5. Longer(r, z) /\ z.len = r.len /\ z.table = r.table /\ z.released = r.released
      /\ z.status = "Decoding" /\ z.gen = r.gen /\ z.budget = r.budget /\ z.prompt = r.prompt
      /\ z.last = r.last
  BY DEF Longer
<1> HIDE DEF z
<1>4. RequestOK(z)
  <2>1. r.gen = << >> /\ r.last = NoToken /\ ~r.released
    BY <1>1 DEF RequestOK
  <2> QED BY <1>1, <1>3, <1>5, <2>1 DEF RequestOK
<1>6. ASSUME NEW j \in r.len .. z.len - 1 PROVE FALSE
  BY <1>2, <1>5
<1>7. Advanced(i, z)
  BY <1>1, <1>2, <1>4, <1>5, <1>6 DEF Advanced
<1> QED BY <1>5, <1>7

(* A request whose step was a forward pass over n tokens. *)
LEMMA ForwardAdvances ==
  ASSUME IInv, CacheInv, NEW i \in DOMAIN reqs,
         NEW r, r.len = reqs[i].len,
         \A b \in DOMAIN reqs[i].table : b \in DOMAIN r.table /\ r.table[b] = reqs[i].table[b],
         NEW fed, NEW n \in Nat, Feeds(r, Stream(reqs[i]), fed, n), Write(r, fed),
         NEW z, z.table = r.table, z.len = reqs[i].len + n, RequestOK(z),
         Longer(reqs[i], z), z.released = reqs[i].released,
         z.status = "Prefilling" => reqs[i].status = "Prefilling",
         reqs' = [reqs EXCEPT ![i] = z]
  PROVE  Advanced(i, z)
<1> DEFINE q == reqs[i]
           s == Stream(q)
<1>1. RequestOK(q) /\ s \in Seq(Tokens) /\ q.len \in Nat
  <2>1. RequestOK(q)
    BY DEF CacheInv, RequestsOK
  <2>2. s \in Seq(Tokens) /\ q.len \in Nat
    BY <2>1, StreamLength
  <2> QED BY <2>1, <2>2
<1>2. \A j : PageOf(z, j) = PageOf(r, j)
  BY DEF PageOf
<1>3. q.len .. z.len - 1 = r.len .. r.len + n - 1 /\ q.len <= z.len
  BY <1>1
<1>4. z.len <= Len(s)
  BY DEF Feeds
<1> HIDE DEF s
<1>5. ASSUME NEW p \in Pages, NEW o \in Offsets
      PROVE  \/ /\ kv'[p][o] = kv[p][o]
                /\ \A j \in q.len .. z.len - 1 : ~(PageOf(z, j) = p /\ j % PageSize = o)
             \/ \E j \in q.len .. z.len - 1 :
                  /\ PageOf(z, j) = p /\ j % PageSize = o
                  /\ kv'[p][o] = SubSeq(s, 1, j + 1)
  <2>1. \/ /\ kv'[p][o] = kv[p][o]
           /\ \A j \in r.len .. r.len + n - 1 : ~(PageOf(r, j) = p /\ j % PageSize = o)
        \/ \E j \in r.len .. r.len + n - 1 :
              PageOf(r, j) = p /\ j % PageSize = o /\ kv'[p][o] = SubSeq(s, 1, j + 1)
    BY <1>1, Written DEF s
  <2> QED BY <1>2, <1>3, <2>1
<1> QED BY <1>1, <1>3, <1>4, <1>5 DEF Advanced, s

-----------------------------------------------------------------------------
(* A request becomes z with no token or with one drawn from the model.     *)
Emits(r, z) ==
  /\ z.budget = r.budget
  /\ \/ z.gen = r.gen /\ z.status # "Done"
     \/ \E t \in Sampled(Stream(r)) :
          /\ t \in Tokens /\ z.gen = Append(r.gen, t)
          /\ z.status = "Done" <=> t = Eos \/ Len(z.gen) >= z.budget

(* What WithToken does to a request whose cache holds all it has. *)
LEMMA WithTokenOK ==
  ASSUME NEW r, RequestOK(r), r.status # "Done", NEW f, NEW t \in Tokens, t \in Sampled(Stream(r)),
         f.prompt = r.prompt, f.budget = r.budget, f.gen = r.gen, f.table \in Seq(Pages),
         f.released = r.released, f.len = Len(Stream(r)), f.len <= Len(f.table) * PageSize
  PROVE  LET z == WithToken(f, t)
         IN  /\ RequestOK(z) /\ Longer(r, z) /\ Emits(r, z)
             /\ z.table = f.table /\ z.len = f.len /\ z.released = r.released
             /\ z.status # "Prefilling"
<1> DEFINE z == WithToken(f, t)
<1>1. /\ r.prompt \in Prompts /\ r.budget \in Budgets /\ r.gen \in Seq(Tokens) /\ ~r.released
      /\ Len(Stream(r)) = Len(r.prompt) + Len(r.gen) /\ Len(r.prompt) \in Nat /\ Len(r.gen) \in Nat
  BY StreamLength DEF RequestOK
<1>2. /\ z.prompt = r.prompt /\ z.budget = r.budget /\ z.gen = Append(r.gen, t)
      /\ z.table = f.table /\ z.len = f.len /\ z.released = r.released /\ z.last = t
      /\ z.status = IF t = Eos \/ Len(r.gen) + 1 >= r.budget THEN "Done" ELSE "Decoding"
  BY DEF WithToken
<1> HIDE DEF z
<1>3. /\ Append(r.gen, t) \in Seq(Tokens) /\ Append(r.gen, t) # << >>
      /\ Len(Append(r.gen, t)) = Len(r.gen) + 1 /\ Append(r.gen, t)[Len(r.gen) + 1] = t
  <2>1. /\ Append(r.gen, t) \in Seq(Tokens) /\ Len(Append(r.gen, t)) = Len(r.gen) + 1
        /\ Append(r.gen, t)[Len(r.gen) + 1] = t
    BY <1>1
  <2>2. Append(r.gen, t) # << >>
    <3>1. Len(r.gen) + 1 # 0
      BY <1>1
    <3>2. \A q \in Seq(Tokens) : q = << >> <=> Len(q) = 0
      BY EmptySeq
    <3> QED BY <2>1, <3>1, <3>2, Zenon
  <2> QED BY <2>1, <2>2
<1>4. z.len = Len(z.prompt) + Len(z.gen) - 1 /\ z.len \in Nat
  <2>1. z.len = Len(r.prompt) + Len(r.gen) /\ z.prompt = r.prompt /\ Len(z.gen) = Len(r.gen) + 1
    BY <1>1, <1>2, <1>3
  <2> DEFINE a == Len(r.prompt)
             g == Len(r.gen)
  <2>2. a \in Nat /\ g \in Nat
    BY <1>1
  <2>3. z.len = a + g /\ Len(z.prompt) = a /\ Len(z.gen) = g + 1
    BY <2>1
  <2> HIDE DEF a, g
  <2> QED BY <2>2, <2>3
<1>5. z.status \in {"Decoding", "Done"} /\ (z.status = "Done" <=> t = Eos \/ Len(r.gen) + 1 >= r.budget)
  BY <1>2
<1>6. RequestOK(z)
  BY <1>1, <1>2, <1>3, <1>4, <1>5 DEF RequestOK
<1>7. Longer(r, z) /\ Emits(r, z)
  BY <1>2, <1>3, <1>5 DEF Longer, Emits
<1> QED BY <1>2, <1>5, <1>6, <1>7 DEF z

LEMMA PrefillChunkAdvances ==
  ASSUME SamplerTyped, IInv, CacheInv, NEW i \in DOMAIN reqs, Picked(i), PrefillChunk(i)
  PROVE  \E z : Advanced(i, z) /\ Emits(reqs[i], z)
<1> DEFINE r == reqs[i]
           rest == Len(r.prompt) - r.done
           n == IF ChunkSize < rest THEN ChunkSize ELSE rest
           fed == SubSeq(r.prompt, r.done + 1, r.done + n)
           f == [r EXCEPT !.len = @ + n, !.done = @ + n]
           s == Stream(r)
<1>1. /\ r.status = "Prefilling" /\ rest > 0 /\ Fits(r, n) /\ Write(r, fed)
      /\ IF n = rest THEN \E t \in Drawn(r, fed) : reqs' = [reqs EXCEPT ![i] = WithToken(f, t)]
         ELSE reqs' = [reqs EXCEPT ![i] = f]
  BY DEF PrefillChunk
<1>2. /\ RequestOK(r) /\ r.done = r.len /\ r.gen = << >> /\ r.last = NoToken /\ r.len \in Nat
      /\ r.len <= Len(r.prompt) /\ r.table \in Seq(Pages) /\ r.prompt \in Prompts /\ r.budget \in Budgets
  <2>1. RequestOK(r)
    BY DEF CacheInv, RequestsOK
  <2> QED BY <1>1, <2>1 DEF RequestOK
<1>3. r.prompt \in Seq(Tokens) /\ Len(r.prompt) \in Nat /\ s = r.prompt /\ s \in Seq(Tokens)
  <2>1. r.prompt \in Seq(Tokens)
    BY <1>2, SchedulerAssumption
  <2>2. r.prompt \o << >> = r.prompt
    BY <2>1, ConcatEmptySeq
  <2> QED BY <1>2, <2>1, <2>2 DEF Stream
<1>4. n \in Nat \ {0} /\ r.len + n <= Len(r.prompt) /\ (n = rest => r.len + n = Len(r.prompt))
  BY <1>1, <1>2, <1>3, SchedulerAssumption
<1>5. f.len = r.len + n /\ f.done = r.done + n
  OBVIOUS
<1>6. /\ f.prompt = r.prompt /\ f.budget = r.budget /\ f.gen = r.gen /\ f.table = r.table
      /\ f.released = r.released /\ f.status = r.status /\ f.last = r.last
  OBVIOUS
<1>7. Feeds(r, s, fed, n)
  BY <1>2, <1>3, <1>4, PickedCache DEF Feeds
<1>8. f.len <= Len(f.table) * PageSize
  BY <1>1, <1>5, <1>6 DEF Fits
<1> HIDE DEF f, fed, n, s, rest
<1>9. f.len \in Nat /\ f.len <= Len(f.prompt) /\ f.done = f.len
  BY <1>2, <1>3, <1>4, <1>5, <1>6
<1>10. CASE reqs' = [reqs EXCEPT ![i] = f]
  <2>1. RequestOK(f)
    BY <1>1, <1>2, <1>6, <1>8, <1>9 DEF RequestOK
  <2>2. Longer(r, f) /\ Emits(r, f)
    BY <1>1, <1>6 DEF Longer, Emits
  <2>3. Advanced(i, f)
    BY <1>1, <1>4, <1>5, <1>6, <1>7, <1>10, <2>1, <2>2, ForwardAdvances DEF s
  <2> QED BY <2>2, <2>3
<1>11. ASSUME n = rest, NEW t \in Drawn(r, fed), reqs' = [reqs EXCEPT ![i] = WithToken(f, t)]
       PROVE  \E z : Advanced(i, z) /\ Emits(reqs[i], z)
  <2> DEFINE z == WithToken(f, t)
  <2>1. t \in Tokens /\ t \in Sampled(SubSeq(s, 1, r.len + n))
    BY <1>2, <1>3, <1>4, <1>7, DrawnIs
  <2>2. r.len + n = Len(s) /\ SubSeq(s, 1, Len(s)) = s
    BY <1>3, <1>4, <1>11, SubSeqFull
  <2>3. t \in Sampled(s)
    BY <2>1, <2>2
  <2>4. /\ RequestOK(z) /\ Longer(r, z) /\ Emits(r, z)
        /\ z.table = f.table /\ z.len = f.len /\ z.released = r.released
        /\ z.status # "Prefilling"
    BY <1>1, <1>2, <1>5, <1>6, <1>8, <2>1, <2>2, <2>3, WithTokenOK DEF s
  <2> HIDE DEF z
  <2>5. Advanced(i, z)
    <3>1. /\ Feeds(r, Stream(reqs[i]), fed, n) /\ Write(r, fed) /\ n \in Nat
          /\ z.table = r.table /\ z.len = reqs[i].len + n /\ r.len = reqs[i].len
      BY <1>1, <1>4, <1>5, <1>6, <1>7, <2>4 DEF s
    <3>2. /\ RequestOK(z) /\ Longer(reqs[i], z) /\ z.released = reqs[i].released
          /\ z.status # "Prefilling" /\ reqs' = [reqs EXCEPT ![i] = z]
      BY <1>11, <2>4 DEF z
    <3> QED BY <3>1, <3>2, ForwardAdvances
  <2> QED BY <2>4, <2>5
<1> QED BY <1>1, <1>10, <1>11

LEMMA SingletonSub ==
  ASSUME NEW s \in Seq(Tokens), NEW m \in 1 .. Len(s)
  PROVE  SubSeq(s, m, m) = <<s[m]>>
<1>1. m \in Nat /\ m \in m .. Len(s) /\ m + 1 \in Int /\ m < m + 1 /\ m \in Int
  OBVIOUS
<1>2. SubSeq(s, m, m) = <<s[m]>> \o SubSeq(s, m + 1, m)
  BY <1>1, SubSeqRecursiveFirst
<1>3. SubSeq(s, m + 1, m) = << >>
  BY <1>1, SubSeqEmpty
<1>4. <<s[m]>> \o << >> = <<s[m]>>
  <2>1. s[m] \in Tokens
    OBVIOUS
  <2>2. <<s[m]>> \in Seq(Tokens)
    BY <2>1
  <2> QED BY <2>2, ConcatEmptySeq
<1> QED BY <1>2, <1>3, <1>4

LEMMA DecodeStepAdvances ==
  ASSUME SamplerTyped, IInv, CacheInv, NEW i \in DOMAIN reqs, Picked(i), DecodeStep(i)
  PROVE  \E z : Advanced(i, z) /\ Emits(reqs[i], z)
<1> DEFINE q == reqs[i]
           u == TopFree(pool)
           r == IF NeedsPage(q) THEN [q EXCEPT !.table = Append(@, u)] ELSE q
           f == [r EXCEPT !.len = @ + 1]
           s == Stream(q)
<1>1. /\ q.status = "Decoding" /\ (NeedsPage(q) => HasFree(pool))
      /\ IF r.last = NoToken THEN reqs' = [reqs EXCEPT ![i] = r] /\ kv' = kv
         ELSE /\ Fits(r, 1) /\ Write(r, <<r.last>>)
              /\ \E t \in Drawn(r, <<r.last>>) : reqs' = [reqs EXCEPT ![i] = WithToken(f, t)]
  BY DEF DecodeStep
<1>2. /\ RequestOK(q) /\ q.table \in Seq(Pages) /\ Len(q.table) \in Nat /\ q.len \in Nat
      /\ q.gen \in Seq(Tokens) /\ q.len <= Len(q.table) * PageSize
  <2>1. RequestOK(q)
    BY DEF CacheInv, RequestsOK
  <2>2. /\ q.table \in Seq(Pages) /\ q.len \in Nat
        /\ q.gen \in Seq(Tokens) /\ q.len <= Len(q.table) * PageSize
    BY <2>1 DEF RequestOK
  <2> HIDE DEF q
  <2> QED BY <2>1, <2>2
<1>3. /\ s \in Seq(Tokens) /\ Len(s) = Len(q.prompt) + Len(q.gen) /\ q.prompt \in Seq(Tokens)
      /\ Len(q.prompt) \in Nat /\ Len(q.gen) \in Nat /\ q.len <= Len(s)
  BY <1>2, StreamLength
<1>4. /\ r.table \in Seq(Pages) /\ Len(q.table) <= Len(r.table) /\ Len(r.table) \in Nat
      /\ \A b \in DOMAIN q.table : b \in DOMAIN r.table /\ r.table[b] = q.table[b]
  <2>1. CASE NeedsPage(q)
    <3>1. u \in Pages
      BY <1>1, <2>1, AllocateKept DEF IInv
    <3>2. r.table = Append(q.table, u)
      BY <2>1
    <3> QED BY <1>2, <3>1, <3>2
  <2>2. CASE ~NeedsPage(q)
    BY <1>2, <2>2
  <2> QED BY <2>1, <2>2
<1>5. /\ r.prompt = q.prompt /\ r.budget = q.budget /\ r.gen = q.gen /\ r.len = q.len
      /\ r.released = q.released /\ r.status = q.status /\ r.last = q.last
  OBVIOUS
<1>6. /\ f.prompt = q.prompt /\ f.budget = q.budget /\ f.gen = q.gen /\ f.len = q.len + 1
      /\ f.released = q.released /\ f.table = r.table
  OBVIOUS
<1>0. q = reqs[i] /\ s = Stream(q)
  OBVIOUS
<1>9. q.len \in Nat /\ Len(s) \in Nat /\ q.len <= Len(s) /\ r.len = q.len
  <2> HIDE DEF r, q, s
  <2>1. Len(s) \in Nat
    <3>1. s \in Seq(Tokens)
      BY <1>3
    <3> QED BY <3>1, LenProperties
  <2> QED BY <1>2, <1>3, <1>5, <2>1
<1> HIDE DEF r, f, u, q, s
<1>7. CASE r.last = NoToken
  <2>1. reqs' = [reqs EXCEPT ![i] = r] /\ kv' = kv
    BY <1>1, <1>7
  <2>2. q.len <= Len(r.table) * PageSize
    <3>1. Len(q.table) * PageSize <= Len(r.table) * PageSize
          /\ Len(q.table) * PageSize \in Nat /\ Len(r.table) * PageSize \in Nat
      BY <1>2, <1>4, TimesPage
    <3> QED BY <1>2, <3>1
  <2>3. RequestOK(r)
    BY <1>1, <1>2, <1>4, <1>5, <2>2 DEF RequestOK
  <2>4. Longer(q, r) /\ Emits(q, r)
    BY <1>1, <1>5 DEF Longer, Emits
  <2>5. \A j \in q.len .. r.len - 1 : FALSE
    BY <1>2, <1>5
  <2>6. q.len <= r.len /\ r.len <= Len(Stream(q))
    BY <1>0, <1>9
  <2>7. /\ RequestOK(r) /\ reqs' = [reqs EXCEPT ![i] = r] /\ kv' = kv /\ r.status = q.status
        /\ r.released = q.released
    BY <1>5, <2>1, <2>3
  <2>8. Advanced(i, r)
    BY <1>0, <1>4, <2>4, <2>5, <2>6, <2>7 DEF Advanced
  <2> QED BY <1>0, <2>4, <2>8
<1>8. CASE r.last # NoToken
  <2>1. PICK t \in Drawn(r, <<r.last>>) : reqs' = [reqs EXCEPT ![i] = WithToken(f, t)]
    BY <1>1, <1>8
  <2> DEFINE z == WithToken(f, t)
  <2>2. q.gen # << >> /\ q.last = q.gen[Len(q.gen)] /\ q.len = Len(q.prompt) + Len(q.gen) - 1
    BY <1>1, <1>2, <1>5, <1>8 DEF RequestOK
  <2>3. Len(q.gen) # 0 /\ q.len + 1 = Len(s)
    BY <1>2, <1>3, <2>2, EmptySeq
  <2>4. s[q.len + 1] = r.last
    <3> DEFINE a == q.prompt
               g == q.gen
    <3>1. /\ a \in Seq(Tokens) /\ g \in Seq(Tokens) /\ Len(a) \in Nat /\ Len(g) \in Nat \ {0}
          /\ q.len + 1 = Len(a) + Len(g) /\ r.last = g[Len(g)] /\ s = a \o g
      BY <1>0, <1>2, <1>3, <1>5, <2>2, <2>3 DEF Stream
    <3> HIDE DEF a, g
    <3>2. (a \o g)[Len(a) + Len(g)] = g[Len(g)]
      BY <3>1
    <3> QED BY <3>1, <3>2
  <2>5. <<r.last>> = SubSeq(s, q.len + 1, q.len + 1)
    <3> DEFINE m == q.len + 1
    <3>1. m \in 1 .. Len(s)
      <4>1. m \in Nat \ {0} /\ m = Len(s) /\ Len(s) \in Nat
        BY <1>9, <2>3
      <4> HIDE DEF m
      <4> QED BY <4>1
    <3> HIDE DEF m
    <3>2. SubSeq(s, m, m) = <<s[m]>>
      <4>1. s \in Seq(Tokens)
        BY <1>3
      <4>2. m \in 1 .. Len(s) /\ Len(s) \in Nat
        BY <3>1, <4>1
      <4> QED BY <4>1, <4>2, SingletonSub
    <3> QED BY <2>4, <3>2 DEF m
  <2>6. Cached(r) = SubSeq(s, 1, r.len)
    <3>1. ASSUME NEW j \in 0 .. r.len - 1 PROVE Slot(r, j) = SubSeq(s, 1, j + 1)
      <4>1. j \in Nat /\ j < q.len /\ j \in 0 .. q.len - 1
        BY <1>9
      <4>2. BlockOf(j) \in DOMAIN q.table
        BY <1>2, <4>1, PositionHasPage
      <4>3. PageOf(r, j) = PageOf(q, j)
        BY <1>4, <4>2, PageOfBlock
      <4>4. Slot(q, j) = SubSeq(s, 1, j + 1)
        BY <1>0, <4>1, PickedSlots
      <4> QED BY <4>3, <4>4 DEF Slot
    <3> QED BY <1>3, <1>9, <3>1, CachedIs
  <2>7. Feeds(r, s, <<r.last>>, 1)
    <3>1. r.len = q.len /\ q.len + 1 <= Len(s)
      BY <1>9, <2>3
    <3> QED BY <2>5, <2>6, <3>1 DEF Feeds
  <2>8. t \in Tokens /\ t \in Sampled(SubSeq(s, 1, r.len + 1))
    BY <1>3, <1>9, <2>7, DrawnIs
  <2>9. t \in Sampled(s)
    <3>1. SubSeq(s, 1, Len(s)) = s
      BY <1>3, SubSeqFull
    <3> QED BY <1>9, <2>3, <2>8, <3>1
  <2>10. f.len <= Len(f.table) * PageSize
    BY <1>1, <1>5, <1>6, <1>8 DEF Fits
  <2>11. /\ RequestOK(z) /\ Longer(q, z) /\ Emits(q, z)
         /\ z.table = f.table /\ z.len = f.len /\ z.released = q.released
         /\ z.status # "Prefilling"
    <3>1. RequestOK(q) /\ q.status # "Done"
      BY <1>1, <1>2
    <3>2. /\ f.prompt = q.prompt /\ f.budget = q.budget /\ f.gen = q.gen /\ f.table \in Seq(Pages)
          /\ f.released = q.released /\ f.len = Len(Stream(q)) /\ f.len <= Len(f.table) * PageSize
      BY <1>0, <1>4, <1>6, <2>3, <2>10
    <3>3. t \in Tokens /\ t \in Sampled(Stream(q))
      BY <1>0, <2>8, <2>9
    <3> QED BY <3>1, <3>2, <3>3, WithTokenOK
  <2>12. reqs' = [reqs EXCEPT ![i] = z]
    BY <2>1
  <2>15. z.status # "Prefilling" /\ 1 \in Nat
    BY <2>11
  <2>13. z.table = r.table /\ z.len = q.len + 1 /\ Write(r, <<r.last>>)
    BY <1>1, <1>6, <1>8, <2>11
  <2> HIDE DEF z
  <2> DEFINE fed == <<r.last>>
  <2>16. /\ r.len = reqs[i].len /\ Feeds(r, Stream(reqs[i]), fed, 1) /\ Write(r, fed)
         /\ z.table = r.table /\ z.len = reqs[i].len + 1
    BY <1>0, <1>5, <2>7, <2>13
  <2>17. /\ RequestOK(z) /\ Longer(reqs[i], z) /\ z.released = reqs[i].released
         /\ z.status = "Prefilling" => reqs[i].status = "Prefilling"
    BY <1>0, <2>11
  <2>18. \A b \in DOMAIN reqs[i].table : b \in DOMAIN r.table /\ r.table[b] = reqs[i].table[b]
    BY <1>0, <1>4
  <2> HIDE DEF fed
  <2>14. Advanced(i, z)
    BY <2>12, <2>15, <2>16, <2>17, <2>18, ForwardAdvances
  <2> QED BY <1>0, <2>11, <2>14
<1> QED BY <1>7, <1>8

-----------------------------------------------------------------------------
(* A step that writes no K/V and changes a request only when it is done. *)
Quiet ==
  /\ kv' = kv
  /\ \A i \in DOMAIN reqs :
       /\ i \in DOMAIN reqs'
       /\ reqs'[i] = reqs[i] \/ (reqs[i].status = "Done" /\ reqs'[i].status = "Done")

LEMMA QuietSlots == Quiet => SlotsKept
<1> SUFFICES ASSUME Quiet, NEW i \in DOMAIN reqs, reqs[i].status # "Done", NEW j \in 0 .. reqs[i].len - 1
             PROVE  Slot(reqs[i], j)' = Slot(reqs[i], j)
  BY DEF SlotsKept
<1>1. reqs'[i] = reqs[i] /\ kv' = kv
  BY DEF Quiet
<1>2. Slot(reqs[i], j)' = kv'[PageOf(reqs'[i], j)][j % PageSize]
  BY DEF Slot
<1> QED BY <1>1, <1>2 DEF Slot

LEMMA QuietPending ==
  ASSUME Quiet, NEW h \in DOMAIN reqs, NEW p, NEW j, Pending(h, p, j)
  PROVE  h \in DOMAIN reqs' /\ Pending(h, p, j)'
BY DEF Quiet, Pending

LEMMA QuietFilled ==
  ASSUME CacheInv, Quiet, NEW i \in DOMAIN reqs, reqs'[i].status # "Done",
         NEW j \in 0 .. reqs'[i].len - 1, NEW p, p = PageOf(reqs'[i], j)
  PROVE  \/ kv'[p][j % PageSize] = SubSeq(Stream(reqs'[i]), 1, j + 1)
         \/ \E h \in DOMAIN reqs' : h < i /\ Pending(h, p, j)'
<1>1. reqs'[i] = reqs[i] /\ kv' = kv
  BY DEF Quiet
<1>2. \/ Holds(p, j, Stream(reqs[i]))
      \/ \E h \in DOMAIN reqs : h < i /\ Pending(h, p, j)
  BY <1>1 DEF CacheInv, Filled
<1>3. CASE Holds(p, j, Stream(reqs[i]))
  BY <1>1, <1>3 DEF Holds
<1>4. CASE \E h \in DOMAIN reqs : h < i /\ Pending(h, p, j)
  BY <1>4, QuietPending
<1> QED BY <1>2, <1>3, <1>4

(* A page registered before a quiet step. *)
LEMMA QuietRegistered ==
  ASSUME CacheInv, Quiet, NEW p \in Pages, NEW k, k = pool.hashes[p], k # << >>,
         NEW j \in Len(k) - PageSize .. Len(k) - 1,
         Walked(p, j) => Walked(p, j)' \/ \E h \in DOMAIN reqs' : Pending(h, p, j)'
  PROVE  Holds(p, j, k)' \/ (\E h \in DOMAIN reqs' : Pending(h, p, j)') \/ Walked(p, j)'
<1>1. Holds(p, j, k) \/ (\E h \in DOMAIN reqs : Pending(h, p, j)) \/ Walked(p, j)
  BY DEF CacheInv, Registered
<1>2. CASE Holds(p, j, k)
  BY <1>2 DEF Holds, Quiet
<1>3. CASE \E h \in DOMAIN reqs : Pending(h, p, j)
  BY <1>3, QuietPending
<1> QED BY <1>1, <1>2, <1>3

(* A quiet step outside admit() after which every page is registered as    *)
(* before or not at all.                                                   *)
LEMMA QuietInv ==
  ASSUME IInv, CacheInv, Quiet, DOMAIN reqs' = DOMAIN reqs, AdmitOK', RequestsOK',
         \A p \in Pages : pool'.hashes[p] \in {pool.hashes[p], << >>},
         \A p, j : Walked(p, j) => Walked(p, j)'
  PROVE  CacheInv' /\ SlotsKept
<1>1. Registered'
  <2> SUFFICES ASSUME NEW p \in Pages, NEW k, k = pool'.hashes[p], k # << >>,
                      NEW j \in Len(k) - PageSize .. Len(k) - 1
               PROVE  Holds(p, j, k)' \/ (\E h \in DOMAIN reqs' : Pending(h, p, j)') \/ Walked(p, j)'
    BY DEF Registered
  <2>1. k = pool.hashes[p]
    OBVIOUS
  <2> QED BY <2>1, QuietRegistered
<1>2. Filled'
  <2> SUFFICES ASSUME NEW i \in DOMAIN reqs', reqs'[i].status # "Done",
                      NEW j \in 0 .. reqs'[i].len - 1, NEW p, p = PageOf(reqs'[i], j)
               PROVE  \/ kv'[p][j % PageSize] = SubSeq(Stream(reqs'[i]), 1, j + 1)
                      \/ \E x \in DOMAIN reqs' : x < i /\ Pending(x, p, j)'
    BY DEF Filled, Holds
  <2> QED BY QuietFilled
<1> QED BY <1>1, <1>2, QuietSlots DEF CacheInv
-----------------------------------------------------------------------------
LEMMA InitCache == Init => CacheInv
BY DEF Init, CacheInv, RequestsOK, AdmitOK, Registered, Filled, NoCall, EmptyPool

LEMMA AdmitCallCache ==
  ASSUME IInv, CacheInv, NEW prompt \in Prompts, NEW budget \in Budgets, AdmitCall(prompt, budget)
  PROVE  CacheInv' /\ SlotsKept
<1>1. /\ call' = [ kind |-> "admit", prompt |-> prompt, budget |-> budget,
                   table |-> << >>, cached |-> 0, hitting |-> TRUE ]
      /\ pool' = pool /\ kv' = kv /\ reqs' = reqs /\ call = NoCall
  BY DEF AdmitCall
<1>2. Quiet /\ DOMAIN reqs' = DOMAIN reqs /\ \A p, j : ~Walked(p, j)
  BY <1>1 DEF Quiet, Walked, NoCall
<1>3. AdmitOK' /\ RequestsOK'
  <2>1. AdmitOK'
    BY <1>1 DEF AdmitOK
  <2>2. RequestsOK'
    BY <1>1 DEF CacheInv, RequestsOK
  <2> QED BY <2>1, <2>2
<1> QED BY <1>1, <1>2, <1>3, QuietInv

LEMMA ReleaseCallCache ==
  ASSUME IInv, CacheInv, NEW i \in DOMAIN reqs, ReleaseCall(i)
  PROVE  CacheInv' /\ SlotsKept
<1> DEFINE z == [reqs[i] EXCEPT !.released = TRUE]
<1>1. /\ reqs' = [reqs EXCEPT ![i] = z] /\ reqs[i].status = "Done"
      /\ pool' = pool /\ kv' = kv /\ call = NoCall /\ call'.kind = "release"
  BY DEF ReleaseCall
<1>5. /\ z.status = reqs[i].status /\ z.prompt = reqs[i].prompt /\ z.budget = reqs[i].budget
      /\ z.gen = reqs[i].gen /\ z.table = reqs[i].table /\ z.len = reqs[i].len
      /\ z.done = reqs[i].done /\ z.last = reqs[i].last
  OBVIOUS
<1>2. z.status = "Done" /\ (RequestOK(reqs[i]) => RequestOK(z))
  <2> HIDE DEF z
  <2> QED BY <1>1, <1>5 DEF RequestOK
<1> HIDE DEF z
<1>3. Quiet /\ DOMAIN reqs' = DOMAIN reqs /\ \A p, j : ~Walked(p, j)
  BY <1>1, <1>2 DEF Quiet, Walked, NoCall
<1>4. AdmitOK' /\ RequestsOK'
  <2>1. AdmitOK'
    BY <1>1 DEF AdmitOK
  <2>2. RequestsOK'
    BY <1>1, <1>2 DEF CacheInv, RequestsOK
  <2> QED BY <2>1, <2>2
<1> QED BY <1>1, <1>3, <1>4, QuietInv

LEMMA ReleaseNextCache == IInv /\ CacheInv /\ ReleaseNext => CacheInv' /\ SlotsKept
<1> SUFFICES ASSUME IInv, CacheInv, ReleaseNext PROVE CacheInv' /\ SlotsKept
  OBVIOUS
<1> DEFINE h == Head(call.todo)
<1>1. call \in ReleaseCalls /\ call.todo \in Seq(Pages) /\ call.todo # << >>
  BY DEF IInv, ReleaseNext, NoCall, AdmitCalls, ReleaseCalls
<1>2. h \in Pages
  BY <1>1
<1>3. /\ pool.refs[h] > 0 /\ pool' = DecRef(pool, h) /\ kv' = kv /\ reqs' = reqs
      /\ call.kind = "release" /\ call'.kind \in {"none", "release"}
  BY <1>1 DEF ReleaseNext, NoCall
<1> HIDE DEF h
<1>4. \A p \in Pages : pool'.hashes[p] \in {pool.hashes[p], << >>}
  <2>1. pool.hashes \in [Pages -> BlockHashes \cup {<< >>}]
    BY DEF IInv, Sound, PoolType
  <2>2. pool'.hashes = IF pool.refs[h] = 1 THEN [pool.hashes EXCEPT ![h] = << >>] ELSE pool.hashes
    BY <1>2, <1>3, DecRefKept DEF IInv
  <2> QED BY <2>1, <2>2
<1>5. Quiet /\ DOMAIN reqs' = DOMAIN reqs /\ \A p, j : ~Walked(p, j)
  BY <1>3 DEF Quiet, Walked
<1>6. AdmitOK' /\ RequestsOK'
  <2>1. AdmitOK'
    BY <1>3 DEF AdmitOK
  <2>2. RequestsOK'
    BY <1>3 DEF CacheInv, RequestsOK
  <2> QED BY <2>1, <2>2
<1> QED BY <1>4, <1>5, <1>6, QuietInv

LEMMA UnchangedCache == IInv /\ CacheInv /\ UNCHANGED vars => CacheInv' /\ SlotsKept
<1> SUFFICES ASSUME IInv, CacheInv, UNCHANGED vars PROVE CacheInv' /\ SlotsKept
  OBVIOUS
<1>1. pool' = pool /\ kv' = kv /\ reqs' = reqs /\ call' = call
  BY DEF vars
<1>2. Quiet
  BY <1>1 DEF Quiet
<1>3. AdmitOK' /\ RequestsOK'
  <2>1. AdmitOK'
    BY <1>1 DEF CacheInv, AdmitOK
  <2>2. RequestsOK'
    BY <1>1 DEF CacheInv, RequestsOK
  <2> QED BY <2>1, <2>2
<1>4. \A p, j : Walked(p, j) => Walked(p, j)'
  BY <1>1 DEF Walked
<1> QED BY <1>1, <1>2, <1>3, <1>4, QuietInv
-----------------------------------------------------------------------------
LEMMA AdmitBlockCache == IInv /\ CacheInv /\ AdmitBlock => CacheInv' /\ SlotsKept
<1> SUFFICES ASSUME IInv, CacheInv, AdmitBlock PROVE CacheInv' /\ SlotsKept
  OBVIOUS
<1> DEFINE u == LeasedPage(pool, NextBlock)
           t == call.table
           n == Len(t)
           hit == call.hitting /\ Hit(pool, NextBlock)
<1>1. /\ call \in AdmitCalls /\ call.prompt \in Prompts /\ t \in Seq(Pages) /\ n \in Nat
      /\ FullBlocks(call.prompt) \in Nat /\ n + 1 \in 1 .. FullBlocks(call.prompt)
      /\ NextBlock \in BlockHashes /\ call.kind = "admit"
  BY WalkSound DEF AdmitBlock, Walking
<1>2. /\ call' = [ call EXCEPT !.table = Append(@, u),
                               !.cached = IF hit THEN @ + 1 ELSE @, !.hitting = hit ]
      /\ pool' = FindOrLease(pool, NextBlock) /\ CanLease(pool, NextBlock)
      /\ kv' = kv /\ reqs' = reqs
  BY DEF AdmitBlock
<1>3. /\ call'.kind = "admit" /\ call'.table = Append(t, u) /\ call'.hitting = hit
      /\ call'.cached = IF hit THEN call.cached + 1 ELSE call.cached
  BY <1>1, <1>2 DEF AdmitCalls
<1>4. /\ u \in Pages
      /\ \/ Hit(pool, NextBlock) /\ pool'.hashes = pool.hashes
         \/ /\ ~Hit(pool, NextBlock)
            /\ pool'.hashes = [pool.hashes EXCEPT ![u] = NextBlock]
  <2>1. Sound(pool)
    BY DEF IInv
  <2> DEFINE k == NextBlock
             r == FindOrLease(pool, k)
             v == LeasedPage(pool, k)
  <2>2. k \in BlockHashes /\ CanLease(pool, k)
    BY <1>1, <1>2
  <2> HIDE DEF k
  <2>3. /\ v \in Pages
        /\ \/ Hit(pool, k) /\ r.hashes = pool.hashes
           \/ ~Hit(pool, k) /\ r.hashes = [pool.hashes EXCEPT ![v] = k]
    <3>1. /\ v \in Pages
          /\ \/ Hit(pool, k) /\ pool.refs[v] > 0 /\ pool.hashes[v] = k /\ r.hashes = pool.hashes
             \/ /\ ~Hit(pool, k) /\ pool.refs[v] = 0 /\ \A x \in Pages : pool.hashes[x] # k
                /\ r.hashes = [pool.hashes EXCEPT ![v] = k]
      BY <2>1, <2>2, FindOrLeaseKept, ZenonT(40)
    <3> QED BY <3>1
  <2> QED BY <1>2, <2>3 DEF k
<1>5. /\ call.cached \in Nat /\ call.cached <= n /\ (call.hitting => call.cached = n)
  BY <1>1 DEF CacheInv, AdmitOK
<1>6. /\ Len(call'.table) = n + 1 /\ call'.table[n + 1] = u
      /\ \A b \in 1 .. n : call'.table[b] = t[b]
  BY <1>1, <1>3, <1>4
<1>7. Quiet /\ DOMAIN reqs' = DOMAIN reqs /\ RequestsOK'
  <2>1. RequestsOK'
    BY <1>2 DEF CacheInv, RequestsOK
  <2> QED BY <1>2, <2>1 DEF Quiet
<1>8. NextBlock = Blocks(call.prompt, n + 1) /\ Len(NextBlock) = (n + 1) * PageSize
  <2>1. NextBlock = Blocks(call.prompt, n + 1)
    BY DEF NextBlock
  <2>2. 1 <= n + 1 /\ n + 1 <= FullBlocks(call.prompt) /\ n + 1 \in Nat
    BY <1>1
  <2> HIDE DEF n
  <2> QED BY <1>1, <2>1, <2>2, FullBlock
<1> HIDE DEF n, u, t, hit
<1>9. AdmitOK'
  <2>1. CASE hit
    <3>1. call.hitting /\ call'.cached = call.cached + 1 /\ call.cached = n
      BY <1>3, <1>5, <2>1 DEF hit
    <3> QED BY <1>1, <1>5, <1>6, <3>1 DEF AdmitOK
  <2>2. CASE ~hit
    <3>1. call'.cached = call.cached /\ ~call'.hitting
      BY <1>3, <2>2
    <3> QED BY <1>1, <1>5, <1>6, <3>1 DEF AdmitOK
  <2> QED BY <2>1, <2>2
<1>10. ASSUME NEW p, NEW j \in Nat, Walked(p, j) PROVE Walked(p, j)'
  <2>1. /\ call.cached < BlockOf(j) /\ BlockOf(j) <= n /\ t[BlockOf(j)] = p
        /\ BlockOf(j) \in Nat \ {0}
    BY <1>10, BlockPosition DEF Walked, n, t
  <2>2. ~call.hitting
    BY <1>1, <1>5, <2>1
  <2>3. call'.cached = call.cached
    BY <1>3, <2>2 DEF hit
  <2>4. BlockOf(j) \in 1 .. n /\ BlockOf(j) <= n + 1
    BY <1>1, <2>1
  <2> QED BY <1>3, <1>6, <2>1, <2>3, <2>4 DEF Walked
<1>11. Registered'
  <2> SUFFICES ASSUME NEW p \in Pages, NEW k, k = pool'.hashes[p], k # << >>,
                      NEW j \in Len(k) - PageSize .. Len(k) - 1
               PROVE  Holds(p, j, k)' \/ (\E h \in DOMAIN reqs' : Pending(h, p, j)') \/ Walked(p, j)'
    BY DEF Registered
  <2>1. CASE k = pool.hashes[p]
    BY <1>7, <1>10, <2>1, RegisteredBlock, QuietRegistered
  <2>2. CASE k # pool.hashes[p]
    <3>1. ~Hit(pool, NextBlock) /\ p = u /\ k = NextBlock
      <4>1. pool.hashes \in [Pages -> BlockHashes \cup {<< >>}]
        BY DEF IInv, Sound, PoolType
      <4> QED BY <1>4, <2>2, <4>1
    <3>2. BlockOf(j) = n + 1
      BY <1>1, <1>8, <3>1, InBlock
    <3>3. call'.cached < n + 1
      BY <1>1, <1>3, <1>5, <3>1 DEF hit
    <3> QED BY <1>1, <1>3, <1>6, <3>1, <3>2, <3>3 DEF Walked
  <2> QED BY <2>1, <2>2
<1>12. Filled'
  <2> SUFFICES ASSUME NEW i \in DOMAIN reqs', reqs'[i].status # "Done",
                      NEW j \in 0 .. reqs'[i].len - 1, NEW p, p = PageOf(reqs'[i], j)
               PROVE  \/ kv'[p][j % PageSize] = SubSeq(Stream(reqs'[i]), 1, j + 1)
                      \/ \E x \in DOMAIN reqs' : x < i /\ Pending(x, p, j)'
    BY DEF Filled, Holds
  <2> QED BY <1>7, QuietFilled
<1> QED BY <1>7, <1>9, <1>11, <1>12, QuietSlots DEF CacheInv

-----------------------------------------------------------------------------
(* The request admit() enters: its cached blocks are full blocks of its    *)
(* prompt, in pages registered under them.                                 *)
LEMMA RequestEntered ==
  ASSUME NEW c \in AdmitCalls, c.cached <= FullBlocks(c.prompt), c.cached <= Len(c.table)
  PROVE  /\ RequestOK(Request(c)) /\ Request(c).prompt = c.prompt /\ Request(c).table = c.table
         /\ Request(c).len = c.cached * PageSize /\ Request(c).status = "Prefilling"
         /\ Request(c).gen = << >>
<1> DEFINE z == Request(c)
           l == CachedLen(c)
<1>1. /\ c.prompt \in Prompts /\ c.budget \in Budgets /\ c.table \in Seq(Pages) /\ c.cached \in Nat
      /\ Len(c.prompt) \in Nat /\ Len(c.table) \in Nat /\ PageSize \in Nat \ {0}
  <2>1. c.prompt \in Prompts /\ c.budget \in Budgets /\ c.table \in Seq(Pages) /\ c.cached \in Nat
    BY DEF AdmitCalls
  <2>2. c.prompt \in Seq(Tokens)
    BY <2>1, SchedulerAssumption
  <2> QED BY <2>1, <2>2, SchedulerAssumption
<1>2. /\ z.prompt = c.prompt /\ z.budget = c.budget /\ z.gen = << >> /\ z.table = c.table
      /\ z.len = l /\ z.done = l /\ z.last = NoToken /\ z.status = "Prefilling" /\ z.released = FALSE
  BY DEF Request
<1>3. l = c.cached * PageSize /\ l \in Nat /\ l <= Len(c.table) * PageSize
  BY <1>1, TimesPage DEF CachedLen
<1>4. l <= Len(c.prompt)
  <2> DEFINE f == FullBlocks(c.prompt)
             d == Len(c.prompt)
             r == d % PageSize
  <2>1. f \in Nat /\ r \in 0 .. PageSize - 1 /\ r = d - f * PageSize
    BY <1>1, DivMod DEF FullBlocks
  <2>2. f * PageSize \in Nat /\ l <= f * PageSize
    BY <1>1, <1>3, <2>1, TimesPage
  <2> HIDE DEF f, r, d
  <2>3. d \in Nat /\ f * PageSize <= d
    BY <1>1, <2>1, <2>2 DEF d
  <2> QED BY <1>3, <2>2, <2>3 DEF d
<1>5. << >> \in Seq(Tokens)
  OBVIOUS
<1> HIDE DEF z, l
<1>6. RequestOK(z)
  BY <1>1, <1>2, <1>3, <1>4, <1>5 DEF RequestOK
<1> QED BY <1>2, <1>3, <1>6 DEF z

(* What admit() is about to return. *)
LEMMA ReturnSound ==
  ASSUME IInv, LeaseInv, CacheInv, AdmitReturn
  PROVE  \E c \in AdmitCalls :
           /\ c.cached = call.cached /\ c.prompt = call.prompt
           /\ c.cached <= FullBlocks(c.prompt) /\ c.cached <= Len(c.table)
           /\ Len(call.table) = FullBlocks(c.prompt) /\ FullBlocks(c.prompt) \in Nat
           /\ \A b \in 1 .. FullBlocks(c.prompt) :
                /\ b \in DOMAIN c.table /\ c.table[b] = call.table[b] /\ c.table[b] \in Pages
                /\ pool.hashes[c.table[b]] = Blocks(c.prompt, b)
           /\ reqs' = Append(reqs, Request(c)) /\ pool'.hashes = pool.hashes
           /\ kv' = kv /\ call' = NoCall /\ call.kind = "admit"
<1> DEFINE f == FullBlocks(call.prompt)
           n == Len(call.table)
<1>1. call \in AdmitCalls /\ call.kind = "admit" /\ ~Walking /\ kv' = kv /\ call' = NoCall
  BY DEF IInv, AdmitReturn, NoCall, ReleaseCalls
<1>2. /\ call.prompt \in Prompts /\ call.table \in Seq(Pages) /\ call.cached \in Nat
      /\ n \in Nat /\ f \in Nat /\ DOMAIN call.table = 1 .. n
  <2>1. call.prompt \in Prompts /\ call.table \in Seq(Pages) /\ call.cached \in Nat
    BY <1>1 DEF AdmitCalls
  <2>2. Len(call.prompt) \in Nat /\ PageSize \in Nat \ {0}
    BY <2>1, SchedulerAssumption
  <2>3. f \in Nat
    BY <2>2, DivNat DEF FullBlocks
  <2> HIDE DEF f
  <2> QED BY <2>1, <2>3
<1>3. n <= f /\ KeyedTable(pool, call.prompt, call.table) /\ call.cached <= n
  BY <1>1 DEF LeaseInv, Keyed, CacheInv, AdmitOK
<1>4. ~(n < f)
  BY <1>1 DEF Walking
<1>5. n = f
  <2> HIDE DEF n, f
  <2> QED BY <1>2, <1>3, <1>4
<1>6. ASSUME NEW b \in 1 .. f
      PROVE  b \in DOMAIN call.table /\ call.table[b] \in Pages
             /\ pool.hashes[call.table[b]] = Blocks(call.prompt, b)
  <2>1. b \in DOMAIN call.table /\ call.table[b] \in Pages
    BY <1>2, <1>5
  <2>2. b <= FullBlocks(call.prompt)
    BY <1>2
  <2>3. KeyedPage(pool, call.table[b], KeyAt(call.prompt, b))
    BY <1>3, <2>1 DEF KeyedTable
  <2> QED BY <2>1, <2>2, <2>3 DEF KeyedPage, KeyAt
<1>7. CASE Leftover(call.prompt)
  <2> DEFINE c == [call EXCEPT !.table = Append(@, TopFree(pool))]
  <2>1. TopFree(pool) \in Pages /\ pool'.hashes = pool.hashes /\ reqs' = Append(reqs, Request(c))
    BY <1>7, AllocateKept DEF IInv, AdmitReturn
  <2>2. c \in AdmitCalls /\ c.cached = call.cached /\ c.prompt = call.prompt
        /\ c.table = Append(call.table, TopFree(pool))
    <3> DEFINE t == Append(call.table, TopFree(pool))
    <3>1. t \in Seq(Pages)
      BY <1>2, <2>1
    <3>2. c = [call EXCEPT !.table = t]
      OBVIOUS
    <3> HIDE DEF t, c
    <3>3. c \in AdmitCalls /\ c.cached = call.cached /\ c.prompt = call.prompt /\ c.table = t
      BY <1>1, <3>1, <3>2 DEF AdmitCalls
    <3> QED BY <3>3 DEF t
  <2>3. Len(c.table) = n + 1 /\ \A b \in 1 .. n : b \in DOMAIN c.table /\ c.table[b] = call.table[b]
    BY <1>2, <2>1, <2>2
  <2>4. call.cached <= n + 1
    <3> HIDE DEF n
    <3> QED BY <1>2, <1>3
  <2>5. \A b \in 1 .. f : /\ b \in DOMAIN c.table /\ c.table[b] = call.table[b] /\ c.table[b] \in Pages
                          /\ pool.hashes[c.table[b]] = Blocks(call.prompt, b)
    <3> HIDE DEF c, n, f
    <3> QED BY <1>5, <1>6, <2>3
  <2> HIDE DEF c
  <2> QED BY <1>1, <1>2, <1>3, <1>5, <2>1, <2>2, <2>3, <2>4, <2>5
<1>8. CASE ~Leftover(call.prompt)
  <2>1. reqs' = Append(reqs, Request(call)) /\ pool' = pool
    BY <1>8 DEF AdmitReturn
  <2> QED BY <1>1, <1>2, <1>3, <1>5, <1>6, <2>1
<1> QED BY <1>7, <1>8

LEMMA AdmitReturnCache ==
  ASSUME IInv, LeaseInv, CacheInv, AdmitReturn
  PROVE  CacheInv' /\ SlotsKept
<1>1. PICK c \in AdmitCalls :
        /\ c.cached = call.cached /\ c.prompt = call.prompt
        /\ c.cached <= FullBlocks(c.prompt) /\ c.cached <= Len(c.table)
        /\ Len(call.table) = FullBlocks(c.prompt) /\ FullBlocks(c.prompt) \in Nat
        /\ \A b \in 1 .. FullBlocks(c.prompt) :
             /\ b \in DOMAIN c.table /\ c.table[b] = call.table[b] /\ c.table[b] \in Pages
             /\ pool.hashes[c.table[b]] = Blocks(c.prompt, b)
        /\ reqs' = Append(reqs, Request(c)) /\ pool'.hashes = pool.hashes
        /\ kv' = kv /\ call' = NoCall /\ call.kind = "admit"
  BY ReturnSound
<1> DEFINE n == Len(reqs)
           z == Request(c)
           f == FullBlocks(c.prompt)
<1>2. /\ RequestOK(z) /\ z.prompt = c.prompt /\ z.table = c.table /\ z.gen = << >>
      /\ z.len = c.cached * PageSize /\ z.status = "Prefilling"
      /\ c.prompt \in Prompts /\ c.cached \in Nat
  BY <1>1, RequestEntered DEF AdmitCalls
<1> HIDE DEF z
<1>3. /\ n \in Nat /\ DOMAIN reqs = 1 .. n /\ DOMAIN reqs' = 1 .. n + 1
      /\ \A i \in 1 .. n : reqs'[i] = reqs[i]
      /\ reqs'[n + 1] = z
  <2>1. reqs \in Seq({reqs[i] : i \in DOMAIN reqs} \cup {z}) /\ n \in Nat /\ DOMAIN reqs = 1 .. n
    BY DEF IInv
  <2> QED BY <1>1, <2>1 DEF z
<1>4. Quiet
  BY <1>1, <1>3 DEF Quiet
<1>5. RequestsOK' /\ AdmitOK'
  <2>1. ASSUME NEW i \in DOMAIN reqs' PROVE RequestOK(reqs'[i])
    <3>1. CASE i \in 1 .. n
      BY <1>3, <3>1 DEF CacheInv, RequestsOK
    <3>2. CASE i = n + 1
      BY <1>2, <1>3, <3>2
    <3> QED BY <1>3, <3>1, <3>2
  <2>2. RequestsOK'
    BY <2>1 DEF RequestsOK
  <2> QED BY <1>1, <2>2 DEF AdmitOK, NoCall
<1>6. ASSUME NEW p, NEW j \in Nat, Walked(p, j), NEW h, h = n + 1
      PROVE  h \in DOMAIN reqs' /\ Pending(h, p, j)'
  <2> DEFINE b == BlockOf(j)
  <2>1. c.cached < b /\ b <= f /\ call.table[b] = p /\ b \in Nat \ {0}
    BY <1>1, <1>6, BlockPosition DEF Walked
  <2>2. b \in 1 .. f
    BY <1>1, <2>1
  <2>3. z.table[b] = p
    BY <1>1, <1>2, <2>1, <2>2
  <2>4. z.len <= j
    BY <1>2, <2>1, BlockAfter
  <2>5. h \in DOMAIN reqs' /\ reqs'[h] = z
    BY <1>3, <1>6
  <2> QED BY <1>2, <2>1, <2>3, <2>4, <2>5 DEF Pending
<1>7. Registered'
  <2> SUFFICES ASSUME NEW p \in Pages, NEW k, k = pool'.hashes[p], k # << >>,
                      NEW j \in Len(k) - PageSize .. Len(k) - 1
               PROVE  Holds(p, j, k)' \/ (\E h \in DOMAIN reqs' : Pending(h, p, j)') \/ Walked(p, j)'
    BY DEF Registered
  <2>1. k = pool.hashes[p] /\ j \in Nat
    BY <1>1, RegisteredBlock
  <2>2. Walked(p, j) => \E h \in DOMAIN reqs' : Pending(h, p, j)'
    BY <1>6, <2>1
  <2> QED BY <1>4, <2>1, <2>2, QuietRegistered
<1>8. ASSUME NEW j \in 0 .. z.len - 1, NEW p, p = PageOf(z, j)
      PROVE  \/ kv'[p][j % PageSize] = SubSeq(Stream(z), 1, j + 1)
             \/ \E h \in DOMAIN reqs' : h < n + 1 /\ Pending(h, p, j)'
  <2> DEFINE b == BlockOf(j)
             k == Blocks(c.prompt, b)
  <2>1. j \in Nat /\ j < c.cached * PageSize
    <3>1. c.cached * PageSize \in Nat
      BY <1>2, TimesPage
    <3> QED BY <1>2, <3>1
  <2>2. b <= c.cached /\ b \in Nat \ {0}
    BY <1>2, <2>1, BlockBefore, BlockPosition
  <2>3. b \in 1 .. f /\ b <= f /\ 1 <= b /\ b \in Nat
    BY <1>1, <1>2, <2>2
  <2>4. p = c.table[b] /\ p \in Pages /\ pool.hashes[p] = k /\ p = call.table[b]
    BY <1>1, <1>2, <1>8, <2>3, PageOfBlock
  <2>5. k # << >> /\ Len(k) = b * PageSize
    BY <1>2, <2>3, FullBlock
  <2>6. j \in Len(k) - PageSize .. Len(k) - 1
    BY <2>1, <2>5, OfBlock
  <2>7. SubSeq(Stream(z), 1, j + 1) = SubSeq(k, 1, j + 1)
    BY <1>2, <2>1, <2>3, StreamBlock
  <2>8. ~Walked(p, j)
    <3> HIDE DEF b
    <3> QED BY <1>1, <1>2, <2>2 DEF Walked, b
  <2> HIDE DEF k, b
  <2>9. Holds(p, j, k) \/ \E h \in DOMAIN reqs : Pending(h, p, j)
    BY <2>4, <2>5, <2>6, <2>8 DEF CacheInv, Registered
  <2>10. CASE Holds(p, j, k)
    BY <1>1, <2>7, <2>10 DEF Holds
  <2>11. ASSUME NEW h \in DOMAIN reqs, Pending(h, p, j)
         PROVE  h \in DOMAIN reqs' /\ h < n + 1 /\ Pending(h, p, j)'
    BY <1>3, <1>4, <2>11, QuietPending
  <2> QED BY <2>9, <2>10, <2>11
<1>9. Filled'
  <2> SUFFICES ASSUME NEW i \in DOMAIN reqs', reqs'[i].status # "Done",
                      NEW j \in 0 .. reqs'[i].len - 1, NEW p, p = PageOf(reqs'[i], j)
               PROVE  \/ kv'[p][j % PageSize] = SubSeq(Stream(reqs'[i]), 1, j + 1)
                      \/ \E x \in DOMAIN reqs' : x < i /\ Pending(x, p, j)'
    BY DEF Filled, Holds
  <2>1. CASE i \in 1 .. n
    BY <1>3, <1>4, <2>1, QuietFilled
  <2>2. CASE i = n + 1
    BY <1>3, <1>8, <2>2
  <2> QED BY <1>3, <2>1, <2>2
<1> QED BY <1>4, <1>5, <1>7, <1>9, QuietSlots DEF CacheInv

-----------------------------------------------------------------------------
LEMMA StepAdvances ==
  ASSUME SamplerTyped, IInv, CacheInv, Step
  PROVE  \E i \in DOMAIN reqs : \E z : Picked(i) /\ Advanced(i, z) /\ Emits(reqs[i], z)
<1>1. PICK i \in DOMAIN reqs : Picked(i) /\ (PrefillSkip(i) \/ PrefillChunk(i) \/ DecodeStep(i))
  BY DEF Step
<1>2. CASE PrefillSkip(i)
  BY <1>1, <1>2, PrefillSkipAdvances DEF Emits
<1>3. CASE PrefillChunk(i)
  BY <1>1, <1>3, PrefillChunkAdvances
<1>4. CASE DecodeStep(i)
  BY <1>1, <1>4, DecodeStepAdvances
<1> QED BY <1>1, <1>2, <1>3, <1>4

LEMMA StepHashes == IInv /\ Step => pool'.hashes = pool.hashes /\ call = NoCall /\ call' = call
<1> SUFFICES ASSUME IInv, Step PROVE pool'.hashes = pool.hashes /\ call = NoCall /\ call' = call
  OBVIOUS
<1>1. call = NoCall /\ call' = call
  BY DEF Step
<1>2. PICK i \in DOMAIN reqs : PrefillSkip(i) \/ PrefillChunk(i) \/ DecodeStep(i)
  BY DEF Step
<1>3. pool' = pool \/ (HasFree(pool) /\ pool' = Allocate(pool))
  BY <1>2 DEF PrefillSkip, PrefillChunk, DecodeStep
<1>4. pool'.hashes = pool.hashes
  BY <1>3, AllocateKept DEF IInv
<1> QED BY <1>1, <1>4

LEMMA StepCache ==
  ASSUME SamplerTyped, IInv, LeaseInv, CacheInv, Shared', BlocksKeyed, BlocksKeyed',
         [Next]_vars, ~AdmitThrow \/ UNCHANGED vars
  PROVE  CacheInv' /\ SlotsKept
<1>1. CASE Admit
  BY <1>1, AdmitCallCache DEF Admit
<1>2. CASE \E i \in DOMAIN reqs : ReleaseCall(i)
  BY <1>2, ReleaseCallCache
<1>3. CASE InCall
  BY <1>3, AdmitBlockCache, AdmitReturnCache, ReleaseNextCache, UnchangedCache DEF InCall
<1>4. CASE Step
  <2>1. PICK i \in DOMAIN reqs : \E z : Picked(i) /\ Advanced(i, z)
    BY <1>4, StepAdvances
  <2>2. PICK z : Picked(i) /\ Advanced(i, z)
    BY <2>1
  <2> QED BY <1>4, <2>2, StepHashes, AdvancedInv
<1> QED BY <1>1, <1>2, <1>3, <1>4, UnchangedCache DEF Next

-----------------------------------------------------------------------------
(* No admission runs out of pages half-way. *)
AdmitsComplete == [][~AdmitThrow]_vars

(* While admissions complete, every registered page holds its block or has *)
(* a writer, every request's cached positions are filled or pending for an *)
(* earlier request, and no step of admit(), step() or release_all()        *)
(* replaces an entry a live request relies on.                             *)
THEOREM CacheSound ==
  ASSUME SamplerTyped
  PROVE  Spec /\ AdmitsComplete => []CacheInv /\ [][SlotsKept]_vars
<1>1. IInv /\ LeaseInv /\ CacheInv /\ Shared' /\ BlocksKeyed /\ BlocksKeyed' /\ [Next]_vars /\ [~AdmitThrow]_vars
      => CacheInv' /\ [SlotsKept]_vars
  BY StepCache
<1> QED BY <1>1, InitCache, SharedInv, LeasesSound, PTL DEF Spec, AdmitsComplete

(* "K/V for [0, lcp_blocks * page_size) is already valid in the pool": the *)
(* request whose turn it is reads the K/V of its own tokens, although the  *)
(* pages it shares were leased before their owner ran.                     *)
THEOREM CachedPrefixKept ==
  ASSUME SamplerTyped
  PROVE  Spec /\ AdmitsComplete => []CachedPrefixValid
<1>1. IInv /\ CacheInv => CachedPrefixValid
  BY PickedCache DEF CachedPrefixValid
<1> QED BY <1>1, CacheSound, SchedulerSound, PTL

(* Chunks, decode steps and recycled pages never replace a K/V entry that  *)
(* a live request relies on.                                               *)
THEOREM SlotsStayPut ==
  ASSUME SamplerTyped
  PROVE  Spec /\ AdmitsComplete => CachedSlotsStable
<1>1. SlotsKept => \A i \in DOMAIN reqs : reqs[i].status # "Done" =>
                     \A j \in 0 .. reqs[i].len - 1 :
                       Slot(reqs[i], j) = SubSeq(Stream(reqs[i]), 1, j + 1) =>
                         Slot(reqs[i], j)' = Slot(reqs[i], j)
  BY DEF SlotsKept
<1> QED BY <1>1, CacheSound, PTL DEF CachedSlotsStable

-----------------------------------------------------------------------------
(* The scheduler as a client sees it. *)
LEMMA ServedInit == Init => Service!Init
<1> SUFFICES ASSUME Init PROVE Service!Init
  OBVIOUS
<1>1. DOMAIN reqs = {}
  BY DEF Init
<1>2. [i \in DOMAIN reqs |-> Promise(reqs[i])] = << >>
  BY <1>1
<1> QED BY <1>2 DEF Service!Init, Promised

(* A request added, as a client sees it. *)
LEMMA PromisedAppend ==
  ASSUME NEW S, NEW rs \in Seq(S), NEW z
  PROVE  Promised(Append(rs, z)) = Append(Promised(rs), Promise(z))
<1> DEFINE n == Len(rs)
           T == S \cup {z}
           q == Append(rs, z)
           u == Promised(rs)
<1>1. /\ n \in Nat /\ DOMAIN rs = 1 .. n /\ DOMAIN q = 1 .. n + 1
      /\ \A i \in 1 .. n : q[i] = rs[i]
      /\ q[n + 1] = z
  <2>1. rs \in Seq(T) /\ z \in T
    OBVIOUS
  <2> QED BY <2>1
<1> HIDE DEF q
<1>2. Promised(q) = [i \in 1 .. n + 1 |-> Promise(q[i])]
  BY <1>1 DEF Promised
<1>3. u = [i \in 1 .. n |-> Promise(rs[i])]
  BY <1>1 DEF Promised
<1> DEFINE R == {Promise(q[i]) : i \in 1 .. n + 1}
<1>4. u \in [1 .. n -> R] /\ Promised(q) \in [1 .. n + 1 -> R] /\ Promise(z) \in R /\ n + 1 \in Nat
  <2>1. \A i \in 1 .. n : i \in 1 .. n + 1 /\ u[i] = Promise(q[i])
    BY <1>1, <1>3
  <2>2. n + 1 \in 1 .. n + 1
    BY <1>1
  <2> QED BY <1>1, <1>2, <1>3, <2>1, <2>2
<1> DEFINE v == Promised(q)
           e == Promise(z)
<1>5. \A i \in 1 .. n : u[i] = v[i] /\ v[n + 1] = e
  BY <1>1, <1>2, <1>3
<1>6. v[n + 1] = e
  BY <1>1, <1>2
<1> HIDE DEF u, R, v, e
<1>7. u \in Seq(R) /\ v \in Seq(R) /\ e \in R
  BY <1>1, <1>4, FunctionIsSeq DEF v, e
<1>8. Len(u) = n /\ Len(v) = n + 1
  BY <1>1, <1>4, <1>7 DEF v
<1>9. /\ Append(u, e) \in Seq(R) /\ Len(Append(u, e)) = n + 1
      /\ \A i \in 1 .. n + 1 : Append(u, e)[i] = v[i]
  BY <1>1, <1>5, <1>6, <1>7, <1>8
<1>10. v = Append(u, e)
  BY <1>7, <1>8, <1>9, SeqEqual
<1> QED BY <1>10 DEF q, u, v, e

(* A request replaced, as a client sees it. *)
LEMMA PromisedExcept ==
  ASSUME NEW rs, NEW i \in DOMAIN rs, NEW z
  PROVE  Promised([rs EXCEPT ![i] = z]) = [Promised(rs) EXCEPT ![i] = Promise(z)]
BY DEF Promised

(* Every step submits a request, emits a token of one, or is invisible.    *)
LEMMA ServedStep ==
  ASSUME SamplerTyped, IInv, LeaseInv, CacheInv, [Next]_vars
  PROVE  LET served == Promised(reqs)
             after == Promised(reqs')
         IN  \/ after = served
             \/ \E prompt \in Prompts, budget \in Budgets :
                  after = Append(served, Service!Request(prompt, budget))
             \/ \E i \in DOMAIN served :
                  /\ ~served[i].done
                  /\ \E t \in Sampled(served[i].prompt \o served[i].out) :
                       LET out == Append(served[i].out, t)
                       IN  after = [served EXCEPT ![i].out = out,
                                     ![i].done = (t = Eos \/ Len(out) >= served[i].budget)]
<1> DEFINE served == Promised(reqs)
           after == Promised(reqs')
<1>1. CASE reqs' = reqs
  BY <1>1
<1>2. CASE AdmitReturn
  <2>1. PICK c \in AdmitCalls :
          c.cached <= FullBlocks(c.prompt) /\ c.cached <= Len(c.table) /\ reqs' = Append(reqs, Request(c))
    BY <1>2, ReturnSound
  <2>2. c.prompt \in Prompts /\ c.budget \in Budgets
    BY DEF AdmitCalls
  <2>3. Promise(Request(c)) = Service!Request(c.prompt, c.budget)
    BY DEF Promise, Request, Service!Request
  <2>4. after = Append(served, Promise(Request(c)))
    BY <2>1, PromisedAppend DEF IInv
  <2> QED BY <2>2, <2>3, <2>4
<1>3. ASSUME NEW i \in DOMAIN reqs, ReleaseCall(i) PROVE after = served
  <2> DEFINE z == [reqs[i] EXCEPT !.released = TRUE]
  <2>1. reqs' = [reqs EXCEPT ![i] = z] /\ Promise(z) = Promise(reqs[i])
    BY <1>3 DEF ReleaseCall, Promise
  <2> HIDE DEF z
  <2>2. after = [served EXCEPT ![i] = Promise(z)]
    BY <2>1, PromisedExcept
  <2>3. i \in DOMAIN served /\ served[i] = Promise(z) /\ served = [x \in DOMAIN served |-> served[x]]
    BY <2>1 DEF Promised
  <2> HIDE DEF served, after
  <2> QED BY <2>2, <2>3
<1>4. CASE Step
  <2>1. PICK i \in DOMAIN reqs : \E z : Picked(i) /\ Advanced(i, z) /\ Emits(reqs[i], z)
    BY <1>4, StepAdvances
  <2>2. PICK z : Picked(i) /\ Advanced(i, z) /\ Emits(reqs[i], z)
    BY <2>1
  <2>3. /\ reqs[i].status # "Done" /\ reqs' = [reqs EXCEPT ![i] = z] /\ z.prompt = reqs[i].prompt
        /\ z.budget = reqs[i].budget
    BY <2>2 DEF Picked, Advanced, Longer, Emits
  <2>4. after = [served EXCEPT ![i] = Promise(z)]
    BY <2>3, PromisedExcept, Zenon
  <2>5. /\ i \in DOMAIN served /\ served[i] = Promise(reqs[i])
        /\ served[i].prompt = reqs[i].prompt /\ served[i].out = reqs[i].gen
        /\ served[i].budget = reqs[i].budget /\ served[i].done = FALSE
    BY <2>3 DEF Promised, Promise
  <2>6. CASE z.gen = reqs[i].gen /\ z.status # "Done"
    <3>1. Promise(z) = served[i]
      BY <2>3, <2>5, <2>6 DEF Promise
    <3> QED BY <2>4, <2>5, <3>1 DEF Promised
  <2>7. ASSUME NEW t \in Sampled(Stream(reqs[i])), z.gen = Append(reqs[i].gen, t),
               z.status = "Done" <=> t = Eos \/ Len(z.gen) >= z.budget
        PROVE  \E x \in Sampled(served[i].prompt \o served[i].out) :
                 LET out == Append(served[i].out, x)
                 IN  after = [served EXCEPT ![i].out = out,
                               ![i].done = (x = Eos \/ Len(out) >= served[i].budget)]
    <3>1. t \in Sampled(served[i].prompt \o served[i].out)
      BY <2>5 DEF Stream
    <3> DEFINE out == Append(served[i].out, t)
               done == (t = Eos \/ Len(out) >= served[i].budget)
    <3>2. Promise(z) = [prompt |-> reqs[i].prompt, budget |-> reqs[i].budget, out |-> out, done |-> done]
      BY <2>3, <2>5, <2>7 DEF Promise
    <3>3. PICK d, e : /\ served[i] = [prompt |-> reqs[i].prompt, budget |-> reqs[i].budget,
                                     out |-> reqs[i].gen, done |-> d]
                      /\ e = done
      BY <2>5 DEF Promise
    <3> DEFINE f == [served EXCEPT ![i].out = out]
               x == [prompt |-> reqs[i].prompt, budget |-> reqs[i].budget, out |-> out, done |-> d]
               y == [prompt |-> reqs[i].prompt, budget |-> reqs[i].budget, out |-> out, done |-> e]
    <3>4. [f EXCEPT ![i].done = e] = [served EXCEPT ![i] = y]
      <4> HIDE DEF out, done, served
      <4>1. [served[i] EXCEPT !.out = out] = x /\ [x EXCEPT !.done = e] = y
        BY <3>3
      <4>2. f = [served EXCEPT ![i] = x]
        BY <4>1
      <4> HIDE DEF f, x, y
      <4>3. f[i] = x /\ DOMAIN f = DOMAIN served /\ \A j \in DOMAIN served \ {i} : f[j] = served[j]
        BY <2>5, <4>2
      <4>4. [f EXCEPT ![i].done = e] = [f EXCEPT ![i] = y]
        BY <4>1, <4>3
      <4>5. [f EXCEPT ![i] = y] = [served EXCEPT ![i] = y]
        BY <4>3
      <4> QED BY <4>4, <4>5
    <3> QED BY <2>4, <3>1, <3>2, <3>3, <3>4
  <2> QED BY <2>2, <2>5, <2>6, <2>7, Zenon DEF Emits
<1> QED BY <1>1, <1>2, <1>3, <1>4, Zenon
        DEF Next, InCall, Admit, AdmitCall, AdmitBlock, AdmitThrow, ReleaseNext, vars

(* Each client receives tokens the model may emit after its own prompt and *)
(* reply, until the end token or its budget: admit(), prefill chunks and   *)
(* decode steps over shared pages implement the service.                   *)
THEOREM SchedulerServes ==
  ASSUME SamplerTyped
  PROVE  Spec /\ AdmitsComplete => ImplementsTokenService
<1>1. IInv /\ LeaseInv /\ CacheInv /\ [Next]_vars => [Service!Next]_(Promised(reqs))
  BY ServedStep DEF Service!Next, Service!Submit, Service!Emit, Promised, Promise
<1> QED BY <1>1, ServedInit, CacheSound, LeasesSound, PTL DEF ImplementsTokenService, Service!Spec, Spec
=============================================================================
