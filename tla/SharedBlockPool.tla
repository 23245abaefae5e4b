-------------------------- MODULE SharedBlockPool --------------------------
(***************************************************************************)
(* The shared, reference-counted, content-hashed page pool under any       *)
(* sequence of calls by callers that keep count of what they hold.  A      *)
(* handle is one outstanding reference: the result of one allocate(), one  *)
(* find_or_lease() or one inc_ref(), until the dec_ref() that returns it.  *)
(* The pool is serialised by its caller (shared_block_pool.hpp), so a call *)
(* is one step; release_all() is a loop of dec_ref() calls and is modelled *)
(* one element at a time, with no other call in between.                   *)
(***************************************************************************)
EXTENDS BlockPool, FiniteSets

CONSTANT Handles

ASSUME HandlesAssumption == IsFiniteSet(Handles)

VARIABLES
  pool,      \* the state of the pool
  lease,     \* the page each handle refers to, or NoPage
  releasing  \* the elements release_all() has still to return

vars == <<pool, lease, releasing>>

Holders(p) == {h \in Handles : lease[h] = p}

Held == {h \in Handles : lease[h] # NoPage}

TypeOK ==
  /\ pool \in PoolType
  /\ lease \in [Handles -> Pages \cup {NoPage}]
  /\ releasing \subseteq Held

-----------------------------------------------------------------------------
Init ==
  /\ pool = EmptyPool
  /\ lease = [h \in Handles |-> NoPage]
  /\ releasing = {}

(* The caller starts a call for a reference it does not hold yet. *)
Idle(h) == releasing = {} /\ lease[h] = NoPage

AllocateCall(h) ==
  /\ Idle(h)
  /\ HasFree(pool)
  /\ pool' = Allocate(pool)
  /\ lease' = [lease EXCEPT ![h] = TopFree(pool)]
  /\ UNCHANGED releasing

FindOrLeaseCall(h, k) ==
  /\ Idle(h)
  /\ CanLease(pool, k)
  /\ pool' = FindOrLease(pool, k)
  /\ lease' = [lease EXCEPT ![h] = LeasedPage(pool, k)]
  /\ UNCHANGED releasing

(* inc_ref() on a page the caller knows from the reference g. *)
IncRefCall(h, g) ==
  /\ Idle(h)
  /\ g \in Held
  /\ pool.refs[lease[g]] > 0
  /\ pool' = IncRef(pool, lease[g])
  /\ lease' = [lease EXCEPT ![h] = lease[g]]
  /\ UNCHANGED releasing

(* dec_ref() checks that the page is not already free. *)
GiveBack(h) ==
  /\ pool.refs[lease[h]] > 0
  /\ pool' = DecRef(pool, lease[h])
  /\ lease' = [lease EXCEPT ![h] = NoPage]

DecRefCall(h) ==
  /\ releasing = {}
  /\ h \in Held
  /\ GiveBack(h)
  /\ UNCHANGED releasing

(* release_all(pages): a page that occurs twice is two references. *)
ReleaseAllCall(S) ==
  /\ releasing = {}
  /\ S # {}
  /\ S \subseteq Held
  /\ releasing' = S
  /\ UNCHANGED <<pool, lease>>

(* One iteration.  Any order of the vector is possible. *)
ReleaseNext(h) ==
  /\ h \in releasing
  /\ GiveBack(h)
  /\ releasing' = releasing \ {h}

Next ==
  \/ \E h \in Handles : AllocateCall(h)
  \/ \E h \in Handles, k \in Hashes : FindOrLeaseCall(h, k)
  \/ \E h, g \in Handles : IncRefCall(h, g)
  \/ \E h \in Handles : DecRefCall(h)
  \/ \E S \in SUBSET Handles : ReleaseAllCall(S)
  \/ \E h \in Handles : ReleaseNext(h)

Spec == Init /\ [][Next]_vars

-----------------------------------------------------------------------------
(* The free list is exact under any sequence of calls: allocate() never    *)
(* hands out a page somebody holds, and no page is ever lost.              *)
FreeListExact == FreeExact(pool)

(* ref_counts_[p] is the number of references callers hold on p, in the    *)
(* middle of a release_all() too.                                          *)
RefsCountHolders ==
  \A p \in Pages : pool.refs[p] = Cardinality(Holders(p))

(* The hash table is exact under any sequence of calls: find_or_lease()    *)
(* never returns a page that was freed, or reused for other content, since *)
(* it was entered.                                                         *)
HashTableExact == IndexExact(pool)

(* The pool implements the promise of PageLease: a page without a holder   *)
(* for every miss, the page of the same content for every hit, a key that  *)
(* lasts exactly as long as its page is held.                              *)
Promise == INSTANCE PageLease WITH key <- pool.hashes

ImplementsPageLease == Promise!Spec
=============================================================================
