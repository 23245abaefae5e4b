----------------------------- MODULE BlockPool -----------------------------
(***************************************************************************)
(* The bookkeeping of olmo_cpp's SharedBlockPool as operators on one       *)
(* record, so that a module which makes several pool calls in one step     *)
(* (Scheduler) and the module about the pool itself (SharedBlockPool) use  *)
(* the same definitions.  An operator is a method of the class; the        *)
(* record is its private state:                                            *)
(*   free    free_list_, a LIFO stack: the last element is handed out next *)
(*   refs    ref_counts_                                                   *)
(*   hashes  page_hashes_, with NoHash for the sentinel 0                  *)
(*   index   hash_to_page_, with NoPage for an absent key                  *)
(* A hash is a member of Hashes: hash_block is taken to be free of         *)
(* collisions.                                                             *)
(***************************************************************************)
EXTENDS Integers, Sequences

CONSTANTS
  MaxPages,  \* max_pages_: physical pages of the pool
  Hashes,    \* the values hash_block can return (never the sentinel)
  NoHash     \* the sentinel 0 of page_hashes_

ASSUME PoolAssumption == MaxPages \in Nat \ {0} /\ NoHash \notin Hashes

Pages == 0 .. MaxPages - 1
NoPage == -1

PoolType ==
  [ free   : Seq(Pages),
    refs   : [Pages -> Nat],
    hashes : [Pages -> Hashes \cup {NoHash}],
    index  : [Hashes -> Pages \cup {NoPage}] ]

-----------------------------------------------------------------------------
(* The constructor pushes the pages in descending order, so that the first *)
(* one handed out is page 0.                                               *)
EmptyPool ==
  [ free   |-> [i \in 1 .. MaxPages |-> MaxPages - i],
    refs   |-> [p \in Pages |-> 0],
    hashes |-> [p \in Pages |-> NoHash],
    index  |-> [h \in Hashes |-> NoPage] ]

(* allocate() throws "out of pages" exactly when this is false. *)
HasFree(q) == q.free # << >>

TopFree(q) == q.free[Len(q.free)]

(* Mutant: the page is handed out but stays on the free list. *)
AllocateKeeps(q) == [ q EXCEPT !.refs[TopFree(q)] = 1 ]

(* allocate(), when the free list is not empty; it hands out TopFree(q). *)
Allocate(q) ==
  [ q EXCEPT !.free = SubSeq(@, 1, Len(@) - 1),
             !.refs[TopFree(q)] = 1 ]

Hit(q, h) == q.index[h] # NoPage

(* The page find_or_lease returns for the block hashed to h. *)
LeasedPage(q, h) == IF Hit(q, h) THEN q.index[h] ELSE TopFree(q)

(* inc_ref(), of a page in use. *)
IncRef(q, p) == [ q EXCEPT !.refs[p] = @ + 1 ]

(* A page that allocate() has just handed out is entered under its hash. *)
Register(q, p, h) ==
  [ q EXCEPT !.hashes[p] = h,
             !.index[h] = p ]

(* Mutant: a hit returns the page without counting the new reference. *)
FindOrLeaseUncounted(q, h) ==
  IF Hit(q, h) THEN q ELSE Register(Allocate(q), TopFree(q), h)

(* find_or_lease(), when it does not throw: a hit bumps the count of the   *)
(* page entered under h, a miss allocates and registers.                   *)
FindOrLease(q, h) ==
  IF Hit(q, h) THEN IncRef(q, q.index[h])
               ELSE Register(Allocate(q), TopFree(q), h)

CanLease(q, h) == Hit(q, h) \/ HasFree(q)

(* Mutant: the page forgets its hash but stays in the table. *)
UnregisterPageOnly(q, p) == [ q EXCEPT !.hashes[p] = NoHash ]

(* The hash entry of page p goes only if it still points to p. *)
Unregister(q, p) ==
  LET h == q.hashes[p]
  IN  IF h = NoHash THEN q
      ELSE [ q EXCEPT !.hashes[p] = NoHash,
                      !.index[h] = IF @ = p THEN NoPage ELSE @ ]

(* A page whose count has dropped to zero. *)
Release(q, p) ==
  [ Unregister(q, p) EXCEPT !.free = Append(@, p) ]

(* Mutant: the page is freed without a look at the count. *)
DecRefFrees(q, p) == Release([ q EXCEPT !.refs[p] = @ - 1 ], p)

(* dec_ref(): the last reference drops the hash entry and frees the page. *)
DecRef(q, p) ==
  LET r == [ q EXCEPT !.refs[p] = @ - 1 ]
  IN  IF r.refs[p] = 0 THEN Release(r, p) ELSE r

-----------------------------------------------------------------------------
(* The free list holds every page without a reference, and holds it once:  *)
(* a page handed out twice, or freed and lost, would break this.           *)
FreeExact(q) ==
  /\ \A i, j \in DOMAIN q.free : q.free[i] = q.free[j] => i = j
  /\ \A p \in Pages : q.refs[p] = 0 <=> \E i \in DOMAIN q.free : q.free[i] = p

(* hash_to_page_ and page_hashes_ are inverse to each other, and no free   *)
(* page is registered: a lookup cannot return a stale page, although       *)
(* allocate() resets neither table.                                        *)
IndexExact(q) ==
  /\ \A h \in Hashes, p \in Pages : q.index[h] = p <=> q.hashes[p] = h
  /\ \A p \in Pages : q.refs[p] = 0 => q.hashes[p] = NoHash
=============================================================================
