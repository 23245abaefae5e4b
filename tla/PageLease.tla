----------------------------- MODULE PageLease -----------------------------
(***************************************************************************)
(* What the shared pool promises its callers, without free list, reference *)
(* counts or hash table.  A handle is one reference some caller holds; a   *)
(* page is free exactly when no handle refers to it, and a page has a key  *)
(* from the lookup that created it until its last handle is gone.  Asking  *)
(* for a key that some held page carries shares that page; every other     *)
(* request gets a page nobody else holds.                                  *)
(***************************************************************************)
CONSTANTS Handles, Pages, Hashes, NoHash, NoPage

VARIABLES
  lease,  \* the page each handle refers to, or NoPage
  key     \* the hash each page is known under, or NoHash

vars == <<lease, key>>

Holders(p) == {h \in Handles : lease[h] = p}

Idle(h) == lease[h] = NoPage

Init ==
  /\ lease = [h \in Handles |-> NoPage]
  /\ key = [p \in Pages |-> NoHash]

(* A handle gets a page of its own, known under k (NoHash: anonymous). *)
Fresh(h, k) ==
  \E p \in Pages :
    /\ Holders(p) = {}
    /\ lease' = [lease EXCEPT ![h] = p]
    /\ key' = [key EXCEPT ![p] = k]

(* A handle joins the holders of p. *)
Share(h, p) ==
  /\ Holders(p) # {}
  /\ lease' = [lease EXCEPT ![h] = p]
  /\ UNCHANGED key

Lookup(h, k) ==
  /\ Idle(h)
  /\ \/ \E p \in Pages : key[p] = k /\ Share(h, p)
     \/ (\A p \in Pages : key[p] # k) /\ Fresh(h, k)

Anonymous(h) == Idle(h) /\ Fresh(h, NoHash)

Dup(h, g) == Idle(h) /\ ~Idle(g) /\ Share(h, lease[g])

(* The last handle of a page takes the key of the page with it. *)
Drop(h) ==
  /\ ~Idle(h)
  /\ lease' = [lease EXCEPT ![h] = NoPage]
  /\ key' = IF Holders(lease[h]) = {h}
              THEN [key EXCEPT ![lease[h]] = NoHash] ELSE key

Next ==
  \E h \in Handles :
    \/ Anonymous(h)
    \/ \E k \in Hashes : Lookup(h, k)
    \/ \E g \in Handles : Dup(h, g)
    \/ Drop(h)

Spec == Init /\ [][Next]_vars
=============================================================================
