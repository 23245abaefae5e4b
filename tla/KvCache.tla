------------------------------ MODULE KvCache ------------------------------
(***************************************************************************)
(* The two key/value caches a generation loop may decode over, as          *)
(* operators on records: LayerKVCache (one growing buffer per layer) and   *)
(* PagedKVCache (pages handed out by a BlockManager).  An entry stands for *)
(* the K and V of one token:                                               *)
(*   tok   the token it was computed from                                  *)
(*   pos   the position its rotary embedding was given                     *)
(*   sees  how many cached entries the attention row that computed it saw  *)
(* All layers of a cache hold the same entries (in PagedKVCache layer 0    *)
(* leads and the others write the slots it reserved), so one layer stands  *)
(* for all of them.                                                        *)
(***************************************************************************)
EXTENDS Integers, Sequences, SequencesExt

CONSTANTS
  Tokens,     \* the vocabulary
  BufferLen,  \* max_seq_len of LayerKVCache::update: the first allocation
  PageSize,   \* slots of a page
  MaxPages,   \* pages of the BlockManager
  Blank       \* what a slot holds that was never written

ASSUME CacheAssumption ==
  /\ BufferLen \in Nat \ {0}
  /\ PageSize \in Nat \ {0}
  /\ MaxPages \in Nat \ {0}
  /\ Blank \notin [tok : Tokens, pos : Nat, sees : Nat]

Entry == [tok : Tokens, pos : Nat, sees : Nat]

Larger(m, n) == IF m >= n THEN m ELSE n

-----------------------------------------------------------------------------
(* LayerKVCache: the entries below the cursor len_, and the length of the  *)
(* buffer (0 while it is not allocated).  What lies above the cursor is    *)
(* never read: update() returns a view of the entries below it.            *)

EmptyBuffer == [filled |-> << >>, cap |-> 0]

(* update(): allocate on the first call, append in place while the buffer  *)
(* has room, else move to a buffer twice as long (or longer, if need be).  *)
Update(c, new) ==
  LET need == Len(c.filled) + Len(new)
  IN  [ filled |-> c.filled \o new,
        cap |-> IF c.cap = 0 THEN BufferLen
                ELSE IF need <= c.cap THEN c.cap ELSE Larger(2 * c.cap, need) ]

(* truncate(): a cursor move; at 0 the buffer itself is dropped. *)
Truncate(c, len) ==
  IF len <= 0 THEN EmptyBuffer
  ELSE IF len < Len(c.filled) THEN [c EXCEPT !.filled = SubSeq(@, 1, len)]
  ELSE c

-----------------------------------------------------------------------------
(* PagedKVCache over BlockManager: free_list_ (a stack), page_table_, the  *)
(* slots of every page, the cursor logical_len_ and external_advance_.     *)

Pages == 0 .. MaxPages - 1
Slots == 0 .. PageSize - 1

PagedType ==
  [ free     : Seq(Pages),
    table    : Seq(Pages),
    slot     : [Pages -> [Slots -> Entry \cup {Blank}]],
    len      : Nat,
    external : BOOLEAN ]

(* The constructors: pages are pushed in reverse, so page 0 is popped first. *)
EmptyPaged ==
  [ free     |-> [i \in 1 .. MaxPages |-> MaxPages - i],
    table    |-> << >>,
    slot     |-> [p \in Pages |-> [s \in Slots |-> Blank]],
    len      |-> 0,
    external |-> FALSE ]

(* blocks_needed, and what is missing of them. *)
BlocksFor(len) == (len + PageSize - 1) \div PageSize

(* Mutant: the new entries get pages of their own. *)
MissingFresh(c, n) == BlocksFor(n)

Missing(c, n) == Larger(BlocksFor(c.len + n) - Len(c.table), 0)

(* BlockManager::allocate throws "out of pages" exactly when this is false. *)
CanReserve(c, n) == Missing(c, n) <= Len(c.free)

(* The pages allocate(n) pops off the stack, in the order it pops them. *)
Popped(c, n) == [i \in 1 .. n |-> c.free[Len(c.free) + 1 - i]]

(* advance_cursor(n), and what append() does on layer 0: hand out the      *)
(* missing pages, move the cursor (and mirror both to the device).         *)
Reserve(c, n) ==
  LET m == Missing(c, n)
  IN  [ c EXCEPT !.free  = SubSeq(@, 1, Len(@) - m),
                 !.table = @ \o Popped(c, m),
                 !.len   = @ + n ]

PageOf(c, g) == c.table[g \div PageSize + 1]
SlotOf(g) == g % PageSize

(* write_layer_slots_ (paged_kv_write_dyn in the graph-safe cache): the    *)
(* last Len(new) positions below the cursor receive new.                   *)
Write(c, new) ==
  LET start == c.len - Len(new)
  IN  [ c EXCEPT !.slot = [p \in Pages |-> [s \in Slots |->
          IF \E i \in DOMAIN new : /\ PageOf(c, start + i - 1) = p
                                   /\ SlotOf(start + i - 1) = s
          THEN new[CHOOSE i \in DOMAIN new : /\ PageOf(c, start + i - 1) = p
                                             /\ SlotOf(start + i - 1) = s]
          ELSE c.slot[p][s]]] ]

(* append() on every layer: under external_advance_ the caller has already *)
(* moved the cursor, otherwise layer 0 does.                               *)
AppendPaged(c, new) ==
  Write(IF c.external THEN c ELSE Reserve(c, Len(new)), new)

(* What materialize() gathers and the paged kernel walks. *)
View(c) ==
  [i \in 1 .. c.len |-> c.slot[PageOf(c, i - 1)][SlotOf(i - 1)]]

(* Page table and free list partition the pages, and the table covers the  *)
(* cursor without a page to spare.                                         *)
PagesPartitioned(c) ==
  /\ IsInjective(c.table)
  /\ IsInjective(c.free)
  /\ Range(c.table) \cap Range(c.free) = {}
  /\ Range(c.table) \cup Range(c.free) = Pages

TableCovers(c) == Len(c.table) = BlocksFor(c.len)
=============================================================================
