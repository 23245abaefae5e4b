-------------------------------- MODULE Arena --------------------------------
(***************************************************************************)
(* zwt's ArenaAllocator (core/allocator.cpp): a bump pointer, and a list   *)
(* of the blocks freed out of order.  An arena is a record [offset, free]; *)
(* a block is a record [off, size].  AllocCall and FreeCall are its calls  *)
(* as a Tensor makes them; ZwtArena and ZwtActivations run them.           *)
(***************************************************************************)
EXTENDS Integers, Sequences, SequencesExt

CONSTANTS
  Capacity,   \* capacity_
  Alignment   \* alignment of every allocation

Positive == Nat \ {0}

ASSUME ArenaAssumption == Capacity \in Nat /\ Alignment \in Positive

VARIABLES
  arena,  \* ArenaAllocator: offset_ and free_list_
  own     \* tensor that owns storage -> its block

EmptyArena == [offset |-> 0, free |-> << >>]

AlignUp(v) == ((v + Alignment - 1) \div Alignment) * Alignment

(* What is left of a freed block after its aligned start. *)
Usable(e) == e.size - (AlignUp(e.off) - e.off)

Fitting(a, bytes) == {i \in DOMAIN a.free : Usable(a.free[i]) >= bytes}

(* The best-fit scan: least waste, and the first of those. *)
BestFit(a, bytes) ==
  CHOOSE i \in Fitting(a, bytes) : \A j \in Fitting(a, bytes) :
    \/ Usable(a.free[i]) < Usable(a.free[j])
    \/ Usable(a.free[i]) = Usable(a.free[j]) /\ i <= j

CanBump(a, bytes) == AlignUp(a.offset) + bytes <= Capacity

CanAlloc(a, bytes) == Fitting(a, bytes) # {} \/ CanBump(a, bytes)

(* Where alloc() puts the block. *)
AllocOff(a, bytes) ==
  IF Fitting(a, bytes) # {} THEN AlignUp(a.free[BestFit(a, bytes)].off) ELSE AlignUp(a.offset)

(* Mutant: the entry stays on the free list. *)
AllocKeeps(a, bytes) ==
  IF Fitting(a, bytes) # {} THEN a ELSE [a EXCEPT !.offset = AlignUp(a.offset) + bytes]

(* Mutant: the wrong entry leaves the list. *)
AllocDropsFirst(a, bytes) ==
  IF Fitting(a, bytes) # {} THEN [a EXCEPT !.free = Tail(a.free)]
  ELSE [a EXCEPT !.offset = AlignUp(a.offset) + bytes]

(* alloc(): a fitting entry is taken whole, else the pointer is bumped. *)
Alloc(a, bytes) ==
  IF Fitting(a, bytes) # {} THEN [a EXCEPT !.free = RemoveAt(a.free, BestFit(a, bytes))]
  ELSE [a EXCEPT !.offset = AlignUp(a.offset) + bytes]

(* free(): the topmost block retracts the pointer, others are listed. *)
Free(a, b) ==
  IF b.off + b.size = a.offset THEN [a EXCEPT !.offset = b.off]
  ELSE [a EXCEPT !.free = Append(a.free, b)]

-----------------------------------------------------------------------------
(* The calls, by tensor.  A call that finds no room throws: nothing is     *)
(* handed out.                                                             *)
NoTensors == [t \in {} |-> [off |-> 0, size |-> 0]]
Put(f, t, b) == [x \in DOMAIN f \cup {t} |-> IF x = t THEN b ELSE f[x]]
Cut(f, t) == [x \in DOMAIN f \ {t} |-> f[x]]

Live == DOMAIN own

AllocCall(t, bytes) ==
  /\ CanAlloc(arena, bytes)
  /\ own' = Put(own, t, [off |-> AllocOff(arena, bytes), size |-> bytes])
  /\ arena' = Alloc(arena, bytes)

FreeCall(t) ==
  /\ t \in Live
  /\ arena' = Free(arena, own[t])
  /\ own' = Cut(own, t)

-----------------------------------------------------------------------------
Disjoint(b, c) == b.off + b.size <= c.off \/ c.off + c.size <= b.off

Below(a, b) == b.off + b.size <= a.offset

Blocks == [off : 0 .. Capacity, size : 0 .. Capacity]

(* No two tensors share a byte, whatever was freed, retracted and reused.  *)
LiveDisjoint == \A t, u \in Live : t # u => Disjoint(own[t], own[u])

(* Every byte in use is below the bump pointer: the next bump is clear of  *)
(* it.                                                                     *)
LiveBelowOffset == \A t \in Live : Below(arena, own[t])

(* A listed block is of no tensor, of no other entry, and below the bump   *)
(* pointer.                                                                *)
FreeListSound ==
  /\ \A i \in DOMAIN arena.free :
       /\ Below(arena, arena.free[i])
       /\ \A t \in Live : Disjoint(arena.free[i], own[t])
  /\ \A i, j \in DOMAIN arena.free : i # j => Disjoint(arena.free[i], arena.free[j])
=============================================================================
