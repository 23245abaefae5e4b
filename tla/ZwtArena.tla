------------------------------ MODULE ZwtArena ------------------------------
(***************************************************************************)
(* ArenaAllocator under any sequence of alloc() and free() of tensors that *)
(* own scratch storage, and of the reset() of step_begin() once none is    *)
(* left.                                                                   *)
(***************************************************************************)
EXTENDS Arena

CONSTANTS
  Tensors,    \* the tensors that can own scratch storage
  MaxBytes    \* bound: size of a request

ASSUME RequestsAssumption == MaxBytes \in Nat

vars == <<arena, own>>

Init == arena = EmptyArena /\ own = NoTensors

(* step_begin() between two steps, when every scratch tensor is gone. *)
ResetCall ==
  /\ Live = {}
  /\ arena' = EmptyArena
  /\ UNCHANGED own

Next ==
  \/ \E t \in Tensors \ Live, bytes \in 1 .. MaxBytes : AllocCall(t, bytes)
  \/ \E t \in Tensors : FreeCall(t)
  \/ ResetCall

Spec == Init /\ [][Next]_vars

-----------------------------------------------------------------------------
TypeOK ==
  /\ arena \in [offset : 0 .. Capacity, free : Seq(Blocks)]
  /\ Live \subseteq Tensors /\ own \in [Live -> Blocks]
=============================================================================
