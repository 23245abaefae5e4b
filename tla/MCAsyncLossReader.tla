------------------------- MODULE MCAsyncLossReader -------------------------
(* On the CPU the loop that polls in every tenth step, its writer far past *)
(* its reader; on the GPU loops that poll in every step and in every third *)
(* and lap the ring once.                                                  *)
EXTENDS AsyncLossReader

TrainLoops ==
  { [cuda |-> FALSE, pollEvery |-> 10, steps |-> 61],
    [cuda |-> TRUE, pollEvery |-> 1, steps |-> 6],
    [cuda |-> TRUE, pollEvery |-> 3, steps |-> 6] }
=============================================================================
