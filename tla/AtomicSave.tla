----------------------------- MODULE AtomicSave -----------------------------
(***************************************************************************)
(* What a checkpoint promises a training run: the run learns from batches, *)
(* what it has learned is saved as a whole or not at all, a crash costs    *)
(* only what was learned since, and a resumed run continues from exactly   *)
(* what was saved.  A power loss may bring back an older state or leave    *)
(* one that cannot be resumed from, never a wrong one.                     *)
(***************************************************************************)
EXTENDS Naturals, Sequences

CONSTANTS Nothing, Broken

VARIABLES
  live,   \* the batches the running model has learned from, in order
  saved,  \* the batches the checkpoint has learned from; Nothing; Broken
  safe,   \* the checkpoint that a power loss cannot take away
  settled \* whether it is the saved one

vars == <<live, saved, safe, settled>>

Init == live = << >> /\ saved = Nothing /\ safe = Nothing /\ settled = TRUE

(* live grows; what it held stays. *)
Learn ==
  /\ Len(live') > Len(live)
  /\ SubSeq(live', 1, Len(live)) = live
  /\ UNCHANGED <<saved, safe, settled>>

Save == saved' = live /\ settled' = FALSE /\ UNCHANGED <<live, safe>>

Settle == safe' = saved /\ settled' = TRUE /\ UNCHANGED <<live, saved>>

Crash == live' = << >> /\ UNCHANGED <<saved, safe, settled>>

Resume ==
  /\ live = << >> /\ saved \notin {Nothing, Broken}
  /\ live' = saved
  /\ UNCHANGED <<saved, safe, settled>>

PowerLoss ==
  /\ live' = << >>
  /\ saved' = safe \/ (~settled /\ saved' = Broken)
  /\ safe' = saved' /\ settled' = TRUE

Next == Learn \/ Save \/ Settle \/ Crash \/ Resume \/ PowerLoss

Spec == Init /\ [][Next]_vars
=============================================================================
