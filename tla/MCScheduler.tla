---------------------------- MODULE MCScheduler ----------------------------
(* Instances of the scheduler for TLC: two tokens and an end token, pages  *)
(* of two slots, prompts that share no block, one block or two blocks.     *)
EXTENDS Scheduler

CONSTANTS a, b, end

MCTokens == {a, b, end}

(* No prompt fills its last page, so none can be cached in full. *)
PartialPrompts == { <<a, b, a>>, <<a, b, b>>, <<a, b, a, b, b>> }

(* Prompts that fill their pages. *)
AlignedPrompts == { <<a, b>>, <<a, b, a, b>>, <<a, a, b>> }

MixedPrompts == { <<a, b>>, <<a, b, a, b>>, <<a, b, a>>, <<a, b, a, b, b>> }

(* Greedy decoding after most sequences; after an even number of tokens    *)
(* the sampler may also stop.                                              *)
MCSampled(s) ==
  IF Len(s) % 2 = 0 THEN {s[Len(s)], end} ELSE {IF s[Len(s)] = a THEN b ELSE a}
=============================================================================
