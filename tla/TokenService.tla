---------------------------- MODULE TokenService ----------------------------
(***************************************************************************)
(* What a server of generation requests promises: each request receives,   *)
(* one by one, tokens the model may emit after its prompt and the tokens   *)
(* it already has, and stops at the end-of-sequence token or at its        *)
(* budget.  Nothing here knows of pages, caches, chunks or turns.          *)
(***************************************************************************)
EXTENDS Naturals, Sequences

CONSTANTS
  Prompts,    \* prompts a client may submit
  Budgets,    \* values of max_new_tokens
  Eos,        \* the end-of-sequence token
  Sampled(_)  \* the tokens the model may emit after a sequence

VARIABLE served  \* the requests in order of admission

Request(prompt, budget) ==
  [prompt |-> prompt, budget |-> budget, out |-> << >>, done |-> FALSE]

Init == served = << >>

Submit ==
  \E prompt \in Prompts, budget \in Budgets :
    served' = Append(served, Request(prompt, budget))

Emit(i) ==
  /\ ~served[i].done
  /\ \E t \in Sampled(served[i].prompt \o served[i].out) :
       LET out == Append(served[i].out, t)
       IN  served' = [served EXCEPT ![i].out = out,
                        ![i].done = (t = Eos \/ Len(out) >= served[i].budget)]

Next == Submit \/ \E i \in DOMAIN served : Emit(i)

Spec == Init /\ [][Next]_served
=============================================================================
