--------------------------- MODULE GreedyDecoding --------------------------
(***************************************************************************)
(* What a chat program promises whatever cache it decodes over: a reply is *)
(* the greedy continuation of the conversation, one best token after the   *)
(* other, and ends with the end token or at the limit.  Nothing here knows *)
(* of caches, pages, chunks or drafts.                                     *)
(***************************************************************************)
EXTENDS Naturals, Sequences

CONSTANTS
  Eos,        \* the end-of-sequence token
  Best(_, _)  \* the token a model ranks first after a sequence of tokens

VARIABLES
  model,    \* the model in use
  history,  \* the conversation, the reply included
  limit,    \* where the reply must end
  replying  \* whether a reply is being generated

vars == <<model, history, limit, replying>>

Init ==
  /\ history = << >>
  /\ limit = 0
  /\ replying = FALSE

(* A user's turn; what is kept of the conversation is not specified. *)
Ask ==
  /\ ~replying
  /\ history' # << >>
  /\ limit' \in Nat
  /\ replying' \in BOOLEAN
  /\ UNCHANGED model

(* A reply has at least one token. *)
Emit ==
  /\ replying
  /\ LET t == Best(model, history)
     IN  /\ history' = Append(history, t)
         /\ replying' = (t # Eos /\ Len(history') < limit)
  /\ UNCHANGED <<model, limit>>

(* The user may clear the conversation; the program may give up a reply. *)
Clear == ~replying /\ history' = << >> /\ UNCHANGED <<model, limit, replying>>
Fail == replying /\ replying' = FALSE /\ UNCHANGED <<model, history, limit>>

Next == Ask \/ Emit \/ Clear \/ Fail

Spec == Init /\ [][Next]_vars
=============================================================================
