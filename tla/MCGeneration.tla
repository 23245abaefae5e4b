---------------------------- MODULE MCGeneration ----------------------------
(* Instances of the generation loops for TLC: two tokens and an end token, *)
(* and models that mix every visible entry into their choice.              *)
EXTENDS Generation

CONSTANTS a, b, end, NoEntry

MCTokens == {a, b, end}

MCPrompts == { <<a>>, <<b, a, b>> }

EntryCode(e) ==
  IF e = NoEntry THEN 5
  ELSE (IF e.tok = a THEN 1 ELSE IF e.tok = b THEN 2 ELSE 0)
         + 3 * e.pos + 2 * e.sees

(* A model is a seed; about one choice in five is the end token. *)
Mixed(m, seen) ==
  LET mix[i \in 0 .. Len(seen)] ==
        IF i = 0 THEN m ELSE (3 * mix[i - 1] + EntryCode(seen[i])) % 11
  IN  mix[Len(seen)]

(* The set makes TLC evaluate the entries once. *)
MCTarget(m, seen) ==
  LET h == CHOOSE x \in {Mixed(m, s) : s \in {seen}} : TRUE
  IN  IF h \in {2, 7} THEN end ELSE IF h % 2 = 0 THEN a ELSE b
=============================================================================
