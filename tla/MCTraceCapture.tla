--------------------------- MODULE MCTraceCapture ---------------------------
(* A first block that computes a value, a pointer and a value, stores, and *)
(* branches; a second one that computes a value and returns.  The values   *)
(* are a lane's input, its input plus one, and its input doubled.          *)
EXTENDS TraceCapture

Inst(op, v, capturable) ==
  [op |-> op, value |-> v, capturable |-> capturable, site |-> 0]

MCProgram ==
  << << Inst("value", "a", TRUE), Inst("value", "p", FALSE), Inst("value", "b", TRUE),
        Inst("store", NoValue, FALSE), Inst("branch", NoValue, FALSE) >>,
     << Inst("value", "c", TRUE), Inst("return", NoValue, FALSE) >> >>

MCCompute(v, x) ==
  CASE v = "a" -> x [] v = "b" -> (x + 1) % Pow2[ValueBits] [] v = "c" -> (2 * x) % Pow2[ValueBits]

MCFilters == {{"a", "b", "c"}, {"a", "c"}}
MCMasks   == {<< >>, <<1, 0, 1, 1>>, <<0, 1, 0, 0>>}
=============================================================================
