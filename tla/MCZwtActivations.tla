-------------------------- MODULE MCZwtActivations --------------------------
(* Model shapes: one and two layers, every head with K and V of its own or *)
(* a pair of heads sharing one, and feed-forward widths that make the free *)
(* blocks fit differently.                                                 *)
EXTENDS ZwtActivations

ShapesOf(layers) ==
  [layers : layers, rows : {3}, seq : {3}, heads : {2}, kv : {1, 2}, dim : {1, 2},
   hidden : {3, 5}, vocab : {7}]

OneAndTwo == ShapesOf({1, 2})
One == ShapesOf({1})
=============================================================================
