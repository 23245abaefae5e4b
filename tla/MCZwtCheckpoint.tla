-------------------------- MODULE MCZwtCheckpoint --------------------------
(* Models of one parameter that differ in its name or its shape, and one   *)
(* of two parameters.                                                      *)
EXTENDS ZwtCheckpoint

Param(n, s) == [name |-> n, shape |-> s]
MCModels == {<<Param("p", 1)>>, <<Param("r", 1)>>, <<Param("p", 2)>>,
             <<Param("p", 1), Param("q", 1)>>}
=============================================================================
