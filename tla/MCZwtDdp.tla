------------------------------ MODULE MCZwtDdp ------------------------------
(* Instances of ZwtDdp for TLC. *)
EXTENDS ZwtDdp

(* Three parameters in two layers, in the buckets {3, 2} and {1}: the      *)
(* first spans both layers, the second fires in the middle of a layer.     *)
TwoSizes == <<1, 1, 1>>
TwoLayers == << <<1, 2>>, <<3>> >>
=============================================================================
