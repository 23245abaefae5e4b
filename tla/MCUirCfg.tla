------------------------------ MODULE MCUirCfg ------------------------------
(* Terminators: no target, one, or two.  Every edge set of at most two     *)
(* edges a block occurs, with the smaller target searched first.           *)
EXTENDS UirCfg

BlockIds == 1 .. N
Exiting == {<< >>}
Branch == {<<b>> : b \in BlockIds}

OrderedTargets == Exiting \cup Branch \cup {s \in BlockIds \X BlockIds : s[1] < s[2]}
=============================================================================
