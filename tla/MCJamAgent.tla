------------------------------ MODULE MCJamAgent ------------------------------
(* Instances of JamAgent for TLC: three QoS values of which neighbours are   *)
(* within the accepted fluctuation and the extremes are not.                 *)
EXTENDS JamAgent

MCQoSValues == {0, 1, 2}
Pretraining == {[live |-> FALSE, pretrained |-> FALSE, algo |-> "other"]}
Deployed    == {[live |-> TRUE, pretrained |-> TRUE, algo |-> "other"]}
===============================================================================
