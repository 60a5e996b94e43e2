------------------------------ MODULE MCReports -------------------------------
(* Instances of Reports for TLC: performances with ties and strict order; the *)
(* names of the modes are exchangeable.                                       *)
EXTENDS Reports, TLC

MCPerformances == {1, 2}
ModeSymmetry   == Permutations(QoSModes)
===============================================================================
