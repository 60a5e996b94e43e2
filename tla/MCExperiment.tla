----------------------------- MODULE MCExperiment -----------------------------
(* Instances of Experiment for TLC: two or three nodes and two performances, *)
(* so that the next model received can be better, worse or as good.          *)
EXTENDS Experiment

MCPerformances == {1, 2}
===============================================================================
