----------------------------- MODULE MCCollector ------------------------------
(* Instances of Collector for TLC; the constants are given in the cfg files. *)
EXTENDS Collector
===============================================================================
