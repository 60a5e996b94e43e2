------------------------------ MODULE MCOpenGym -------------------------------
(* Instances of OpenGym for TLC; the constants are given in the cfg files.  *)
EXTENDS OpenGym
===============================================================================
