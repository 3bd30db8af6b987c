------------------------------ MODULE MCStartup ------------------------------
(* Model checking of Startup on small instances. *)
EXTENDS Startup, TLC
=============================================================================
