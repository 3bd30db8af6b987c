--------------------------- MODULE MCHttpDispatch ---------------------------
(* Model checking of HttpDispatch on small instances. *)
EXTENDS HttpDispatch, TLC

Symmetry == Permutations(Ids)
=============================================================================
