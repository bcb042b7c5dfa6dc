----------------------------- MODULE MCHttpRelay -----------------------------
(***************************************************************************)
(* Instances of HttpRelay for TLC.  Thread identities are interchangeable, *)
(* so runs without liveness properties use them as a symmetry set.         *)
(***************************************************************************)
EXTENDS HttpRelay, TLC

ThreadSymmetry == Permutations(Workers)
=============================================================================
