--------------------------- MODULE MCUpstreamLogin ---------------------------
(***************************************************************************)
(* Finite instances of UpstreamLogin for TLC.                              *)
(***************************************************************************)
EXTENDS UpstreamLogin, TLC

\* Logins are interchangeable, and so are browsers: for safety only.
LoginSymmetry == Permutations(Flows) \cup Permutations(Browsers)

=============================================================================
