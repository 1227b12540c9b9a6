----------------------------- MODULE MCOidcLogin -----------------------------
(***************************************************************************)
(* Finite instances of OidcLogin for TLC.                                  *)
(***************************************************************************)
EXTENDS OidcLogin, TLC

\* Requests are interchangeable, and so are browsers: for safety only.
OidcSymmetry == Permutations(Requests) \cup Permutations(Browsers)

=============================================================================
