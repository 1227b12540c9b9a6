---------------------------- MODULE MCTokenStore ----------------------------
(***************************************************************************)
(* A finite instance of TokenStore for TLC.                                *)
(***************************************************************************)
EXTENDS TokenStore

=============================================================================
