-------------------------- MODULE MCUpstreamClient --------------------------
(***************************************************************************)
(* Finite instances of UpstreamClient for TLC: Client.cfg and              *)
(* ClientReconnect.cfg.  (No symmetry: both check liveness.)               *)
(***************************************************************************)
EXTENDS UpstreamClient

=============================================================================
