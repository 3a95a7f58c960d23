------------------------------ MODULE MCBootstrap ------------------------------
(* The bootstrap resolver for TLC. *)
EXTENDS Bootstrap
=============================================================================
