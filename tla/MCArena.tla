------------------------------- MODULE MCArena -------------------------------
(* Arena on small instances. *)
EXTENDS Arena
=============================================================================
