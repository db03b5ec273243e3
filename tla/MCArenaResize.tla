---------------------------- MODULE MCArenaResize ----------------------------
(* ArenaResize on small instances. *)
EXTENDS ArenaResize
=============================================================================
