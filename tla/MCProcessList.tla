---------------------------- MODULE MCProcessList ----------------------------
(* ProcessList on small instances. *)
EXTENDS ProcessList
=============================================================================
