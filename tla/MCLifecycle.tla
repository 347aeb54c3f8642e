------------------------------ MODULE MCLifecycle ------------------------------
(***************************************************************************)
(* Lifecycle on a small instance: enough packets to have one with the      *)
(* reader, one with the parser and one with the listener.                  *)
(***************************************************************************)
EXTENDS Lifecycle
==============================================================================
