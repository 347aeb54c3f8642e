-------------------------------- MODULE MCPeers --------------------------------
(***************************************************************************)
(* Peers on a small instance: two handlers that race for one endpoint      *)
(* while it is replaced, and a sender.                                     *)
(***************************************************************************)
EXTENDS Peers, TLC

Symmetry == Permutations(Devices) \cup Permutations(Endpoints)
            \cup Permutations(Sessions) \cup Permutations(Handlers)
            \cup Permutations(Senders)
================================================================================
