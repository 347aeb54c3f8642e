----------------------------- MODULE MCTransaction -----------------------------
(***************************************************************************)
(* Transaction on small instances: callers whose requests have one Call-ID *)
(* or several, and a buffer small enough to fill up.                       *)
(***************************************************************************)
EXTENDS Transaction

Symmetry == Permutations(Keys) \cup Permutations(Txs)
            \cup Permutations(Callers) \cup Permutations(Listeners)
==============================================================================
