-------------------------------- MODULE MCCatalog --------------------------------
(***************************************************************************)
(* Catalog on small instances: two waiters that may share a millisecond.   *)
(***************************************************************************)
EXTENDS Catalog

Symmetry == Permutations(Waiters) \cup Permutations(Keys)
            \cup Permutations(Items) \cup Permutations(Millis)
=================================================================================
