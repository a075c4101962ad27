---------------------------- MODULE MCEntityList ----------------------------
(* EntityList on small instances. *)
EXTENDS EntityList

Symmetry ==
    Permutations(Creators) \cup Permutations(Deleters) \cup Permutations(Finders)
=============================================================================
