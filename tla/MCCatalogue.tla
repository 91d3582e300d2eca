---------------------------- MODULE MCCatalogue ----------------------------
(* Instances of Catalogue for TLC: refreshes are interchangeable.          *)
EXTENDS Catalogue, TLC

Symmetry == Permutations(Refresh)
=============================================================================
