-------------------------- MODULE MCPortAllocator --------------------------
(* Instances of PortAllocator for TLC: a few engines, a range of two or      *)
(* three slots.                                                              *)
EXTENDS PortAllocator, TLC

CONSTANTS e1, e2, e3

Symmetry == Permutations(Engines)
=============================================================================
