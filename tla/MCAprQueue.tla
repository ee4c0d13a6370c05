----------------------------- MODULE MCAprQueue -----------------------------
(* Small instances of AprQueue for TLC. *)
EXTENDS AprQueue, TLC

\* Threads only compare for equality and Values are never inspected.
Symmetry == Permutations(Threads) \cup Permutations(Values)
=============================================================================
