---------------------------- MODULE MCThreadPool ----------------------------
(* Small instances of ThreadPool for TLC. *)
EXTENDS ThreadPool, TLC

\* Workers, launchers, sessions and other jobs only compare for equality.
Symmetry == Permutations(Workers) \cup Permutations(Launchers)
                \cup Permutations(Sessions) \cup Permutations(Values \ Sessions)
=============================================================================
