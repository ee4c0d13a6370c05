----------------------------- MODULE MCSessions -----------------------------
(* Small instances of Sessions for TLC. *)
EXTENDS Sessions, TLC

CONSTANTS s1, s2, u1, u2, u3

\* Generated uuids are unique: each session has one of its own.
OwnUuid(s) == IF s = s1 THEN {u1} ELSE IF s = s2 THEN {u2} ELSE {u3}

\* Requests with one and the same use_uuid.
SameUuid(s) == {u1}

Symmetry == Permutations(Threads)
=============================================================================
