--------------------------- MODULE MCEventSystem ---------------------------
(* Instances of EventSystem for TLC: an event of each of two kinds, and bindings *)
(* to one kind, to everything, and to a subclass.                                *)
EXTENDS EventSystem

CONSTANTS n1, n2, f1, f2

MCKind(e) == [id |-> "CUSTOM", subclass |-> IF e % 2 = 1 THEN "a" ELSE "b"]
MCNodeKind(n) == IF n = n1 THEN [id |-> "CUSTOM", subclass |-> "a"]
                           ELSE [id |-> ALL, subclass |-> NULL]
=============================================================================
