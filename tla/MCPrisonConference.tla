------------------------- MODULE MCPrisonConference -------------------------
(* Two successive calls of one extension; only the first may have no limit. *)
EXTENDS PrisonConference

MCCalls == 1..2
MCTalkTimes(c) == IF c = 1 THEN {0, 1} ELSE {1}
=============================================================================
