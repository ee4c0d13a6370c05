----------------------------- MODULE MCDbCache -----------------------------
(* Instances of DbCache for TLC. *)
EXTENDS DbCache

CONSTANTS t1, t2, h1, h2, h3, h4
=============================================================================
