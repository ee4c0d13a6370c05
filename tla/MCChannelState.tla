--------------------------- MODULE MCChannelState ---------------------------
(* Instances of ChannelState for TLC. *)
EXTENDS ChannelState, TLC

Symmetry == Permutations(Threads)
=============================================================================
