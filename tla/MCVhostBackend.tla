--------------------------- MODULE MCVhostBackend ---------------------------
(* VhostBackend for TLC: the two queues of the code.                       *)
EXTENDS VhostBackend, TLC

Symmetry == Permutations(KickEvents)
=============================================================================
