----------------------------- MODULE MCMPMCQueue -----------------------------
(* Instances of MPMCQueue for TLC. *)
EXTENDS MPMCQueue

\* States after an overrun are not explored: every property concedes them.
UntilOverrun == ~ overrun

=============================================================================
