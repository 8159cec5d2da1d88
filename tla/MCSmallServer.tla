---------------------------- MODULE MCSmallServer ----------------------------
(* Instances of SmallServer for TLC. *)
EXTENDS SmallServer

CONSTANT MaxLoad   \* pieces all clients together may send

LoadBound == FoldSet(LAMBDA c, n : n + Len(sent[c]), 0, Clients) <= MaxLoad

=============================================================================
