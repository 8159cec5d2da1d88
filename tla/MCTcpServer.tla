---------------------------- MODULE MCTcpServer ----------------------------
(* Instances of TcpServer for TLC. *)
EXTENDS TcpServer

CONSTANT MaxLoad   \* pieces all clients together may send

LoadBound == FoldSet(LAMBDA c, n : n + Len(sent[c]), 0, Clients) <= MaxLoad

\* Clients that all wait for their answers are interchangeable, and so are workers.
Symmetry == Permutations(Clients) \cup Permutations(Workers)

=============================================================================
