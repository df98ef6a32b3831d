------------------------------- MODULE MCRaft -------------------------------
(* Small instances of Raft for TLC.                                        *)
EXTENDS Raft, TLC

CONSTANTS n1, n2, n3, n4

\* The nodes that follow the protocol are interchangeable.
Honest == Permutations(Node \ Byzantine)

=============================================================================
