---------------------------- MODULE MCMessageQueue ----------------------------
(* Small instances of MessageQueue for TLC. *)
EXTENDS MessageQueue, TLC

CONSTANTS c1, c2, c3, c4

AnyChunk == Permutations(Chunks)

=============================================================================
