---------------------------- MODULE MCCommandFlush ----------------------------
(* Small instances of CommandFlush for TLC. *)
EXTENDS CommandFlush, TLC

CONSTANTS c1, c2, c3, c4, c5, main, b1, b2, b3

One   == <<b1>>
Two   == <<b1, b2>>
Three == <<b1, b2, b3>>

AnyChunk == Permutations(Chunks)
=============================================================================
