----------------------------- MODULE MCSendChunk -----------------------------
(* An instance of SendChunk for TLC: chunks of 8 bytes, packets of 2 and   *)
(* 3, one payload with which the packet's size no longer fits 16 bits and  *)
(* one whose own size does not.  Threads, chunks and buffers are           *)
(* interchangeable.                                                        *)
EXTENDS SendChunk, TLC

Symmetry == Permutations(Threads) \cup Permutations(Chunks) \cup Permutations(Buffers)
===============================================================================
