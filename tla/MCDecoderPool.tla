---------------------------- MODULE MCDecoderPool ----------------------------
(* Small instances of DecoderPool.                                         *)
EXTENDS DecoderPool, TLC

CONSTANTS Deflate, Zstd, ZstdHandles

MCMethodOf == [f \in Pools |-> IF f \in ZstdHandles THEN Zstd ELSE Deflate]

(* Threads, handles of one method and decoders are interchangeable.        *)
Symmetry == Permutations(Threads) \cup Permutations(Decoders)
              \cup Permutations(Handles \ ZstdHandles)
              \cup Permutations(ZstdHandles)
=============================================================================
