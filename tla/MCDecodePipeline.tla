-------------------------- MODULE MCDecodePipeline --------------------------
(* Small instances of DecodePipeline for TLC.                              *)
EXTENDS DecodePipeline, TLC

\* The buffers of a pool are interchangeable: the free list is a set and no
\* property names a buffer.
Symmetry == Permutations(NaluBufs) \cup Permutations(YuvBufs)
=============================================================================
