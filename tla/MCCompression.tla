---------------------------- MODULE MCCompression ----------------------------
(* MemoryCompression and ChatEncoding for TLC. The files are interchangeable: no action and no
   invariant tells one from another, so permuting them is a symmetry. *)
EXTENDS ChatEncoding, TLC

FileSymmetry == Permutations(Files)
=============================================================================
