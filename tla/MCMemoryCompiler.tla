--------------------------- MODULE MCMemoryCompiler ---------------------------
(* Instances of MemoryCompiler for TLC. *)
EXTENDS MemoryCompiler
CONSTANTS j1, j2, h1, c1
=============================================================================
