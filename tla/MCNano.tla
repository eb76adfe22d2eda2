------------------------------- MODULE MCNano -------------------------------
(* A small instance of the NanoVLLM runtime for TLC. *)
EXTENDS NanoProperties

CONSTANTS c1, c2, c3
=============================================================================
