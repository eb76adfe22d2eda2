------------------------------ MODULE MCServer ------------------------------
(* Small instances of the process for TLC. *)
EXTENDS Server

CONSTANTS main, u1, u2, s1, s2, s3
=============================================================================
