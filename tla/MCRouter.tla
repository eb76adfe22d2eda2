------------------------------ MODULE MCRouter ------------------------------
(* Small instances of the router for TLC. *)
EXTENDS RouterProperties

CONSTANTS u1, u2, s1, s2, s3
=============================================================================
