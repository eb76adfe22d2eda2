------------------------------ MODULE MCStream ------------------------------
(***************************************************************************)
(* The instance of a stream that TLC checks: chunks that fit, that fill    *)
(* the buffer alone, and that can never fit.                               *)
(***************************************************************************)
EXTENDS StreamProperties

MCSizes == {1, 2, 4}
=============================================================================
