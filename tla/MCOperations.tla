---------------------------- MODULE MCOperations ----------------------------
(* Delivery of one candidate by attempts that may overlap. *)
EXTENDS Operations

CONSTANTS r1, r2
=============================================================================
