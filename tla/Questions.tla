------------------------------ MODULE Questions ------------------------------
(* A question to the server that only reads: what it is about and what it is   *)
(* asked of, or None before it is asked.                                       *)

CONSTANT None
VARIABLE question
=============================================================================
