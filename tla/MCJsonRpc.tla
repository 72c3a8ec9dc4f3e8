----------------------------- MODULE MCJsonRpc -----------------------------
(***************************************************************************)
(* JsonRpc for TLC.  A document is a model value; the sets of message      *)
(* kinds and of irregular inputs are chosen by each configuration.         *)
(***************************************************************************)
EXTENDS JsonRpc
=============================================================================
