---------------------------- MODULE MCLlmGateway ----------------------------
(***************************************************************************)
(* The small instance of LlmGateway.                                       *)
(***************************************************************************)
EXTENDS LlmGateway
=============================================================================
