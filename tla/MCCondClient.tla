----------------------------- MODULE MCCondClient -----------------------------
(* One producer and three consumers.                                         *)
EXTENDS CondClient
=============================================================================
