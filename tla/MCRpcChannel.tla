---------------------------- MODULE MCRpcChannel -----------------------------
(* Model values for RpcChannel. *)
EXTENDS RpcChannel

CONSTANTS q1, q2, q3
==============================================================================
