---------------------------- MODULE MCRpcChannel ----------------------------
(* Two calls of one thread.                                                *)
EXTENDS RpcChannel
=============================================================================
