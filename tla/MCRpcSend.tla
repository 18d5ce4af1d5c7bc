------------------------------ MODULE MCRpcSend ------------------------------
(* Small instances of the send side: two lanes, objects with and without a *)
(* device part, messages of one to three beats.                            *)
EXTENDS RpcSend
=============================================================================
