---------------------------- MODULE MCRpcReceive ----------------------------
(* Small instance of the receive side: messages of one and two beats in    *)
(* packages of one beat, for two lanes; a message of two beats may or may  *)
(* not need one of them for its header, and a lane that has been left two  *)
(* beats is choked.                                                        *)
EXTENDS RpcReceive
=============================================================================
