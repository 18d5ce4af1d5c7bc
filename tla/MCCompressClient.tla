-------------------------- MODULE MCCompressClient --------------------------
(* The client with the flags of its config file (one request at a time) for *)
(* two threads, and with as many requests as there are message buffers.     *)
EXTENDS CompressClient
=============================================================================
