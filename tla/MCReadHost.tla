----------------------------- MODULE MCReadHost -----------------------------
(* Small instance of ReadHost: three commands of any kind, objects of one  *)
(* and two beats, full beats included, queues of one or two places.        *)
EXTENDS ReadHost
=============================================================================
