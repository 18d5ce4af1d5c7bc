----------------------------- MODULE MCNetToMem -----------------------------
(* Small instance of NetToMem: messages of one to four beats in packages   *)
(* of one or two beats, a data queue that just holds the longest message   *)
(* and a length queue that four short messages overrun.                    *)
EXTENDS NetToMem
=============================================================================
