----------------------------- MODULE MCMemCtl -----------------------------
(* Two threads on a pool of eight units.                                    *)
EXTENDS MemCtl
CONSTANTS t1, t2
TwoThreads == {t1, t2}
=============================================================================
