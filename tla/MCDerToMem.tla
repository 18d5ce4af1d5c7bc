----------------------------- MODULE MCDerToMem -----------------------------
(* Small instances of DerToMem.                                            *)
EXTENDS DerToMem
=============================================================================
