------------------------------ MODULE MCSplitDe ------------------------------
(* Small instances of SplitDe: one lane (SplitDe.scala) and two lanes      *)
(* (SplitDeMul.scala).                                                     *)
EXTENDS SplitDe
=============================================================================
