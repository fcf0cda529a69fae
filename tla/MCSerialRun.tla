----------------------------- MODULE MCSerialRun -----------------------------
(* Every graph of up to four tasks with lists of up to two dependencies,   *)
(* repeated ones and self-references included; those of up to three tasks  *)
(* are run.                                                                *)
EXTENDS SerialRun, TLC

ShortLists == {<<>>} \cup {<<i>> : i \in Id} \cup (Id \X Id)

Renaming == Permutations(Id)
=============================================================================
