---------------------------- MODULE MCBackupRuns ----------------------------
(***************************************************************************)
(* Instances of BackupRuns for TLC: some invocations of a first day, and   *)
(* one of each later day.                                                  *)
(***************************************************************************)
EXTENDS BackupRuns, TLC

CONSTANTS i1, i2, i3, j1, l1
MCDayOf == [i \in Invocation |-> IF i = l1 THEN 3 ELSE IF i = j1 THEN 2 ELSE 1]
Symmetric == Permutations(Invocation \ {j1, l1})
=============================================================================
