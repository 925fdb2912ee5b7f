---------------------------- MODULE MCTaskQueue ----------------------------
(* TaskQueue for TLC: every worker serves every task of the one repository. *)
EXTENDS TaskQueue, TLC

MCServes == [w \in Workers |-> Tasks]
Symmetry == Permutations(Workers)
MCRepoOf == [t \in Tasks |-> CHOOSE r \in Repos : TRUE]
=============================================================================
