---------------------------- MODULE MCIssueClaim ----------------------------
(* Small instances of IssueClaim for TLC.                                  *)
EXTENDS IssueClaim, TLC

CONSTANTS c1, c2, t1, t2, t3, t4

\* Two hosts whose coordinators run under different or under the same pid.
OtherPids == c1 :> 1 @@ c2 :> 2
SamePids  == c1 :> 1 @@ c2 :> 1

Symmetry == Permutations(Tokens)
=============================================================================
