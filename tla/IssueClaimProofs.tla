-------------------------- MODULE IssueClaimProofs --------------------------
(***************************************************************************)
(* Proofs about IssueClaim for any number of coordinators, issues, tokens  *)
(* and releases in progress.                                               *)
(***************************************************************************)
EXTENDS IssueClaim, TLAPS

\* No two rows carry the same token.
RowTokensDiffer ==
    \A i, j \in Issues : (claim[i].token = claim[j].token /\ claim[i] # NoRow) => i = j

\* TokensAreFences for one coordinator, issue and token.
Fenced(c, i, t) ==
    \A j \in Issues :
        /\ \A d \in Coords : d # c => t \notin TokensOf(d, j)
        /\ claim[j].token = t => claim[j].owner = c /\ j = i

IInv == TypeOK /\ RowTokensDiffer /\ TokensAreFences

-----------------------------------------------------------------------------
LEMMA InitIInv == Init => IInv
  BY ClaimAssumption
  DEF Init, IInv, TypeOK, RowTokensDiffer, TokensAreFences, TokensOf, NoRow, Row

\* Type correctness, one action at a time.
LEMMA TypeStep == TypeOK /\ [Next]_vars => TypeOK'
<1> SUFFICES ASSUME TypeOK, [Next]_vars PROVE TypeOK'
  OBVIOUS
<1> USE ClaimAssumption DEF TypeOK
<1>1. ASSUME NEW c \in Coords, NEW i \in Issues, EnterState(c, i) PROVE TypeOK'
  BY <1>1 DEF EnterState
<1>2. ASSUME NEW c \in Coords, NEW i \in Issues, NEW t \in Tokens, AcquireIssueClaim(c, i, t)
      PROVE  TypeOK'
  <2>1. [owner |-> c, token |-> t] \in Row
    BY DEF Row
  <2> QED
    BY <1>2, <2>1 DEF AcquireIssueClaim
<1>3. ASSUME NEW c \in Coords, NEW i \in Issues, RecordToken(c, i) PROVE TypeOK'
  BY <1>3 DEF RecordToken
<1>4. ASSUME NEW c \in Coords, NEW i \in Issues, OpenGroup(c, i) PROVE TypeOK'
  BY <1>4 DEF OpenGroup
<1>5. ASSUME NEW c \in Coords, NEW i \in Issues, EndGroup(c, i) PROVE TypeOK'
  BY <1>5 DEF EndGroup
<1>6. ASSUME NEW c \in Coords, NEW i \in Issues, TakeToken(c, i) PROVE TypeOK'
  BY <1>6 DEF TakeToken
<1>7. ASSUME NEW c \in Coords, NEW i \in Issues, NEW t \in Tokens, ReleaseIssueClaim(c, i, t)
      PROVE  TypeOK'
  BY <1>7 DEF ReleaseIssueClaim, Row
<1>8. ASSUME NEW c \in Coords, NEW i \in Issues, SweepDelete(c, i) PROVE TypeOK'
  BY <1>8 DEF SweepDelete, Row
<1>9. ASSUME NEW c \in Coords, NEW i \in Issues, LeaseElapses(c, i) PROVE TypeOK'
  BY <1>9 DEF LeaseElapses
<1>10. ASSUME NEW c \in Coords, ReleaseAllIssueClaims(c) PROVE TypeOK'
  BY <1>10 DEF ReleaseAllIssueClaims
<1>11. ASSUME NEW c \in Coords, Exit(c) PROVE TypeOK'
  BY <1>11 DEF Exit, Forget
<1>12. ASSUME NEW c \in Coords, Crash(c) PROVE TypeOK'
  BY <1>12 DEF Crash, Forget
<1>13. ASSUME NEW c \in Coords, StartSweep(c) PROVE TypeOK'
  BY <1>13 DEF StartSweep
<1>14. ASSUME NEW c \in Coords, SweepDone(c) PROVE TypeOK'
  BY <1>14 DEF SweepDone
<1>15. ASSUME NEW i \in Issues, RestartIssue(i) PROVE TypeOK'
  BY <1>15 DEF RestartIssue, Row
<1>16. CASE UNCHANGED vars
  BY <1>16 DEF vars
<1> QED
  BY <1>1, <1>2, <1>3, <1>4, <1>5, <1>6, <1>7, <1>8, <1>9, <1>10, <1>11, <1>12,
     <1>13, <1>14, <1>15, <1>16
  DEF Next, IssueStep, CoordStep

-----------------------------------------------------------------------------
\* A step after which no coordinator knows a token it did not know, and no
\* row is new, keeps the fences.
LEMMA QuietStep ==
  ASSUME TypeOK, RowTokensDiffer, TokensAreFences,
         \A c \in Coords, i \in Issues : TokensOf(c, i)' \subseteq TokensOf(c, i) \cup {NoToken},
         \A i \in Issues : claim'[i] \in {claim[i], NoRow}
  PROVE  RowTokensDiffer' /\ TokensAreFences'
<1>1. RowTokensDiffer'
  <2> SUFFICES ASSUME NEW i \in Issues, NEW j \in Issues,
                      claim'[i].token = claim'[j].token, claim'[i] # NoRow
               PROVE  i = j
    BY DEF RowTokensDiffer
  <2>1. claim'[i] = claim[i]
    OBVIOUS
  <2>2. claim[i].token # NoToken
    BY <2>1, ClaimAssumption DEF TypeOK, Row
  <2>3. claim'[j] = claim[j]
    BY <2>1, <2>2 DEF NoRow
  <2> QED
    BY <2>1, <2>3 DEF RowTokensDiffer
<1>2. TokensAreFences'
  <2> SUFFICES ASSUME NEW i \in Issues, NEW j \in Issues, NEW c \in Coords,
                      NEW t \in TokensOf(c, i)', t # NoToken
               PROVE  /\ \A d \in Coords : d # c => t \notin TokensOf(d, j)'
                      /\ claim'[j].token = t => claim'[j].owner = c /\ j = i
    BY DEF TokensAreFences
  <2>1. t \in TokensOf(c, i) \ {NoToken}
    OBVIOUS
  <2>2. /\ \A d \in Coords : d # c => t \notin TokensOf(d, j)
        /\ claim[j].token = t => claim[j].owner = c /\ j = i
    BY <2>1 DEF TokensAreFences
  <2> QED
    BY <2>2 DEF NoRow
<1> QED
  BY <1>1, <1>2

\* The token of an acquisition is fenced before and after it is taken.
LEMMA AcquireStep ==
  ASSUME IInv, NEW c \in Coords, NEW i \in Issues, NEW t \in Tokens,
         AcquireIssueClaim(c, i, t)
  PROVE  RowTokensDiffer' /\ TokensAreFences'
<1> USE ClaimAssumption
<1>0. /\ TypeOK /\ RowTokensDiffer /\ TokensAreFences
      /\ t # NoToken
  BY DEF IInv
<1>1. Fenced(c, i, t)
  <2>1. CASE t \in Fresh
    BY <2>1, <1>0 DEF Fresh, Fenced, TokensOf
  <2>2. CASE claim[i].owner = c /\ t = claim[i].token /\ claim[i] # NoRow
    <3> SUFFICES ASSUME NEW j \in Issues
                 PROVE  /\ \A d \in Coords : d # c => t \notin TokensOf(d, j)
                        /\ claim[j].token = t => claim[j].owner = c /\ j = i
      BY DEF Fenced
    <3>1. ASSUME NEW d \in Coords, t \in TokensOf(d, j) PROVE d = c
      BY <3>1, <2>2, <1>0 DEF TokensAreFences
    <3>2. claim[j].token = t => j = i
      BY <2>2, <1>0 DEF RowTokensDiffer
    <3> QED
      BY <3>1, <3>2, <2>2
  <2> QED
    BY <2>1, <2>2 DEF AcquireIssueClaim, Live
<1>2. /\ claim' = [claim EXCEPT ![i] = [owner |-> c, token |-> t]]
      /\ acq' = [acq EXCEPT ![c][i] = t]
      /\ held' = held /\ taken' = taken
  BY DEF AcquireIssueClaim
<1>3. \A d \in Coords, j \in Issues :
         TokensOf(d, j)' \subseteq TokensOf(d, j) \cup (IF d = c /\ j = i THEN {t} ELSE {})
  BY <1>2, <1>0 DEF TokensOf, TypeOK
<1>4. RowTokensDiffer'
  BY <1>0, <1>1, <1>2 DEF RowTokensDiffer, Fenced, TypeOK, Row, NoRow
<1>5. TokensAreFences'
  <2> SUFFICES ASSUME NEW k \in Issues, NEW j \in Issues, NEW d \in Coords,
                      NEW u \in TokensOf(d, k)', u # NoToken
               PROVE  /\ \A e \in Coords : e # d => u \notin TokensOf(e, j)'
                      /\ claim'[j].token = u => claim'[j].owner = d /\ j = k
    BY DEF TokensAreFences
  <2>1. CASE u = t
    <3>1. d = c
      BY <2>1, <1>1, <1>3 DEF Fenced
    <3>2. \A e \in Coords : e # c => t \notin TokensOf(e, j)'
      BY <1>1, <1>3 DEF Fenced
    <3>3. claim'[j].token = t => j = i /\ claim'[j].owner = c
      BY <1>0, <1>1, <1>2 DEF Fenced, TypeOK
    <3>4. claim'[j].token = t => k = i
      <4>1. CASE t \in TokensOf(c, k)
        <5>1. CASE t \in Fresh
          BY <5>1, <4>1, <1>0 DEF Fresh, TokensOf
        <5>2. CASE t = claim[i].token
          BY <5>2, <4>1, <1>0 DEF TokensAreFences
        <5> QED
          BY <5>1, <5>2 DEF AcquireIssueClaim
      <4>2. CASE t \notin TokensOf(c, k)
        BY <4>2, <1>3, <2>1, <3>1
      <4> QED
        BY <4>1, <4>2
    <3> QED
      BY <2>1, <3>1, <3>2, <3>3, <3>4
  <2>2. CASE u # t
    <3>1. u \in TokensOf(d, k) \ {NoToken}
      BY <2>2, <1>3
    <3>2. /\ \A e \in Coords : e # d => u \notin TokensOf(e, j)
          /\ claim[j].token = u => claim[j].owner = d /\ j = k
      BY <3>1, <1>0 DEF TokensAreFences
    <3>3. claim'[j].token = u => claim'[j] = claim[j]
      BY <2>2, <1>0, <1>2 DEF TypeOK
    <3> QED
      BY <3>2, <3>3, <2>2, <1>3
  <2> QED
    BY <2>1, <2>2
<1> QED
  BY <1>4, <1>5

\* The inductive invariant is kept by every step: only an acquisition makes
\* a token known.
LEMMA NextIInv == IInv /\ [Next]_vars => IInv'
<1> SUFFICES ASSUME IInv, [Next]_vars PROVE IInv'
  OBVIOUS
<1>0. TypeOK /\ RowTokensDiffer /\ TokensAreFences /\ TypeOK'
  BY TypeStep DEF IInv
<1> DEFINE Quiet ==
      /\ \A c \in Coords, i \in Issues : TokensOf(c, i)' \subseteq TokensOf(c, i) \cup {NoToken}
      /\ \A i \in Issues : claim'[i] \in {claim[i], NoRow}
<1>1. ASSUME NEW c \in Coords, NEW i \in Issues, EnterState(c, i) PROVE Quiet
  BY <1>1 DEF EnterState, TokensOf
<1>3. ASSUME NEW c \in Coords, NEW i \in Issues, RecordToken(c, i) PROVE Quiet
  BY <1>3, <1>0 DEF RecordToken, TokensOf, TypeOK
<1>4. ASSUME NEW c \in Coords, NEW i \in Issues, OpenGroup(c, i) PROVE Quiet
  BY <1>4 DEF OpenGroup, TokensOf
<1>5. ASSUME NEW c \in Coords, NEW i \in Issues, EndGroup(c, i) PROVE Quiet
  BY <1>5 DEF EndGroup, TokensOf
<1>6. ASSUME NEW c \in Coords, NEW i \in Issues, TakeToken(c, i) PROVE Quiet
  BY <1>6, <1>0 DEF TakeToken, TokensOf, TypeOK
<1>7. ASSUME NEW c \in Coords, NEW i \in Issues, NEW t \in Tokens, ReleaseIssueClaim(c, i, t)
      PROVE  Quiet
  BY <1>7, <1>0 DEF ReleaseIssueClaim, TokensOf, TypeOK
<1>8. ASSUME NEW c \in Coords, NEW i \in Issues, SweepDelete(c, i) PROVE Quiet
  BY <1>8, <1>0 DEF SweepDelete, TokensOf, TypeOK
<1>9. ASSUME NEW c \in Coords, NEW i \in Issues, LeaseElapses(c, i) PROVE Quiet
  BY <1>9 DEF LeaseElapses, TokensOf
<1>10. ASSUME NEW c \in Coords, ReleaseAllIssueClaims(c) PROVE Quiet
  BY <1>10, <1>0 DEF ReleaseAllIssueClaims, TokensOf, TypeOK
<1>11. ASSUME NEW c \in Coords, Exit(c) PROVE Quiet
  BY <1>11, <1>0 DEF Exit, Forget, TokensOf, TypeOK
<1>12. ASSUME NEW c \in Coords, Crash(c) PROVE Quiet
  BY <1>12, <1>0 DEF Crash, Forget, TokensOf, TypeOK
<1>13. ASSUME NEW c \in Coords, StartSweep(c) PROVE Quiet
  BY <1>13 DEF StartSweep, TokensOf
<1>14. ASSUME NEW c \in Coords, SweepDone(c) PROVE Quiet
  BY <1>14 DEF SweepDone, TokensOf
<1>15. ASSUME NEW i \in Issues, RestartIssue(i) PROVE Quiet
  BY <1>15, <1>0 DEF RestartIssue, TokensOf, TypeOK
<1>16. CASE UNCHANGED vars
  <2>1. Quiet
    BY <1>16 DEF vars, TokensOf
  <2> QED
    BY <2>1, <1>0, QuietStep DEF IInv
<1>17. Quiet => IInv'
  BY <1>0, QuietStep DEF IInv
<1> HIDE DEF Quiet
<1>18. ASSUME NEW c \in Coords, NEW i \in Issues, IssueStep(c, i) PROVE IInv'
  <2>1. ASSUME NEW t \in Tokens, AcquireIssueClaim(c, i, t) PROVE IInv'
    BY <2>1, <1>0, AcquireStep DEF IInv
  <2> QED
    BY <1>18, <2>1, <1>1, <1>3, <1>4, <1>5, <1>6, <1>7, <1>8, <1>9, <1>17 DEF IssueStep
<1>19. ASSUME NEW c \in Coords, CoordStep(c) PROVE IInv'
  BY <1>19, <1>10, <1>11, <1>12, <1>13, <1>14, <1>17 DEF CoordStep
<1> QED
  BY <1>15, <1>16, <1>17, <1>18, <1>19 DEF Next

LEMMA Inductive == Spec => []IInv
  BY InitIInv, NextIInv, PTL DEF Spec

\* The claim table, the token maps and the bookkeeping of releases keep
\* their shapes.
THEOREM TypeCorrect == Spec => []TypeOK
  BY Inductive, PTL DEF IInv

\* Token fencing (AcquireIssueClaim, releaseIssueClaim): for any number of
\* coordinators a token is known to one of them only, and the row carrying
\* it is that coordinator's.
THEOREM TokensFence == Spec => []TokensAreFences
  BY Inductive, PTL DEF IInv

-----------------------------------------------------------------------------
LEMMA SafeStep ==
  ASSUME TypeOK, [Next]_vars, NEW i \in Issues, Live(i), claim'[i].owner # claim[i].owner
  PROVE  \/ claim[i].token \in taken[claim[i].owner][i]
         \/ \E c \in Coords : i \in swept[c]
         \/ restarts' # restarts
<1> USE ClaimAssumption
<1>0. claim'[i] # claim[i]
  OBVIOUS
<1>1. ASSUME NEW c \in Coords, NEW j \in Issues, IssueStep(c, j)
      PROVE  \/ claim[i].token \in taken[claim[i].owner][i]
             \/ i \in swept[c]
  <2>1. ASSUME NEW t \in Tokens, AcquireIssueClaim(c, j, t) PROVE FALSE
    BY <2>1 DEF AcquireIssueClaim, TypeOK
  <2>2. ASSUME NEW t \in Tokens, ReleaseIssueClaim(c, j, t)
        PROVE  claim[i].token \in taken[claim[i].owner][i]
    <3>1. i = j /\ claim[j] = [owner |-> c, token |-> t] /\ t \in taken[c][j]
      BY <2>2, <1>0 DEF ReleaseIssueClaim, TypeOK
    <3> QED
      BY <3>1
  <2>3. ASSUME SweepDelete(c, j) PROVE i \in swept[c]
    BY <2>3, <1>0 DEF SweepDelete, TypeOK
  <2>4. EnterState(c, j) \/ RecordToken(c, j) \/ OpenGroup(c, j) \/ EndGroup(c, j)
            \/ TakeToken(c, j) \/ LeaseElapses(c, j) => claim' = claim
    BY DEF EnterState, RecordToken, OpenGroup, EndGroup, TakeToken, LeaseElapses
  <2> QED
    BY <1>1, <1>0, <2>1, <2>2, <2>3, <2>4 DEF IssueStep
<1>2. ASSUME NEW c \in Coords, CoordStep(c) PROVE claim' = claim
  BY <1>2 DEF CoordStep, ReleaseAllIssueClaims, Exit, Crash, StartSweep, SweepDone
<1>3. ASSUME NEW j \in Issues, RestartIssue(j) PROVE restarts' # restarts
  BY <1>3 DEF RestartIssue, TypeOK
<1>4. UNCHANGED vars => claim' = claim
  BY DEF vars
<1> QED
  BY <1>0, <1>1, <1>2, <1>3, <1>4 DEF Next

\* No competitor takes an unexpired claim away (AcquireIssueClaim's
\* held-by-other branch and the owner and token in ReleaseIssueClaim's WHERE).
THEOREM LiveClaimsAreSafe == Spec => LiveClaimIsSafe
<1>1. TypeOK /\ [Next]_vars =>
        [\A i \in Issues :
            (Live(i) /\ claim'[i].owner # claim[i].owner) =>
                \/ claim[i].token \in taken[claim[i].owner][i]
                \/ \E c \in Coords : i \in swept[c]
                \/ restarts' # restarts]_vars
  BY SafeStep
<1> QED
  BY <1>1, TypeCorrect, PTL DEF Spec, LiveClaimIsSafe
=============================================================================
