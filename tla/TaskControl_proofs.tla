-------------------------- MODULE TaskControl_proofs --------------------------
(***************************************************************************)
(* Theorems of TaskControl, for any number of workers and any bounds.      *)
(***************************************************************************)
EXTENDS TaskControl, TLAPS

\* An attempt id a worker holds was issued, and only an idle worker has none.
HeldIdsIssued ==
    \A w \in Workers :
        /\ att[w] < nextAttempt
        /\ pc[w] # "idle" => att[w] # 0

\* While a challenge is pending no skip can reach its waiter unnoticed: the
\* request that would target it cancels the challenge in the same step.
WaiterUndisturbed ==
    Pending =>
        /\ pendingSkips = 0
        /\ challenge.owner \notin targeted
        /\ challenge.owner \in active

IInv ==
    /\ TypeOK
    /\ HeldIdsIssued
    /\ AttemptBooks
    /\ WaiterUndisturbed
    /\ PendingChallengeHasWaiter

-----------------------------------------------------------------------------
\* The challenge slot holds a well-typed record after each kind of update.
LEMMA ChallengeUpdates ==
  ASSUME TypeOK
  PROVE  /\ NoChallenge \in Challenges
         /\ \A r \in Reasons : Cancelled(r) \in Challenges
         /\ [challenge EXCEPT !.status = "submitted"] \in Challenges
         /\ [challenge EXCEPT !.overdue = TRUE] \in Challenges
         /\ challenge.seq < MaxActions =>
              [challenge EXCEPT !.seq = @ + 1] \in Challenges
         /\ \A i \in ChallengeIds, a \in 0..MaxAttempts :
              NewChallenge(i, a) \in Challenges
<1> USE BoundsAssumption DEF Challenges, Statuses, Reasons, NoChallenge
<1>1. challenge \in Challenges
  BY DEF TypeOK
<1>2. \A r \in Reasons : Cancelled(r) \in Challenges
  BY <1>1 DEF Cancelled
<1>3. challenge.seq < MaxActions => [challenge EXCEPT !.seq = @ + 1] \in Challenges
  BY <1>1
<1>4. \A i \in ChallengeIds, a \in 0..MaxAttempts :
        NewChallenge(i, a) \in Challenges
  BY DEF NewChallenge, ChallengeIds
<1>5. NoChallenge \in Challenges
  OBVIOUS
<1>6. /\ [challenge EXCEPT !.status = "submitted"] \in Challenges
      /\ [challenge EXCEPT !.overdue = TRUE] \in Challenges
  BY <1>1
<1> QED
  BY <1>2, <1>3, <1>4, <1>5, <1>6

\* Consuming a skip takes it from where it is.
LEMMA ConsumeTypes ==
  ASSUME TypeOK, NEW w \in Workers, MustSkip(w), ConsumeSkip(w)
  PROVE  pendingSkips' \in 0..MaxSkips /\ targeted' \subseteq targeted
<1>1. CASE att[w] \in targeted
  BY <1>1 DEF ConsumeSkip, TypeOK
<1>2. CASE att[w] \notin targeted
  <2>1. pendingSkips > 0 /\ pendingSkips' = pendingSkips - 1 /\ targeted' = targeted
    BY <1>2 DEF MustSkip, ConsumeSkip
  <2> QED
    BY <2>1, BoundsAssumption DEF TypeOK
<1> QED
  BY <1>1, <1>2

\* The values of the variables keep their types in every step of the methods.
LEMMA TypeInvariance == TypeOK /\ [Next]_vars => TypeOK'
<1> SUFFICES ASSUME TypeOK, [Next]_vars PROVE TypeOK'
  OBVIOUS
<1> USE DEF TypeOK
<1>b. /\ MaxAttempts \in Nat /\ MaxChallenges \in Nat
      /\ MaxSkips \in Nat /\ MaxActions \in Nat
  BY BoundsAssumption
<1>r. {"stop", "completion", "skip", "finished"} \subseteq Reasons
  BY DEF Reasons
<1>o. Results = {"none", "code", "stop", "skip", "timeout", "lost", "replaced",
                 "cancelled"}
  BY DEF Results
<1>1. CASE UNCHANGED vars
  BY <1>1 DEF vars, control, local
<1>2. CASE ApiStep
  <2>1. CASE RequestStop
    BY <2>1, <1>r, ChallengeUpdates DEF RequestStop, local
  <2>2. CASE RequestCompletionStop
    BY <2>2, <1>r, ChallengeUpdates DEF RequestCompletionStop, local
  <2>3. CASE RequestStopAfterCurrent
    BY <2>3 DEF RequestStopAfterCurrent, local
  <2>4. CASE RequestSkipCurrent
    <3>1. challenge' \in Challenges
      BY <2>4, <1>r, ChallengeUpdates DEF RequestSkipCurrent
    <3>2. pendingSkips' \in 0..MaxSkips
      BY <2>4, <1>b DEF RequestSkipCurrent
    <3>3. targeted' \subseteq 0..MaxAttempts /\ owed' \subseteq 0..MaxAttempts
      BY <2>4 DEF RequestSkipCurrent
    <3> QED
      BY <2>4, <3>1, <3>2, <3>3 DEF RequestSkipCurrent, local
  <2>5. CASE SubmitVerification
    BY <2>5, ChallengeUpdates DEF SubmitVerification, local
  <2>6. CASE RequestVerificationAction
    BY <2>6, ChallengeUpdates DEF RequestVerificationAction, local
  <2>7. CASE LateVerificationRequest
    BY <2>7, ChallengeUpdates DEF LateVerificationRequest, local
  <2> QED
    BY <1>2, <2>1, <2>2, <2>3, <2>4, <2>5, <2>6, <2>7 DEF ApiStep
<1>3. CASE Deadline
  <2>1. challenge' \in Challenges
    BY <1>3, ChallengeUpdates DEF Deadline
  <2>2. challenge.id \in 0..MaxChallenges
    BY DEF Challenges
  <2> QED
    BY <1>3, <2>1, <2>2 DEF Deadline, local
<1>4. ASSUME NEW w \in Workers, WorkerStep(w) PROVE TypeOK'
  <2>1. CASE StartAttempt(w)
    BY <2>1, <1>b, <1>o DEF StartAttempt, Claim, AttemptIds
  <2>2. CASE SkipBeforeStart(w)
    BY <2>2, <1>b DEF SkipBeforeStart, local
  <2>3. CASE FinishAttempt(w)
    <3>1. challenge' \in Challenges
      BY <2>3, <1>r, ChallengeUpdates DEF FinishAttempt, Release
    <3>2. /\ active' \subseteq 0..MaxAttempts
          /\ targeted' \subseteq 0..MaxAttempts
          /\ owed' \subseteq 0..MaxAttempts
      BY <2>3 DEF FinishAttempt, Release
    <3>3. /\ cid' \in [Workers -> 0..MaxChallenges]
          /\ handled' \in [Workers -> 0..MaxActions]
          /\ handler' \in [Workers -> BOOLEAN]
          /\ pc' \in [Workers -> {"idle", "running", "waiting", "handling",
                                   "raised", "between"}]
      BY <2>3, <1>b DEF FinishAttempt, Release
    <3> QED
      BY <2>3, <3>1, <3>2, <3>3 DEF FinishAttempt, Release
  <2>4. CASE ResumeAttempt(w)
    <3>0. att[w] \in 0..MaxAttempts
      OBVIOUS
    <3>1. active' \subseteq 0..MaxAttempts /\ targeted' \subseteq 0..MaxAttempts
      <4>1. CASE MustStop
        BY <2>4, <4>1 DEF ResumeAttempt, Release
      <4>2. CASE ~MustStop
        BY <2>4, <3>0, <4>2 DEF ResumeAttempt, Release
      <4> QED
        BY <4>1, <4>2
    <3> QED
      BY <2>4, <3>1, <1>o DEF ResumeAttempt, Release
  <2>5. CASE LeaveAttempt(w)
    BY <2>5, <1>b DEF LeaveAttempt, control
  <2>6. CASE OpenChallenge(w)
    <3>1. challenge' \in Challenges
      BY <2>6, ChallengeUpdates DEF OpenChallenge
    <3>2. PICK h \in BOOLEAN : handler' = [handler EXCEPT ![w] = h]
      BY <2>6 DEF OpenChallenge
    <3>3. handler' \in [Workers -> BOOLEAN]
      BY <2>6, <3>2 DEF OpenChallenge
    <3>4. /\ nextChallenge' \in 1..(MaxChallenges + 1)
          /\ cid' \in [Workers -> 0..MaxChallenges]
          /\ handled' \in [Workers -> 0..MaxActions]
          /\ result' \in [Workers -> Results]
          /\ pc' \in [Workers -> {"idle", "running", "waiting", "handling",
                                   "raised", "between"}]
      BY <2>6, <1>b, <1>o DEF OpenChallenge, ChallengeIds
    <3> QED
      BY <2>6, <3>1, <3>3, <3>4 DEF OpenChallenge
  <2>7. CASE CheckpointStop(w)
    BY <2>7, <1>o DEF CheckpointStop, Raise, control
  <2>8. CASE CheckpointSkip(w)
    <3>1. pendingSkips' \in 0..MaxSkips /\ targeted' \subseteq targeted
      BY <2>8, ConsumeTypes DEF CheckpointSkip
    <3> QED
      BY <2>8, <3>1, <1>o DEF CheckpointSkip, Raise
  <2>9. CASE WaitLost(w)
    BY <2>9, <1>o DEF WaitLost, Raise, control
  <2>10. CASE WaitReturnsCode(w)
    BY <2>10, <1>o, ChallengeUpdates DEF WaitReturnsCode
  <2>11. CASE WaitCancelled(w)
    BY <2>11, <1>o, ChallengeUpdates DEF WaitCancelled, Raise
  <2>12. CASE HandleAction(w)
    <3>1. challenge.seq \in 0..MaxActions
      BY DEF Challenges
    <3> QED
      BY <2>12, <3>1 DEF HandleAction, control
  <2>13. CASE HandlerSwallowsSkip(w)
    <3>1. pendingSkips' \in 0..MaxSkips /\ targeted' \subseteq targeted
      BY <2>13, ConsumeTypes DEF HandlerSwallowsSkip
    <3> QED
      BY <2>13, <3>1 DEF HandlerSwallowsSkip
  <2>14. CASE HandlerReturns(w)
    BY <2>14 DEF HandlerReturns, control
  <2>15. CASE WaitTimesOut(w)
    BY <2>15, <1>o, ChallengeUpdates DEF WaitTimesOut, Raise
  <2> QED
    BY <1>4, <2>1, <2>2, <2>3, <2>4, <2>5, <2>6, <2>7, <2>8, <2>9, <2>10,
       <2>11, <2>12, <2>13, <2>14, <2>15 DEF WorkerStep, WaitStep
<1> QED
  BY <1>1, <1>2, <1>3, <1>4 DEF Next

\* A control that was just constructed is well typed.
LEMMA TypeCorrectInit == Init => TypeOK
<1>1. NoChallenge \in Challenges
  BY BoundsAssumption DEF NoChallenge, Challenges, Statuses, Reasons
<1>2. /\ 0 \in 0..MaxSkips /\ 0 \in 0..MaxAttempts /\ 0 \in 0..MaxChallenges
      /\ 0 \in 0..MaxActions /\ 1 \in 1..(MaxAttempts + 1)
      /\ 1 \in 1..(MaxChallenges + 1) /\ "none" \in Results
  BY BoundsAssumption DEF Results
<1> QED
  BY <1>1, <1>2 DEF Init, TypeOK

\* TypeOK states every variable's type; it is inductive by itself.
THEOREM TypeCorrect == Spec => []TypeOK
<1> QED
  BY TypeCorrectInit, TypeInvariance, PTL DEF Spec

-----------------------------------------------------------------------------
\* Initially nothing is held, targeted or pending.
LEMMA InitIInv == Init => IInv
<1> SUFFICES ASSUME Init PROVE IInv
  OBVIOUS
<1>1. TypeOK
  BY TypeCorrectInit
<1>2. HeldIdsIssued
  <2>1. \A w \in Workers : att[w] = 0 /\ pc[w] = "idle"
    BY DEF Init
  <2>2. nextAttempt = 1
    BY DEF Init
  <2>3. ASSUME NEW w \in Workers PROVE att[w] < nextAttempt
    <3>1. att[w] = 0 /\ 0 < 1
      BY <2>1
    <3> QED
      BY <3>1, <2>2
  <2> QED
    BY <2>1, <2>3 DEF HeldIdsIssued
<1>3. AttemptBooks
  BY DEF Init, AttemptBooks, Holding
<1>4. ~Pending
  BY DEF Init, Pending, NoChallenge
<1> QED
  BY <1>1, <1>2, <1>3, <1>4 DEF IInv, WaiterUndisturbed, PendingChallengeHasWaiter

\* The attempt books in each step of the methods.
LEMMA BooksInvariance == IInv /\ [Next]_vars => HeldIdsIssued' /\ AttemptBooks'
<1> SUFFICES ASSUME IInv, [Next]_vars PROVE HeldIdsIssued' /\ AttemptBooks'
  OBVIOUS
<1> USE DEF IInv, HeldIdsIssued, AttemptBooks, Holding
<1>t. /\ att \in [Workers -> 0..MaxAttempts] /\ nextAttempt \in Nat
      /\ MaxAttempts \in Nat /\ DOMAIN pc = Workers
  BY BoundsAssumption DEF TypeOK
<1>1. CASE UNCHANGED vars
  BY <1>1 DEF vars, control, local
<1>2. CASE ApiStep \/ Deadline
  BY <1>2 DEF ApiStep, RequestStop, RequestCompletionStop,
     RequestStopAfterCurrent, RequestSkipCurrent, SubmitVerification,
     RequestVerificationAction, LateVerificationRequest, Deadline, local
<1>3. ASSUME NEW w \in Workers, WorkerStep(w)
      PROVE  HeldIdsIssued' /\ AttemptBooks'
  <2>1. CASE StartAttempt(w)
    BY <2>1, <1>t DEF StartAttempt, Claim
  <2>2. CASE SkipBeforeStart(w)
    BY <2>2 DEF SkipBeforeStart, local
  <2>3. CASE FinishAttempt(w)
    BY <2>3, <1>t DEF FinishAttempt, Release
  <2>4. CASE ResumeAttempt(w)
    BY <2>4, <1>t DEF ResumeAttempt, Release
  <2>5. CASE LeaveAttempt(w)
    BY <2>5, <1>t DEF LeaveAttempt, control
  <2>6. CASE OpenChallenge(w)
    BY <2>6, <1>t DEF OpenChallenge
  <2>7. CASE CheckpointStop(w)
    BY <2>7, <1>t DEF CheckpointStop, Raise, control
  <2>8. CASE CheckpointSkip(w)
    BY <2>8, <1>t DEF CheckpointSkip, ConsumeSkip, Raise
  <2>9. CASE WaitLost(w)
    BY <2>9, <1>t DEF WaitLost, Turn, Raise, control
  <2>10. CASE WaitReturnsCode(w)
    BY <2>10, <1>t DEF WaitReturnsCode, Turn
  <2>11. CASE WaitCancelled(w)
    BY <2>11, <1>t DEF WaitCancelled, Turn, Raise
  <2>12. CASE HandleAction(w)
    BY <2>12, <1>t DEF HandleAction, Turn, control
  <2>13. CASE HandlerSwallowsSkip(w)
    BY <2>13, <1>t DEF HandlerSwallowsSkip, ConsumeSkip
  <2>14. CASE HandlerReturns(w)
    BY <2>14, <1>t DEF HandlerReturns, control
  <2>15. CASE WaitTimesOut(w)
    BY <2>15, <1>t DEF WaitTimesOut, Turn, Raise
  <2> QED
    BY <1>3, <2>1, <2>2, <2>3, <2>4, <2>5, <2>6, <2>7, <2>8, <2>9, <2>10,
       <2>11, <2>12, <2>13, <2>14, <2>15 DEF WorkerStep, WaitStep
<1> QED
  BY <1>1, <1>2, <1>3 DEF Next

\* A pending challenge keeps its waiter, and the waiter its peace, in each
\* step: a stop or a skip cancels the challenge in the step that sets the
\* flag, and the only other ways out of a wait clear the challenge with it.
LEMMA WaiterInvariance ==
  IInv /\ [Next]_vars => WaiterUndisturbed' /\ PendingChallengeHasWaiter'
<1> SUFFICES ASSUME IInv, [Next]_vars
             PROVE  WaiterUndisturbed' /\ PendingChallengeHasWaiter'
  OBVIOUS
<1> USE DEF WaiterUndisturbed, PendingChallengeHasWaiter, Pending, MustStop
<1>t. /\ att \in [Workers -> 0..MaxAttempts] /\ DOMAIN pc = Workers
      /\ DOMAIN cid = Workers /\ challenge \in Challenges
  BY DEF IInv, TypeOK
<1>i. WaiterUndisturbed /\ PendingChallengeHasWaiter
  BY DEF IInv
<1>1. CASE UNCHANGED vars
  BY <1>1, <1>i DEF vars, control, local
<1>2. CASE ApiStep
  <2>c. \A r \in {"stop", "completion", "skip"} : Cancelled(r).status # "pending"
    BY <1>t DEF Cancelled, Challenges
  <2>1. CASE RequestStop \/ RequestCompletionStop \/ RequestSkipCurrent
    BY <2>1, <2>c DEF RequestStop, RequestCompletionStop, RequestSkipCurrent
  <2>2. CASE RequestStopAfterCurrent
    BY <2>2, <1>i DEF RequestStopAfterCurrent, local
  <2>3. CASE SubmitVerification \/ LateVerificationRequest
    BY <2>3, <1>t DEF SubmitVerification, LateVerificationRequest, NoChallenge,
       Challenges
  <2>4. CASE RequestVerificationAction
    BY <2>4, <1>i, <1>t DEF RequestVerificationAction, local, Challenges
  <2> QED
    BY <1>2, <2>1, <2>2, <2>3, <2>4 DEF ApiStep
<1>3. CASE Deadline
  BY <1>3, <1>i, <1>t DEF Deadline, local, Challenges
<1>4. ASSUME NEW w \in Workers, WorkerStep(w)
      PROVE  WaiterUndisturbed' /\ PendingChallengeHasWaiter'
  <2>1. CASE StartAttempt(w)
    BY <2>1, <1>i, <1>t DEF StartAttempt, Claim
  <2>2. CASE SkipBeforeStart(w)
    BY <2>2, <1>i DEF SkipBeforeStart, local
  <2>3. CASE FinishAttempt(w)
    <3>1. CASE challenge.owner = att[w]
      BY <2>3, <3>1, <1>t DEF FinishAttempt, Release, Cancelled, Challenges
    <3>2. CASE challenge.owner # att[w]
      BY <2>3, <3>2, <1>i, <1>t DEF FinishAttempt, Release
    <3> QED
      BY <3>1, <3>2
  <2>4. CASE ResumeAttempt(w)
    BY <2>4, <1>i, <1>t DEF ResumeAttempt, Release
  <2>5. CASE LeaveAttempt(w)
    BY <2>5, <1>i, <1>t DEF LeaveAttempt, control
  <2>6. CASE OpenChallenge(w)
    <3>1. att[w] \in active
      BY <2>6 DEF OpenChallenge, IInv, AttemptBooks, Holding
    <3>2. pendingSkips = 0
      BY <2>6, BoundsAssumption DEF OpenChallenge, Passes, MustSkip, IInv, TypeOK
    <3> QED
      BY <2>6, <3>1, <3>2, <1>t
      DEF OpenChallenge, Passes, MustSkip, NewChallenge
  <2>7. CASE CheckpointStop(w)
    BY <2>7, <1>i DEF CheckpointStop, control
  <2>8. CASE CheckpointSkip(w)
    BY <2>8, <1>i, <1>t DEF CheckpointSkip, MustSkip, ConsumeSkip, Raise
  <2>9. CASE WaitLost(w)
    BY <2>9, <1>i, <1>t DEF WaitLost, Turn, Mine, Raise, control
  <2>10. CASE WaitReturnsCode(w) \/ WaitCancelled(w) \/ WaitTimesOut(w)
    BY <2>10 DEF WaitReturnsCode, WaitCancelled, WaitTimesOut, NoChallenge
  <2>11. CASE HandleAction(w)
    BY <2>11, <1>i, <1>t DEF HandleAction, Turn, control
  <2>12. CASE HandlerSwallowsSkip(w)
    BY <2>12, <1>i, <1>t DEF HandlerSwallowsSkip, MustSkip, ConsumeSkip
  <2>13. CASE HandlerReturns(w)
    BY <2>13, <1>i, <1>t DEF HandlerReturns, control
  <2> QED
    BY <1>4, <2>1, <2>2, <2>3, <2>4, <2>5, <2>6, <2>7, <2>8, <2>9, <2>10,
       <2>11, <2>12, <2>13 DEF WorkerStep, WaitStep
<1> QED
  BY <1>1, <1>2, <1>3, <1>4 DEF Next

\* The inductive invariant holds in every state.
LEMMA Invariance == Spec => []IInv
<1>1. IInv /\ [Next]_vars => IInv'
  BY TypeInvariance, BooksInvariance, WaiterInvariance DEF IInv
<1> QED
  BY InitIInv, <1>1, PTL DEF Spec

\* No attempt id leaks or is shared, and every skip target is a live attempt.
THEOREM AttemptBooksCorrect == Spec => []AttemptBooks
<1>1. IInv => AttemptBooks
  BY DEF IInv
<1> QED
  BY Invariance, <1>1, PTL

\* A challenge the operator can answer has a thread waiting for the answer,
\* and none is open after an interrupting stop.
THEOREM PendingChallengeHasWaiterCorrect == Spec => []PendingChallengeHasWaiter
<1>1. IInv => PendingChallengeHasWaiter
  BY DEF IInv
<1> QED
  BY Invariance, <1>1, PTL

-----------------------------------------------------------------------------
\* A closed gate stays closed and lets no attempt through, although
\* request_stop withdraws an earlier request to stop after the current one.
THEOREM ClosedGateCorrect == Spec => ClosedGateClaimsNothing
<1>1. ASSUME [Next]_vars, Closed PROVE Closed' /\ UNCHANGED nextAttempt
  <2>1. CASE UNCHANGED vars
    BY <1>1, <2>1 DEF vars, control, Closed
  <2>2. CASE ApiStep \/ Deadline
    BY <1>1, <2>2 DEF Closed, ApiStep, RequestStop, RequestCompletionStop,
       RequestStopAfterCurrent, RequestSkipCurrent, SubmitVerification,
       RequestVerificationAction, LateVerificationRequest, Deadline
  <2>3. ASSUME NEW w \in Workers, WorkerStep(w)
        PROVE  Closed' /\ UNCHANGED nextAttempt
    BY <1>1, <2>3 DEF Closed, WorkerStep, StartAttempt, Claim, SkipBeforeStart,
       FinishAttempt, Release, ResumeAttempt, LeaveAttempt, OpenChallenge, WaitStep,
       CheckpointStop, CheckpointSkip, WaitLost, WaitReturnsCode, WaitCancelled,
       HandleAction, HandlerSwallowsSkip, HandlerReturns, WaitTimesOut, control
  <2> QED
    BY <1>1, <2>1, <2>2, <2>3 DEF Next
<1>2. [Next]_vars => [Closed => Closed' /\ UNCHANGED nextAttempt]_vars
  BY <1>1
<1> QED
  BY <1>2, PTL DEF Spec, ClosedGateClaimsNothing

\* RegisterTaskControl implements the gate: each of its steps is a step of
\* AttemptGate or leaves the gate alone.
THEOREM ImplementsGateCorrect == Spec => ImplementsGate
<1>1. Init => Gate!Init
  BY DEF Init, Gate!Init, Closed
<1>2. ASSUME IInv, [Next]_vars PROVE [Gate!Next]_Gate!gate
  <2> DEFINE Same == /\ Closed' = Closed
                     /\ nextAttempt' = nextAttempt
                     /\ active' = active
  <2>s. Same => UNCHANGED Gate!gate
    BY DEF Gate!gate
  <2>t. /\ nextAttempt \in Nat
        /\ \A w \in Workers : pc[w] # "idle" => att[w] \in 1..(nextAttempt - 1)
        /\ \A w \in Workers : att[w] \in 0..MaxAttempts
        /\ MaxAttempts \in Nat
    BY <1>2, BoundsAssumption DEF IInv, HeldIdsIssued, TypeOK
  <2>1. CASE UNCHANGED vars
    BY <2>1, <2>s DEF vars, control, Closed
  <2>2. CASE RequestStop \/ RequestCompletionStop \/ RequestStopAfterCurrent
    <3>1. Gate!Close
      BY <2>2 DEF Gate!Close, RequestStop, RequestCompletionStop,
         RequestStopAfterCurrent, Closed
    <3> QED
      BY <3>1 DEF Gate!Next
  <2>3. CASE \/ RequestSkipCurrent \/ SubmitVerification \/ Deadline
             \/ RequestVerificationAction \/ LateVerificationRequest
    BY <2>3, <2>s DEF RequestSkipCurrent, SubmitVerification, Deadline,
       RequestVerificationAction, LateVerificationRequest, Closed
  <2>4. ASSUME NEW w \in Workers, WorkerStep(w) PROVE [Gate!Next]_Gate!gate
    <3>1. CASE StartAttempt(w)
      <4>1. nextAttempt \in AttemptIds /\ ~Closed /\ Closed' = Closed
        BY <3>1 DEF StartAttempt, Claim, Closed
      <4>2. 1..(nextAttempt' - 1) = 1..(nextAttempt - 1) \cup {nextAttempt}
        BY <3>1, <2>t, <4>1 DEF StartAttempt, Claim, AttemptIds
      <4>3. Gate!Claim(nextAttempt)
        BY <3>1, <2>t, <4>1, <4>2 DEF StartAttempt, Claim, Gate!Claim
      <4> QED
        BY <4>1, <4>3 DEF Gate!Next
    <3>2. CASE FinishAttempt(w)
      <4>1. Gate!LayDown(att[w])
        BY <3>2 DEF FinishAttempt, Release, Gate!LayDown, Closed
      <4>2. att[w] \in AttemptIds
        BY <3>2, <2>t DEF FinishAttempt, Release, AttemptIds
      <4> QED
        BY <4>1, <4>2 DEF Gate!Next
    <3>3. CASE ResumeAttempt(w)
      <4>1. Gate!LayDown(att[w]) \/ Gate!TakeUp(att[w])
        BY <3>3, <2>t DEF ResumeAttempt, Release, Gate!LayDown, Gate!TakeUp, Closed
      <4>2. att[w] \in AttemptIds
        BY <3>3, <2>t DEF ResumeAttempt, Release, AttemptIds
      <4> QED
        BY <4>1, <4>2 DEF Gate!Next
    <3>4. CASE SkipBeforeStart(w) \/ LeaveAttempt(w) \/ OpenChallenge(w) \/ WaitStep(w)
      BY <3>4, <2>s DEF SkipBeforeStart, LeaveAttempt, OpenChallenge, WaitStep,
         CheckpointStop, CheckpointSkip, WaitLost, WaitReturnsCode,
         WaitCancelled, HandleAction, HandlerSwallowsSkip, HandlerReturns,
         WaitTimesOut, control, Closed
    <3> QED
      BY <2>4, <3>1, <3>2, <3>3, <3>4 DEF WorkerStep
  <2> QED
    BY <1>2, <2>1, <2>2, <2>3, <2>4 DEF Next, ApiStep
<1> QED
  BY Invariance, <1>1, <1>2, PTL DEF Spec, ImplementsGate, Gate!Spec

-----------------------------------------------------------------------------
\* Until an interrupting stop, who is a skip target owes the operator a skip;
\* and a wait that finds its challenge cancelled finds it for a reason that is
\* true of its own attempt.
SkipsAreOwed ==
    /\ MustStop \/ targeted \subseteq owed
    /\ \A w \in Workers :
        /\ pc[w] \in {"waiting", "handling"}
        /\ Mine(w)
        /\ challenge.status = "cancelled"
        => /\ challenge.reason = "stop" => stop
           /\ challenge.reason = "skip" => att[w] \in owed

\* An attempt that ends clears its own debt and its own target, nobody else's.
LEMMA SkipsAreOwedKept == IInv /\ SkipsAreOwed /\ [Next]_vars => SkipsAreOwed'
<1> SUFFICES ASSUME IInv, SkipsAreOwed, [Next]_vars PROVE SkipsAreOwed'
  OBVIOUS
<1> USE DEF SkipsAreOwed, Mine, MustStop
<1>t. /\ att \in [Workers -> 0..MaxAttempts] /\ DOMAIN pc = Workers
      /\ cid \in [Workers -> 0..MaxChallenges] /\ challenge \in Challenges
      /\ targeted \subseteq active
  BY DEF IInv, TypeOK, AttemptBooks
<1>h. \A w \in Workers : Holding(w) => att[w] \in active /\ att[w] # 0
  BY DEF IInv, AttemptBooks, HeldIdsIssued, Holding
<1>u. \A v, w \in Workers : v # w /\ att[v] # 0 => att[v] # att[w]
  BY DEF IInv, AttemptBooks
<1>c. \A r \in Reasons : /\ Cancelled(r).id = challenge.id
                         /\ Cancelled(r).status = "none" <=> challenge.status = "none"
                         /\ \/ Cancelled(r) = challenge
                            \/ Pending /\ Cancelled(r).reason = r
  BY <1>t DEF Cancelled, Challenges, Pending
<1>r. {"stop", "completion", "skip", "finished"} \subseteq Reasons
  BY DEF Reasons
<1>1. CASE UNCHANGED vars
  BY <1>1 DEF vars, control, local
<1>2. CASE ApiStep \/ Deadline
  <2>1. CASE RequestStop \/ RequestCompletionStop
    BY <2>1, <1>c, <1>r DEF RequestStop, RequestCompletionStop, local
  <2>2. CASE RequestSkipCurrent
    <3>1. MustStop' \/ targeted' \subseteq owed'
      BY <2>2 DEF RequestSkipCurrent
    <3>2. ASSUME NEW w \in Workers, pc[w] \in {"waiting", "handling"}
          PROVE  att[w] \in owed'
      BY <2>2, <3>2, <1>h DEF RequestSkipCurrent, Holding
    <3> QED
      BY <2>2, <3>1, <3>2, <1>c, <1>r DEF RequestSkipCurrent, local
  <2>3. CASE RequestStopAfterCurrent
    BY <2>3 DEF RequestStopAfterCurrent, local
  <2>4. CASE \/ SubmitVerification \/ RequestVerificationAction
             \/ LateVerificationRequest \/ Deadline
    <3>1. challenge'.status # "cancelled"
      BY <2>4, <1>t DEF SubmitVerification, RequestVerificationAction,
         LateVerificationRequest, Deadline, NoChallenge, Challenges, Pending
    <3> QED
      BY <2>4, <3>1 DEF SubmitVerification, RequestVerificationAction,
         LateVerificationRequest, Deadline, local
  <2> QED
    BY <1>2, <2>1, <2>2, <2>3, <2>4 DEF ApiStep
<1>3. ASSUME NEW w \in Workers, WorkerStep(w) PROVE SkipsAreOwed'
  <2>1. CASE StartAttempt(w)
    BY <2>1, <1>t DEF StartAttempt, Claim
  <2>2. CASE SkipBeforeStart(w)
    BY <2>2 DEF SkipBeforeStart, local
  <2>3. CASE FinishAttempt(w)
    <3>1. MustStop' \/ targeted' \subseteq owed'
      BY <2>3 DEF FinishAttempt, Release
    <3>2. ASSUME NEW v \in Workers, pc'[v] \in {"waiting", "handling"}
          PROVE  /\ v # w /\ pc[v] = pc'[v] /\ cid'[v] = cid[v] /\ att' = att
                 /\ att[v] \in owed => att[v] \in owed'
      BY <2>3, <3>2, <1>t, <1>h, <1>u DEF FinishAttempt, Release, Holding
    <3>3. \/ challenge' = challenge
          \/ challenge'.reason = "finished"
      BY <2>3, <1>c, <1>r DEF FinishAttempt
    <3> QED
      BY <2>3, <3>1, <3>2, <3>3 DEF FinishAttempt
  <2>4. CASE ResumeAttempt(w)
    BY <2>4, <1>t DEF ResumeAttempt, Release
  <2>5. CASE LeaveAttempt(w)
    BY <2>5, <1>t DEF LeaveAttempt, control
  <2>6. CASE OpenChallenge(w)
    BY <2>6 DEF OpenChallenge, NewChallenge
  <2>7. CASE CheckpointStop(w)
    BY <2>7, <1>t, <1>h, <1>u DEF CheckpointStop, Raise, control, Holding
  <2>8. CASE CheckpointSkip(w)
    <3>1. targeted' \subseteq owed'
      BY <2>8 DEF CheckpointSkip, ConsumeSkip, Raise
    <3>2. ASSUME NEW v \in Workers, pc'[v] \in {"waiting", "handling"}
          PROVE  /\ v # w /\ pc[v] = pc'[v]
                 /\ att[v] \in owed => att[v] \in owed'
      BY <2>8, <3>2, <1>t, <1>h, <1>u DEF CheckpointSkip, Raise, Holding
    <3> QED
      BY <2>8, <3>1, <3>2 DEF CheckpointSkip, Raise
  <2>9. CASE WaitLost(w)
    <3>1. targeted' \subseteq owed'
      BY <2>9 DEF WaitLost, Turn, Passes, MustSkip, Raise, control
    <3>2. ASSUME NEW v \in Workers, pc'[v] \in {"waiting", "handling"}
          PROVE  /\ v # w /\ pc[v] = pc'[v]
                 /\ att[v] \in owed => att[v] \in owed'
      BY <2>9, <3>2, <1>t, <1>h, <1>u DEF WaitLost, Turn, Raise, Holding
    <3> QED
      BY <2>9, <3>1, <3>2 DEF WaitLost, Raise, control
  <2>10. CASE WaitReturnsCode(w)
    BY <2>10 DEF WaitReturnsCode, NoChallenge
  <2>11. CASE WaitCancelled(w) \/ WaitTimesOut(w)
    <3>1. targeted' \subseteq owed'
      BY <2>11 DEF WaitCancelled, WaitTimesOut, Turn, Passes, MustSkip, Raise
    <3> QED
      BY <2>11, <3>1 DEF WaitCancelled, WaitTimesOut, NoChallenge
  <2>12. CASE HandleAction(w) \/ HandlerReturns(w)
    BY <2>12, <1>t DEF HandleAction, HandlerReturns, Turn, Pending, control
  <2>13. CASE HandlerSwallowsSkip(w)
    BY <2>13, <1>t DEF HandlerSwallowsSkip, ConsumeSkip
  <2> QED
    BY <1>3, <2>1, <2>2, <2>3, <2>4, <2>5, <2>6, <2>7, <2>8, <2>9, <2>10,
       <2>11, <2>12, <2>13 DEF WorkerStep, WaitStep
<1> QED
  BY <1>1, <1>2, <1>3 DEF Next

\* A graceful stop interrupts nobody: an attempt ends as stopped only after an
\* interrupting stop, and as skipped only if a skip was asked of it, or was
\* pending when no attempt was active.
THEOREM GracefulStopCorrect == Spec => GracefulStopInterruptsNobody
<1> DEFINE Told(w) ==
      Holding(w) /\ pc'[w] = "raised" /\ pc[w] # "raised" =>
          /\ result'[w] = "stop" => stop \/ completion
          /\ result'[w] = "skip" => att[w] \in owed \/ pendingSkips > 0
<1>1. Init => SkipsAreOwed
  BY DEF Init, SkipsAreOwed
<1>2. ASSUME IInv, SkipsAreOwed, Next PROVE \A w \in Workers : Told(w)
  <2> SUFFICES ASSUME NEW w \in Workers, Holding(w), pc'[w] = "raised", pc[w] # "raised"
               PROVE  Told(w)
    OBVIOUS
  <2>t. DOMAIN pc = Workers /\ DOMAIN result = Workers
    BY <1>2 DEF IInv, TypeOK
  <2>1. PICK v \in Workers : WorkerStep(v)
    BY <1>2 DEF Next, ApiStep, RequestStop, RequestCompletionStop,
       RequestStopAfterCurrent, RequestSkipCurrent, SubmitVerification,
       RequestVerificationAction, LateVerificationRequest, Deadline, local
  <2>2. CASE CheckpointStop(v)
    BY <2>2, <2>t DEF CheckpointStop, Raise, MustStop
  <2>3. CASE CheckpointSkip(v)
    BY <2>3, <2>t, <1>2 DEF CheckpointSkip, Raise, MustSkip, SkipsAreOwed
  <2>4. CASE WaitLost(v) \/ WaitTimesOut(v)
    BY <2>4, <2>t DEF WaitLost, WaitTimesOut, Raise
  <2>5. CASE WaitCancelled(v)
    BY <2>5, <2>t, <1>2 DEF WaitCancelled, Raise, Turn, SkipsAreOwed
  <2>6. CASE ~WaitStep(v) \/ WaitReturnsCode(v) \/ HandleAction(v)
             \/ HandlerSwallowsSkip(v) \/ HandlerReturns(v)
    BY <2>1, <2>6, <2>t DEF WorkerStep, StartAttempt, Claim, SkipBeforeStart,
       FinishAttempt, Release, ResumeAttempt, LeaveAttempt, OpenChallenge, local,
       WaitReturnsCode, HandleAction, HandlerSwallowsSkip, HandlerReturns, Turn
  <2> QED
    BY <2>2, <2>3, <2>4, <2>5, <2>6 DEF WaitStep
<1>3. IInv /\ SkipsAreOwed /\ [Next]_vars => [\A w \in Workers : Told(w)]_vars
  BY <1>2
<1> QED
  BY <1>1, <1>3, Invariance, SkipsAreOwedKept, PTL DEF Spec, GracefulStopInterruptsNobody
=============================================================================
