------------------------ MODULE RegisterRunner_proofs ------------------------
(***************************************************************************)
(* Theorems of RegisterRunner, for any target, entry, number of            *)
(* candidates, configured limit, concurrency, executors and number of      *)
(* history writes that fail.                                               *)
(***************************************************************************)
EXTENDS RegisterRunner, FiniteSetTheorems, TLAPS

\* How far the future of attempt i has come, seen from each of the books that
\* the dispatcher and the control keep of it.
Future(i) ==
    /\ i < nextIndex <=> stage[i] # "none"
    /\ i \in inFlight => stage[i] \notin {"none", "cancelled"}
    /\ stage[i] \in {"queued", "entered", "claimed", "saved"} => i \in inFlight
    /\ i \in done => stage[i] = "ended"
    /\ i \in active <=> stage[i] \in {"claimed", "saved"}
    /\ i \in claims => stage[i] \in {"claimed", "saved", "ended"}
    /\ i \in saved => stage[i] \in {"saved", "ended"}
    /\ stage[i] = "saved" => i \in saved
    /\ outcome[i] = "none" <=> stage[i] # "ended"
    /\ outcome[i] = "success" => i \in saved
    /\ outcome[i] = "uncertain" => executor = "browser"

\* The attempts that the dispatcher has counted as registered, and those whose
\* account was saved but whose result is not a success.
Registered == {i \in Indices \ inFlight : outcome[i] = "success"}
Lost       == {i \in saved : outcome[i] \notin {"none", "success"}}

Counts ==
    /\ success = Cardinality(Registered)
    /\ Cardinality(Lost) <= faults

\* What gives the task a final status other than the one of the closing
\* else-branch.
Reason == fatal \/ success >= Target \/ stop \/ afterCurrent \/ stopped \/ erred

\* What the dispatcher knows at each place: in particular it never reaches the
\* top of its loop with nothing in flight unless it has a reason to end.
Course ==
    /\ phase \in {"preflight", "fill"} => success = 0 /\ consumed = 0
    /\ phase = "preflight" => inFlight = {}
    /\ phase \in {"preflight", "fill"} /\ inFlight = {} => nextIndex = 1
    /\ phase # "results" => done = {}
    /\ phase = "waiting" => inFlight # {}
    /\ phase = "loop" /\ inFlight = {} => Reason
    /\ phase \in {"closing", "finishing", "over"} => inFlight = {}
    /\ phase = "closing" => Reason
    /\ phase = "finishing" => verdict \in Terminal
    /\ verdict = "done" => success >= Target
    /\ status \in Terminal <=> phase = "over"
    /\ status = "done" => success >= Target
    /\ completion => success >= Target
    /\ consumed > 0 => erred

IInv ==
    /\ TypeOK
    /\ \A i \in Indices : Future(i)
    /\ SlotsWithinTarget
    /\ Counts
    /\ Course

-----------------------------------------------------------------------------
\* There is always room for one attempt, and never for more than the target.
LEMMA Sizes ==
  /\ Cap \in Nat \ {0}
  /\ MaxWorkers \in 1..Target
  /\ IsFiniteSet(Indices)
<1>1. Unlimited \in Nat \ {0}
  BY ParametersAssumption DEF Unlimited, Least
<1>2. Cap \in Nat \ {0}
  BY <1>1, ParametersAssumption DEF Cap, Least, Most
<1>3. MaxWorkers \in 1..Target
  BY <1>2, ParametersAssumption DEF MaxWorkers, Least
<1>4. IsFiniteSet(Indices)
  BY <1>2, FS_Interval DEF Indices
<1> QED
  BY <1>2, <1>3, <1>4

\* A set of attempts has a number.
LEMMA Countable ==
  ASSUME NEW S \in SUBSET Indices
  PROVE  IsFiniteSet(S) /\ Cardinality(S) \in Nat
<1>1. IsFiniteSet(S)
  BY Sizes, FS_Subset
<1> QED
  BY <1>1, FS_CardinalityType

\* What an action of an attempt has in common with all the others.
LEMMA AttemptSteps ==
  ASSUME IInv, NEW i \in Indices, Attempt(i)
  PROVE  /\ \E to \in Stages :
              /\ stage' = [stage EXCEPT ![i] = to]
              /\ <<stage[i], to>> \in
                    {<<"queued", "entered">>, <<"entered", "ended">>,
                     <<"entered", "claimed">>, <<"claimed", "ended">>,
                     <<"claimed", "saved">>, <<"saved", "ended">>}
         /\ i \in inFlight
         /\ UNCHANGED <<dispatcher, stop, completion, afterCurrent, zeroStop>>
<1>1. stage[i] \in {"queued", "entered", "claimed", "saved"} => i \in inFlight
  BY DEF IInv, Future
<1> USE DEF Goes, Ends, control, Stages
<1>2. CASE Enter(i)
  BY <1>1, <1>2 DEF Enter
<1>3. CASE EntryInterrupted(i)
  BY <1>1, <1>3 DEF EntryInterrupted
<1>4. CASE ClaimRefused(i)
  BY <1>1, <1>4 DEF ClaimRefused
<1>5. CASE Claim(i)
  BY <1>1, <1>5 DEF Claim
<1>6. CASE AttemptStopped(i)
  BY <1>1, <1>6 DEF AttemptStopped
<1>7. CASE AttemptSkipped(i)
  BY <1>1, <1>7 DEF AttemptSkipped
<1>8. CASE AttemptFails(i)
  BY <1>1, <1>8 DEF AttemptFails
<1>9. CASE SaveAccount(i)
  BY <1>1, <1>9 DEF SaveAccount
<1>10. CASE AttemptSucceeds(i)
  BY <1>1, <1>10 DEF AttemptSucceeds
<1>11. CASE HistoryWriteFails(i)
  BY <1>1, <1>11 DEF HistoryWriteFails
<1> QED
  BY <1>2, <1>3, <1>4, <1>5, <1>6, <1>7, <1>8, <1>9, <1>10, <1>11 DEF Attempt

-----------------------------------------------------------------------------
\* Types.
LEMMA InitIInv == Init => IInv
<1> SUFFICES ASSUME Init PROVE IInv
  OBVIOUS
<1> USE DEF Init
<1>1. TypeOK
  <2>1. nextIndex \in 1..(Cap + 1) /\ success \in Nat /\ consumed \in Nat
    BY Sizes
  <2>2. faults \in 0..MaxFaults
    BY ParametersAssumption
  <2>3. stage \in [Indices -> Stages] /\ outcome \in [Indices -> Outcomes]
    BY DEF Stages, Outcomes
  <2> QED
    BY <2>1, <2>2, <2>3 DEF TypeOK
<1>2. ASSUME NEW i \in Indices PROVE Future(i)
  BY <1>2, Sizes DEF Future, Indices
<1>3. Registered = {} /\ Lost = {}
  BY DEF Registered, Lost
<1>4. Counts
  BY <1>3, FS_EmptySet DEF Counts
<1>5. SlotsWithinTarget
  BY FS_EmptySet, ParametersAssumption DEF SlotsWithinTarget
<1>6. Course
  BY DEF Course, Terminal
<1> QED
  BY <1>1, <1>2, <1>4, <1>5, <1>6 DEF IInv

\* Every variable keeps its type when an attempt takes a step.
LEMMA AttemptTypes ==
  ASSUME IInv, NEW i \in Indices, Attempt(i)
  PROVE  TypeOK'
<1> USE DEF TypeOK
<1>1. stage' \in [Indices -> Stages]
  BY AttemptSteps DEF IInv
<1>3. outcome' \in [Indices -> Outcomes] /\ active' \subseteq Indices
  <2> USE DEF Ends, control, Outcomes
  <2>1. CASE Enter(i) \/ SaveAccount(i) \/ Claim(i)
    BY <2>1 DEF Enter, SaveAccount, Claim, IInv
  <2>2. CASE EntryInterrupted(i) \/ ClaimRefused(i)
    BY <2>2 DEF EntryInterrupted, ClaimRefused, IInv
  <2>3. CASE AttemptStopped(i) \/ AttemptSkipped(i) \/ AttemptFails(i)
    BY <2>3 DEF AttemptStopped, AttemptSkipped, AttemptFails, IInv
  <2>4. CASE AttemptSucceeds(i) \/ HistoryWriteFails(i)
    BY <2>4 DEF AttemptSucceeds, HistoryWriteFails, IInv
  <2> QED
    BY <2>1, <2>2, <2>3, <2>4 DEF Attempt
<1>4. faults' \in 0..MaxFaults /\ saved' \subseteq Indices /\ claims' \subseteq Indices
  <2>1. faults \in 0..MaxFaults /\ saved \subseteq Indices /\ claims \subseteq Indices
    BY DEF IInv
  <2>2. CASE HistoryWriteFails(i)
    BY <2>1, <2>2, ParametersAssumption DEF HistoryWriteFails
  <2>3. CASE ~HistoryWriteFails(i)
    BY <2>1, <2>3 DEF Attempt, Enter, SaveAccount, Claim, EntryInterrupted, ClaimRefused,
       AttemptStopped, AttemptSkipped, AttemptFails, AttemptSucceeds
  <2> QED
    BY <2>2, <2>3
<1>5. TypeOK
  BY DEF IInv
<1>6. UNCHANGED <<dispatcher, stop, completion, afterCurrent, zeroStop>>
  BY AttemptSteps
<1> QED
  BY <1>1, <1>3, <1>4, <1>5, <1>6 DEF dispatcher

\* Every variable keeps its type when the dispatcher takes a step.
LEMMA DispatchTypes ==
  ASSUME IInv, Dispatch
  PROVE  TypeOK'
<1>1. TypeOK
  BY DEF IInv
<1>2. Cap \in Nat
  BY Sizes
<1>3. done \in SUBSET inFlight /\ (phase # "results" => done = {})
  BY DEF IInv, TypeOK, Course
<1> USE DEF TypeOK, control, attempts
<1>4. CASE PreflightFails \/ PreflightPasses
  <2>1. CASE PreflightPasses
    BY <1>1, <2>1 DEF PreflightPasses
  <2>2. CASE PreflightFails
    <3>1. status' \in Terminal /\ erred' \in BOOLEAN /\ fatal' \in BOOLEAN
      BY <2>2 DEF PreflightFails, Terminal
    <3> QED
      BY <1>1, <2>2, <3>1 DEF PreflightFails
  <2> QED
    BY <1>4, <2>1, <2>2
<1>12. CASE FillEnds \/ RefillEnds
  BY <1>1, <1>12 DEF FillEnds, RefillEnds
<1>5. CASE Fill \/ Refill
  <2>1. RoomForMore /\ Submit /\ UNCHANGED phase
    BY <1>5 DEF Fill, Refill, Submit
  <2>2. nextIndex \in Indices /\ nextIndex' \in 1..(Cap + 1)
    BY <1>1, <1>2, <2>1 DEF RoomForMore, Submit, Indices
  <2>3. stage' \in [Indices -> Stages]
    BY <1>1, <2>1 DEF Submit, Stages
  <2>4. inFlight' \subseteq Indices /\ done' \subseteq inFlight'
    BY <1>1, <2>1, <2>2 DEF Submit
  <2> QED
    BY <1>1, <2>1, <2>2, <2>3, <2>4 DEF Submit
<1>6. CancelQueued => /\ inFlight' \subseteq Indices
                      /\ stage' \in [Indices -> Stages]
  BY <1>1 DEF CancelQueued, Stages
<1>7. CASE LoopTop
  BY <1>1, <1>3, <1>6, <1>7 DEF LoopTop
<1>8. CASE Decide
  BY <1>1, <1>6, <1>8 DEF Decide
<1>9. CASE Wait
  BY <1>1, <1>9 DEF Wait, Ended
<1>10. ASSUME NEW i \in Indices, TakeResult(i) PROVE TypeOK'
  <2>1. /\ done' \subseteq inFlight'
        /\ inFlight' \subseteq Indices
    BY <1>1, <1>10 DEF TakeResult
  <2>2. success' \in Nat /\ consumed' \in Nat
    BY <1>1, <1>10 DEF TakeResult
  <2>3. erred' \in BOOLEAN /\ fatal' \in BOOLEAN /\ stopped' \in BOOLEAN
    BY <1>1, <1>10 DEF TakeResult
  <2>4. stop' \in BOOLEAN /\ afterCurrent' \in BOOLEAN
    BY <1>1, <1>10 DEF TakeResult
  <2> QED
    BY <1>1, <1>10, <2>1, <2>2, <2>3, <2>4 DEF TakeResult
<1>11. CASE Close \/ Finish
  BY <1>1, <1>11 DEF Close, Finish, FinalStatus, Terminal, IInv, Course
<1> QED
  BY <1>4, <1>5, <1>7, <1>8, <1>9, <1>10, <1>11, <1>12 DEF Dispatch

\* The other steps: the stop requests, those of the API and the one that an
\* attempt makes itself, and stuttering.
Stops == RequestStop \/ RequestStopAfterCurrent \/ \E i \in Indices : ZeroAmountStop(i)

LEMMA StopSteps ==
  ASSUME IInv, Stops
  PROVE  /\ stop' \/ afterCurrent'
         /\ stop => stop'
         /\ stop' \in BOOLEAN /\ afterCurrent' \in BOOLEAN /\ zeroStop' \in BOOLEAN
         /\ UNCHANGED <<completion, active, dispatcher, stage, outcome, faults,
                        saved, claims>>
<1> USE DEF attempts
<1>1. stop \in BOOLEAN /\ afterCurrent \in BOOLEAN /\ zeroStop \in BOOLEAN
  BY DEF IInv, TypeOK
<1>2. CASE RequestStop
  BY <1>1, <1>2 DEF RequestStop
<1>3. CASE RequestStopAfterCurrent
  BY <1>1, <1>3 DEF RequestStopAfterCurrent
<1>4. ASSUME NEW i \in Indices, ZeroAmountStop(i)
      PROVE  /\ stop' \/ afterCurrent'
             /\ stop => stop'
             /\ stop' \in BOOLEAN /\ afterCurrent' \in BOOLEAN /\ zeroStop' \in BOOLEAN
             /\ UNCHANGED <<completion, active, dispatcher, stage, outcome, faults,
                            saved, claims>>
  BY <1>1, <1>4 DEF ZeroAmountStop
<1> QED
  BY <1>2, <1>3, <1>4 DEF Stops

LEMMA StopInvariance ==
  ASSUME IInv, Stops
  PROVE  IInv'
<1> USE StopSteps DEF dispatcher
<1>1. TypeOK'
  BY DEF IInv, TypeOK
<1>2. \A i \in Indices : Future(i)'
  BY DEF IInv, Future
<1>3. SlotsWithinTarget'
  BY DEF IInv, SlotsWithinTarget
<1>4. Counts'
  BY DEF IInv, Counts, Registered, Lost
<1>5. Course'
  BY DEF IInv, Course, Reason
<1> QED
  BY <1>1, <1>2, <1>3, <1>4, <1>5 DEF IInv

LEMMA StutterInvariance ==
  ASSUME IInv, UNCHANGED vars
  PROVE  IInv'
<1> USE DEF vars, control, dispatcher, attempts
<1>1. TypeOK'
  BY DEF IInv, TypeOK
<1>2. \A i \in Indices : Future(i)'
  BY DEF IInv, Future
<1>3. SlotsWithinTarget'
  BY DEF IInv, SlotsWithinTarget
<1>4. Counts'
  BY DEF IInv, Counts, Registered, Lost
<1>5. Course'
  BY DEF IInv, Course, Reason
<1> QED
  BY <1>1, <1>2, <1>3, <1>4, <1>5 DEF IInv

-----------------------------------------------------------------------------
\* The books agree on every attempt after a step of one of them.
LEMMA AttemptFutures ==
  ASSUME IInv, NEW i \in Indices, Attempt(i), NEW k \in Indices
  PROVE  Future(k)'
<1>1. /\ stage \in [Indices -> Stages]
      /\ outcome \in [Indices -> Outcomes]
      /\ Future(k) /\ Future(i)
  BY DEF IInv, TypeOK
<1>2. UNCHANGED <<nextIndex, inFlight, done, executor>>
  BY AttemptSteps DEF dispatcher
<1>3. CASE k # i
  <2>1. stage'[k] = stage[k]
    BY <1>1, <1>3, AttemptSteps
  <2>2. outcome'[k] = outcome[k] /\ (k \in active' <=> k \in active)
    BY <1>1, <1>3 DEF Attempt, Enter, SaveAccount, Claim, EntryInterrupted, ClaimRefused,
       AttemptStopped, AttemptSkipped, AttemptFails, AttemptSucceeds, HistoryWriteFails,
       Ends, control
  <2>3. (k \in saved' <=> k \in saved) /\ (k \in claims' <=> k \in claims)
    BY <1>3 DEF Attempt, Enter, SaveAccount, Claim, EntryInterrupted, ClaimRefused,
       AttemptStopped, AttemptSkipped, AttemptFails, AttemptSucceeds, HistoryWriteFails
  <2> QED
    BY <1>1, <1>2, <2>1, <2>2, <2>3 DEF Future
<1>4. CASE k = i
  <2> USE <1>1, <1>2, <1>4 DEF Goes, Ends, control, Future
  <2>1. CASE Enter(i)
    BY <2>1 DEF Enter
  <2>2. CASE EntryInterrupted(i)
    BY <2>2 DEF EntryInterrupted
  <2>3. CASE ClaimRefused(i)
    BY <2>3 DEF ClaimRefused
  <2>4. CASE Claim(i)
    BY <2>4 DEF Claim
  <2>5. CASE AttemptStopped(i) \/ AttemptSkipped(i)
    BY <2>5 DEF AttemptStopped, AttemptSkipped
  <2>6. CASE AttemptFails(i)
    BY <2>6 DEF AttemptFails
  <2>7. CASE SaveAccount(i)
    BY <2>7 DEF SaveAccount
  <2>8. CASE AttemptSucceeds(i)
    BY <2>8 DEF AttemptSucceeds
  <2>9. CASE HistoryWriteFails(i)
    BY <2>9 DEF HistoryWriteFails
  <2> QED
    BY <2>1, <2>2, <2>3, <2>4, <2>5, <2>6, <2>7, <2>8, <2>9 DEF Attempt
<1> QED
  BY <1>3, <1>4

\* A step of an attempt moves no number of the dispatcher; it loses an account
\* that was saved only with a history write that fails.
LEMMA AttemptCounts ==
  ASSUME IInv, NEW i \in Indices, Attempt(i)
  PROVE  SlotsWithinTarget' /\ Counts' /\ Course'
<1>1. UNCHANGED <<dispatcher, stop, completion, afterCurrent>>
  BY AttemptSteps
<1>2. SlotsWithinTarget'
  BY <1>1 DEF IInv, SlotsWithinTarget, dispatcher
<1>3. Course'
  BY <1>1 DEF IInv, Course, Reason, dispatcher
<1>4. Registered' = Registered
  <2>1. \A k \in Indices \ inFlight : outcome'[k] = outcome[k]
    <3>1. outcome' = outcome \/ \E o \in Outcomes : outcome' = [outcome EXCEPT ![i] = o]
      BY DEF Attempt, Enter, SaveAccount, Claim, EntryInterrupted, ClaimRefused,
         AttemptStopped, AttemptSkipped, AttemptFails, AttemptSucceeds, HistoryWriteFails,
         Ends, Outcomes
    <3> QED
      BY <3>1, AttemptSteps DEF IInv, TypeOK
  <2> QED
    BY <1>1, <2>1 DEF Registered, dispatcher
<1>5. Cardinality(Lost)' <= faults'
  <2>1. Cardinality(Lost) <= faults /\ Cardinality(Lost) \in Nat
    BY Countable DEF IInv, Counts, Lost, TypeOK
  <2>2. outcome \in [Indices -> Outcomes] /\ saved \subseteq Indices /\ Future(i)
    BY DEF IInv, TypeOK
  <2>3. CASE HistoryWriteFails(i)
    <3>1. Lost' \subseteq Lost \cup {i}
      BY <2>2, <2>3 DEF HistoryWriteFails, Lost, Ends
    <3>2. faults \in Nat /\ faults' >= faults + 1 /\ faults' \in Nat
      BY <2>3, ParametersAssumption DEF HistoryWriteFails, IInv, TypeOK
    <3>3. IsFiniteSet(Lost) /\ IsFiniteSet(Lost \cup {i})
      BY <2>2, Countable DEF Lost
    <3>4. Cardinality(Lost \cup {i}) <= Cardinality(Lost) + 1
      BY <2>1, <3>3, FS_AddElement
    <3>5. Cardinality(Lost') <= Cardinality(Lost \cup {i})
      BY <3>1, <3>3, FS_Subset
    <3>6. Cardinality(Lost') \in Nat /\ Cardinality(Lost \cup {i}) \in Nat
      BY <3>1, <3>3, FS_Subset, FS_CardinalityType
    <3> HIDE DEF Lost
    <3> QED
      BY <2>1, <3>2, <3>4, <3>5, <3>6
  <2>4. CASE ~HistoryWriteFails(i)
    <3>1. faults' = faults
      BY <2>4 DEF Attempt, Enter, SaveAccount, Claim, EntryInterrupted, ClaimRefused,
         AttemptStopped, AttemptSkipped, AttemptFails, AttemptSucceeds
    <3>2. Lost' = Lost
      <4> USE <2>2 DEF Lost, Goes, Ends, Future
      <4>1. CASE Enter(i) \/ Claim(i)
        BY <4>1 DEF Enter, Claim
      <4>2. CASE EntryInterrupted(i) \/ ClaimRefused(i)
        BY <4>2 DEF EntryInterrupted, ClaimRefused
      <4>3. CASE AttemptStopped(i) \/ AttemptSkipped(i)
        BY <4>3 DEF AttemptStopped, AttemptSkipped
      <4>4. CASE AttemptFails(i)
        BY <4>4 DEF AttemptFails
      <4>5. CASE SaveAccount(i)
        BY <4>5 DEF SaveAccount
      <4>6. CASE AttemptSucceeds(i)
        BY <4>6 DEF AttemptSucceeds
      <4> QED
        BY <2>4, <4>1, <4>2, <4>3, <4>4, <4>5, <4>6 DEF Attempt
    <3> QED
      BY <2>1, <3>1, <3>2
  <2> QED
    BY <2>3, <2>4
<1>6. success' = success
  BY <1>1 DEF dispatcher
<1> QED
  BY <1>2, <1>3, <1>4, <1>5, <1>6 DEF Counts, IInv

-----------------------------------------------------------------------------
\* Submitting the next attempt, and withdrawing those that wait for a thread.
LEMMA SubmitBooks ==
  ASSUME IInv, RoomForMore, Submit
  PROVE  /\ \A k \in Indices : Future(k)'
         /\ Registered' = Registered /\ Lost' = Lost
         /\ inFlight' = inFlight \cup {nextIndex}
         /\ nextIndex \in Indices
<1>1. nextIndex \in Indices /\ nextIndex \in Nat
  BY Sizes DEF IInv, TypeOK, RoomForMore, Indices
<1>2. /\ stage \in [Indices -> Stages]
      /\ \A k \in Indices : Future(k)
      /\ saved \subseteq Indices
  BY DEF IInv, TypeOK
<1>3. ASSUME NEW k \in Indices PROVE Future(k)'
  <2>1. Future(k) /\ k \in Nat
    BY <1>2 DEF Indices
  <2>2. CASE k = nextIndex
    <3>1. stage'[k] = "queued" /\ k \in inFlight' /\ k < nextIndex'
      BY <1>1, <1>2, <2>2 DEF Submit
    <3> QED
      BY <1>1, <2>1, <2>2, <3>1 DEF Submit, Future, control
  <2>3. CASE k # nextIndex
    <3>1. stage'[k] = stage[k] /\ (k \in inFlight' <=> k \in inFlight)
      BY <1>1, <1>2, <2>3 DEF Submit
    <3>2. k < nextIndex' <=> k < nextIndex
      BY <1>1, <2>1, <2>3 DEF Submit
    <3> QED
      BY <2>1, <3>1, <3>2 DEF Submit, Future, control
  <2> QED
    BY <2>2, <2>3
<1>4. outcome[nextIndex] = "none"
  BY <1>1, <1>2 DEF Future
<1>5. Registered' = Registered /\ Lost' = Lost
  BY <1>4 DEF Submit, Registered, Lost
<1> QED
  BY <1>1, <1>3, <1>5 DEF Submit

LEMMA CancelBooks ==
  ASSUME IInv, CancelQueued, done = {},
         UNCHANGED <<nextIndex, done, active, claims, saved, outcome, executor>>
  PROVE  /\ \A k \in Indices : Future(k)'
         /\ Registered' = Registered /\ Lost' = Lost
         /\ inFlight' \subseteq inFlight
<1>1. \A k \in Indices : Future(k)
  BY DEF IInv
<1>2. ASSUME NEW k \in Indices PROVE Future(k)'
  <2>1. stage'[k] = IF k \in Queued THEN "cancelled" ELSE stage[k]
    BY DEF CancelQueued
  <2>2. k \in inFlight' <=> k \in inFlight /\ k \notin Queued
    BY DEF CancelQueued
  <2>3. k \in Queued <=> k \in inFlight /\ stage[k] = "queued"
    BY DEF Queued
  <2> QED
    BY <1>1, <2>1, <2>2, <2>3 DEF Future
<1>3. \A k \in Indices : k \in Queued => outcome[k] = "none"
  BY <1>1 DEF Queued, Future
<1>4. Registered' = Registered /\ Lost' = Lost
  BY <1>3 DEF CancelQueued, Registered, Lost
<1> QED
  BY <1>2, <1>4 DEF CancelQueued

\* Taking a result: the one step in which the dispatcher counts.
LEMMA TakeBooks ==
  ASSUME IInv, NEW i \in Indices, TakeResult(i)
  PROVE  /\ \A k \in Indices : Future(k)'
         /\ SlotsWithinTarget'
         /\ Counts'
<1> USE DEF attempts
<1>1. /\ inFlight \subseteq Indices /\ success \in Nat /\ consumed \in Nat
      /\ \A k \in Indices : Future(k)
      /\ i \in inFlight /\ saved \subseteq Indices
  BY DEF IInv, TypeOK, TakeResult
<1>2. ASSUME NEW k \in Indices PROVE Future(k)'
  <2>1. stage[i] = "ended"
    BY <1>1 DEF TakeResult, Future
  <2> QED
    BY <1>1, <1>2, <2>1 DEF TakeResult, Future
<1>3. Lost' = Lost /\ faults' = faults
  BY DEF TakeResult, Lost
<1>4. success' = Cardinality(Registered)'
  <2>1. success = Cardinality(Registered) /\ IsFiniteSet(Registered)
    BY Countable DEF IInv, Counts, Registered
  <2>2. i \notin Registered
    BY <1>1 DEF Registered
  <2>3. CASE outcome[i] = "success"
    <3>1. Registered' = Registered \cup {i}
      BY <1>1, <2>3 DEF TakeResult, Registered
    <3> QED
      BY <2>1, <2>2, <2>3, <3>1, FS_AddElement DEF TakeResult
  <2>4. CASE outcome[i] # "success"
    <3>1. Registered' = Registered
      BY <1>1, <2>4 DEF TakeResult, Registered
    <3> QED
      BY <2>1, <2>4, <3>1 DEF TakeResult
  <2> QED
    BY <2>3, <2>4
<1>5. SlotsWithinTarget'
  <2>1. /\ success + consumed + Cardinality(inFlight) <= Target
        /\ consumed > 0 => executor = "browser"
    BY DEF IInv, SlotsWithinTarget
  <2>2. /\ Cardinality(inFlight) \in Nat
        /\ Cardinality(inFlight \ {i}) = Cardinality(inFlight) - 1
    BY <1>1, Countable, FS_RemoveElement
  <2>3. /\ inFlight' = inFlight \ {i} /\ executor' = executor
        /\ success' = IF outcome[i] = "success" THEN success + 1 ELSE success
        /\ consumed' = IF outcome[i] = "uncertain" THEN consumed + 1 ELSE consumed
    BY DEF TakeResult
  <2>4. outcome[i] = "uncertain" => executor = "browser"
    BY <1>1 DEF Future
  <2>5. success' + consumed' <= success + consumed + 1
    BY <1>1, <2>3
  <2>6. success' \in Nat /\ consumed' \in Nat
    BY <1>1, <2>3
  <2>7. success' + consumed' + Cardinality(inFlight') <= Target
    BY <1>1, <2>1, <2>2, <2>3, <2>5, <2>6, ParametersAssumption
  <2>8. consumed' > 0 => executor' = "browser"
    BY <1>1, <2>1, <2>3, <2>4
  <2> QED
    BY <2>7, <2>8 DEF SlotsWithinTarget
<1> QED
  BY <1>2, <1>3, <1>4, <1>5 DEF Counts, IInv

\* The other steps of the dispatcher keep the books.
LEMMA DispatchBooks ==
  ASSUME IInv, Dispatch
  PROVE  (\A k \in Indices : Future(k)') /\ SlotsWithinTarget' /\ Counts'
<1> USE DEF control, attempts
<1> DEFINE Goal == (\A k \in Indices : Future(k)') /\ SlotsWithinTarget' /\ Counts'
<1>t. /\ success \in Nat /\ consumed \in Nat /\ inFlight \subseteq Indices
      /\ \A k \in Indices : Future(k)
      /\ SlotsWithinTarget /\ Counts /\ Course
  BY DEF IInv, TypeOK
<1>f. IsFiniteSet(inFlight) /\ Cardinality(inFlight) \in Nat
  BY <1>t, Countable
<1>1. ASSUME UNCHANGED <<control, executor, success, consumed, nextIndex, inFlight,
                         done, attempts>>
      PROVE  Goal
  BY <1>t, <1>1 DEF Future, SlotsWithinTarget, Counts, Registered, Lost
<1>2. ASSUME CancelQueued, done = {},
             UNCHANGED <<nextIndex, done, active, claims, saved, outcome, executor,
                         success, consumed, faults>>
      PROVE  Goal
  <2>1. /\ \A k \in Indices : Future(k)'
        /\ Registered' = Registered /\ Lost' = Lost
        /\ inFlight' \subseteq inFlight
    BY <1>2, CancelBooks
  <2>2. Cardinality(inFlight') \in Nat /\ Cardinality(inFlight') <= Cardinality(inFlight)
    BY <1>f, <2>1, FS_Subset, FS_CardinalityType
  <2>3. SlotsWithinTarget'
    BY <1>t, <1>f, <1>2, <2>2, ParametersAssumption DEF SlotsWithinTarget
  <2> QED
    BY <1>t, <1>2, <2>1, <2>3 DEF Counts
<1>3. ASSUME RoomForMore, Submit, success + consumed + Cardinality(inFlight) < Target
      PROVE  Goal
  <2>1. /\ \A k \in Indices : Future(k)'
        /\ Registered' = Registered /\ Lost' = Lost
        /\ inFlight' = inFlight \cup {nextIndex}
    BY <1>3, SubmitBooks
  <2>2. Cardinality(inFlight') \in Nat /\ Cardinality(inFlight') <= Cardinality(inFlight) + 1
    BY <1>f, <2>1, FS_AddElement
  <2>3. UNCHANGED <<success, consumed, executor, faults>>
    BY <1>3 DEF Submit
  <2>4. SlotsWithinTarget'
    BY <1>t, <1>f, <1>3, <2>2, <2>3, ParametersAssumption DEF SlotsWithinTarget
  <2> QED
    BY <1>t, <2>1, <2>3, <2>4 DEF Counts
<1>4. CASE PreflightFails \/ PreflightPasses \/ FillEnds \/ RefillEnds
  BY <1>1, <1>4 DEF PreflightFails, PreflightPasses, FillEnds, RefillEnds
<1>5. CASE Close \/ Finish
  BY <1>1, <1>5 DEF Close, Finish
<1>6. CASE Wait
  <2>1. \A k \in Indices : Future(k)'
    BY <1>t, <1>6 DEF Wait, Ended, Future
  <2> QED
    BY <1>t, <1>6, <2>1 DEF Wait, SlotsWithinTarget, Counts, Registered, Lost
<1>7. CASE LoopTop
  <2>1. CASE stop \/ afterCurrent
    BY <1>t, <1>2, <1>7, <2>1 DEF LoopTop, Course
  <2>2. CASE ~(stop \/ afterCurrent)
    BY <1>1, <1>7, <2>2 DEF LoopTop
  <2> QED
    BY <2>1, <2>2
<1>8. CASE Decide
  <2>1. UNCHANGED <<nextIndex, done, active, claims, saved, outcome, executor,
                    success, consumed, faults>> /\ done = {}
    BY <1>8 DEF Decide
  <2>2. CancelQueued \/ UNCHANGED <<inFlight, stage>>
    BY <1>8 DEF Decide
  <2>3. CASE CancelQueued
    BY <1>2, <2>1, <2>3
  <2>4. CASE UNCHANGED <<inFlight, stage>>
    BY <1>t, <2>1, <2>4 DEF Future, SlotsWithinTarget, Counts, Registered, Lost
  <2> QED
    BY <2>2, <2>3, <2>4
<1>9. CASE Fill
  <2>1. success = 0 /\ consumed = 0
    BY <1>t, <1>9 DEF Fill, Course
  <2>2. Cardinality(inFlight) < Target
    BY <1>f, <1>9, Sizes, ParametersAssumption DEF Fill, RoomForMore
  <2> QED
    BY <1>f, <1>3, <1>9, <2>1, <2>2 DEF Fill
<1>10. CASE Refill
  <2>1. success + consumed + Cardinality(inFlight) < Target
    BY <1>t, <1>f, <1>10 DEF Refill, SlotFree, SlotsWithinTarget
  <2> QED
    BY <1>3, <1>10, <2>1 DEF Refill
<1>11. ASSUME NEW i \in Indices, TakeResult(i) PROVE Goal
  BY <1>11, TakeBooks
<1> QED
  BY <1>4, <1>5, <1>6, <1>7, <1>8, <1>9, <1>10, <1>11 DEF Dispatch

\* The dispatcher keeps its course.
LEMMA DispatchCourse ==
  ASSUME IInv, Dispatch
  PROVE  Course'
<1> USE DEF control, attempts
<1>t. /\ success \in Nat /\ consumed \in Nat /\ inFlight \subseteq Indices
      /\ phase \in {"preflight", "fill", "loop", "waiting", "results", "refill",
                    "closing", "finishing", "over"}
      /\ status \in {"running"} \cup Terminal
      /\ stop \in BOOLEAN /\ completion \in BOOLEAN /\ afterCurrent \in BOOLEAN
      /\ Course /\ SlotsWithinTarget
  BY DEF IInv, TypeOK
<1>c. Cap \in Nat \ {0} /\ MaxWorkers \in 1..Target /\ Target \in Nat \ {0}
  BY Sizes, ParametersAssumption
<1>1. CASE PreflightFails
  BY <1>t, <1>1 DEF PreflightFails, Course, Terminal
<1>2. CASE PreflightPasses
  BY <1>t, <1>2 DEF PreflightPasses, Course, Terminal
<1>3. CASE Fill
  <2>1. nextIndex \in inFlight'
    BY <1>3 DEF Fill, Submit
  <2> QED
    BY <1>t, <1>3, <2>1 DEF Fill, Submit, Course, Terminal
<1>4. CASE FillEnds
  <2>1. inFlight = {} => Closed
    <3> SUFFICES ASSUME inFlight = {} PROVE Closed
      OBVIOUS
    <3>1. nextIndex = 1 /\ Cardinality(inFlight) = 0
      BY <1>t, <1>4, FS_EmptySet DEF FillEnds, Course
    <3> QED
      BY <1>4, <1>c, <3>1 DEF FillEnds, RoomForMore
  <2> QED
    BY <1>t, <1>4, <2>1 DEF FillEnds, Course, Closed, Reason, Terminal
<1>5. CASE LoopTop
  <2>1. inFlight' = {} => Reason'
    <3>1. inFlight = {} => Reason'
      BY <1>t, <1>5 DEF LoopTop, Course, Reason
    <3>2. inFlight' = inFlight \/ stop \/ afterCurrent
      BY <1>5 DEF LoopTop
    <3>3. stop' = stop /\ afterCurrent' = afterCurrent
      BY <1>5 DEF LoopTop
    <3> QED
      BY <3>1, <3>2, <3>3 DEF Reason
  <2> QED
    BY <1>t, <1>5, <2>1 DEF LoopTop, Course, Terminal
<1>6. CASE Wait
  BY <1>t, <1>6 DEF Wait, Course, Terminal
<1>7. ASSUME NEW i \in Indices, TakeResult(i) PROVE Course'
  <2>1. success' \in Nat /\ success' >= success
    BY <1>t, <1>7 DEF TakeResult
  <2>2. consumed' > 0 => erred'
    BY <1>t, <1>7 DEF TakeResult, Course
  <2>3. success >= Target => success' >= Target
    BY <1>t, <1>c, <2>1
  <2> QED
    BY <1>t, <1>7, <2>2, <2>3 DEF TakeResult, Course
<1>8. CASE Decide
  <2>1. phase' = "loop" => Reason'
    <3>1. completion' => success' >= Target
      BY <1>t, <1>8 DEF Decide, Course
    <3> QED
      BY <1>8, <3>1 DEF Decide, Reason
  <2> QED
    BY <1>t, <1>8, <2>1 DEF Decide, Course, Terminal
<1>9. CASE Refill
  BY <1>t, <1>9 DEF Refill, Submit, Course, Terminal
<1>10. CASE RefillEnds
  <2>1. inFlight = {} => Reason'
    <3> SUFFICES ASSUME inFlight = {} PROVE Reason'
      OBVIOUS
    <3>1. Cardinality(inFlight) = 0
      BY FS_EmptySet
    <3>2. CASE ~RoomForMore
      <4>1. nextIndex > Cap \/ Closed
        BY <1>c, <3>1, <3>2 DEF RoomForMore, IInv, TypeOK
      <4>2. CASE nextIndex > Cap
        <5>1. success >= Target \/ success < Target
          BY <1>t, <1>c
        <5> QED
          BY <1>10, <4>2, <5>1 DEF RefillEnds, Reason
      <4>3. CASE Closed
        BY <1>t, <1>10, <4>3 DEF RefillEnds, Closed, Course, Reason
      <4> QED
        BY <4>1, <4>2, <4>3
    <3>3. CASE ~SlotFree
      <4>1. success >= Target \/ consumed > 0
        BY <1>t, <1>c, <3>1, <3>3 DEF SlotFree
      <4> QED
        BY <1>t, <1>10, <4>1 DEF RefillEnds, Course, Reason
    <3> QED
      BY <1>10, <3>2, <3>3 DEF RefillEnds
  <2> QED
    BY <1>t, <1>10, <2>1 DEF RefillEnds, Course, Terminal
<1>11. CASE Close
  <2>1. FinalStatus \in Terminal /\ (FinalStatus = "done" => success >= Target)
    BY <1>t, <1>11 DEF Close, FinalStatus, Terminal, Course, Reason
  <2> QED
    BY <1>t, <1>11, <2>1 DEF Close, Course, Terminal
<1>12. CASE Finish
  BY <1>t, <1>12 DEF Finish, Course, Terminal
<1> QED
  BY <1>1, <1>2, <1>3, <1>4, <1>5, <1>6, <1>7, <1>8, <1>9, <1>10, <1>11, <1>12 DEF Dispatch

LEMMA NextIInv == IInv /\ [Next]_vars => IInv'
<1> SUFFICES ASSUME IInv, [Next]_vars PROVE IInv'
  OBVIOUS
<1>1. CASE UNCHANGED vars
  BY <1>1, StutterInvariance
<1>2. CASE Stops
  BY <1>2, StopInvariance
<1>3. ASSUME NEW i \in Indices, Attempt(i) PROVE IInv'
  <2>1. TypeOK'
    BY <1>3, AttemptTypes
  <2>2. SlotsWithinTarget' /\ Counts' /\ Course'
    BY <1>3, AttemptCounts
  <2>3. \A k \in Indices : Future(k)'
    BY <1>3, AttemptFutures
  <2> QED
    BY <2>1, <2>2, <2>3 DEF IInv
<1>4. CASE Dispatch
  <2>1. TypeOK'
    BY <1>4, DispatchTypes
  <2>2. (\A k \in Indices : Future(k)') /\ SlotsWithinTarget' /\ Counts'
    BY <1>4, DispatchBooks
  <2>3. Course'
    BY <1>4, DispatchCourse
  <2> QED
    BY <2>1, <2>2, <2>3 DEF IInv
<1> QED
  BY <1>1, <1>2, <1>3, <1>4 DEF Next, Stops

\* The inductive invariant holds in every state.
LEMMA Invariance == Spec => []IInv
<1> QED
  BY InitIInv, NextIInv, PTL DEF Spec

\* Every variable of the control, the dispatcher and the attempts keeps its
\* type; in particular the attempts never go beyond the limit.
THEOREM TypeCorrect == Spec => []TypeOK
<1>1. IInv => TypeOK
  BY DEF IInv
<1> QED
  BY Invariance, <1>1, PTL

\* Registered accounts, attempts in flight and identities used up by a browser
\* never exceed the target, however the attempts end and whenever the stops
\* come.
THEOREM SlotsWithinTargetCorrect == Spec => []SlotsWithinTarget
<1>1. IInv => SlotsWithinTarget
  BY DEF IInv
<1> QED
  BY Invariance, <1>1, PTL

\* A future that was submitted and is not in flight any more has been counted
\* or withdrawn.
LEMMA SavedSets ==
  ASSUME IInv
  PROVE  /\ saved \subseteq Registered \cup inFlight \cup Lost
         /\ Registered \subseteq saved
<1>1. /\ saved \subseteq Indices
      /\ \A i \in Indices : Future(i)
  BY DEF IInv, TypeOK
<1> QED
  BY <1>1 DEF Registered, Lost, Future

\* The accounts in the database and those that count differ by the history
\* writes that failed between the save and the result, and by nothing else.
THEOREM LossesAreHistoryFaultsCorrect == Spec => []LossesAreHistoryFaults
<1>1. IInv => LossesAreHistoryFaults
  <2> SUFFICES ASSUME IInv PROVE LossesAreHistoryFaults
    OBVIOUS
  <2>1. /\ saved \in SUBSET Indices /\ inFlight \in SUBSET Indices
        /\ Registered \in SUBSET Indices /\ Lost \in SUBSET Indices
        /\ success \in Nat /\ consumed \in Nat /\ faults \in Nat
    BY DEF IInv, TypeOK, Registered, Lost
  <2>2. /\ success = Cardinality(Registered)
        /\ Cardinality(Lost) <= faults
        /\ success + consumed + Cardinality(inFlight) <= Target
    BY DEF IInv, Counts, SlotsWithinTarget
  <2>3. /\ IsFiniteSet(saved) /\ Cardinality(saved) \in Nat
        /\ IsFiniteSet(inFlight) /\ Cardinality(inFlight) \in Nat
        /\ IsFiniteSet(Registered) /\ Cardinality(Registered) \in Nat
        /\ IsFiniteSet(Lost) /\ Cardinality(Lost) \in Nat
    BY <2>1, Countable
  <2>4. saved \subseteq Registered \cup inFlight \cup Lost /\ Registered \subseteq saved
    BY SavedSets
  <2>5. status \in Terminal => inFlight = {}
    BY DEF IInv, Course
  <2> HIDE DEF Registered, Lost
  <2>6. /\ IsFiniteSet(Registered \cup inFlight)
        /\ Cardinality(Registered \cup inFlight) \in Nat
        /\ Cardinality(Registered \cup inFlight) <= Cardinality(Registered) + Cardinality(inFlight)
    <3>1. /\ IsFiniteSet(Registered \cup inFlight)
          /\ Cardinality(Registered \cup inFlight)
               = Cardinality(Registered) + Cardinality(inFlight) - Cardinality(Registered \cap inFlight)
      BY <2>3, FS_Union
    <3>2. Cardinality(Registered \cap inFlight) \in Nat
      BY <2>1, Countable
    <3>3. Cardinality(Registered \cup inFlight) \in Nat
      BY <3>1, FS_CardinalityType
    <3> QED
      BY <2>3, <3>1, <3>2, <3>3
  <2>7. Cardinality(saved) <= Cardinality(Registered \cup inFlight) + Cardinality(Lost)
    <3> DEFINE all == (Registered \cup inFlight) \cup Lost
    <3>1. /\ IsFiniteSet(all)
          /\ Cardinality(all)
               = Cardinality(Registered \cup inFlight) + Cardinality(Lost)
                  - Cardinality((Registered \cup inFlight) \cap Lost)
      BY <2>3, <2>6, FS_Union
    <3>2. Cardinality((Registered \cup inFlight) \cap Lost) \in Nat
      BY <2>1, Countable
    <3>3. Cardinality(all) \in Nat
      BY <3>1, FS_CardinalityType
    <3>4. saved \subseteq all
      BY <2>4
    <3> HIDE DEF all
    <3>5. Cardinality(saved) <= Cardinality(all)
      BY <3>1, <3>4, FS_Subset
    <3> QED
      BY <2>3, <2>6, <3>1, <3>2, <3>3, <3>5
  <2>8. Cardinality(saved) <= Target + faults
    BY <2>1, <2>2, <2>3, <2>6, <2>7, ParametersAssumption
  <2>9. success <= Cardinality(saved)
    BY <2>2, <2>3, <2>4, FS_Subset
  <2>10. status \in Terminal => Cardinality(saved) <= success + faults
    <3> SUFFICES ASSUME status \in Terminal PROVE Cardinality(saved) <= success + faults
      OBVIOUS
    <3>1. Cardinality(inFlight) = 0
      BY <2>5, FS_EmptySet
    <3> QED
      BY <2>1, <2>2, <2>3, <2>6, <2>7, <3>1
  <2> QED
    BY <2>8, <2>9, <2>10 DEF LossesAreHistoryFaults
<1> QED
  BY Invariance, <1>1, PTL

\* A terminal task has no attempt that runs or may still run, and is called
\* done only with the accounts that were asked for.
THEOREM TerminalIsSoundCorrect == Spec => []TerminalIsSound
<1>1. IInv => TerminalIsSound
  <2> SUFFICES ASSUME IInv PROVE TerminalIsSound
    OBVIOUS
  <2>1. status \in Terminal => inFlight = {}
    BY DEF IInv, Course
  <2>2. /\ \A i \in Indices : Future(i)
        /\ stage \in [Indices -> Stages] /\ active \subseteq Indices
    BY DEF IInv, TypeOK
  <2>3. status \in Terminal =>
          /\ active = {}
          /\ \A i \in Indices : stage[i] \in {"none", "cancelled", "ended"}
    BY <2>1, <2>2 DEF Future, Stages
  <2>4. status = "done" => success = Target
    <3>1. status = "done" => success >= Target
      BY DEF IInv, Course
    <3>2. /\ success \in Nat /\ consumed \in Nat /\ Cardinality(inFlight) \in Nat
          /\ success + consumed + Cardinality(inFlight) <= Target
      BY Countable DEF IInv, TypeOK, SlotsWithinTarget
    <3> QED
      BY <3>1, <3>2, ParametersAssumption
  <2> QED
    BY <2>3, <2>4 DEF TerminalIsSound
<1> QED
  BY Invariance, <1>1, PTL

\* The runner is a client of the control's gate: every step maps to a step of
\* AttemptGate, or leaves the gate alone.
THEOREM ImplementsGateCorrect == Spec => ImplementsGate
<1>1. Init => Gate!Init
  BY DEF Init, Gate!Init, Closed
<1>2. IInv /\ [Next]_vars => [Gate!Next]_Gate!gate
  <2> SUFFICES ASSUME IInv, [Next]_vars PROVE [Gate!Next]_Gate!gate
    OBVIOUS
  <2> USE DEF Gate!gate, Gate!Next
  <2>t. stop \in BOOLEAN /\ completion \in BOOLEAN /\ afterCurrent \in BOOLEAN
    BY DEF IInv, TypeOK
  <2>1. CASE UNCHANGED vars
    BY <2>1 DEF vars, control, attempts, Closed
  <2>2. ASSUME UNCHANGED <<active, claims>>, Closed' \/ (Closed' <=> Closed)
        PROVE  [Gate!Next]_Gate!gate
    <3>1. CASE Closed'
      BY <2>2, <3>1 DEF Gate!Close
    <3>2. CASE Closed' <=> Closed
      BY <2>2, <3>2
    <3> QED
      BY <2>2, <3>1, <3>2
  <2>3. CASE Stops
    BY <2>2, <2>3, StopSteps DEF Closed
  <2>4. CASE Dispatch
    <3>1. UNCHANGED <<active, claims>>
      BY <2>4 DEF Dispatch, PreflightFails, PreflightPasses, Fill, FillEnds, LoopTop, Wait,
         TakeResult, Decide, Refill, RefillEnds, Close, Finish, Submit, control, attempts
    <3>2. Closed' \/ (Closed' <=> Closed)
      BY <2>t, <2>4 DEF Dispatch, PreflightFails, PreflightPasses, Fill, FillEnds, LoopTop,
         Wait, TakeResult, Decide, Refill, RefillEnds, Close, Finish, Submit, control, Closed
    <3> QED
      BY <2>2, <3>1, <3>2
  <2>5. ASSUME NEW i \in Indices, Attempt(i) PROVE [Gate!Next]_Gate!gate
    <3>1. UNCHANGED <<stop, completion, afterCurrent>>
      BY <2>5, AttemptSteps
    <3>2. CASE Claim(i)
      <4>1. i \notin claims
        BY <3>2 DEF Claim, Goes, IInv, Future
      <4> QED
        BY <3>1, <3>2, <4>1 DEF Claim, Closed, Gate!Claim
    <3>3. CASE Enter(i) \/ SaveAccount(i)
      BY <3>3 DEF Enter, SaveAccount, control, Closed
    <3>4. CASE EntryInterrupted(i) \/ ClaimRefused(i) \/ AttemptStopped(i)
               \/ AttemptSkipped(i) \/ AttemptFails(i) \/ AttemptSucceeds(i)
               \/ HistoryWriteFails(i)
      <4>1. active' = active \ {i} /\ claims' = claims
        BY <3>4 DEF EntryInterrupted, ClaimRefused, AttemptStopped, AttemptSkipped,
           AttemptFails, AttemptSucceeds, HistoryWriteFails, Ends
      <4> QED
        BY <3>1, <4>1 DEF Closed, Gate!LayDown
    <3> QED
      BY <2>5, <3>2, <3>3, <3>4 DEF Attempt
  <2> QED
    BY <2>1, <2>3, <2>4, <2>5 DEF Next, Stops
<1> QED
  BY <1>1, <1>2, Invariance, PTL DEF Spec, ImplementsGate, Gate!Spec

=============================================================================
