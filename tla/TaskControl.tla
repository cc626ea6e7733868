----------------------------- MODULE TaskControl -----------------------------
(***************************************************************************)
(* RegisterTaskControl of core/task_runtime.py: the monitor that the API   *)
(* threads (stop, skip, submit a verification code), the task's dispatcher *)
(* and its worker threads share.  Every method holds the condition's lock  *)
(* for its whole body, so a method is one step; the two exceptions are     *)
(* wait_for_verification_code, which gives the lock up while it waits and  *)
(* while it runs the caller's action handler, and which is therefore       *)
(* several steps of its worker.                                            *)
(*                                                                         *)
(* A worker is the thread of a task runner: it claims an attempt, passes   *)
(* checkpoints, may wait for a code typed by the operator, and releases    *)
(* the attempt in a `finally' block; the phone-binding runner may then     *)
(* resume the same attempt with another phone.                             *)
(***************************************************************************)
EXTENDS Naturals

CONSTANTS
    Workers,        \* threads that run attempts
    MaxAttempts,    \* bound: attempts claimed in a behaviour
    MaxChallenges,  \* bound: verification challenges opened in a behaviour
    MaxSkips,       \* bound: skip requests counted while no attempt is active
    MaxActions      \* bound: channel/resend requests on one challenge

ASSUME BoundsAssumption ==
    /\ MaxAttempts \in Nat
    /\ MaxChallenges \in Nat
    /\ MaxSkips \in Nat
    /\ MaxActions \in Nat

VARIABLES
    stop,           \* _stop_requested
    completion,     \* _completion_stop_requested
    afterCurrent,   \* _after_current_requested
    pendingSkips,   \* _pending_skip_requests
    nextAttempt,    \* _next_attempt_id
    active,         \* _active_attempt_ids
    targeted,       \* _skip_active_attempt_ids
    nextChallenge,  \* _next_challenge_id
    challenge,      \* _pending_verification
    pc,             \* what each worker is doing
    att,            \* the attempt id a worker holds, 0 before start_attempt
    cid,            \* challenge_id local to wait_for_verification_code
    handler,        \* whether the caller passed an action_handler
    handled,        \* handled_action_seq, local to the same call
    result,         \* how the worker's last control call ended
    owed            \* history: attempts told to skip that have not yet ended

control == <<stop, completion, afterCurrent, pendingSkips, nextAttempt,
             active, targeted, nextChallenge, challenge>>
local   == <<pc, att, cid, handler, handled, result>>
vars    == <<control, local, owed>>

AttemptIds   == 1..MaxAttempts
ChallengeIds == 1..MaxChallenges

\* "expired" is never stored: the code sets it and drops the challenge at once.
Statuses == {"none", "pending", "submitted", "cancelled"}
Reasons  == {"none", "stop", "completion", "skip", "finished"}
Results  == {"none", "code", "stop", "skip",
             "timeout", "lost", "replaced", "cancelled"}

Challenges  == [id : 0..MaxChallenges, owner : 0..MaxAttempts,
                status : Statuses, reason : Reasons,
                seq : 0..MaxActions, overdue : BOOLEAN]

NewChallenge(i, a) == [id |-> i, owner |-> a, status |-> "pending",
                       reason |-> "none", seq |-> 0, overdue |-> FALSE]

NoChallenge == [id |-> 0, owner |-> 0, status |-> "none", reason |-> "none",
                seq |-> 0, overdue |-> FALSE]

\* Workers between start_attempt (or resume_attempt) and finish_attempt.
Holding(w) == pc[w] \in {"running", "waiting", "handling", "raised"}

TypeOK ==
    /\ stop \in BOOLEAN
    /\ completion \in BOOLEAN
    /\ afterCurrent \in BOOLEAN
    /\ pendingSkips \in 0..MaxSkips
    /\ nextAttempt \in 1..(MaxAttempts + 1)
    /\ active \subseteq 0..MaxAttempts
    /\ targeted \subseteq 0..MaxAttempts
    /\ nextChallenge \in 1..(MaxChallenges + 1)
    /\ challenge \in Challenges
    /\ pc \in [Workers -> {"idle", "running", "waiting", "handling",
                           "raised", "between"}]
    /\ att \in [Workers -> 0..MaxAttempts]
    /\ cid \in [Workers -> 0..MaxChallenges]
    /\ handler \in [Workers -> BOOLEAN]
    /\ handled \in [Workers -> 0..MaxActions]
    /\ result \in [Workers -> Results]
    /\ owed \subseteq 0..MaxAttempts

Init ==
    /\ stop = FALSE
    /\ completion = FALSE
    /\ afterCurrent = FALSE
    /\ pendingSkips = 0
    /\ nextAttempt = 1
    /\ active = {}
    /\ targeted = {}
    /\ nextChallenge = 1
    /\ challenge = NoChallenge
    /\ pc = [w \in Workers |-> "idle"]
    /\ att = [w \in Workers |-> 0]
    /\ cid = [w \in Workers |-> 0]
    /\ handler = [w \in Workers |-> FALSE]
    /\ handled = [w \in Workers |-> 0]
    /\ result = [w \in Workers |-> "none"]
    /\ owed = {}

-----------------------------------------------------------------------------
(* Conditions the methods test. *)

\* The dispatcher's gate: should_stop_starting_new_attempts.
Closed == stop \/ completion \/ afterCurrent

\* Mutant: checkpoint tests the dispatcher's gate.
MustStop_Gate == Closed

\* checkpoint raises StopTaskRequested ...
MustStop == stop \/ completion

\* ... or SkipCurrentAttemptRequested for the attempt of worker w.
MustSkip(w) == att[w] \in targeted \/ pendingSkips > 0

Passes(w) == ~MustStop /\ ~MustSkip(w)

\* Mutant: every skip is taken from the pending counter.
ConsumeSkip_Counter(w) == pendingSkips' = pendingSkips - 1 /\ UNCHANGED targeted

\* A skip addressed to the attempt is used up before a pending one.
ConsumeSkip(w) ==
    IF att[w] \in targeted
    THEN /\ targeted' = targeted \ {att[w]}
         /\ UNCHANGED pendingSkips
    ELSE /\ pendingSkips' = pendingSkips - 1
         /\ UNCHANGED targeted

Pending == challenge.status = "pending"

\* Mutant: a control request leaves the open challenge alone.
Cancelled_Never(reason) == challenge

\* _cancel_pending_verification
Cancelled(reason) ==
    IF Pending
    THEN [challenge EXCEPT !.status = "cancelled", !.reason = reason]
    ELSE challenge

Raise(w, why) ==
    /\ pc' = [pc EXCEPT ![w] = "raised"]
    /\ result' = [result EXCEPT ![w] = why]
    /\ owed' = owed \ {att[w]}
    /\ UNCHANGED <<att, cid, handler, handled>>

-----------------------------------------------------------------------------
(* API threads and the dispatcher. *)

RequestStop ==
    /\ stop' = TRUE
    /\ afterCurrent' = FALSE
    /\ challenge' = Cancelled("stop")
    /\ UNCHANGED <<completion, pendingSkips, nextAttempt, active, targeted,
                   nextChallenge, local, owed>>

RequestCompletionStop ==
    /\ completion' = TRUE
    /\ challenge' = Cancelled("completion")
    /\ UNCHANGED <<stop, afterCurrent, pendingSkips, nextAttempt, active,
                   targeted, nextChallenge, local, owed>>

RequestStopAfterCurrent ==
    /\ ~stop
    /\ afterCurrent' = TRUE
    /\ UNCHANGED <<stop, completion, pendingSkips, nextAttempt, active,
                   targeted, nextChallenge, challenge, local, owed>>

RequestSkipCurrent ==
    /\ IF active # {}
       THEN /\ targeted' = targeted \cup active
            /\ owed' = owed \cup active
            /\ UNCHANGED pendingSkips
       ELSE /\ pendingSkips < MaxSkips
            /\ pendingSkips' = pendingSkips + 1
            /\ UNCHANGED <<targeted, owed>>
    /\ challenge' = Cancelled("skip")
    /\ UNCHANGED <<stop, completion, afterCurrent, nextAttempt, active,
                   nextChallenge, local>>

\* submit_verification before the deadline.  Another id, or a challenge that
\* is no longer pending, is refused and changes nothing.
SubmitVerification ==
    /\ Pending
    /\ ~challenge.overdue
    /\ challenge' = [challenge EXCEPT !.status = "submitted"]
    /\ UNCHANGED <<stop, completion, afterCurrent, pendingSkips, nextAttempt,
                   active, targeted, nextChallenge, local, owed>>

\* request_verification_action before the deadline.
RequestVerificationAction ==
    /\ Pending
    /\ ~challenge.overdue
    /\ challenge.seq < MaxActions
    /\ challenge' = [challenge EXCEPT !.seq = @ + 1]
    /\ UNCHANGED <<stop, completion, afterCurrent, pendingSkips, nextAttempt,
                   active, targeted, nextChallenge, local, owed>>

\* Either of the two after the deadline: the challenge is dropped.
LateVerificationRequest ==
    /\ Pending
    /\ challenge.overdue
    /\ challenge' = NoChallenge
    /\ UNCHANGED <<stop, completion, afterCurrent, pendingSkips, nextAttempt,
                   active, targeted, nextChallenge, local, owed>>

\* The clock passes expires_at, which is read only while the code is awaited.
Deadline ==
    /\ Pending
    /\ ~challenge.overdue
    /\ challenge' = [challenge EXCEPT !.overdue = TRUE]
    /\ UNCHANGED <<stop, completion, afterCurrent, pendingSkips, nextAttempt,
                   active, targeted, nextChallenge, local, owed>>

-----------------------------------------------------------------------------
(* Workers: claiming and releasing attempts. *)

\* Claiming an id, gate apart.
Claim(w) ==
    /\ pc[w] = "idle"
    /\ nextAttempt \in AttemptIds
    /\ nextAttempt' = nextAttempt + 1
    /\ active' = active \cup {nextAttempt}
    /\ pc' = [pc EXCEPT ![w] = "running"]
    /\ att' = [att EXCEPT ![w] = nextAttempt]
    /\ result' = [result EXCEPT ![w] = "none"]
    /\ UNCHANGED <<stop, completion, afterCurrent, pendingSkips, targeted,
                   nextChallenge, challenge, cid, handler, handled, owed>>

\* Mutant: the second gate, in start_attempt, tests only for an interrupt.
StartAttempt_Ungated(w) == ~MustStop /\ Claim(w)

\* With the gate closed start_attempt returns None and changes nothing.
StartAttempt(w) == ~Closed /\ Claim(w)

\* checkpoint() before an attempt is claimed uses up a pending skip.
SkipBeforeStart(w) ==
    /\ pc[w] = "idle"
    /\ ~MustStop
    /\ pendingSkips > 0
    /\ pendingSkips' = pendingSkips - 1
    /\ UNCHANGED <<stop, completion, afterCurrent, nextAttempt, active,
                   targeted, nextChallenge, challenge, local, owed>>

\* Mutant: the skip outlives the attempt.
Release_KeepsTarget(w) == active' = active \ {att[w]} /\ UNCHANGED targeted

Release(w) ==
    /\ active' = active \ {att[w]}
    /\ targeted' = targeted \ {att[w]}

FinishAttempt(w) ==
    /\ pc[w] \in {"running", "raised"}
    /\ Release(w)
    /\ challenge' = IF challenge.owner = att[w] THEN Cancelled("finished")
                    ELSE challenge
    /\ pc' = [pc EXCEPT ![w] = "between"]
    /\ cid' = [cid EXCEPT ![w] = 0]
    /\ handler' = [handler EXCEPT ![w] = FALSE]
    /\ handled' = [handled EXCEPT ![w] = 0]
    /\ owed' = owed \ {att[w]}
    /\ UNCHANGED <<stop, completion, afterCurrent, pendingSkips, nextAttempt,
                   nextChallenge, att, result>>

\* The phone-binding runner goes on with the same account.
ResumeAttempt(w) ==
    /\ pc[w] = "between"
    /\ result[w] # "stop"
    /\ IF MustStop
       THEN /\ Release(w)
            /\ result' = [result EXCEPT ![w] = "stop"]
            /\ UNCHANGED pc
       ELSE /\ active' = active \cup {att[w]}
            /\ pc' = [pc EXCEPT ![w] = "running"]
            /\ result' = [result EXCEPT ![w] = "none"]
            /\ UNCHANGED targeted
    /\ UNCHANGED <<stop, completion, afterCurrent, pendingSkips, nextAttempt,
                   nextChallenge, challenge, att, cid, handler, handled, owed>>

\* The account is over; the thread takes the next one.
LeaveAttempt(w) ==
    /\ pc[w] = "between"
    /\ pc' = [pc EXCEPT ![w] = "idle"]
    /\ att' = [att EXCEPT ![w] = 0]
    /\ UNCHANGED <<control, cid, handler, handled, result, owed>>

-----------------------------------------------------------------------------
(* Workers: checkpoints, made by the running attempt and by every turn of   *)
(* the loop of wait_for_verification_code.  One that passes changes nothing. *)

\* Mutant: a waiting worker does not look at the stop flags.
CheckpointStop_NotWaiting(w) ==
    /\ pc[w] = "running"
    /\ MustStop
    /\ Raise(w, "stop")
    /\ UNCHANGED control

CheckpointStop(w) ==
    /\ pc[w] \in {"running", "waiting"}
    /\ MustStop
    /\ Raise(w, "stop")
    /\ UNCHANGED control

CheckpointSkip(w) ==
    /\ pc[w] \in {"running", "waiting"}
    /\ ~MustStop
    /\ MustSkip(w)
    /\ ConsumeSkip(w)
    /\ Raise(w, "skip")
    /\ UNCHANGED <<stop, completion, afterCurrent, nextAttempt, active,
                   nextChallenge, challenge>>

-----------------------------------------------------------------------------
(* Workers: wait_for_verification_code. *)

OpenChallenge(w) ==
    /\ pc[w] = "running"
    /\ Passes(w)
    /\ nextChallenge \in ChallengeIds
    /\ nextChallenge' = nextChallenge + 1
    /\ challenge' = NewChallenge(nextChallenge, att[w])
    /\ pc' = [pc EXCEPT ![w] = "waiting"]
    /\ cid' = [cid EXCEPT ![w] = nextChallenge]
    /\ handled' = [handled EXCEPT ![w] = 0]
    /\ \E h \in BOOLEAN : handler' = [handler EXCEPT ![w] = h]
    /\ result' = [result EXCEPT ![w] = "none"]
    /\ UNCHANGED <<stop, completion, afterCurrent, pendingSkips, nextAttempt,
                   active, targeted, att, owed>>

\* One turn of the loop reaches the challenge when the checkpoint passed.
Turn(w) == pc[w] = "waiting" /\ Passes(w)
Mine(w) == challenge.status # "none" /\ challenge.id = cid[w]
ActionDue(w) == handler[w] /\ challenge.seq > handled[w]

\* "the waiting state was lost" / "was replaced by a new challenge".
WaitLost(w) ==
    /\ Turn(w)
    /\ ~Mine(w)
    /\ Raise(w, IF challenge.status = "none" THEN "lost" ELSE "replaced")
    /\ UNCHANGED control

WaitReturnsCode(w) ==
    /\ Turn(w)
    /\ Mine(w)
    /\ challenge.status = "submitted"
    /\ challenge' = NoChallenge
    /\ pc' = [pc EXCEPT ![w] = "running"]
    /\ result' = [result EXCEPT ![w] = "code"]
    /\ UNCHANGED <<stop, completion, afterCurrent, pendingSkips, nextAttempt,
                   active, targeted, nextChallenge, att, cid, handler, handled,
                   owed>>

WaitCancelled(w) ==
    /\ Turn(w)
    /\ Mine(w)
    /\ challenge.status = "cancelled"
    /\ challenge' = NoChallenge
    /\ targeted' = IF challenge.reason = "skip" THEN targeted \ {att[w]}
                   ELSE targeted
    /\ Raise(w, IF challenge.reason \in {"stop", "skip"} THEN challenge.reason
                ELSE "cancelled")
    /\ UNCHANGED <<stop, completion, afterCurrent, pendingSkips, nextAttempt,
                   active, nextChallenge>>

\* Mutant: handled_action_seq is not advanced.
HandleAction_Again(w) ==
    /\ Turn(w)
    /\ Mine(w)
    /\ Pending
    /\ ActionDue(w)
    /\ pc' = [pc EXCEPT ![w] = "handling"]
    /\ UNCHANGED <<control, att, cid, handler, handled, result, owed>>

\* A channel switch or resend: the handler runs with the lock released.
HandleAction(w) ==
    /\ Turn(w)
    /\ Mine(w)
    /\ Pending
    /\ ActionDue(w)
    /\ handled' = [handled EXCEPT ![w] = challenge.seq]
    /\ pc' = [pc EXCEPT ![w] = "handling"]
    /\ UNCHANGED <<control, att, cid, handler, result, owed>>

\* The handler's own _check_stop may raise; the wait swallows the exception,
\* which may already have used up a skip.
HandlerSwallowsSkip(w) ==
    /\ pc[w] = "handling"
    /\ ~MustStop
    /\ MustSkip(w)
    /\ ConsumeSkip(w)
    /\ pc' = [pc EXCEPT ![w] = "waiting"]
    /\ UNCHANGED <<stop, completion, afterCurrent, nextAttempt, active,
                   nextChallenge, challenge, att, cid, handler, handled, result,
                   owed>>

HandlerReturns(w) ==
    /\ pc[w] = "handling"
    /\ pc' = [pc EXCEPT ![w] = "waiting"]
    /\ UNCHANGED <<control, att, cid, handler, handled, result, owed>>

WaitTimesOut(w) ==
    /\ Turn(w)
    /\ Mine(w)
    /\ Pending
    /\ ~ActionDue(w)
    /\ challenge.overdue
    /\ challenge' = NoChallenge
    /\ Raise(w, "timeout")
    /\ UNCHANGED <<stop, completion, afterCurrent, pendingSkips, nextAttempt,
                   active, targeted, nextChallenge>>

-----------------------------------------------------------------------------
ApiStep ==
    \/ RequestStop
    \/ RequestCompletionStop
    \/ RequestStopAfterCurrent
    \/ RequestSkipCurrent
    \/ SubmitVerification
    \/ RequestVerificationAction
    \/ LateVerificationRequest

WaitStep(w) ==
    \/ CheckpointStop(w)
    \/ CheckpointSkip(w)
    \/ WaitLost(w)
    \/ WaitReturnsCode(w)
    \/ WaitCancelled(w)
    \/ HandleAction(w)
    \/ HandlerSwallowsSkip(w)
    \/ HandlerReturns(w)
    \/ WaitTimesOut(w)

WorkerStep(w) ==
    \/ StartAttempt(w)
    \/ SkipBeforeStart(w)
    \/ FinishAttempt(w)
    \/ ResumeAttempt(w)
    \/ LeaveAttempt(w)
    \/ OpenChallenge(w)
    \/ WaitStep(w)

Next == ApiStep \/ Deadline \/ \E w \in Workers : WorkerStep(w)

Spec == Init /\ [][Next]_vars

(***************************************************************************)
(* Fairness.  A waiter is woken by notify_all or after half a second, so   *)
(* it takes its next turn; the work between two control calls is bounded   *)
(* by its own timeouts, so an attempt reaches its `finally' and its thread *)
(* goes on.  Nothing is assumed of the operator.  Time passes.             *)
(***************************************************************************)
Fairness ==
    /\ WF_vars(Deadline)
    /\ \A w \in Workers :
        /\ WF_vars(WaitStep(w))
        /\ WF_vars(FinishAttempt(w))
        /\ WF_vars(LeaveAttempt(w))

FairSpec == Spec /\ Fairness

-----------------------------------------------------------------------------
(* Safety. *)

\* The control's books agree with its threads: the active ids are exactly
\* those of the attempts between start_attempt/resume_attempt and
\* finish_attempt, no two threads hold one id, and only an active attempt is
\* a skip target.  A leaked id would keep "active_attempts" above zero, turn
\* every later skip into a targeted one and so lose it; a target left behind
\* by a finished attempt would skip an account the operator never saw.
AttemptBooks ==
    /\ active = {att[w] : w \in {v \in Workers : Holding(v)}}
    /\ \A v, w \in Workers : att[v] = att[w] /\ att[v] # 0 => v = w
    /\ targeted \subseteq active

\* A challenge is shown as pending (current_verification_snapshot) only while
\* its own waiter is still in wait_for_verification_code, so a code the API
\* accepts has a reader; and never once an interrupting stop was requested.
PendingChallengeHasWaiter ==
    Pending =>
        /\ ~MustStop
        /\ \E w \in Workers : /\ pc[w] \in {"waiting", "handling"}
                              /\ cid[w] = challenge.id
                              /\ att[w] = challenge.owner

(* Action properties. *)

\* The control is a gate for its dispatchers: it closes once, claims happen
\* only while it is open and under fresh ids, and resume_attempt brings back
\* only an attempt that was claimed.
Gate == INSTANCE AttemptGate WITH open <- ~Closed,
                                  issued <- 1..(nextAttempt - 1),
                                  live <- active
ImplementsGate == Gate!Spec

\* request_stop clears after_current: the gate must stay closed all the same,
\* and from then on start_attempt claims no attempt.
ClosedGateClaimsNothing ==
    [][Closed => Closed' /\ UNCHANGED nextAttempt]_vars

\* should_stop_starting_new_attempts: "graceful stop is a scheduling boundary,
\* never an interruption signal for an already active account (including an
\* OTP wait)".  An attempt ends as stopped only if an interrupting stop was
\* requested; one that ends as skipped was itself a target, or a skip was
\* pending, or the handler of its own wait had consumed the target.
GracefulStopInterruptsNobody ==
    [][\A w \in Workers :
        Holding(w) /\ pc'[w] = "raised" /\ pc[w] # "raised" =>
            /\ result'[w] = "stop" => stop \/ completion
            /\ result'[w] = "skip" => att[w] \in owed \/ pendingSkips > 0]_vars

(* Liveness. *)

\* After an interrupting stop every attempt is released.
StopDrains == MustStop ~> active = {}

\* After a graceful stop every attempt is released or resumed by its own
\* account; no wait for a code lasts for ever.
WaitsEnd ==
    \A w \in Workers : pc[w] \in {"waiting", "handling"} ~> pc[w] \notin {"waiting", "handling"}

(* Claims of the repository that the code does not keep. *)

\* TaskVerificationPanel.tsx:84 offers to skip the current account.  An
\* attempt that was told to skip while it waits must not come back with a code.
SkipIsHonoured ==
    [][\A w \in Workers :
        pc[w] = "waiting" /\ pc'[w] = "running" => att[w] \notin owed]_vars
=============================================================================
