--------------------------- MODULE RegisterRunner ---------------------------
(***************************************************************************)
(* _run_register of api/tasks.py: one registration task.  The dispatcher   *)
(* submits attempts to a thread pool, collects their results, backfills    *)
(* the ones that did not register an account until the target is reached,  *)
(* the attempts run out or a stop is requested, drains what has started,   *)
(* and only then gives the task its final status.  An attempt is one call  *)
(* of _do_one in a pool thread.                                            *)
(*                                                                         *)
(* Of RegisterTaskControl only what the runner uses is kept: the three     *)
(* stop flags and the active attempts (TaskControl has the rest).          *)
(***************************************************************************)
EXTENDS Naturals, FiniteSets

CONSTANTS
    Target,         \* target_successes
    Entry,          \* where identities come from
    Candidates,     \* phone lines or e-mail API addresses in the request
    Configured,     \* register_max_attempts, 0 when not set
    Concurrency,    \* the concurrency requested
    PolicyCap,      \* runtime_concurrency_cap of the executor
    Executors,      \* executor types a request may ask for
    MaxFaults       \* bound: history writes that fail (database is locked)

ASSUME ParametersAssumption ==
    /\ Target \in Nat \ {0}
    /\ Entry \in {"phone", "email_api", "manual_otp", "mailbox"}
    /\ Candidates \in Nat
    /\ Configured \in Nat
    /\ Concurrency \in Nat \ {0}
    /\ PolicyCap \in Nat \ {0}
    /\ Executors \subseteq {"protocol", "browser"}
    /\ MaxFaults \in Nat

Least(m, n) == IF m <= n THEN m ELSE n
Most(m, n)  == IF m <= n THEN n ELSE m

\* Without candidates to go through, three attempts for each account but never
\* more than a hundred; a configured limit may lower either, never below the
\* target itself.
Unlimited ==
    IF Entry \in {"phone", "email_api"}
    THEN IF Candidates > 0 THEN Candidates ELSE Target
    ELSE Least(100, 3 * Target)

\* attempt_cap
Cap ==
    IF Configured = 0 THEN Unlimited
    ELSE IF Entry = "email_api" \/ (Entry = "phone" /\ Candidates > 0)
         THEN Least(Unlimited, Most(Target, Configured))
         ELSE Most(Target, Configured)

\* max_workers; phone and manual-code registrations are serial.
MaxWorkers ==
    IF Entry \in {"phone", "manual_otp"} THEN 1
    ELSE Least(Least(Concurrency, PolicyCap), Least(Target, Cap))

VARIABLES
    stop, completion, afterCurrent, \* the control's three flags
    active,         \* the control's active attempts
    executor,       \* req.executor_type, frozen when the task is created
    status,         \* the task record's status
    phase,          \* where the dispatcher is
    verdict,        \* final_status, between its computation and finish
    success,        \* success
    consumed,       \* consumed_browser_failure_slots
    erred,          \* whether `errors' has an entry
    fatal,          \* whether fatal_registration_error is set
    stopped,        \* stopped
    nextIndex,      \* next_attempt_index
    inFlight,       \* the futures in in_flight, by attempt index
    done,           \* the futures of one wait() still to be looked at
    stage,          \* how far each future has come
    outcome,        \* its result
    zeroStop,       \* chatgpt_zero_amount_stop_triggered
    faults,         \* history writes that have failed
    saved,          \* attempts whose account is in the database
    claims          \* history: attempts that start_attempt let through

control    == <<stop, completion, afterCurrent, active>>
dispatcher == <<executor, status, phase, verdict, success, consumed, erred,
                fatal, stopped, nextIndex, inFlight, done>>
attempts   == <<stage, outcome, zeroStop, faults, saved, claims>>
vars       == <<control, dispatcher, attempts>>

Indices  == 1..Cap
Terminal == {"done", "failed", "stopped"}
Stages   == {"none", "queued", "cancelled", "entered", "claimed", "saved", "ended"}
\* "uncertain" is a failure with consumes_target_slot; "fatal" one for which
\* _is_fatal_registration_infrastructure_error holds.
Outcomes == {"none", "success", "skipped", "stopped", "not_started",
             "failed", "uncertain", "fatal"}

TypeOK ==
    /\ stop \in BOOLEAN
    /\ completion \in BOOLEAN
    /\ afterCurrent \in BOOLEAN
    /\ active \subseteq Indices
    /\ executor \in Executors
    /\ status \in {"running"} \cup Terminal
    /\ phase \in {"preflight", "fill", "loop", "waiting", "results", "refill",
                  "closing", "finishing", "over"}
    /\ verdict \in {"none"} \cup Terminal
    /\ success \in Nat
    /\ consumed \in Nat
    /\ erred \in BOOLEAN
    /\ fatal \in BOOLEAN
    /\ stopped \in BOOLEAN
    /\ nextIndex \in 1..(Cap + 1)
    /\ inFlight \subseteq Indices
    /\ done \subseteq inFlight
    /\ stage \in [Indices -> Stages]
    /\ outcome \in [Indices -> Outcomes]
    /\ zeroStop \in BOOLEAN
    /\ faults \in 0..MaxFaults
    /\ saved \subseteq Indices
    /\ claims \subseteq Indices

Init ==
    /\ stop = FALSE
    /\ completion = FALSE
    /\ afterCurrent = FALSE
    /\ active = {}
    /\ executor \in Executors
    /\ status = "running"
    /\ phase = "preflight"
    /\ verdict = "none"
    /\ success = 0
    /\ consumed = 0
    /\ erred = FALSE
    /\ fatal = FALSE
    /\ stopped = FALSE
    /\ nextIndex = 1
    /\ inFlight = {}
    /\ done = {}
    /\ stage = [i \in Indices |-> "none"]
    /\ outcome = [i \in Indices |-> "none"]
    /\ zeroStop = FALSE
    /\ faults = 0
    /\ saved = {}
    /\ claims = {}

Closed    == stop \/ completion \/ afterCurrent
Interrupt == stop \/ completion

-----------------------------------------------------------------------------
(* The API (refused once the task is terminal). *)

RequestStop ==
    /\ status = "running"
    /\ stop' = TRUE
    /\ afterCurrent' = FALSE
    /\ UNCHANGED <<completion, active, dispatcher, attempts>>

RequestStopAfterCurrent ==
    /\ status = "running"
    /\ ~stop
    /\ afterCurrent' = TRUE
    /\ UNCHANGED <<stop, completion, active, dispatcher, attempts>>

-----------------------------------------------------------------------------
(* An attempt, _do_one. *)

Goes(i, from, to) == stage[i] = from /\ stage' = [stage EXCEPT ![i] = to]

\* The result is returned; finish_attempt in the `finally' block comes first.
Ends(i, from, o) ==
    /\ Goes(i, from, "ended")
    /\ outcome' = [outcome EXCEPT ![i] = o]
    /\ active' = active \ {i}

Enter(i) ==
    /\ Goes(i, "queued", "entered")
    /\ UNCHANGED <<control, dispatcher, outcome, zeroStop, faults, saved, claims>>

\* checkpoint() before the claim: a stop, or a skip requested while no attempt
\* was active.
EntryInterrupted(i) ==
    /\ Ends(i, "entered", IF Interrupt THEN "stopped" ELSE "skipped")
    /\ UNCHANGED <<stop, completion, afterCurrent, dispatcher, zeroStop, faults,
                   saved, claims>>

\* The target was reached meanwhile, or start_attempt returned None (so does
\* the wait for the start interval when the gate closes).
ClaimRefused(i) ==
    /\ success >= Target \/ Closed
    /\ Ends(i, "entered",
            IF success < Target /\ stop THEN "stopped" ELSE "not_started")
    /\ UNCHANGED <<stop, completion, afterCurrent, dispatcher, zeroStop, faults,
                   saved, claims>>

\* Mutant: an attempt that was submitted starts, whatever happened since.
Claim_Ungated(i) ==
    /\ success < Target
    /\ Goes(i, "entered", "claimed")
    /\ active' = active \cup {i}
    /\ claims' = claims \cup {i}
    /\ UNCHANGED <<stop, completion, afterCurrent, dispatcher, outcome, zeroStop,
                   faults, saved>>

Claim(i) ==
    /\ success < Target
    /\ ~Closed
    /\ Goes(i, "entered", "claimed")
    /\ active' = active \cup {i}
    /\ claims' = claims \cup {i}
    /\ UNCHANGED <<stop, completion, afterCurrent, dispatcher, outcome, zeroStop,
                   faults, saved>>

\* A checkpoint of the claimed attempt, which runs in the platform's flow.
AttemptStopped(i) ==
    /\ Interrupt
    /\ Ends(i, "claimed", "stopped")
    /\ UNCHANGED <<stop, completion, afterCurrent, dispatcher, zeroStop, faults,
                   saved, claims>>

\* The operator's skip, or an existing account that must not be logged in to.
AttemptSkipped(i) ==
    /\ Ends(i, "claimed", "skipped")
    /\ UNCHANGED <<stop, completion, afterCurrent, dispatcher, zeroStop, faults,
                   saved, claims>>

\* A proxy that fails, an account that is not to be saved, any other error; a
\* browser that had been started leaves the identity used up.
AttemptFails(i) ==
    /\ \E o \in {"failed", "fatal"} \cup
              (IF executor = "browser" THEN {"uncertain"} ELSE {}) :
          Ends(i, "claimed", o)
    /\ UNCHANGED <<stop, completion, afterCurrent, dispatcher, zeroStop, faults,
                   saved, claims>>

SaveAccount(i) ==
    /\ Goes(i, "claimed", "saved")
    /\ saved' = saved \cup {i}
    /\ UNCHANGED <<control, dispatcher, outcome, zeroStop, faults, claims>>

\* Enough accounts with a checkout amount of zero: once in a task the attempt
\* itself requests the stop, whether its account is saved or not.
ZeroAmountStop(i) ==
    /\ stage[i] \in {"claimed", "saved"}
    /\ ~zeroStop
    /\ zeroStop' = TRUE
    /\ stop' = TRUE
    /\ afterCurrent' = FALSE
    /\ UNCHANGED <<completion, active, dispatcher, stage, outcome, faults, saved, claims>>

\* Mutant: a checkpoint between the save and the result.
AttemptSucceeds_Checkpoint(i) ==
    /\ Ends(i, "saved", IF Interrupt THEN "stopped" ELSE "success")
    /\ UNCHANGED <<stop, completion, afterCurrent, dispatcher, zeroStop, faults,
                   saved, claims>>

AttemptSucceeds(i) ==
    /\ Ends(i, "saved", "success")
    /\ UNCHANGED <<stop, completion, afterCurrent, dispatcher, zeroStop, faults,
                   saved, claims>>

\* _save_task_log raises after the account was saved: the general `except'
\* makes it a failure.  When its own _save_task_log raises too, the future has
\* an exception, which the dispatcher counts as a plain failure.
HistoryWriteFails(i) ==
    /\ \/ /\ faults + 1 <= MaxFaults
          /\ faults' = faults + 1
          /\ Ends(i, "saved", IF executor = "browser" THEN "uncertain" ELSE "failed")
       \/ /\ faults + 2 <= MaxFaults
          /\ faults' = faults + 2
          /\ Ends(i, "saved", "failed")
    /\ UNCHANGED <<stop, completion, afterCurrent, dispatcher, zeroStop, saved, claims>>

Attempt(i) ==
    \/ Enter(i)
    \/ EntryInterrupted(i)
    \/ ClaimRefused(i)
    \/ Claim(i)
    \/ AttemptStopped(i)
    \/ AttemptSkipped(i)
    \/ AttemptFails(i)
    \/ SaveAccount(i)
    \/ AttemptSucceeds(i)
    \/ HistoryWriteFails(i)

-----------------------------------------------------------------------------
(* The dispatcher. *)

\* Without a usable proxy the task fails before it starts.
PreflightFails ==
    /\ phase = "preflight"
    /\ phase' = "over"
    /\ erred' = TRUE
    /\ fatal' = TRUE
    /\ status' = IF afterCurrent THEN "stopped" ELSE "failed"
    /\ UNCHANGED <<control, executor, verdict, success, consumed, stopped,
                   nextIndex, inFlight, done, attempts>>

PreflightPasses ==
    /\ phase = "preflight"
    /\ phase' = "fill"
    /\ UNCHANGED <<control, executor, status, verdict, success, consumed, erred,
                   fatal, stopped, nextIndex, inFlight, done, attempts>>

Submit ==
    /\ nextIndex' = nextIndex + 1
    /\ inFlight' = inFlight \cup {nextIndex}
    /\ stage' = [stage EXCEPT ![nextIndex] = "queued"]
    /\ UNCHANGED <<control, executor, status, phase, verdict, success, consumed,
                   erred, fatal, stopped, done, outcome, zeroStop, faults, saved, claims>>

\* Mutant: one attempt more than the limit.
RoomForMore_OneMore ==
    nextIndex <= Cap + 1 /\ Cardinality(inFlight) < MaxWorkers /\ ~Closed

RoomForMore == nextIndex <= Cap /\ Cardinality(inFlight) < MaxWorkers /\ ~Closed

Fill ==
    /\ phase = "fill"
    /\ RoomForMore
    /\ Submit

FillEnds ==
    /\ phase = "fill"
    /\ ~RoomForMore
    /\ phase' = "loop"
    /\ UNCHANGED <<control, executor, status, verdict, success, consumed, erred,
                   fatal, stopped, nextIndex, inFlight, done, attempts>>

\* _cancel_queued_attempts: Future.cancel succeeds on a future that has not
\* been started.
Queued == {i \in inFlight : stage[i] = "queued"}
CancelQueued ==
    /\ inFlight' = inFlight \ Queued
    /\ stage' = [i \in Indices |-> IF i \in Queued THEN "cancelled" ELSE stage[i]]

\* Mutant: a stopped task does not wait for the attempts it has started.
LoopTop_NoDrain ==
    /\ phase = "loop"
    /\ stopped' = (stopped \/ (inFlight # {} /\ stop))
    /\ IF stop \/ afterCurrent THEN CancelQueued ELSE UNCHANGED <<inFlight, stage>>
    /\ phase' = IF inFlight' = {} \/ stopped' THEN "closing" ELSE "waiting"
    /\ UNCHANGED <<control, executor, status, verdict, success, consumed, erred,
                   fatal, nextIndex, done, outcome, zeroStop, faults, saved, claims>>

\* Mutant: the loop goes on for as long as the target is not reached.
LoopTop_Insists ==
    /\ phase = "loop"
    /\ stopped' = (stopped \/ (inFlight # {} /\ stop))
    /\ IF stop \/ afterCurrent THEN CancelQueued ELSE UNCHANGED <<inFlight, stage>>
    /\ phase' = IF inFlight' = {} /\ (success >= Target \/ Closed) THEN "closing" ELSE "waiting"
    /\ UNCHANGED <<control, executor, status, verdict, success, consumed, erred,
                   fatal, nextIndex, done, outcome, zeroStop, faults, saved, claims>>

LoopTop ==
    /\ phase = "loop"
    /\ stopped' = (stopped \/ (inFlight # {} /\ stop))
    /\ IF stop \/ afterCurrent THEN CancelQueued ELSE UNCHANGED <<inFlight, stage>>
    /\ phase' = IF inFlight' = {} THEN "closing" ELSE "waiting"
    /\ UNCHANGED <<control, executor, status, verdict, success, consumed, erred,
                   fatal, nextIndex, done, outcome, zeroStop, faults, saved, claims>>

Ended == {i \in inFlight : stage[i] = "ended"}

\* wait(..., FIRST_COMPLETED) returns every future that has ended, or times out.
Wait ==
    /\ phase = "waiting"
    /\ done' = Ended
    /\ phase' = IF Ended = {} THEN "loop" ELSE "results"
    /\ UNCHANGED <<control, executor, status, verdict, success, consumed, erred,
                   fatal, stopped, nextIndex, inFlight, attempts>>

TakeResult(i) ==
    /\ phase = "results"
    /\ i \in done
    /\ done' = done \ {i}
    /\ inFlight' = inFlight \ {i}
    /\ success' = IF outcome[i] = "success" THEN success + 1 ELSE success
    /\ consumed' = IF outcome[i] = "uncertain" THEN consumed + 1 ELSE consumed
    /\ erred' = (erred \/ outcome[i] \in {"failed", "uncertain", "fatal"})
    /\ fatal' = (fatal \/ outcome[i] = "fatal")
    /\ stopped' = (stopped \/ outcome[i] = "stopped")
    /\ IF outcome[i] = "fatal"
       THEN stop' = TRUE /\ afterCurrent' = FALSE
       ELSE UNCHANGED <<stop, afterCurrent>>
    /\ UNCHANGED <<completion, active, executor, status, phase, verdict,
                   nextIndex, attempts>>

\* After the results of one wait().
Decide ==
    /\ phase = "results"
    /\ done = {}
    /\ stopped' = (stopped \/ success >= Target \/ stop)
    /\ completion' = (completion \/ success >= Target)
    /\ IF fatal \/ stopped' \/ stop \/ completion' \/ afterCurrent
       THEN CancelQueued /\ phase' = "loop"
       ELSE UNCHANGED <<inFlight, stage>> /\ phase' = "refill"
    /\ UNCHANGED <<stop, afterCurrent, active, executor, status, verdict, success,
                   consumed, erred, fatal, nextIndex, done, outcome, zeroStop,
                   faults, saved, claims>>

\* projected_target_slots, below the target.
\* Mutant: only the accounts registered so far are counted.
SlotFree_Registered == success < Target

SlotFree ==
    LET used == success + Cardinality(inFlight)
    IN  (IF executor = "browser" THEN used + consumed ELSE used) < Target

Refill ==
    /\ phase = "refill"
    /\ RoomForMore
    /\ SlotFree
    /\ Submit

\* The attempt limit is an error of the task.
RefillEnds ==
    /\ phase = "refill"
    /\ ~(RoomForMore /\ SlotFree)
    /\ phase' = "loop"
    /\ erred' = (erred \/ (success < Target /\ nextIndex > Cap /\ inFlight = {}))
    /\ UNCHANGED <<control, executor, status, verdict, success, consumed, fatal,
                   stopped, nextIndex, inFlight, done, attempts>>

FinalStatus ==
    IF fatal THEN "failed"
    ELSE IF success >= Target THEN "done"
    ELSE IF stop \/ afterCurrent \/ stopped THEN "stopped"
    ELSE IF erred THEN "failed"
    ELSE "done"

Close ==
    /\ phase = "closing"
    /\ verdict' = FinalStatus
    /\ phase' = "finishing"
    /\ UNCHANGED <<control, executor, status, success, consumed, erred, fatal,
                   stopped, nextIndex, inFlight, done, attempts>>

\* RegisterTaskStore.finish: a graceful stop is reported as such.
Finish ==
    /\ phase = "finishing"
    /\ status' = IF afterCurrent THEN "stopped" ELSE verdict
    /\ phase' = "over"
    /\ UNCHANGED <<control, executor, verdict, success, consumed, erred, fatal,
                   stopped, nextIndex, inFlight, done, attempts>>

Dispatch ==
    \/ PreflightFails
    \/ PreflightPasses
    \/ Fill
    \/ FillEnds
    \/ LoopTop
    \/ Wait
    \/ \E i \in Indices : TakeResult(i)
    \/ Decide
    \/ Refill
    \/ RefillEnds
    \/ Close
    \/ Finish

Next ==
    \/ RequestStop
    \/ RequestStopAfterCurrent
    \/ \E i \in Indices : Attempt(i) \/ ZeroAmountStop(i)
    \/ Dispatch

Spec == Init /\ [][Next]_vars

(***************************************************************************)
(* Fairness.  The dispatcher waits for half a second at most; a pool       *)
(* thread takes up a queued future, and an attempt ends, because each of   *)
(* its waits has a timeout of its own (the browser's hard timeout, the     *)
(* OTP deadline, the clients' request timeouts).                           *)
(***************************************************************************)
Fairness ==
    /\ WF_vars(Dispatch)
    /\ \A i \in Indices : WF_vars(Attempt(i))

FairSpec == Spec /\ Fairness

-----------------------------------------------------------------------------
(* Safety. *)

\* Registered accounts, attempts in flight and identities used up by a browser
\* never exceed the target: "the number of successes and of attempts in flight
\* is counted against the target, so that concurrent completions cannot
\* register more accounts than requested" (changelog.md:360).
SlotsWithinTarget ==
    /\ success + consumed + Cardinality(inFlight) <= Target
    /\ consumed > 0 => executor = "browser"

\* The same of the accounts in the database.  One is lost to the count, and its
\* place in the target given to another attempt, only through a history write
\* that failed between the save and the result; nothing else (no stop, skip or
\* completion) separates the two, and nothing is counted that was not saved.
LossesAreHistoryFaults ==
    /\ Cardinality(saved) <= Target + faults
    /\ status \in Terminal =>
        /\ success <= Cardinality(saved)
        /\ Cardinality(saved) <= success + faults

\* The task becomes terminal only after every attempt that was started has
\* released its runtime state (changelog.md:360: active_attempts = 0 first),
\* and the closing else-branch of the final status is never what calls it done.
TerminalIsSound ==
    /\ status \in Terminal =>
        /\ active = {}
        /\ \A i \in Indices : stage[i] \in {"none", "cancelled", "ended"}
    /\ status = "done" => success = Target

(* Action properties. *)

\* Seen through its claims, the runner is a client of the control's gate: no
\* attempt is claimed after a stop of any kind, none twice.
Gate == INSTANCE AttemptGate WITH AttemptIds <- Indices,
                                  open <- ~Closed,
                                  issued <- claims,
                                  live <- active
ImplementsGate == Gate!Spec

(* Liveness. *)

\* Whatever the attempts do, the task becomes terminal.
TaskEnds == <>(status \in Terminal)

(* A claim of the repository that the code does not keep. *)

\* The runner logs that failing post-processing does not affect the
\* registration's result (tasks.py:29044); the history write that ends an
\* attempt does: the account stays, the target is filled once more.
SavesWithinTarget == Cardinality(saved) <= Target
=============================================================================
