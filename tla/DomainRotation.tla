--------------------------- MODULE DomainRotation ---------------------------
(***************************************************************************)
(* RegistrationDomainRotationManager: one group of e-mail domains, each    *)
(* registered by a child task of its own, a bounded number of them at a    *)
(* time.  A domain of poor quality gives its slot to the next one, a       *)
(* technical failure is tried again after a while, any other failure, or   *)
(* the same one on several domains, winds the whole group up.              *)
(*                                                                         *)
(* The manager's methods run under one lock, so each is one action here;   *)
(* the child tasks, the retry timers, the operator and a restart of the    *)
(* process come in between.  When a domain's quality is poor is decided in *)
(* DomainQuality; here it may be found poor at any report.                 *)
(***************************************************************************)
EXTENDS Naturals, FiniteSets

CONSTANTS
    Domains,        \* how many domains the group has
    Slots,          \* active_domain_slots
    Count,          \* requested_count_per_task
    Codes,          \* categories of technical failures
    RetryLimit,     \* technical_retry_limit (2)
    Circuit,        \* technical_failure_circuit_distinct_domains (2)
    MayRestart,     \* whether the process may be restarted
    MaxFaults       \* bound: persists that fail three times

ASSUME GroupAssumption ==
    /\ Domains \in Nat \ {0}
    /\ Slots \in 1..Domains
    /\ Count \in Nat \ {0}
    /\ "plain" \notin Codes
    /\ RetryLimit \in Nat
    /\ Circuit \in Nat \ {0}
    /\ MayRestart \in BOOLEAN
    /\ MaxFaults \in Nat

VARIABLES
    g,          \* the runtime group and the store's records of its child tasks
    fired,      \* retry timers whose callback waits for the lock
    result,     \* how each ended child task ended
    inTask,     \* accounts the current child task of each domain registered
    accounts,   \* history: accounts registered for each domain
    db,         \* the state of the persisted group
    faults      \* persists that have failed

vars == <<g, fired, result, inTask, accounts, db, faults>>

Positions  == 1..Domains
LiveItem   == {"active", "draining"}
SlotItem   == LiveItem \cup {"retry_wait"}
ItemStates == SlotItem \cup
    {"pending", "completed", "quality_rejected", "stopped", "cancelled",
     "failed", "technical_failed", "start_failed"}
ActiveGroup   == {"running", "stopping", "failing"}
TerminalGroup == {"completed", "stopped", "failed"}

\* "starting" lasts only while the manager's lock is held, so it is not a state
\* of its own.  A child that has ended waits for its terminal callback.
Groups ==
    [state    : ActiveGroup \cup TerminalGroup \cup {"lost"},
     kept     : BOOLEAN,                                \* in _groups
     item     : [Positions -> ItemStates],
     retries  : [Positions -> 0..RetryLimit],           \* retry_count
     trigger  : [Positions -> BOOLEAN],
     progress : [Positions -> BOOLEAN],                 \* quality counters > 0
     armed    : [Positions -> 0..RetryLimit],           \* retry_handles
     events   : SUBSET (Codes \X Positions),            \* technical_failure_events
     child    : [Positions -> {"none", "running", "ended"}],
     moved    : [Positions -> BOOLEAN],                 \* the child skipped accounts
     stop     : [Positions -> {"none", "after_current", "immediate"}]]

TypeOK ==
    /\ g \in Groups
    /\ fired \subseteq (Positions \X (1..RetryLimit))
    /\ result \in [Positions -> {"none", "done", "stopped", "plain"} \cup Codes]
    /\ inTask \in [Positions -> 0..Count]
    /\ accounts \in [Positions -> Nat]
    /\ db \in ActiveGroup \cup TerminalGroup \cup {"interrupted"}
    /\ faults \in 0..MaxFaults

Fresh ==
    [state |-> "running", kept |-> TRUE,
     item     |-> [p \in Positions |-> "pending"],
     retries  |-> [p \in Positions |-> 0],
     trigger  |-> [p \in Positions |-> FALSE],
     progress |-> [p \in Positions |-> FALSE],
     armed    |-> [p \in Positions |-> 0],
     events   |-> {},
     child    |-> [p \in Positions |-> "none"],
     moved    |-> [p \in Positions |-> FALSE],
     stop     |-> [p \in Positions |-> "none"]]

Lost == [Fresh EXCEPT !.state = "lost", !.kept = FALSE]

-----------------------------------------------------------------------------
(* The steps the manager's methods are made of, on a group h. *)

NoTimers == [p \in Positions |-> 0]

\* _stop_task: refused by a task that has ended; an immediate stop stands.
StopRequested(h, P, mode) ==
    [p \in Positions |->
        IF p \in P /\ h.child[p] = "running" /\ h.stop[p] # "immediate"
        THEN mode ELSE h.stop[p]]

\* _begin_group_failure_locked: nothing waits any more, what runs is drained.
Failing(h, culprit) ==
    [h EXCEPT
        !.state = "failing",
        !.armed = NoTimers,
        !.item  = [p \in Positions |->
                      IF h.item[p] = "pending" THEN "cancelled"
                      ELSE IF p = culprit THEN h.item[p]
                      ELSE IF h.item[p] = "retry_wait" THEN "technical_failed"
                      ELSE IF h.item[p] \in LiveItem THEN "draining"
                      ELSE h.item[p]],
        !.stop  = StopRequested(h, {p \in Positions \ {culprit} : h.item[p] \in LiveItem},
                                "after_current")]

InSlots(h) == {p \in Positions : h.item[p] \in SlotItem}

\* Mutant: a domain that waits for its retry holds no slot.
NextPending_Eager(h) ==
    LET waiting == {p \in Positions : h.item[p] = "pending"}
        free    == Slots - Cardinality({p \in Positions : h.item[p] \in LiveItem})
    IN  {p \in waiting : Cardinality({q \in waiting : q < p}) < free}

\* The domains _fill_slots_locked is going to start: the first that wait, as
\* many as there are free slots.
NextPending(h) ==
    LET waiting == {p \in Positions : h.item[p] = "pending"}
        free    == Slots - Cardinality(InSlots(h))
    IN  {p \in waiting : Cardinality({q \in waiting : q < p}) < free}

Started(h, P) ==
    [h EXCEPT
        !.item  = [p \in Positions |-> IF p \in P THEN "active" ELSE h.item[p]],
        !.child = [p \in Positions |-> IF p \in P THEN "running" ELSE h.child[p]]]

\* _fill_slots_locked.  `broken' is a domain whose task cannot be created, which
\* ends the filling and fails the group; 0 when there is none.
Filled(h, broken) ==
    IF h.state # "running" THEN h
    ELSE IF broken \in NextPending(h)
         THEN LET before == Started(h, {p \in NextPending(h) : p < broken})
              IN  Failing([before EXCEPT !.item[broken] = "start_failed"], broken)
         ELSE Started(h, NextPending(h))

\* Mutant: a domain that is being drained does not count as active.
Idle_Hasty(h) ==
    \A p \in Positions : h.item[p] \notin {"active", "retry_wait", "pending"}

Idle(h) == \A p \in Positions : h.item[p] \notin SlotItem \cup {"pending"}

\* _finalize_if_idle_locked
Final(h) ==
    CASE h.state = "stopping" -> "stopped"
      [] h.state = "failing" -> "failed"
      [] h.state = "running" -> "completed"
      [] OTHER -> h.state

\* What every method ends with: the slots are filled, an idle group gets its
\* final state, and the group is persisted, which may fail; a final state that
\* is persisted takes the group out of memory.  (The methods persist in between
\* as well; only the last two states can be told apart afterwards.)
Settles(h) ==
    \E broken \in {0} \cup (IF h.state = "running" THEN NextPending(h) ELSE {}) :
        LET full  == Filled(h, broken)
            final == [full EXCEPT !.state = Final(full), !.armed = NoTimers, !.events = {}]
        IN  \/ /\ g' = IF Idle(full) THEN [final EXCEPT !.kept = FALSE] ELSE full
               /\ db' = g'.state
               /\ UNCHANGED faults
            \/ /\ faults < MaxFaults
               /\ faults' = faults + 1
               /\ g' = IF Idle(full) THEN final ELSE full
               /\ db' \in {db, full.state}

\* create_group; a group whose first persist fails is not created.
Init ==
    /\ \E broken \in {0} \cup NextPending(Fresh) :
          LET full == Filled(Fresh, broken)
          IN  g = IF Idle(full) THEN [full EXCEPT !.state = Final(full), !.kept = FALSE]
                  ELSE full
    /\ fired = {}
    /\ result = [p \in Positions |-> "none"]
    /\ inTask = [p \in Positions |-> 0]
    /\ accounts = [p \in Positions |-> 0]
    /\ db = g.state
    /\ faults = 0

-----------------------------------------------------------------------------
(* What the child tasks report.                                            *)

Recovered(h, p) == [h EXCEPT !.events = {e \in @ : e[2] # p}]

\* _trigger_quality_stop_locked
Drained(h, p) ==
    IF h.item[p] = "active"
    THEN [h EXCEPT !.item[p] = "draining", !.trigger[p] = TRUE,
                   !.stop = StopRequested(h, {p}, "after_current")]
    ELSE h

Reports(h, p) ==
    /\ \E poor \in BOOLEAN : g' = IF poor THEN Drained(h, p) ELSE h
    /\ UNCHANGED <<fired, result, accounts, db, faults>>

\* A worker saves an account and reports it (record_registered_account); the
\* runner keeps to its target (RegisterRunner, SlotsWithinTarget).
ChildRegisters(p) ==
    /\ g.child[p] = "running"
    /\ inTask[p] < Count
    /\ inTask' = [inTask EXCEPT ![p] = @ + 1]
    /\ accounts' = [accounts EXCEPT ![p] = @ + 1]
    /\ g' = Recovered([g EXCEPT !.progress[p] = TRUE], p)
    /\ UNCHANGED <<fired, result, db, faults>>

\* record_registration_result
ChildDecides(p) ==
    /\ g.child[p] = "running"
    /\ Reports(Recovered([g EXCEPT !.progress[p] = TRUE], p), p)
    /\ UNCHANGED inTask

\* record_eligibility_result and record_link_result, about an account that was
\* reported before
ChildLinks(p) ==
    /\ g.child[p] = "running"
    /\ inTask[p] > 0
    /\ Reports(g, p)
    /\ UNCHANGED inTask

ChildSkips(p) ==
    /\ g.child[p] = "running"
    /\ g' = [g EXCEPT !.moved[p] = TRUE]
    /\ UNCHANGED <<fired, result, inTask, accounts, db, faults>>

\* RegisterTaskStore.finish of the child; a graceful stop makes it "stopped".
ChildEnds(p) ==
    /\ g.child[p] = "running"
    /\ g' = [g EXCEPT !.child[p] = "ended"]
    /\ \E r \in {"done", "stopped", "plain"} \cup Codes :
        /\ r = "done" => inTask[p] = Count
        /\ g.stop[p] = "after_current" => r = "stopped"
        /\ result' = [result EXCEPT ![p] = r]
    /\ UNCHANGED <<fired, inTask, accounts, db, faults>>

-----------------------------------------------------------------------------
(* handle_task_terminal. *)

\* The task's record is not looked at again.
Taken(h, p) == [h EXCEPT !.child[p] = "none", !.moved[p] = FALSE, !.stop[p] = "none"]

TechnicallyFailed(h, p) == Failing([h EXCEPT !.item[p] = "technical_failed"], p)

\* Mutant: a task is tried again whatever it has done.
Retryable_Always(p) ==
    result[p] \in Codes /\ ~g.trigger[p] /\ g.state = "running"

\* A technical failure before any business progress.
Retryable(p) ==
    /\ result[p] \in Codes
    /\ ~g.trigger[p]
    /\ g.state = "running"
    /\ ~g.progress[p]
    /\ ~g.moved[p]

\* Mutant: only the circuit ends the retries.
RetryScheduled_Forever(h, p) ==
    LET noted == [h EXCEPT !.events = @ \cup {<<result[p], p>>}]
        alike == {q \in Positions : <<result[p], q>> \in noted.events}
    IN  IF Cardinality(alike) >= Circuit
        THEN TechnicallyFailed(noted, p)
        ELSE [noted EXCEPT !.item[p] = "retry_wait", !.retries[p] = @ + 1,
                           !.armed[p] = h.retries[p] + 1]

\* _schedule_technical_retry_locked
RetryScheduled(h, p) ==
    LET noted == [h EXCEPT !.events = @ \cup {<<result[p], p>>}]
        alike == {q \in Positions : <<result[p], q>> \in noted.events}
    IN  IF Cardinality(alike) >= Circuit \/ h.retries[p] >= RetryLimit
        THEN TechnicallyFailed(noted, p)
        ELSE [noted EXCEPT !.item[p] = "retry_wait", !.retries[p] = @ + 1,
                           !.armed[p] = h.retries[p] + 1]

Forgets(p) ==
    /\ result' = [result EXCEPT ![p] = "none"]
    /\ inTask' = [inTask EXCEPT ![p] = 0]

\* The timer may be impossible to start.
TechnicalFailure(p) ==
    /\ g.child[p] = "ended"
    /\ Retryable(p)
    /\ \/ Settles(RetryScheduled(Taken(g, p), p))
       \/ Settles(TechnicallyFailed(Taken(g, p), p))
    /\ Forgets(p)
    /\ UNCHANGED <<fired, accounts>>

TerminalItem(p) ==
    CASE g.trigger[p] -> "quality_rejected"
      [] ~g.trigger[p] /\ g.state = "stopping" -> "stopped"
      [] OTHER -> CASE result[p] = "done" -> "completed"
                    [] result[p] = "stopped" -> "stopped"
                    [] OTHER -> "failed"

\* Any other failure of a running group winds it up.
AfterTerminal(p) ==
    LET h == [Taken(g, p) EXCEPT !.item[p] = TerminalItem(p)]
    IN  IF g.state = "running" /\ ~g.trigger[p]
        THEN IF h.item[p] = "failed" THEN Failing(h, p)
             ELSE IF h.item[p] = "completed" THEN Recovered(h, p)
             ELSE h
        ELSE h

ChildTerminal(p) ==
    /\ g.child[p] = "ended"
    /\ ~Retryable(p)
    /\ Settles(AfterTerminal(p))
    /\ Forgets(p)
    /\ UNCHANGED <<fired, accounts>>

-----------------------------------------------------------------------------
(* Retry timers.  Cancelling one that has fired does not stop its callback. *)

TimerFires(p) ==
    /\ g.armed[p] # 0
    /\ fired' = fired \cup {<<p, g.armed[p]>>}
    /\ g' = [g EXCEPT !.armed[p] = 0]
    /\ UNCHANGED <<result, inTask, accounts, db, faults>>

\* retry_callback
RetryCallback(p, n) ==
    /\ <<p, n>> \in fired
    /\ fired' = fired \ {<<p, n>>}
    /\ LET h == [g EXCEPT !.armed[p] = 0]
       IN  IF g.kept /\ g.state = "running" /\ g.item[p] = "retry_wait" /\ g.retries[p] = n
           THEN Settles([h EXCEPT !.item[p] = "pending"])
           ELSE g' = (IF g.kept THEN h ELSE g) /\ UNCHANGED <<db, faults>>
    /\ UNCHANGED <<result, inTask, accounts>>

\* The circuit's window of thirty seconds moves on.
WindowMoves ==
    /\ \E e \in g.events : g' = [g EXCEPT !.events = @ \ {e}]
    /\ UNCHANGED <<fired, result, inTask, accounts, db, faults>>

-----------------------------------------------------------------------------
(* The operator. *)

\* Mutant: a domain that waits for its retry is left to it.
Stopping_Waits(h, mode) ==
    [h EXCEPT
        !.state = "stopping",
        !.armed = NoTimers,
        !.item  = [p \in Positions |->
                      IF h.item[p] = "pending" THEN "cancelled"
                      ELSE IF h.item[p] \in LiveItem THEN "draining"
                      ELSE h.item[p]],
        !.stop  = StopRequested(h, {p \in Positions : h.item[p] \in LiveItem}, mode)]

Stopping(h, mode) ==
    [h EXCEPT
        !.state = "stopping",
        !.armed = NoTimers,
        !.item  = [p \in Positions |->
                      IF h.item[p] = "pending" THEN "cancelled"
                      ELSE IF h.item[p] = "retry_wait" THEN "stopped"
                      ELSE IF h.item[p] \in LiveItem THEN "draining"
                      ELSE h.item[p]],
        !.stop  = StopRequested(h, {p \in Positions : h.item[p] \in LiveItem}, mode)]

\* Mutant: a group that is over but not persisted yet is stopped again.
StopGroup_Anew(mode) ==
    /\ g.kept
    /\ Settles(Stopping(g, mode))
    /\ UNCHANGED <<fired, result, inTask, accounts>>

StopGroup(mode) ==
    /\ g.kept
    /\ g.state \notin TerminalGroup
    /\ Settles(Stopping(g, mode))
    /\ UNCHANGED <<fired, result, inTask, accounts>>

\* get_group persists a final state that could not be persisted before.
GetGroup ==
    /\ g.kept
    /\ g.state \in TerminalGroup
    /\ g' = [g EXCEPT !.kept = FALSE]
    /\ db' = g.state
    /\ UNCHANGED <<fired, result, inTask, accounts, faults>>

\* Mutant: every group of the database is interrupted.
Restart_All ==
    /\ MayRestart
    /\ g # Lost
    /\ g' = Lost
    /\ fired' = {}
    /\ result' = [p \in Positions |-> "none"]
    /\ inTask' = [p \in Positions |-> 0]
    /\ db' = "interrupted"
    /\ accounts' = [p \in Positions |-> 0]
    /\ UNCHANGED faults

\* mark_stale_rotation_groups_interrupted at the next start.
Restart ==
    /\ MayRestart
    /\ g # Lost
    /\ g' = Lost
    /\ fired' = {}
    /\ result' = [p \in Positions |-> "none"]
    /\ inTask' = [p \in Positions |-> 0]
    /\ db' = IF db \in ActiveGroup THEN "interrupted" ELSE db
    /\ accounts' = [p \in Positions |-> 0]
    /\ UNCHANGED faults

-----------------------------------------------------------------------------

Child(p) ==
    \/ ChildRegisters(p)
    \/ ChildDecides(p)
    \/ ChildLinks(p)
    \/ ChildSkips(p)
    \/ ChildEnds(p)

Terminal(p) == TechnicalFailure(p) \/ ChildTerminal(p)

Retry(p) == TimerFires(p) \/ \E n \in 1..RetryLimit : RetryCallback(p, n)

Next ==
    \/ \E p \in Positions : Child(p) \/ Terminal(p) \/ Retry(p)
    \/ WindowMoves
    \/ \E mode \in {"after_current", "immediate"} : StopGroup(mode)
    \/ GetGroup
    \/ Restart

Spec == Init /\ [][Next]_vars

-----------------------------------------------------------------------------
(* Safety. *)

\* Never more domains at work, or waiting for a retry, than there are slots,
\* whatever timers, failures and refills come together (changelog.md:268).
SlotsRespected ==
    /\ Cardinality(InSlots(g)) <= Slots
    /\ \A p \in Positions : g.child[p] # "none" => p \in InSlots(g)

\* A domain never registers more accounts than one task was asked for: a task
\* with business progress is not replayed, whatever it failed with.
NoReplay == \A p \in Positions : accounts[p] <= Count

\* A group that is over has no task that still runs, or whose end is still to
\* be reported, and one that completed has no domain that failed or had no turn.
OverIsSettled ==
    /\ g.state \in TerminalGroup => \A p \in Positions : g.child[p] = "none"
    /\ g.state = "completed" =>
          \A p \in Positions : g.item[p] \in {"completed", "quality_rejected", "stopped"}

\* A group that goes on has something that will carry it on: every domain in a
\* slot has a task, or waits for a retry whose timer or callback is under way.
\* No stop, failure or circuit leaves a domain that nothing will ever settle.
NothingStranded ==
    /\ g.state \in ActiveGroup => InSlots(g) # {}
    /\ \A p \in Positions :
          /\ g.item[p] \in LiveItem <=> g.child[p] # "none"
          /\ g.item[p] = "retry_wait" =>
                /\ g.state = "running"
                /\ g.retries[p] # 0
                /\ g.armed[p] = g.retries[p] \/ <<p, g.retries[p]>> \in fired

(* Action properties. *)

\* The outcome of a group is final, in memory and in the database: not undone
\* by a stop that comes late or by a restart.
OutcomeFinal ==
    [][/\ g.state \in TerminalGroup => g'.state \in {g.state, "lost"}
       /\ db \in TerminalGroup => db' = db]_vars
=============================================================================
