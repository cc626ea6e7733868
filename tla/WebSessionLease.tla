---------------------------- MODULE WebSessionLease ----------------------------
(***************************************************************************)
(* The browsers that are kept open for one account (WebSessionLease and    *)
(* WebSessionLeaseManager).  Each lease belongs to the thread that runs    *)
(* the login and owns the browser; API threads ask it to refresh the       *)
(* session, to open a payment tab or to let the browser go.  They share    *)
(* the lease's status, its command queue and the manager's table of the    *)
(* account's active lease, each under a lock of its own: between a change  *)
(* of the status and the manager's hearing of it, anything may happen.     *)
(***************************************************************************)
EXTENDS Naturals, Sequences, SequencesExt

CONSTANTS
    Leases,         \* bound: leases created for the account, in this order
    Callers,        \* API threads
    Requests,       \* remote request ids of payment tabs
    MaxTries,       \* attempts at the login (1 + len(retry_delays))
    MaxCommands     \* bound: commands in all

ASSUME LeaseAssumption ==
    /\ Leases \in Nat \ {0}
    /\ MaxTries \in Nat \ {0}
    /\ MaxCommands \in Nat
    /\ "refresh" \notin Requests

VARIABLES
    L,          \* the leases and where their owner threads are
    cmds,       \* every command ever made
    callers,    \* where the API threads are
    active      \* _active_by_account: the account's lease, or 0

vars == <<L, cmds, callers, active>>

\* "opening" stands for reserved, waiting_capacity and authenticating.
ActiveStatus   == {"opening", "refreshing_session", "ready_holding", "releasing"}
TerminalStatus == {"released", "stopped", "failed", "interrupted"}
TabStates      == {"not_requested", "opening", "ready", "timed_out", "failed", "cancelled", "closed"}
Class(s)       == IF s \in TerminalStatus THEN "terminal" ELSE "active"
Notes          == {"none", "active", "terminal"}
Ids            == 1..Leases
Kinds          == {"refresh"} \cup Requests

LeaseRecords ==
    [status  : {"none"} \cup ActiveStatus \cup TerminalStatus,
     release : BOOLEAN,                     \* release_requested, _release_event
     queue   : Seq(1..MaxCommands),         \* _commands
     current : 0..MaxCommands,              \* _current_command
     tab     : TabStates,                   \* gcash_tab_state
     request : {"none"} \cup Requests,      \* gcash_remote_request_id
     owner   : {"none", "between", "browser", "entering", "hold", "taken", "working",
                "finishing", "leaving", "draining", "closing", "over"},
     job     : 0..MaxCommands,              \* the owner's command
     tries   : 0..MaxTries,
     note    : Notes]                       \* a snapshot the manager has not seen yet

CommandRecords ==
    [lease : Ids, kind : Kinds, cancelled : BOOLEAN, done : BOOLEAN]

CallerRecords ==
    [pc   : {"idle", "put", "waiting", "expired", "releasing", "marking"},
     lease : 0..Leases, cmd : 0..MaxCommands, note : Notes]

TypeOK ==
    /\ L \in [Ids -> LeaseRecords]
    /\ cmds \in Seq(CommandRecords)
    /\ Len(cmds) <= MaxCommands
    /\ callers \in [Callers -> CallerRecords]
    /\ active \in 0..Leases

Blank ==
    [status |-> "none", release |-> FALSE, queue |-> <<>>, current |-> 0,
     tab |-> "not_requested", request |-> "none", owner |-> "none", job |-> 0,
     tries |-> 0, note |-> "none"]

Idle == [pc |-> "idle", lease |-> 0, cmd |-> 0, note |-> "none"]

Init ==
    /\ L = [l \in Ids |-> Blank]
    /\ cmds = <<>>
    /\ callers = [c \in Callers |-> Idle]
    /\ active = 0

-----------------------------------------------------------------------------
(* What the methods are made of. *)

\* Mutant: a release does not hold a refresh back.
Refused_Reopens(v, s) == v.status \in TerminalStatus /\ s # v.status

\* The changes transition() does not make.
Refused(v, s) ==
    \/ v.status \in TerminalStatus /\ s # v.status
    \/ v.release /\ v.status = "releasing" /\ s \notin {"releasing"} \cup TerminalStatus

\* A transition by the owner, which then waits to tell the manager.  (The
\* snapshot it tells is one of this moment or of a later one.)
Moved(v, s) ==
    IF Refused(v, s) THEN v ELSE [v EXCEPT !.status = s, !.note = Class(s)]

Told(v) == [v EXCEPT !.note = Class(v.status)]

\* Mutant: only the waiters of payment tabs are answered.
Failed_Opens(K) ==
    [k \in 1..Len(cmds) |->
        IF k \in K THEN [cmds[k] EXCEPT !.cancelled = TRUE, !.done = (cmds[k].kind # "refresh")]
        ELSE cmds[k]]

Failed(K) ==
    [k \in 1..Len(cmds) |->
        IF k \in K THEN [cmds[k] EXCEPT !.cancelled = TRUE, !.done = TRUE] ELSE cmds[k]]

\* The tab's state after the commands K ended in state s
TabAfter(v, K, s) == IF \E k \in K : cmds[k].kind = v.request THEN s ELSE v.tab

\* _fail_pending_commands
Queued(v)  == ToSet(v.queue)
Emptied(v) == [v EXCEPT !.queue = <<>>, !.tab = TabAfter(v, Queued(v), "cancelled")]

Owner(l, pc) == L[l].owner = pc /\ L[l].note = "none"

Becomes(l, v) == L' = [L EXCEPT ![l] = v]

-----------------------------------------------------------------------------
(* The owner: the login (execute_chatgpt_web_session_login, _run_once). *)

Create(l) ==
    /\ L[l].owner = "none"
    /\ \A k \in 1..(l - 1) : L[k].owner # "none"
    /\ active # 0 => L[active].status \notin ActiveStatus
    /\ Becomes(l, Told([Blank EXCEPT !.status = "opening", !.owner = "between"]))
    /\ active' = l
    /\ UNCHANGED <<cmds, callers>>

\* Mutant: every failure is worth another attempt.
LoginStarts_Endless(l) ==
    /\ Owner(l, "between")
    /\ Becomes(l, Moved([L[l] EXCEPT !.owner = "browser", !.tries = @ + 1], "opening"))
    /\ UNCHANGED <<cmds, callers, active>>

LoginStarts(l) ==
    /\ Owner(l, "between")
    /\ L[l].tries < MaxTries
    /\ Becomes(l, Moved([L[l] EXCEPT !.owner = "browser", !.tries = @ + 1], "opening"))
    /\ UNCHANGED <<cmds, callers, active>>

\* Outside an attempt a stop of the task is met by a log line or by the wait for
\* the next attempt, and leaves the function: nobody moves the lease.
StoppedBetween(l) ==
    /\ Owner(l, "between")
    /\ Becomes(l, [L[l] EXCEPT !.owner = "over"])
    /\ UNCHANGED <<cmds, callers, active>>

LoginFails(l) ==
    /\ Owner(l, "browser")
    /\ Becomes(l, [L[l] EXCEPT !.owner = "between"])
    /\ UNCHANGED <<cmds, callers, active>>

GivesUp(l) ==
    /\ Owner(l, "between")
    /\ L[l].tries > 0
    /\ Becomes(l, Moved([L[l] EXCEPT !.owner = "over"], "failed"))
    /\ UNCHANGED <<cmds, callers, active>>

LoginStopped(l) ==
    /\ Owner(l, "browser")
    /\ \/ Becomes(l, Moved([L[l] EXCEPT !.owner = "over"], "stopped"))
       \/ /\ L[l].release
          /\ Becomes(l, Moved([L[l] EXCEPT !.owner = "over"], "released"))
    /\ UNCHANGED <<cmds, callers, active>>

-----------------------------------------------------------------------------
(* The owner: hold_browser. *)

\* The session is saved and the attempts are over; a release that came first
\* ends it here.
HoldStarts(l) ==
    /\ Owner(l, "browser")
    /\ Becomes(l, IF L[l].release
                  THEN Moved([L[l] EXCEPT !.owner = "closing", !.tries = 0], "releasing")
                  ELSE [L[l] EXCEPT !.owner = "entering", !.tries = 0])
    /\ UNCHANGED <<cmds, callers, active>>

HoldEntered(l) ==
    /\ Owner(l, "entering")
    /\ Becomes(l, Moved([L[l] EXCEPT !.owner = "hold"], "ready_holding"))
    /\ UNCHANGED <<cmds, callers, active>>

\* Mutant: the loop looks at the status.
SeesRelease_Status(l) ==
    /\ Owner(l, "hold")
    /\ L[l].status = "releasing"
    /\ \E pc \in {"leaving", "draining"} :
          Becomes(l, Moved([L[l] EXCEPT !.owner = pc], "releasing"))
    /\ UNCHANGED <<cmds, callers, active>>

\* The wait for the event sees the release, or the stop check does, after which
\* the queue is emptied.
SeesRelease(l) ==
    /\ Owner(l, "hold")
    /\ L[l].release
    /\ \E pc \in {"leaving", "draining"} :
          Becomes(l, Moved([L[l] EXCEPT !.owner = pc], "releasing"))
    /\ UNCHANGED <<cmds, callers, active>>

\* The task is stopped, or the ChatGPT page is gone.
HoldEnds(l) ==
    /\ Owner(l, "hold")
    /\ \E s \in {"stopped", "interrupted"} :
          Becomes(l, Moved([L[l] EXCEPT !.owner = "draining"], s))
    /\ UNCHANGED <<cmds, callers, active>>

\* A command that ends badly: a refresh goes back to ready_holding.
JobFailed(l, k) ==
    LET v == [L[l] EXCEPT !.owner = "hold", !.job = 0, !.current = 0]
    IN  /\ cmds' = Failed({k})
        /\ IF cmds[k].kind = "refresh"
           THEN Becomes(l, Moved(v, "ready_holding"))
           ELSE \E s \in {"timed_out", "cancelled", "failed"} :
                   Becomes(l, Told([v EXCEPT !.tab = TabAfter(v, {k}, s)]))

\* A command is taken from the queue; one that is cancelled already fails in
\* the next step.
Take(l) ==
    /\ Owner(l, "hold")
    /\ L[l].queue # <<>>
    /\ LET k == Head(L[l].queue)
       IN  /\ Becomes(l, [L[l] EXCEPT !.queue = Tail(@), !.job = k, !.owner = "taken"])
           /\ cmds' = [cmds EXCEPT ![k].cancelled = @ \/ L[l].release]
    /\ UNCHANGED <<callers, active>>

Begin(l) ==
    /\ Owner(l, "taken")
    /\ LET k == L[l].job
           v == [L[l] EXCEPT !.current = k, !.owner = "working"]
       IN  \/ cmds[k].cancelled /\ JobFailed(l, k)
           \/ /\ ~cmds[k].cancelled
              /\ Becomes(l, IF cmds[k].kind = "refresh" THEN Moved(v, "refreshing_session") ELSE v)
              /\ UNCHANGED cmds
    /\ UNCHANGED <<callers, active>>

\* The browser answers, and the command is looked at once more.
Work(l) ==
    /\ Owner(l, "working")
    /\ LET k == L[l].job
       IN  \/ JobFailed(l, k)
           \/ /\ ~cmds[k].cancelled
              /\ cmds[k].kind # "refresh" => ~L[l].release
              /\ Becomes(l, [L[l] EXCEPT !.owner = "finishing"])
              /\ UNCHANGED cmds
    /\ UNCHANGED <<callers, active>>

Finish(l) ==
    /\ Owner(l, "finishing")
    /\ LET k == L[l].job
           v == [L[l] EXCEPT !.owner = "hold", !.job = 0, !.current = 0]
       IN  \/ /\ cmds' = [cmds EXCEPT ![k].done = TRUE]
              /\ Becomes(l, IF cmds[k].kind = "refresh" THEN Moved(v, "ready_holding")
                            ELSE Told([v EXCEPT !.tab = TabAfter(v, {k}, "ready")]))
           \/ cmds[k].kind = "refresh" /\ JobFailed(l, k)
    /\ UNCHANGED <<callers, active>>

\* The task is stopped, or the release seen, in the middle of a refresh.
WorkInterrupted(l) ==
    /\ L[l].owner \in {"working", "finishing"} /\ L[l].note = "none"
    /\ cmds[L[l].job].kind = "refresh"
    /\ cmds' = [cmds EXCEPT ![L[l].job].done = TRUE]
    /\ \E s \in {"stopped"} \cup (IF L[l].release THEN {"releasing"} ELSE {}) :
          Becomes(l, Moved([L[l] EXCEPT !.owner = "draining", !.job = 0, !.current = 0], s))
    /\ UNCHANGED <<callers, active>>

\* The payment page was closed in the browser.
TabLost(l) ==
    /\ Owner(l, "hold")
    /\ L[l].tab = "ready"
    /\ Becomes(l, Told([L[l] EXCEPT !.tab = "closed"]))
    /\ UNCHANGED <<cmds, callers, active>>

\* _mark_gcash_tab_closed
TabsClosed(v) ==
    IF v.tab \notin {"not_requested", "closed"} THEN Told([v EXCEPT !.tab = "closed"]) ELSE v

Leaves(l) ==
    /\ L[l].owner \in {"leaving", "draining"} /\ L[l].note = "none"
    /\ LET drains == L[l].owner = "draining"
           v      == TabsClosed(IF drains THEN Emptied(L[l]) ELSE L[l])
       IN  /\ Becomes(l, [v EXCEPT !.owner = IF v.status \in TerminalStatus THEN "over" ELSE "closing"])
           /\ cmds' = IF drains THEN Failed(Queued(L[l])) ELSE cmds
    /\ UNCHANGED <<callers, active>>

\* The browser is closed.
Released(l) ==
    /\ Owner(l, "closing")
    /\ Becomes(l, Moved([L[l] EXCEPT !.owner = "over"], "released"))
    /\ UNCHANGED <<cmds, callers, active>>

-----------------------------------------------------------------------------
(* The manager hears of a change (_lease_changed). *)

Heard(l, note) ==
    active' = IF note = "active" THEN l
              ELSE IF active = l THEN 0
              ELSE active

OwnerTells(l) ==
    /\ L[l].note # "none"
    /\ Heard(l, L[l].note)
    /\ Becomes(l, [L[l] EXCEPT !.note = "none"])
    /\ UNCHANGED <<cmds, callers>>

CallerTells(c) ==
    /\ callers[c].note # "none"
    /\ Heard(callers[c].lease, callers[c].note)
    /\ callers' = [callers EXCEPT ![c].note = "none"]
    /\ UNCHANGED <<L, cmds>>

-----------------------------------------------------------------------------
(* The API threads. *)

At(c, pc) == callers[c].pc = pc /\ callers[c].note = "none"

Goes(c, r) == callers' = [callers EXCEPT ![c] = r]

\* request_release: the request, then the queue, then the status
Release(c, l) ==
    /\ At(c, "idle")
    /\ L[l].status \in ActiveStatus
    /\ Becomes(l, [L[l] EXCEPT !.release = TRUE])
    /\ cmds' = IF L[l].current # 0 THEN [cmds EXCEPT ![L[l].current].cancelled = TRUE] ELSE cmds
    /\ Goes(c, [Idle EXCEPT !.pc = "releasing", !.lease = l])
    /\ UNCHANGED active

ReleaseDrains(c) ==
    /\ At(c, "releasing")
    /\ LET l == callers[c].lease
       IN  /\ Becomes(l, Emptied(L[l]))
           /\ cmds' = Failed(Queued(L[l]))
    /\ Goes(c, [callers[c] EXCEPT !.pc = "marking"])
    /\ UNCHANGED active

\* Mutant: the thread that asks calls the lease released itself.
ReleaseMarks_Released(c) ==
    /\ At(c, "marking")
    /\ LET l == callers[c].lease
           refused == Refused(L[l], "released")
       IN  /\ Becomes(l, IF refused THEN L[l] ELSE [L[l] EXCEPT !.status = "released"])
           /\ Goes(c, IF refused THEN Idle ELSE [Idle EXCEPT !.lease = l, !.note = "terminal"])
    /\ UNCHANGED <<cmds, active>>

ReleaseMarks(c) ==
    /\ At(c, "marking")
    /\ LET l == callers[c].lease
           refused == Refused(L[l], "releasing")
       IN  /\ Becomes(l, IF refused THEN L[l] ELSE [L[l] EXCEPT !.status = "releasing"])
           /\ Goes(c, IF refused THEN Idle ELSE [Idle EXCEPT !.lease = l, !.note = "active"])
    /\ UNCHANGED <<cmds, active>>

Holding(l) == L[l].status = "ready_holding" /\ ~L[l].release

NewCommand(l, kind) ==
    /\ Len(cmds) < MaxCommands
    /\ cmds' = Append(cmds, [lease |-> l, kind |-> kind, cancelled |-> FALSE, done |-> FALSE])

\* request_refresh
Refresh(c, l) ==
    /\ At(c, "idle")
    /\ Holding(l)
    /\ NewCommand(l, "refresh")
    /\ Goes(c, [pc |-> "put", lease |-> l, cmd |-> Len(cmds) + 1, note |-> "none"])
    /\ UNCHANGED <<L, active>>

Opens(l)       == {k \in 1..Len(cmds) : cmds[k].lease = l /\ cmds[k].kind # "refresh"}
Same(l, r)     == {k \in Opens(l) : cmds[k].kind = r}

\* Mutant: a request that was answered may be made again.
Known_Undone(l, r) == {k \in Same(l, r) : ~cmds[k].done}

\* The command a request has already (_gcash_commands)
Known(l, r) == Same(l, r)

\* request_open_gcash: the same request shares its command, another one is
\* refused while a command is not done.
Open(c, l, r) ==
    /\ At(c, "idle")
    /\ Holding(l)
    /\ \/ \E k \in Known(l, r) :
             /\ Goes(c, [pc |-> "waiting", lease |-> l, cmd |-> k, note |-> "none"])
             /\ UNCHANGED <<L, cmds>>
       \/ /\ Known(l, r) = {}
          /\ \A k \in Opens(l) : cmds[k].done
          /\ NewCommand(l, r)
          /\ Becomes(l, [L[l] EXCEPT !.tab = "opening", !.request = r])
          /\ Goes(c, [pc |-> "put", lease |-> l, cmd |-> Len(cmds) + 1, note |-> "active"])
    /\ UNCHANGED active

\* update_gcash_status: of what it writes, the request matters here.
UpdateStatus(c, l, r) ==
    /\ At(c, "idle")
    /\ L[l].status # "none"
    /\ Becomes(l, [L[l] EXCEPT !.request = r])
    /\ Goes(c, [Idle EXCEPT !.lease = l, !.note = Class(L[l].status)])
    /\ UNCHANGED <<cmds, active>>

Put(c) ==
    /\ At(c, "put")
    /\ L' = [L EXCEPT ![callers[c].lease].queue = Append(@, callers[c].cmd)]
    /\ Goes(c, [callers[c] EXCEPT !.pc = "waiting"])
    /\ UNCHANGED <<cmds, active>>

Answered(c) ==
    /\ At(c, "waiting")
    /\ cmds[callers[c].cmd].done
    /\ Goes(c, Idle)
    /\ UNCHANGED <<L, cmds, active>>

\* The wait of 45 seconds ends; the failure of a payment tab is then recorded.
TimesOut(c) ==
    /\ At(c, "waiting")
    /\ ~cmds[callers[c].cmd].done
    /\ cmds' = [cmds EXCEPT ![callers[c].cmd].cancelled = TRUE]
    /\ Goes(c, IF cmds[callers[c].cmd].kind = "refresh" THEN Idle
               ELSE [callers[c] EXCEPT !.pc = "expired"])
    /\ UNCHANGED <<L, active>>

RecordsTimeout(c) ==
    /\ At(c, "expired")
    /\ LET l == callers[c].lease
           k == callers[c].cmd
       IN  /\ Becomes(l, [L[l] EXCEPT !.tab = TabAfter(L[l], {k}, "timed_out")])
           /\ cmds' = Failed({k})
           /\ Goes(c, [Idle EXCEPT !.lease = l, !.note = Class(L[l].status)])
    /\ UNCHANGED active

-----------------------------------------------------------------------------

Login(l) ==
    \/ LoginStarts(l)
    \/ StoppedBetween(l)
    \/ LoginFails(l)
    \/ GivesUp(l)
    \/ LoginStopped(l)

Hold(l) ==
    \/ HoldStarts(l)
    \/ HoldEntered(l)
    \/ SeesRelease(l)
    \/ HoldEnds(l)
    \/ Take(l)
    \/ Begin(l)
    \/ Work(l)
    \/ Finish(l)
    \/ WorkInterrupted(l)
    \/ TabLost(l)
    \/ Leaves(l)
    \/ Released(l)

Api(c) ==
    \/ \E l \in Ids : Release(c, l) \/ Refresh(c, l)
    \/ \E l \in Ids, r \in Requests : Open(c, l, r) \/ UpdateStatus(c, l, r)
    \/ ReleaseDrains(c)
    \/ ReleaseMarks(c)
    \/ Put(c)
    \/ Answered(c)
    \/ TimesOut(c)
    \/ RecordsTimeout(c)
    \/ CallerTells(c)

Next ==
    \/ \E l \in Ids : Create(l) \/ Login(l) \/ Hold(l) \/ OwnerTells(l)
    \/ \E c \in Callers : Api(c)

Spec == Init /\ [][Next]_vars

(***************************************************************************)
(* Fairness.  The owner's loop turns every quarter of a second and its     *)
(* browser calls are bounded; a login that has started ends one way or     *)
(* another.  Nothing makes a task be stopped or a page be closed.          *)
(***************************************************************************)
Turn(l) ==
    \/ LoginStarts(l) \/ LoginFails(l) \/ GivesUp(l) \/ LoginStopped(l)
    \/ HoldStarts(l) \/ HoldEntered(l) \/ SeesRelease(l)
    \/ Take(l) \/ Begin(l) \/ Work(l) \/ Finish(l)
    \/ Leaves(l) \/ Released(l)
    \/ OwnerTells(l)

Fairness == \A l \in Ids : WF_vars(Turn(l))

FairSpec == Spec /\ Fairness

-----------------------------------------------------------------------------
(* Safety. *)

\* A browser that is held belongs to a lease that counts as active: capacity
\* and the next login of the account see it, whoever changed the status last.
HeldIsActive ==
    \A l \in Ids :
        L[l].owner \in {"entering", "hold", "taken", "working", "finishing", "leaving", "closing"}
            => L[l].status \in ActiveStatus

\* No command is lost between the threads: one that is in the queue's hands and
\* has no answer is in the queue or at work.
NoCommandLost ==
    \A k \in 1..Len(cmds) :
        \/ cmds[k].done
        \/ \E c \in Callers : callers[c].cmd = k /\ callers[c].pc \in {"put", "expired"}
        \/ k \in Queued(L[cmds[k].lease])
        \/ L[cmds[k].lease].job = k

\* A request for a payment tab is carried out once, however often it is made
\* (changelog.md:213).
OneCommandPerRequest ==
    \A l \in Ids, r \in Requests : \A j, k \in Same(l, r) : j = k

\* An account whose login is refused because another one is being carried out
\* has a thread that carries it out (web_session_lease.py:169).
ConflictMeansRunning ==
    active # 0 /\ L[active].status \in ActiveStatus => L[active].owner # "over"

(* Action properties. *)

\* A lease that is being released, or is over, never becomes available again,
\* whatever command is still at work.
ReleaseSticks ==
    [][\A l \in Ids :
          /\ L[l].release => L'[l].release
          /\ L[l].release /\ L[l].status = "releasing" => L'[l].status \in {"releasing"} \cup TerminalStatus
          /\ L[l].status \in TerminalStatus => L'[l].status = L[l].status]_vars

(* Liveness. *)

\* A browser whose release was requested is let go.
ReleaseEnds == \A l \in Ids : L[l].release ~> L[l].owner = "over"
=============================================================================
