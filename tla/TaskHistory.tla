----------------------------- MODULE TaskHistory -----------------------------
(***************************************************************************)
(* The durable history of one task: RegisterTaskStore (the record that     *)
(* lives in memory and its log window), the writers of the TaskLog row     *)
(* (the store's terminal callback, the checkpoint writer thread, the       *)
(* account-level results of workers, the stop API) and _save_task_log,     *)
(* which merges what each of them brings with the record and with the row. *)
(*                                                                         *)
(* A log line is its index.  A window is the interval lo..(hi-1) of the    *)
(* lines that a record, a snapshot or the row retains; hi is               *)
(* log_next_index, the cursor.  Windows are limited by entries here; the   *)
(* limit in bytes works the same way.                                      *)
(***************************************************************************)
EXTENDS Integers

CONSTANTS
    ActiveMax,          \* active_max_log_entries (4000)
    FinishedMax,        \* finished_max_log_entries (500)
    CheckpointEvery,    \* _TASK_LOG_CHECKPOINT_EVERY_ENTRIES (200)
    Tries,              \* writes tried by the callback and by the writer (3)
    PostSaves,          \* whether the runner saves the history after finish
    StopModes,          \* the stops an operator may ask for
    MayCrash,           \* whether the process may die
    MaxLines,           \* bound: lines logged by workers
    MaxFaults           \* bound: writes that raise

\* What the module assumes of its constants.
WindowsAssumption ==
    /\ ActiveMax \in Nat \ {0}
    /\ FinishedMax \in 1..ActiveMax
    /\ CheckpointEvery \in 1..ActiveMax
    /\ Tries \in Nat \ {0}
    /\ PostSaves \in BOOLEAN
    /\ MayCrash \in BOOLEAN
    /\ StopModes \subseteq {"after_current", "immediate"}
    /\ MaxLines \in Nat
    /\ MaxFaults \in Nat

VARIABLES
    live,       \* the record is in the store
    status,     \* its status
    lo, hi,     \* its log window
    since,      \* entries since the last checkpoint
    stopMode,   \* the control's stop_mode
    row,        \* the newest TaskLog row of the task, or NoRow
    inserted,   \* TaskLog rows inserted for the task
    pending,    \* _TASK_LOG_CHECKPOINT_PENDING, or NoSnap
    owner,      \* holder of _TASK_LOG_PERSIST_LOCK
    pc,         \* where each thread is
    snap,       \* the snapshot each thread is about to write
    found,      \* the row it has read in its transaction
    phase,      \* what the runner is doing
    tries,      \* writes the callback and the writer have tried
    faults,     \* writes that have raised
    outcome,    \* history: the first terminal status of the record
    clicked     \* history: the cursor when the stop request in hand was made

store   == <<live, status, lo, hi, stopMode, outcome>>
table   == <<row, inserted>>
threads == <<owner, pc, snap, found, phase, tries, faults>>
vars    == <<store, since, table, pending, threads, clicked>>

Threads  == {"runner", "worker", "writer", "api"}
Terminal == {"done", "failed", "stopped"}
\* "success" is what account-level results are saved with.
HistoryTerminal == Terminal \cup {"success"}
Statuses == {"running"} \cup HistoryTerminal

Snapshots == [status : Statuses, lo : Nat, hi : Nat]
NoSnap    == [status |-> "none", lo |-> 0, hi |-> 0]
NoRow     == NoSnap

TypeOK ==
    /\ live \in BOOLEAN
    /\ status \in {"running"} \cup Terminal
    /\ hi \in Nat
    /\ lo \in 0..hi
    /\ hi - lo <= ActiveMax
    /\ since \in 0..(CheckpointEvery - 1)
    /\ stopMode \in {"none", "after_current", "immediate"}
    /\ row \in Snapshots \cup {NoRow}
    /\ row # NoRow => row.lo <= row.hi
    /\ inserted \in Nat
    /\ pending \in Snapshots \cup {NoSnap}
    /\ owner \in Threads \cup {"none"}
    /\ pc \in [Threads -> {"work", "idle", "log", "check", "queue", "persist", "newer",
                           "ready", "saving", "discard", "compact", "post",
                           "over", "reply", "dead"}]
    /\ snap \in [Threads -> Snapshots \cup {NoSnap}]
    /\ found \in [Threads -> Snapshots \cup {NoRow}]
    /\ phase \in {"task", "callback", "post", "recovery", "last"}
    /\ tries \in [Threads -> 0..(Tries - 1)]
    /\ faults \in 0..MaxFaults
    /\ outcome \in {"none"} \cup Terminal
    /\ clicked \in Nat

Init ==
    /\ live = TRUE
    /\ status = "running"
    /\ lo = 0
    /\ hi = 0
    /\ since = 0
    /\ stopMode = "none"
    /\ row = NoRow
    /\ inserted = 0
    /\ pending = NoSnap
    /\ owner = "none"
    /\ pc = [t \in Threads |-> IF t = "runner" THEN "work" ELSE "idle"]
    /\ snap = [t \in Threads |-> NoSnap]
    /\ found = [t \in Threads |-> NoRow]
    /\ phase = "task"
    /\ tries = [t \in Threads |-> 0]
    /\ faults = 0
    /\ outcome = "none"
    /\ clicked = 0

At(t, place)    == pc[t] = place
Goto(t, place)  == pc' = [pc EXCEPT ![t] = place]

Least(m, n) == IF m <= n THEN m ELSE n
Most(m, n)  == IF m <= n THEN n ELSE m

Record == [status |-> status, lo |-> lo, hi |-> hi]

-----------------------------------------------------------------------------
(* Saving: _save_task_log and the merges it makes. *)

\* While the record exists its status is the task's, whatever an account-level
\* result says, and its window counts when its cursor is not behind.
Merged(s) ==
    IF ~live THEN s
    ELSE [status |-> IF status \in Terminal THEN status ELSE "running",
          lo |-> IF hi >= s.hi THEN lo ELSE s.lo,
          hi |-> IF hi >= s.hi THEN hi ELSE s.hi]

\* Overlapping and adjacent windows are joined.  Of two disjoint ones the
\* persisted one is kept unless the incoming one is both newer and longer.
Preserved(old, new) ==
    LET length(w) == w.hi - w.lo
        joined    == [new EXCEPT !.lo = Least(old.lo, new.lo), !.hi = Most(old.hi, new.hi)]
        kept      == [new EXCEPT !.lo = old.lo, !.hi = old.hi]
    IN  IF length(old) = 0 THEN new
        ELSE IF length(new) = 0 THEN kept
        ELSE IF new.lo <= old.hi /\ old.lo <= new.hi THEN joined
        ELSE IF old.hi >= new.hi \/ length(old) >= length(new) THEN kept
        ELSE new

\* A terminal row is not reopened by a snapshot that is not terminal.
Combined(old, new) ==
    IF old.status \in HistoryTerminal /\ new.status \notin HistoryTerminal
    THEN old
    ELSE Preserved(old, new)

\* Mutant: no lock around the select and the insert.
SaveBegins_Unlocked(t) ==
    /\ At(t, "ready")
    /\ owner' = t
    /\ snap' = [snap EXCEPT ![t] = Merged(@)]
    /\ found' = [found EXCEPT ![t] = row]
    /\ Goto(t, "saving")
    /\ UNCHANGED <<store, since, table, pending, tries, faults, clicked, phase>>

SaveBegins(t) ==
    /\ At(t, "ready")
    /\ owner = "none"
    /\ owner' = t
    /\ snap' = [snap EXCEPT ![t] = Merged(@)]
    /\ found' = [found EXCEPT ![t] = row]
    /\ Goto(t, "saving")
    /\ UNCHANGED <<store, since, table, pending, tries, faults, clicked, phase>>

\* The write is over, one way or the other; the lock is given back.
Leaves(t, place) ==
    /\ At(t, "saving")
    /\ owner' = "none"
    /\ snap' = [snap EXCEPT ![t] = NoSnap]
    /\ found' = [found EXCEPT ![t] = NoRow]
    /\ Goto(t, place)

Commit(t) ==
    /\ row' = IF found[t] = NoRow THEN snap[t] ELSE Combined(found[t], snap[t])
    /\ inserted' = IF found[t] = NoRow THEN inserted + 1 ELSE inserted

Raises == faults < MaxFaults /\ faults' = faults + 1

-----------------------------------------------------------------------------
(* Logging, by a worker and by the API: append_log, then                   *)
(* _maybe_persist_task_log_checkpoint, which snapshots and queues.         *)

AppendLog ==
    IF live
    THEN /\ hi' = hi + 1
         /\ lo' = Most(lo, hi + 1 - ActiveMax)
    ELSE UNCHANGED <<lo, hi>>

\* A checkpoint is due after so many entries, and earlier when ten seconds have
\* passed or the line is urgent.  A record that is gone forgets the count.
Log(t, after) ==
    /\ AppendLog
    /\ \/ /\ live
          /\ since + 1 < CheckpointEvery
          /\ since' = since + 1
          /\ Goto(t, after)
       \/ /\ live
          /\ since' = 0
          /\ Goto(t, "check")
       \/ /\ ~live
          /\ since' = 0
          /\ Goto(t, after)
    /\ UNCHANGED <<live, status, stopMode, outcome, table, pending, owner, snap,
                   found, phase, tries, faults, clicked>>

WorkerLogs ==
    /\ At("worker", "idle")
    /\ hi < MaxLines
    /\ Log("worker", "idle")

Continues(t) == IF t = "api" THEN "persist" ELSE "idle"

\* A snapshot that is terminal is left to the callback.
CheckpointSnapshot(t) ==
    /\ At(t, "check")
    /\ IF live /\ status \notin Terminal
       THEN Goto(t, "queue") /\ snap' = [snap EXCEPT ![t] = Record]
       ELSE Goto(t, Continues(t)) /\ UNCHANGED snap
    /\ since' = IF live /\ status \in Terminal THEN 0 ELSE since
    /\ UNCHANGED <<store, table, pending, owner, found, phase, tries, faults, clicked>>

CheckpointQueued(t) ==
    /\ At(t, "queue")
    /\ pending' = snap[t]
    /\ snap' = [snap EXCEPT ![t] = NoSnap]
    /\ Goto(t, Continues(t))
    /\ UNCHANGED <<store, since, table, owner, found, phase, tries, faults, clicked>>

\* An account-level result: "success", while the task goes on or after it.
AccountResult ==
    /\ At("worker", "idle")
    /\ Goto("worker", "ready")
    /\ snap' = [snap EXCEPT !["worker"] =
                   IF live THEN [Record EXCEPT !.status = "success"]
                   ELSE [NoSnap EXCEPT !.status = "success"]]
    /\ UNCHANGED <<store, since, table, pending, owner, found, phase, tries, faults, clicked>>

WorkerSaved ==
    /\ Leaves("worker", "idle")
    /\ \/ Commit("worker") /\ UNCHANGED faults
       \/ Raises /\ UNCHANGED table
    /\ UNCHANGED <<store, since, pending, tries, clicked, phase>>

Worker ==
    \/ WorkerLogs
    \/ CheckpointSnapshot("worker")
    \/ CheckpointQueued("worker")
    \/ AccountResult
    \/ SaveBegins("worker")
    \/ WorkerSaved

-----------------------------------------------------------------------------
(* _run_task_log_checkpoint_writer. *)

WriterTakes ==
    /\ At("writer", "idle")
    /\ pending # NoSnap
    /\ snap' = [snap EXCEPT !["writer"] = pending]
    /\ pending' = NoSnap
    /\ tries' = [tries EXCEPT !["writer"] = 0]
    /\ Goto("writer", "newer")
    /\ UNCHANGED <<store, since, table, owner, found, phase, faults, clicked>>

\* Before each try the newest queued snapshot takes the place of this one.
WriterFolds ==
    /\ At("writer", "newer")
    /\ IF pending # NoSnap
       THEN snap' = [snap EXCEPT !["writer"] = pending] /\ pending' = NoSnap
       ELSE UNCHANGED <<snap, pending>>
    /\ Goto("writer", "ready")
    /\ UNCHANGED <<store, since, table, owner, found, phase, tries, faults, clicked>>

WriterSaved ==
    /\ Leaves("writer", "idle")
    /\ \/ Commit("writer") /\ UNCHANGED faults
       \/ Raises /\ UNCHANGED table
    /\ UNCHANGED <<store, since, pending, tries, clicked, phase>>

\* Only a lock error is tried again.
WriterRetries ==
    /\ At("writer", "saving")
    /\ tries["writer"] + 1 < Tries
    /\ Raises
    /\ tries' = [tries EXCEPT !["writer"] = @ + 1]
    /\ owner' = "none"
    /\ found' = [found EXCEPT !["writer"] = NoRow]
    /\ Goto("writer", "newer")
    /\ UNCHANGED <<store, since, table, pending, snap, clicked, phase>>

Writer ==
    \/ WriterTakes
    \/ WriterFolds
    \/ SaveBegins("writer")
    \/ WriterSaved
    \/ WriterRetries

-----------------------------------------------------------------------------
(* The runner: finish, its terminal callback, the compaction, and, in the  *)
(* runners that have one, a last account-level save of their own.          *)

Result(final) ==
    IF stopMode = "after_current" /\ final \in {"done", "failed"} THEN "stopped" ELSE final

Finishes(final) ==
    /\ status' = Result(final)
    /\ outcome' = IF outcome = "none" THEN Result(final) ELSE outcome

TaskFinishes ==
    /\ At("runner", "work")
    /\ \E final \in Terminal :
        /\ Finishes(final)
        /\ snap' = [snap EXCEPT !["runner"] =
                       [status |-> Result(final), lo |-> lo, hi |-> hi]]
    /\ phase' = "callback"
    /\ Goto("runner", "ready")
    /\ UNCHANGED <<live, lo, hi, stopMode, since, table, pending, owner, found,
                   tries, faults, clicked>>

InCallback == phase \in {"callback", "recovery"}

CallbackWrites ==
    /\ InCallback
    /\ Leaves("runner", "discard")
    /\ Commit("runner")
    /\ since' = 0
    /\ tries' = [tries EXCEPT !["runner"] = 0]
    /\ UNCHANGED <<store, pending, faults, clicked, phase>>

\* Tried again with the same snapshot; then the row is left as it is.
CallbackRaises ==
    /\ InCallback
    /\ Raises
    /\ since' = 0
    /\ IF tries["runner"] + 1 < Tries
       THEN /\ At("runner", "saving")
            /\ owner' = "none"
            /\ found' = [found EXCEPT !["runner"] = NoRow]
            /\ tries' = [tries EXCEPT !["runner"] = @ + 1]
            /\ Goto("runner", "ready")
            /\ UNCHANGED snap
       ELSE /\ Leaves("runner", "compact")
            /\ tries' = [tries EXCEPT !["runner"] = 0]
    /\ UNCHANGED <<store, table, pending, clicked, phase>>

\* _discard_task_log_checkpoint, once the terminal row is durable.
Discards ==
    /\ At("runner", "discard")
    /\ pending' = NoSnap
    /\ Goto("runner", "compact")
    /\ UNCHANGED <<store, since, table, owner, snap, found, phase, tries, faults, clicked>>

Compacts ==
    /\ At("runner", "compact")
    /\ lo' = IF live THEN Most(lo, hi - FinishedMax) ELSE lo
    /\ phase' = IF phase = "callback" THEN "post" ELSE "last"
    /\ Goto("runner", IF PostSaves THEN "post" ELSE "over")
    /\ UNCHANGED <<live, status, hi, stopMode, outcome, since, table, pending,
                   owner, snap, found, tries, faults, clicked>>

\* A record that has been cleaned up ends the runner with a KeyError.
PostSave ==
    /\ At("runner", "post")
    /\ IF live
       THEN /\ snap' = [snap EXCEPT !["runner"] = [Record EXCEPT !.status = "success"]]
            /\ Goto("runner", "ready")
       ELSE Goto("runner", "over") /\ UNCHANGED snap
    /\ UNCHANGED <<store, since, table, pending, owner, found, phase, tries, faults, clicked>>

PostSaved ==
    /\ ~InCallback
    /\ Leaves("runner", "over")
    /\ Commit("runner")
    /\ UNCHANGED <<store, since, pending, tries, faults, clicked, phase>>

\* The general `except' of the runner: an [ERROR] line, and finish("failed"),
\* with the callback and another save, whose failure ends the thread.
PostRaises ==
    /\ ~InCallback
    /\ Raises
    /\ IF live /\ phase = "post"
       THEN /\ At("runner", "saving")
            /\ owner' = "none"
            /\ found' = [found EXCEPT !["runner"] = NoRow]
            /\ AppendLog
            /\ Finishes("failed")
            /\ snap' = [snap EXCEPT !["runner"] =
                           [status |-> status', lo |-> lo', hi |-> hi']]
            /\ phase' = "recovery"
            /\ Goto("runner", "ready")
       ELSE Leaves("runner", "over") /\ UNCHANGED <<lo, hi, status, outcome, phase>>
    /\ UNCHANGED <<live, stopMode, since, table, pending, tries, clicked>>

Runner ==
    \/ TaskFinishes
    \/ SaveBegins("runner")
    \/ CallbackWrites
    \/ CallbackRaises
    \/ Discards
    \/ Compacts
    \/ PostSave
    \/ PostSaved
    \/ PostRaises

-----------------------------------------------------------------------------
(* _request_task_stop. *)

RequestStop(mode) ==
    /\ At("api", "idle")
    /\ live
    /\ status \notin Terminal
    /\ stopMode' = IF stopMode = "immediate" THEN stopMode ELSE mode
    /\ Goto("api", IF stopMode' # stopMode THEN "log" ELSE "persist")
    /\ clicked' = hi
    /\ UNCHANGED <<live, status, lo, hi, outcome, since, table, pending, owner,
                   snap, found, phase, tries, faults>>

ApiLogs ==
    /\ At("api", "log")
    /\ Log("api", "persist")

\* snapshot raises a KeyError when the record is gone.
ApiSnapshot ==
    /\ At("api", "persist")
    /\ IF live
       THEN /\ Goto("api", "ready")
            /\ snap' = [snap EXCEPT !["api"] = Record]
            /\ UNCHANGED clicked
       ELSE /\ Goto("api", "idle")
            /\ clicked' = 0
            /\ UNCHANGED snap
    /\ UNCHANGED <<store, since, table, pending, owner, found, phase, tries, faults>>

ApiSaved ==
    /\ \/ Leaves("api", "reply") /\ Commit("api") /\ UNCHANGED <<faults, clicked>>
       \/ Leaves("api", "idle") /\ Raises /\ clicked' = 0 /\ UNCHANGED table
    /\ UNCHANGED <<store, since, pending, tries, phase>>

ApiReplies ==
    /\ At("api", "reply")
    /\ Goto("api", "idle")
    /\ clicked' = 0
    /\ UNCHANGED <<store, since, table, pending, owner, snap, found, phase, tries, faults>>

Api ==
    \/ \E mode \in StopModes : RequestStop(mode)
    \/ ApiLogs
    \/ CheckpointSnapshot("api")
    \/ CheckpointQueued("api")
    \/ ApiSnapshot
    \/ SaveBegins("api")
    \/ ApiSaved
    \/ ApiReplies

-----------------------------------------------------------------------------

\* RegisterTaskStore.cleanup drops finished records when there are many.
Cleanup ==
    /\ live
    /\ status \in Terminal
    /\ live' = FALSE
    /\ UNCHANGED <<status, lo, hi, stopMode, outcome, since, table, pending, threads, clicked>>

\* The process dies; what it had in memory is lost, the row is not.
Crash ==
    /\ MayCrash
    /\ ~At("runner", "dead")
    /\ live' = FALSE
    /\ status' = "running"
    /\ lo' = 0
    /\ hi' = 0
    /\ since' = 0
    /\ stopMode' = "none"
    /\ outcome' = "none"
    /\ pending' = NoSnap
    /\ owner' = "none"
    /\ pc' = [t \in Threads |-> "dead"]
    /\ snap' = [t \in Threads |-> NoSnap]
    /\ found' = [t \in Threads |-> NoRow]
    /\ phase' = "task"
    /\ tries' = [t \in Threads |-> 0]
    /\ clicked' = 0
    /\ UNCHANGED <<table, faults>>

Next == Worker \/ Writer \/ Runner \/ Api \/ Cleanup \/ Crash

Spec == Init /\ [][Next]_vars

-----------------------------------------------------------------------------
(* What the history API shows: _task_log_runtime_status and                *)
(* _effective_task_log_status.                                             *)

RuntimeStatus == IF live THEN status ELSE "stopped"

Displayed ==
    IF row.status \in {"success", "failed"} /\ RuntimeStatus = "running" THEN "running"
    ELSE IF row.status = "running" THEN RuntimeStatus
    ELSE row.status

(* Safety. *)

\* A task has one row: checkpoint, callback, account results and stop requests
\* select and insert one after the other (changelog.md:597).  An account's
\* result never closes the task in the history: the row is terminal only once
\* the task is, or is gone.
RowFollowsTask ==
    /\ inserted <= 1
    /\ row.status \in HistoryTerminal => (~live \/ status \in Terminal)

\* As long as fewer writes fail than the callback tries, a runner that is over
\* has left a terminal row, whatever checkpoints, account results and stop
\* requests are written around it.
RowSettles ==
    At("runner", "over") /\ faults < Tries => row.status \in HistoryTerminal

(* Action properties. *)

\* What the history shows never goes back, whatever queued, delayed or retried
\* snapshots of the running task are still to be written: a terminal row stays
\* terminal, its log window never loses its end and never gets shorter ("Never
\* erase a longer persisted log window with a stale callback"), and an operator
\* who has seen the task end never sees it run again, not when the record is
\* cleaned up, not after a crash.
GoesForward ==
    /\ row.status \in HistoryTerminal => row'.status \in HistoryTerminal
    /\ row # NoRow => /\ row'.hi >= row.hi
                      /\ row'.hi - row'.lo >= row.hi - row.lo
    /\ Displayed \in HistoryTerminal => Displayed' \in HistoryTerminal

HistoryNeverGoesBack == [][GoesForward]_vars

(* Claims of the repository that the code does not keep. *)

\* "A process restart or a worker exception after the click must not lose logs
\* already seen in the live panel" (tasks.py:31605): once a stop request has
\* been answered the row has every line logged before the click.
StopReplyKeepsLines == At("api", "reply") => row.hi >= clicked

\* The terminal write is tried again "without ever rolling the worker state
\* back" (task_runtime.py:852): a task that has ended keeps its outcome.
OutcomeStands == outcome # "none" /\ live => status = outcome
=============================================================================
