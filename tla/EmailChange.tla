------------------------------ MODULE EmailChange ------------------------------
(***************************************************************************)
(* The change of the primary e-mail of one account: the API's reservations *)
(* of target mailboxes (prepare, start, resume, release), the task runner  *)
(* (_run_email_change_task), the service that asks OpenAI for the change   *)
(* (ChatGPTEmailChangeService), the durable row between them, and restart. *)
(* OpenAI and the mailbox provider are the environment.  A reservation is  *)
(* named as its target address; nobody else edits the account.             *)
(***************************************************************************)
EXTENDS Integers, FiniteSets

CONSTANTS
    Targets,        \* the addresses that may be reserved
    Callers,        \* threads of the API
    Threads,        \* threads of task runners
    MaxRequests,    \* bound: the operator's requests
    MaxFaults,      \* bound: writes of the database that raise
    MaxCrashes      \* bound: deaths of the process

VARIABLES
    remote,     \* the account's e-mail at OpenAI
    email,      \* AccountModel.email
    rows,       \* chatgpt_email_changes
    mailbox,    \* the target mailboxes at their provider
    active,     \* the tasks that are pending or running in the task store
    api,        \* what each caller is doing
    run,        \* what each runner is doing
    asked, faults, crashes

vars == <<remote, email, rows, mailbox, active, api, run, asked, faults, crashes>>

Original == "original"

\* The first address of the account is not a target, and the bounds are numbers.
BoundsAssumption ==
    /\ Original \notin Targets
    /\ MaxRequests \in Nat /\ MaxFaults \in Nat /\ MaxCrashes \in Nat

Emails   == {Original} \cup Targets

\* EMAIL_CHANGE_RESERVATION_ACTIVE_STATUSES
Holding == {"created", "running", "partial", "failed", "releasing"}

Rows == [status : Holding \cup {"none", "released", "done"}, source : Emails,
         submitted : BOOLEAN, changed : BOOLEAN, committed : BOOLEAN,
         finalized : BOOLEAN, resumable : BOOLEAN]
NoRow == [status |-> "none", source |-> Original, submitted |-> FALSE, changed |-> FALSE,
          committed |-> FALSE, finalized |-> FALSE, resumable |-> FALSE]

Idle    == [at |-> "idle", row |-> Original, source |-> Original]
Asleep  == [at |-> "idle", row |-> Original, crossed |-> FALSE, retry |-> FALSE, stopped |-> FALSE]

TypeOK ==
    /\ remote \in Emails /\ email \in Emails
    /\ rows \in [Targets -> Rows]
    /\ mailbox \in [Targets -> {"none", "leased", "released", "finalized"}]
    /\ active \subseteq Targets
    /\ api \in [Callers -> [at : {"idle", "inserting", "starting", "resuming", "launching",
                                  "releasing", "confirming", "undoing"},
                            row : Emails, source : Emails]]
    /\ run \in [Threads -> [at : {"idle", "begin", "load", "asking", "verify", "answer", "login",
                                  "commit", "stamp", "finalize", "persist", "done",
                                  "failing", "reconcile", "over"},
                            row : Emails, crossed : BOOLEAN, retry : BOOLEAN, stopped : BOOLEAN]]
    /\ Cardinality({r \in Targets : rows[r].status \in Holding}) <= 1
    /\ asked \in 0..MaxRequests /\ faults \in 0..MaxFaults /\ crashes \in 0..MaxCrashes

Init ==
    /\ remote = Original /\ email = Original
    /\ rows = [r \in Targets |-> NoRow]
    /\ mailbox = [r \in Targets |-> "none"]
    /\ active = {}
    /\ api = [c \in Callers |-> Idle]
    /\ run = [t \in Threads |-> Asleep]
    /\ asked = 0 /\ faults = 0 /\ crashes = 0

\* _email_change_crossed_remote_boundary
Crossed(r) == rows[r].submitted \/ rows[r].changed

\* The unique index over the active reservations of an account.
Taken(r) == \E q \in Targets \ {r} : rows[q].status \in Holding

Raises == faults < MaxFaults /\ faults' = faults + 1

-----------------------------------------------------------------------------
(* The API. *)

Requests(c) == api[c].at = "idle" /\ asked < MaxRequests /\ asked' = asked + 1

\* The caller goes on with row r.
Goes(c, place, r) == api' = [api EXCEPT ![c] = [@ EXCEPT !.at = place, !.row = r]]
Replies(c)        == api' = [api EXCEPT ![c] = Idle]

\* prepare_email_change_target: the account is read, the mailbox is leased ...
Prepare(c, r) ==
    /\ Requests(c)
    /\ \A q \in Targets : rows[q].status \notin Holding
    /\ mailbox[r] = "none"
    /\ mailbox' = [mailbox EXCEPT ![r] = "leased"]
    /\ api' = [api EXCEPT ![c] = [at |-> "inserting", row |-> r, source |-> email]]
    /\ UNCHANGED <<remote, email, rows, active, run, faults, crashes>>

\* ... and the row inserted, unless another one was in the meantime.
Insert(c) ==
    LET r == api[c].row IN
    /\ api[c].at = "inserting"
    /\ IF Taken(r)
       THEN /\ mailbox' \in {mailbox, [mailbox EXCEPT ![r] = "released"]}
            /\ UNCHANGED rows
       ELSE /\ rows' = [rows EXCEPT ![r] = [NoRow EXCEPT !.status = "created",
                                                         !.source = api[c].source]]
            /\ UNCHANGED mailbox
    /\ Replies(c)
    /\ UNCHANGED <<remote, email, active, run, asked, faults, crashes>>

\* enqueue_email_change_task: the checks, then the proxy is resolved.
Start(c, r) ==
    /\ Requests(c)
    /\ rows[r].status = "created" /\ ~Crossed(r)
    /\ email = rows[r].source
    /\ Goes(c, "starting", r)
    /\ UNCHANGED <<remote, email, rows, mailbox, active, run, faults, crashes>>

\* resume_email_change_task
Resume(c, r) ==
    /\ Requests(c)
    /\ r \notin active
    /\ rows[r].status \in {"failed", "partial"} /\ rows[r].resumable
    /\ Goes(c, "resuming", r)
    /\ UNCHANGED <<remote, email, rows, mailbox, active, run, faults, crashes>>

\* The row is as it was when it was checked.
Claims(c) ==
    LET row == rows[api[c].row] IN
    \/ api[c].at = "starting" /\ row.status = "created"
    \/ api[c].at = "resuming" /\ row.status \in {"failed", "partial"} /\ row.resumable

Claim(c) ==
    LET r == api[c].row IN
    /\ api[c].at \in {"starting", "resuming"}
    /\ IF Claims(c)
       THEN /\ rows' = [rows EXCEPT ![r].status = "running", ![r].resumable = FALSE]
            /\ Goes(c, "launching", r)
       ELSE Replies(c) /\ UNCHANGED rows
    /\ UNCHANGED <<remote, email, mailbox, active, run, asked, faults, crashes>>

\* The task's record and its thread; reading the row again, or the write of the
\* history, may raise before.
Launch(c) ==
    LET r == api[c].row IN
    /\ api[c].at = "launching"
    /\ \/ \E t \in Threads :
             /\ run[t].at = "idle"
             /\ run' = [run EXCEPT ![t] = [Asleep EXCEPT !.at = "begin", !.row = r]]
             /\ active' = active \cup {r}
             /\ UNCHANGED faults
       \/ Raises /\ active' \in {active, active \cup {r}} /\ UNCHANGED run
    /\ Replies(c)
    /\ UNCHANGED <<remote, email, rows, mailbox, asked, crashes>>

Releasable(r) ==
    /\ rows[r].status \in {"created", "failed", "releasing"}
    /\ ~Crossed(r) /\ ~rows[r].committed
    /\ r \notin active

\* release_email_change_reservation: the row is marked first ...
Release(c, r) ==
    /\ Requests(c)
    /\ Releasable(r)
    /\ rows' = [rows EXCEPT ![r].status = "releasing", ![r].resumable = FALSE]
    /\ Goes(c, "releasing", r)
    /\ UNCHANGED <<remote, email, mailbox, active, run, faults, crashes>>

\* ... then the provider is asked, whose answer may be lost ...
ReleaseAsked(c) ==
    LET r == api[c].row
        released == [mailbox EXCEPT ![r] = IF @ = "leased" THEN "released" ELSE @] IN
    /\ api[c].at = "releasing"
    /\ \/ mailbox' = released /\ Goes(c, "confirming", r)
       \/ mailbox' \in {mailbox, released} /\ Goes(c, "undoing", r)
    /\ UNCHANGED <<remote, email, rows, active, run, asked, faults, crashes>>

\* ... and the outcome is written, whatever another request has written since,
\* as long as the indexes allow it.
ReleaseWritten(c) ==
    LET r == api[c].row IN
    /\ api[c].at \in {"confirming", "undoing"}
    /\ rows' = IF Crossed(r) \/ (api[c].at = "undoing" /\ Taken(r)) THEN rows
               ELSE [rows EXCEPT ![r].resumable = FALSE,
                                 ![r].status = IF api[c].at = "confirming" THEN "released" ELSE "failed"]
    /\ Replies(c)
    /\ UNCHANGED <<remote, email, mailbox, active, run, asked, faults, crashes>>

-----------------------------------------------------------------------------
(* A runner and the service it calls. *)

At(t, place) == run[t].at = place
To(t, place) == run' = [run EXCEPT ![t].at = place]

\* An error is on its way to the handlers of run.
Error(t, crossed, retry, stopped) ==
    run' = [run EXCEPT ![t] = [@ EXCEPT !.at = "failing", !.crossed = crossed,
                                        !.retry = retry, !.stopped = stopped]]

\* EmailChangeError past the boundary, TaskInterruption, and anything else.
Fails(t)  == Error(t, TRUE, TRUE, FALSE)
Stops(t)  == Error(t, run[t].crossed, run[t].crossed, TRUE)
Breaks(t) == Error(t, run[t].crossed, run[t].crossed, FALSE)

\* A row that was done is opened again while the account has another reservation.
Clashes(r, new) == Taken(r) /\ new[r].status \in Holding

\* _update: the row is written; it, or the phase callback after it, may raise.
Update(t, new, next) ==
    IF Clashes(run[t].row, new)
    THEN Breaks(t) /\ UNCHANGED <<rows, faults>>
    ELSE \/ rows' = new /\ To(t, next) /\ UNCHANGED faults
         \/ rows' \in {rows, new} /\ Raises /\ Breaks(t)

\* The task begins, unless it was stopped already, or its row cannot be read.
TaskBegins(t) ==
    /\ At(t, "begin")
    /\ active' = active \cup {run[t].row}
    /\ \/ To(t, "load") /\ UNCHANGED faults
       \/ To(t, "reconcile") /\ UNCHANGED faults
       \/ To(t, "over") /\ Raises
    /\ UNCHANGED <<remote, email, rows, mailbox, api, asked, crashes>>

\* Where a run has to take up its work.
Resumes(r) ==
    IF email = r THEN IF rows[r].finalized THEN "done" ELSE "finalize"
    ELSE IF email # rows[r].source \/ rows[r].committed THEN "failing"
    ELSE IF Crossed(r) THEN "login" ELSE "asking"

Begins(t) ==
    LET r == run[t].row
        crossed == Crossed(r) \/ email = r \/ rows[r].committed
        stated == [rows EXCEPT ![r] = [@ EXCEPT !.status = "running", !.resumable = FALSE,
                                                !.committed = rows[r].committed \/ email = r]] IN
    /\ At(t, "load")
    /\ \/ /\ ~Clashes(r, stated) /\ rows' = stated
          /\ run' = [run EXCEPT ![t] = [@ EXCEPT !.at = Resumes(r), !.crossed = crossed,
                                                 !.retry = crossed]]
          /\ UNCHANGED faults
       \/ /\ Error(t, Crossed(r), Crossed(r), TRUE)
          /\ UNCHANGED <<rows, faults>>
       \/ /\ Clashes(r, stated)
          /\ Error(t, Crossed(r), Crossed(r), FALSE)
          /\ UNCHANGED <<rows, faults>>
       \/ /\ ~Clashes(r, stated)
          /\ rows' \in {rows, [stated EXCEPT ![r].committed = rows[r].committed]}
          /\ Raises /\ Error(t, Crossed(r), Crossed(r), FALSE)
    /\ UNCHANGED <<remote, email, mailbox, active, api, asked, crashes>>

\* _execute_remote_change up to the code: eligibility, begin and the code may
\* fail, for good or not; else the boundary is written before it is crossed.
Asks(t) ==
    LET r == run[t].row IN
    /\ At(t, "asking")
    /\ \/ \E retry \in BOOLEAN : Error(t, FALSE, retry, FALSE) /\ UNCHANGED <<rows, faults>>
       \/ Stops(t) /\ UNCHANGED <<rows, faults>>
       \/ Update(t, [rows EXCEPT ![r].submitted = TRUE], "verify")
    /\ UNCHANGED <<remote, email, mailbox, active, api, asked, crashes>>

\* The code is sent, and the address may be changed by it, or the stop is met first.
Verifies(t) ==
    LET r == run[t].row IN
    /\ At(t, "verify")
    /\ \/ To(t, "answer") /\ remote' \in {remote, r}
       \/ Error(t, TRUE, TRUE, TRUE) /\ UNCHANGED remote
    /\ UNCHANGED <<email, rows, mailbox, active, api, asked, faults, crashes>>

\* Mutant: an unknown outcome is taken for a refusal.
Unknown_Refused(t) ==
    rows' = [rows EXCEPT ![run[t].row].submitted = FALSE] /\ Error(t, FALSE, TRUE, FALSE)

\* No answer, or one that says neither.
Unknown(t) == Fails(t) /\ UNCHANGED rows

Answered(t) ==
    LET r == run[t].row
        refused == [rows EXCEPT ![r].submitted = FALSE] IN
    /\ At(t, "answer")
    /\ \/ Unknown(t) /\ UNCHANGED faults
       \/ /\ remote = r
          /\ \/ /\ rows' = [rows EXCEPT ![r].changed = TRUE]
                /\ run' = [run EXCEPT ![t] = [@ EXCEPT !.at = "login", !.crossed = TRUE]]
                /\ UNCHANGED faults
             \/ /\ rows' \in {rows, [rows EXCEPT ![r].changed = TRUE]}
                /\ Raises /\ Fails(t)
       \/ /\ remote # r
          /\ \/ \E retry \in BOOLEAN : Error(t, FALSE, retry, FALSE) /\ rows' = refused /\ UNCHANGED faults
             \/ To(t, "asking") /\ rows' = refused /\ UNCHANGED faults     \* reauthentication
             \/ Breaks(t) /\ Raises /\ UNCHANGED rows
    /\ UNCHANGED <<remote, email, mailbox, active, api, asked, crashes>>

\* A step past the boundary is stopped or fails, its writes included.
GoesWrong(t) ==
    /\ run[t].at \in {"login", "commit", "stamp", "finalize", "persist", "done"}
    /\ \/ run[t].at \in {"login", "finalize"} /\ Stops(t) /\ UNCHANGED faults
       \/ run[t].at \in {"login", "commit", "finalize", "persist"} /\ Fails(t) /\ UNCHANGED faults
       \/ Breaks(t) /\ Raises
    /\ UNCHANGED <<remote, email, rows, mailbox, active, api, asked, crashes>>

\* The login at the target, and /me, prove the address and the identity.
LoggedIn(t) ==
    /\ At(t, "login") /\ remote = run[t].row
    /\ To(t, "commit")
    /\ UNCHANGED <<remote, email, rows, mailbox, active, api, asked, faults, crashes>>

\* _commit_account
Commits(t) ==
    LET r == run[t].row IN
    /\ At(t, "commit")
    /\ IF email = rows[r].source THEN email' = r /\ To(t, "stamp")
                                 ELSE Fails(t) /\ UNCHANGED email
    /\ UNCHANGED <<remote, rows, mailbox, active, api, asked, faults, crashes>>

Stamps(t) ==
    LET r == run[t].row IN
    /\ At(t, "stamp")
    /\ Update(t, [rows EXCEPT ![r] = [@ EXCEPT !.status = "running", !.committed = TRUE,
                                               !.resumable = TRUE]], "finalize")
    /\ UNCHANGED <<remote, email, mailbox, active, api, asked, crashes>>

\* _finalize_target_mailbox: the provider's answer may be lost ...
Finalizes(t) ==
    LET r == run[t].row IN
    /\ At(t, "finalize")
    /\ mailbox' = [mailbox EXCEPT ![r] = IF @ = "leased" THEN "finalized" ELSE @]
    /\ To(t, "persist") \/ Fails(t)
    /\ UNCHANGED <<remote, email, rows, active, api, asked, faults, crashes>>

\* ... and it is kept with the account, if that is still the target's.
Persists(t) ==
    LET r == run[t].row IN
    /\ At(t, "persist") /\ email = r
    /\ Update(t, [rows EXCEPT ![r].status = "running", ![r].finalized = TRUE], "done")
    /\ UNCHANGED <<remote, email, mailbox, active, api, asked, crashes>>

Completes(t) ==
    LET r == run[t].row IN
    /\ At(t, "done")
    /\ Update(t, [rows EXCEPT ![r] = [@ EXCEPT !.status = "done", !.committed = TRUE,
                                               !.finalized = TRUE, !.resumable = FALSE]], "over")
    /\ UNCHANGED <<remote, email, mailbox, active, api, asked, crashes>>

\* The handlers of run, whose write may raise too.
Handles(t) ==
    LET r == run[t].row
        new == [rows EXCEPT ![r].status = IF run[t].crossed THEN "partial" ELSE "failed",
                            ![r].resumable = run[t].crossed \/ run[t].retry] IN
    /\ At(t, "failing")
    /\ \/ /\ ~Clashes(r, new) /\ rows' = new
          /\ To(t, IF run[t].stopped THEN "reconcile" ELSE "over")
          /\ UNCHANGED faults
       \/ Clashes(r, new) /\ To(t, "over") /\ UNCHANGED <<rows, faults>>
       \/ ~Clashes(r, new) /\ rows' \in {rows, new} /\ Raises /\ To(t, "over")
    /\ UNCHANGED <<remote, email, mailbox, active, api, asked, crashes>>

\* reconcile_interruption
Reconciles(t) ==
    LET r == run[t].row IN
    /\ At(t, "reconcile")
    /\ rows' = IF rows[r].status # "running" THEN rows
               ELSE [rows EXCEPT ![r].status = IF Crossed(r) THEN "partial" ELSE "failed",
                                 ![r].resumable = Crossed(r)]
    /\ To(t, "over")
    /\ UNCHANGED <<remote, email, mailbox, active, api, asked, faults, crashes>>

TaskEnds(t) ==
    /\ At(t, "over")
    /\ active' = active \ {run[t].row}
    /\ run' = [run EXCEPT ![t] = Asleep]
    /\ UNCHANGED <<remote, email, rows, mailbox, api, asked, faults, crashes>>

-----------------------------------------------------------------------------

\* Mutant: only what has not crossed the boundary can be resumed.
Interrupted_Early(row) ==
    IF row.status \in {"running", "releasing"}
    THEN [row EXCEPT !.status = "failed", !.resumable = row.status = "running" /\ ~row.submitted]
    ELSE row

\* interrupt_stale_email_change_tasks
Interrupted(row) ==
    CASE row.status = "releasing" -> [row EXCEPT !.status = "failed", !.resumable = FALSE]
      [] row.status = "running" ->
            [row EXCEPT !.status = IF row.submitted \/ row.changed THEN "partial" ELSE "failed",
                        !.resumable = TRUE]
      [] OTHER -> row

\* The process dies and is started again.
Restart ==
    /\ crashes < MaxCrashes /\ crashes' = crashes + 1
    /\ rows' = [r \in Targets |-> Interrupted(rows[r])]
    /\ active' = {}
    /\ api' = [c \in Callers |-> Idle]
    /\ run' = [t \in Threads |-> Asleep]
    /\ UNCHANGED <<remote, email, mailbox, asked, faults>>

Api(c) ==
    \/ \E r \in Targets : Prepare(c, r) \/ Start(c, r) \/ Resume(c, r) \/ Release(c, r)
    \/ Insert(c) \/ Claim(c) \/ Launch(c) \/ ReleaseAsked(c) \/ ReleaseWritten(c)

Runner(t) ==
    \/ TaskBegins(t) \/ Begins(t) \/ Asks(t) \/ Verifies(t) \/ Answered(t) \/ GoesWrong(t)
    \/ LoggedIn(t) \/ Commits(t) \/ Stamps(t) \/ Finalizes(t) \/ Persists(t) \/ Completes(t)
    \/ Handles(t) \/ Reconciles(t) \/ TaskEnds(t)

Next == (\E c \in Callers : Api(c)) \/ (\E t \in Threads : Runner(t)) \/ Restart

Spec == Init /\ [][Next]_vars

-----------------------------------------------------------------------------
(* Safety. *)

\* A mailbox that was given back never becomes the account's address: "Release
\* only a target that never crossed the remote verify boundary"
\* (email_change.py:1758), whatever requests, runners and restarts interleave.
ReleasedIsNotUsed ==
    \A r \in Targets : mailbox[r] = "released" => remote # r /\ email # r

\* Whenever OpenAI has another address than the account's row, a reservation
\* that holds the account knows: nothing else could ever bring them together.
ChangeIsKnown ==
    remote # email =>
        \E r \in Targets : /\ rows[r].status \in Holding /\ Crossed(r)
                           /\ rows[r].source = email /\ remote = r

\* The code is never sent again once it may have changed the address, and never
\* by two runners: "never replays begin/verify" (changelog.md:233).
VerifyIsNotReplayed ==
    /\ \A t \in Threads : At(t, "verify") => remote = rows[run[t].row].source
    /\ Cardinality({t \in Threads : run[t].at \in {"asking", "verify", "answer"}}) <= 1

TargetsAreSafe == ReleasedIsNotUsed /\ ChangeIsKnown /\ VerifyIsNotReplayed

\* A change that is done is whole: committed, and its mailbox kept.
DoneIsWhole ==
    \A r \in Targets : rows[r].status = "done" =>
        rows[r].committed /\ rows[r].finalized /\ mailbox[r] = "finalized"

\* A reservation that says running has a thread at work on it.
RunningIsRun ==
    \A r \in Targets : rows[r].status = "running" =>
        \/ \E c \in Callers : api[c].row = r /\ api[c].at = "launching"
        \/ \E t \in Threads : run[t].row = r

\* Past the boundary a change that has stopped can go on.
CanGoOn ==
    \A r \in Targets :
        rows[r].status \in {"failed", "partial"} /\ Crossed(r) => rows[r].resumable

\* What stops can go on and what is done is whole, unless a write has raised.
ChangesEnd == DoneIsWhole /\ (faults = 0 => RunningIsRun /\ CanGoOn)

=============================================================================
