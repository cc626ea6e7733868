# TLA+ models of auto-gpt

This directory specifies in TLA+ the concurrent core of the program - its tasks - and the
protocols that may spend money, cards, numbers or identities twice. TLC checks the
specifications on small instances, and TLAPS proves the safety properties for every
value of their constants. `PROJECT.json` relates each definition to the lines it models
and lists the components, runs, hazards, findings and theorems; this file explains them.
Paths below are relative to the repository's root.

1. [The system](#1-the-system): components, interactions, what is hard
2. [The models](#2-the-models): which module models what, and how
3. [The runs](#3-the-runs): what each checks, its bounds, what it shows
4. [Fairness](#4-fairness)
5. [The proofs](#5-the-proofs)
6. [Findings](#6-findings)
7. [What is not modelled](#7-what-is-not-modelled)
8. [Plan](#8-plan)

## 1. The system

A FastAPI backend runs long *tasks* - registering a number of accounts, refreshing them,
binding phones, keeping browsers logged in - in threads of one process, on top of an
SQLite database. Each task has a dispatcher thread and a pool of worker threads; API
threads watch and steer it; a few background threads write its history and follow up on
results. Everything is shared memory under locks: there are no processes to talk to but
browsers and remote services. What can go wrong is therefore what goes wrong between
threads, at the limits of counters and windows, when the database refuses a write, and
when the process is restarted.

### Components, their state and operations

| component | state | operations | correct when |
|---|---|---|---|
| **Task control** `src/core/task_runtime.py` (`RegisterTaskControl`) | three stop flags, counted and targeted skips, active attempts, one verification challenge | `request_stop`, `request_stop_after_current`, `request_completion_stop`, `request_skip_current`, `start/resume/finish_attempt`, `checkpoint`, `wait_for_verification_code`, `submit_verification`, `request_verification_action` | the gate to new attempts closes once and for all; a stop drains, a graceful stop interrupts nobody; a challenge on the screen has a thread that reads the code |
| **Registration runner** `src/api/tasks.py` (`_run_register`) | futures in flight, successes, consumed identities, final status | preflight, fill, wait, collect, backfill, drain, finish; attempts of `_do_one` | no more accounts than requested; terminal only when drained; `done` only with the target reached; always terminal in the end |
| **Task store and history** `src/core/task_runtime.py` (`RegisterTaskStore`), `src/api/tasks.py` (`_save_task_log`, checkpoint writer) | record and log window, checkpoint queue, `TaskLog` row | append, checkpoint, finish with its callback, account results, stop API, cleanup, restart | one row for a task; it ends when the task does, never reopens, never loses its lines |
| **Domain rotation** `src/services/chatgpt_core/registration_domain_rotation.py` | a group, its items, retry timers, failure circuit, persisted row | start, child reports, child's end, retry timer, stop, late persist, recovery | slots respected, nothing replayed that made progress, nothing left stranded, final outcome |
| **Domain quality** (same file) | decisions, ledger of accounts, counters of one domain | registration, eligibility and link results | a poor domain is drained in whatever order results come |
| **Web session leases** `src/services/chatgpt_core/web_session_lease.py`, `web_session_login.py` | status, release request, command queue and payment tab of each lease, the account's active lease | create, log in, hold, refresh, open a tab, time out, release | no command lost or doubled; a release sticks and ends the hold; held browsers count as active |
| **Exit-IP registry** `src/core/chatgpt_register_exit_ip_registry.py`, heartbeats of `src/api/tasks.py` | leases of exit addresses with owner, state and expiry; each task's memory of its exits | `claim`, `refresh_owner`, `release_owner` with cool-down, pruning | one working registration per exit; a released exit rests for exactly its cool-down |
| **Delivery cards** `src/services/delivery_cards/` | cards, the mark on each account, redemption events | `redeem_card` (first, repeated, refetch), `create_batch`, `set_card_status`, `repair_consistency`, marking accounts | a card one account, an account one card, a repeated request one answer |
| **Payment-card pool** `src/services/chatgpt_core/baxigpt_*`, `_run_baxigpt_cdk_submit` of `src/api/tasks.py` | a row for each card, its copies on accounts, the submitting task's queue and orders, the poller's targets | check, submit, book, ask, close; reserve, end, set status; poll, query | no account ordered for twice, no more paid than asked for, every account told the end of its own order |
| **Phone pool** `src/services/chatgpt_core/phone_pool_repository.py`, `_run_phone_binding_test_concurrent` | rows of numbers with their accounts and states; the task's sets of claimed, used and unusable numbers; bindings on accounts | claim, send, accept, confirm, persist, give back; failures, recovery, operator's changes | a number is in one worker's hands; what OpenAI confirmed is kept |
| **E-mail change** `src/services/chatgpt_core/email_change.py`, `_run_email_change_task` and four requests of `src/api/tasks.py` | a durable row for each reservation, the account's e-mail, the target mailbox | prepare, start, resume, release; the runner's durable steps; recovery at start | a mailbox that was given back is not the account's; the code is not sent twice; a change that stopped can go on |
| **PayPal follow-up** `src/services/chatgpt_core/registration_paypal_payment.py`, `registration_paypal_followup.py` | the account's marker and pipeline stages, the follow-up row, its claims | link, submission, marker, row; two workers; backfill at start | a payment is followed to its end, and the account says what became of it |
| HME alias pool `src/services/icloud_*` | aliases, back-off | fill, delete | planned |
| Shared browsers and capacity | slots, server processes, contexts | lease, release, restart | planned |
| engines, mailboxes, proxies, accounts and configuration, synchronisation, frontend, deployment | see section 7 | | |

### How they interact

- A runner *calls* its task's control: `start_attempt` before each attempt,
  `finish_attempt` in a `finally`, checkpoints in between. The API threads call the same
  control. It is a monitor, and the only thing a stop and an attempt share.
- The control *wakes* workers through its condition; a worker that waits for a code gives
  the lock up while it waits and while it runs the caller's action handler.
- The runner *finishes* its record in the store; the store calls the terminal callbacks:
  one writes the history row, another is the rotation manager's `handle_task_terminal`.
- Workers *checkpoint* the log: a snapshot is queued, one writer thread saves it, and
  account results and stop requests save from their own threads. All of them meet in
  `_save_task_log`, which merges a snapshot with the record and with the row.
- Registration decisions, eligibility checks and link extraction *report* to the rotation
  manager from different threads; it answers by a graceful stop of a child task, whose end
  comes back as a callback.
- A registration attempt *leases* its exits; a heartbeat thread of its own extends the leases,
  may be late, and may outlive the second that the attempt waits for it.
- Clients *redeem* cards in one transaction each, while administrators and every other
  writer of an account read first and write later.
- The submission task, the status poller and the operator *write* one row for a card, and
  copy it to accounts; the task asks for its own orders itself.
- An e-mail change has a durable row *between* the API, which reserves, resumes and releases,
  and the runner, which may die at any step of it.
- Workers of a binding task *take* numbers from an allocation that they share, and write
  bindings to accounts and counts to the pool, which other tasks and the operator see.
- A payment is *submitted* by the registration's coordinator or by a continuation and
  *followed* by two threads; the account's marker and stages are copies of the row, which
  a restart repairs.
- The web-login thread *owns* a lease and its browser; API threads queue commands to it
  and wait; the manager *hears* of every change from a snapshot taken before its own lock.

### What is hard

Five kinds of behaviour carry almost all the risk, and are what the properties are for
(`PROJECT.json`, "hazards", has them one by one, each at its line):

1. *A gate that is looked at, then passed.* Stops come between a check and the action it
   guards: in the dispatcher's refill, in a queued future, in a retry timer that has fired.
2. *Books kept in two places.* Active ids and threads, in-flight futures and successes,
   the record's window and the row's, a lease's status and the manager's table.
3. *A late word about something that is over.* Queued snapshots, cancelled timers,
   timed-out commands, eligibility results after a link was found.
4. *A failure after the point of no return.* A history write that raises after the account
   was saved, or after the task was finished; a log line that raises while nobody owns the
   lease, an answer of OpenAI or of a payment service that arrives and cannot be written.
5. *A remote effect without a local record of it.* An e-mail that was changed, an order that was
   placed, a number that was bound, a payment that was submitted: the program marks the
   boundary before it or learns of it after, and a stop, an error or a restart lies in between.

## 2. The models

| module | models | composed with |
|---|---|---|
| `AttemptGate` | the promise of a task's control to its dispatcher | refined by `TaskControl` and by `RegisterRunner` |
| `TaskControl` | the monitor, its workers and API threads | `INSTANCE AttemptGate` |
| `TaskControl_proofs` | theorems about `TaskControl` | |
| `RegisterRunner` | the dispatcher and attempts of one task | `INSTANCE AttemptGate` |
| `RegisterRunner_proofs` | theorems about `RegisterRunner` | |
| `TaskHistory` | record, checkpoints, callback, row | |
| `DomainRotation` | a group of child tasks | takes what `DomainQuality` decides as a choice |
| `DomainRotation_proofs` | theorems about `DomainRotation` | |
| `DomainQuality` | the thresholds of one domain | |
| `WebSessionLease` | leases, owner threads, API threads, manager | |
| `WebSessionLease_proofs` | theorems about `WebSessionLease` | |
| `ExitIPRegistry` | leases, attempts of several tasks, heartbeats, a clock | |
| `DeliveryCards` | cards, accounts, events, writers that read first | |
| `CdkOrders` | the submitting task, rows, copies, poller, operator | |
| `EmailChange` | API, runner, durable row, mailboxes, restart | |
| `PhoneBinding` | a binding task's workers, its allocation, the pool | |
| `PaypalFollowup` | runs, marker and stages, row, two workers, restart | |
| `EmailChange_proofs`, `PaypalFollowup_proofs` | theorems about those two | |
| `Ledgers_proofs` | theorems about `TaskHistory`, `DomainQuality`, `DeliveryCards`, `CdkOrders`, `PhoneBinding` | one `INSTANCE` of each, with constants and variables of its own |
| `MCComponents` | instances of the modules that share nothing, one moving at a time | `ExitIPRegistry` to `PaypalFollowup`, `TaskHistory`, `DomainQuality` |
| `MCComponents_proofs` | theorems about `ExitIPRegistry`, and the others brought to `MCComponents` | `INSTANCE`s of `Ledgers_proofs`, `EmailChange_proofs`, `PaypalFollowup_proofs` |
| other `MC...` | one per component, instantiated by the `.cfg` files | |

Operators whose names have an underscore and a second word (`Failed_Opens`) and whose
comment begins with "Mutant" are variants with a plausible bug. No specification uses
them: each shows that a property would notice the bug in the operator it varies.

### AttemptGate: the abstract control

A gate that is open and closes for good; ids that are claimed once while it is open; and
the set of attempts that live. Everything a dispatcher may rely on is here, and nothing of
stop modes, skips or challenges. `TaskControl` implements it with `open <- ~Closed`,
`issued <- 1..(nextAttempt - 1)`, `live <- active`; `RegisterRunner`, which keeps only the
flags it reads, implements it with its own claims. So what the runner assumes of the
control and what the control gives are the same specification.

### TaskControl

Each method of `RegisterTaskControl` holds the condition's lock for its whole body and is
one action. `wait_for_verification_code` alone releases it: its loop is split at the
`wait` and around the action handler (`OpenChallenge`, `CheckpointStop/Skip`, `WaitLost`,
`WaitReturnsCode`, `WaitCancelled`, `HandleAction`, `HandlerSwallowsSkip`,
`HandlerReturns`, `WaitTimesOut`), and other threads may do anything in between. A worker's
`pc` says whether it is idle, running, waiting, handling or leaving; `att`, `cid`,
`handled` are the method's local variables. Time is one action, `Deadline`, after which the
challenge is overdue. `owed` is a history variable: attempts that were told to skip and
have not ended.

### RegisterRunner

`phase` is the dispatcher's place in `_run_register`: preflight, fill, loop top, wait,
collecting the finished futures one by one, the decision, the refill, closing and
finishing - `final_status` is computed in one step and stored in another, because
`finish` looks at the flags again. `stage[i]` is how far attempt *i* has come in `_do_one`:
queued, cancelled, entered, claimed, saved, ended. Its outcomes (a success, a failure that
does or does not consume an identity, a skip, a stop, a fatal error) are chosen freely.
The derivation of the attempt limit from the request (`Target`, `Entry`, `Candidates`,
`Configured`) and of the pool's width are operators over the constants.

### TaskHistory

A line is its index, a window an interval `lo..(hi-1)`. Threads are the runner, one
worker, the checkpoint writer and one API thread. `_save_task_log` is two steps: inside the
lock it merges the snapshot with the record and with the row it has read, then the
transaction commits, or raises and is retried or not, as its caller does. The record can be
trimmed, compacted when it finishes, cleaned up; the process may die in any state.
`Displayed` is what the history API makes of row and record. A task whose runner is over and
whose row is not terminal is a state, not a future: `RowSettles` is an invariant.

### DomainRotation and DomainQuality

The manager's methods run under one lock and are one action each: every action here is a
whole method with everything it calls, including the refill of slots, the winding-up and
the final settlement. Child tasks report, end and wait for their callback; timers fire and
their callbacks wait for the lock (`fired`), possibly after they were cancelled. `db` is
the state last persisted, which a restart finds. When the quality of a domain is poor is a
choice in `DomainRotation`; `DomainQuality` has the thresholds and the ledger. The two are
separate because their product says nothing that the parts do not.

### WebSessionLease

`L[l]` holds a lease's fields and its owner's place: between two attempts, in the browser,
entering the hold, in the hold's loop, with a command taken, at work, finishing it,
leaving, draining the queue, closing, over. Commands are numbered in the order they are
made. API threads go through `request_release` in its three locked parts, and through a
command in four (made, put, waited for, timed out), since the code takes the lock for each
alone. A change of status leaves a *note*: the snapshot that the manager has not heard of
yet, for the owner or for the API thread that made it; `Heard` is `_lease_changed`.

### ExitIPRegistry

`claim`, `refresh_owner` and `release_owner` hold one lock and are one action each; pruning
is what a lease without time left means, so `Tick` removes it. `phase[a]` is the attempt,
`heart[a]` its heartbeat: waiting for the interval or the end, refreshing, or gone - it gives
up as soon as it finds nothing to refresh. `beat[a]` falls below zero when the thread is late,
by `Lag` at most while the attempt works; after the attempt it may be as late as it likes.

### DeliveryCards

A redemption is one `BEGIN IMMEDIATE` transaction and one action: `Replay` of a key,
`Refetch` with its self-healing, `FirstRedeem`. What reads first and writes later
(`set_card_status`, `repair_consistency`, marking an account, saving any other of its extra data)
is two actions, with the record that was read kept in `work[s]`. `Expires` only makes a card
refuse: the status "expired" is written and then rolled back by the error itself.
`answers` is a history variable.

### CdkOrders

`phase` is the runner's place in `_run_baxigpt_cdk_submit`: checking the cards, top of a
round, a pass of submissions, sending, answering, booking and the pause after it, the round
of status requests, closing. `cards`, `pending`, `orders`, `result` are its local tables. A row
of the pool holds one order although a card is used for several, so an order is asked for
by its own number (`Asked`) and a row may meanwhile be another account's. The poller's request
is two actions, sent and answered. The upstream service settles an order at any time.

### EmailChange

`rows[r]` is the reservation of target `r`: its status, whether the verify boundary was
written (`submitted`), whether OpenAI's change is known, whether account and mailbox are
committed and finalized. Each durable step of the service is an action that commits or
raises (`Update`), and between two of them the runner may be stopped, fail, or die with the
process. `Handles` and `Reconciles` are the handlers of `_run_email_change_task`; what they see
of the error is in `run[t]`. `remote` is what OpenAI has, which the program only learns.

### PhoneBinding

`place[a]` is where the worker of account `a` is: waiting, trying a number, message sent,
message noted, code accepted, completed, persisted, over. `claimed`, `terminal` and
`successful` are the task's own sets under `allocation_lock`; `pool` is the database. Numbers
come from the pool or from the request's list, whose cursor may name one twice. A skip is
consumed at the next checkpoint, a stop at any; a failed write is counted. `remote` is what
OpenAI bound, `confirmed` what it told the program of.

### PaypalFollowup

`run[r]` is a run of `run_registration_paypal_payment_for_account`, by the coordinator ("task") or by a
continuation: extracting, sending, answered, marker written, stage written, row
written. `work[w]` is one of the two workers with the row as it has read it; `Takes` is the
claim, which a restart or time may take away (`ClaimExpires`). Every write of the marker, the
stages or the row is tried once and may fail, any number of times. `upstream` is the item of the
payment service, which is idempotent for a link. Deadlines, grace periods and back-off are
choices: whatever may be due, is.

### MCComponents

These six modules, `TaskHistory` and `DomainQuality` share no variable, so that their product says
nothing that they do not say alone. `scope` chooses one of them in the initial state, and a
behaviour is one of that module; `s1` to `s18` stand for its variables. Two scopes may be two instances of
one module. `Xs` and `Ys` are symmetric sets, from which cards, accounts, numbers, callers and
threads are taken wherever nothing tells their members apart.

## 3. The runs

Deadlock is checked where the system cannot stop (`TaskControl`). In the others a task, a
group or a lease ends, and the bounds end the rest.

| run | states | bounds | result |
|---|---|---|---|
| `task_control` | 463,236 | 2 workers, 2 attempts, 2 challenges, 1 counted skip, 1 channel request | passes |
| `task_control_skip` | 1,548 | 1 worker | finding |
| `register_runner` | 1,414,354 | target 3, 4 attempts, 2 threads, both executors, 1 failing write | passes |
| `register_runner_history` | 622 | target 1, 2 attempts, 1 thread | finding |
| `task_history_stop` | 484,371 | windows of 2 and 1, 5 lines, stop requests, no failing write | finding |
| `task_history_outcome` | 7,990 | the runner saves once more after finish | finding |
| `domain_rotation` | 3,586,509 | 3 domains, 2 slots, 1 retry, circuit of 2, 1 failing persist, restart | passes |
| `web_session_lease` | 904,527 | 1 lease, 2 API threads, 2 requests, 2 tries, 2 commands | passes |
| `web_session_lease_conflict` | 20 | 2 leases, 1 API thread | finding |
| `components` | 3,563,409 | the scopes below | passes |
| `cdk_unsubmitted` | 570 | 2 accounts, 1 card, no operator | finding |
| `email_boundary` | 73 | 1 target, 1 caller, 1 runner, 1 failing write | finding |

| scope of `components` | states | bounds |
|---|---|---|
| exits | 340,656 | 3 attempts of 2 tasks, 3 addresses on 2 exits, lease of 3 ticks, heartbeat every tick and 1 late, cool-down of 2 |
| history | 454,261 | windows of 2 and 1 lines, 3 lines, a checkpoint every 2, 3 tries, 1 failing write, save after finish, crash |
| stops | 237,260 | windows of 2 and 1, 1 line, a checkpoint for every line, 2 tries, 1 failing write, stop request |
| quality | 20,966 | 4 accounts, 2 samples, 50 %, streak of 2, 3 decisions |
| delivery | 155,946 | 2 cards, 2 accounts, 1 refetch, batches of 2, requests with and without a key, 1 writer that reads first |
| payment | 306,866 | 2 accounts, 1 card, 1 request of the operator, stops and skips |
| window | 46,342 | 3 accounts of which 2 are wanted, 1 card, nobody stops |
| email | 405,195 | 2 targets, 2 callers, 2 runners, 6 requests, 2 failing writes, 1 restart |
| pool | 430,106 | 2 accounts, 2 numbers of 2 accounts each, 2 workers, immediate stop, 1 skip, 1 failing write, 1 request of the operator |
| list | 274,362 | 3 accounts on 2 workers, a list of 3 entries that names one number twice, stop after current |
| paypal | 891,449 | the coordinator and 1 continuation, 2 logins, 1 restart, failing writes without bound |

States are those TLC had found when it ended; a run that ends in a finding stops there.

**task_control** asks whether the books stay right and waits end. *AttemptBooks*: the active
ids are those of threads between `start_attempt` and `finish_attempt`, no two threads hold
one id, skip targets are active. *PendingChallengeHasWaiter*: a challenge on the screen has
its waiter and none is open after an interrupting stop. *ImplementsGate*: the control
implements `AttemptGate`; its gate stays closed although `request_stop` clears
`after_current`. *GracefulStopInterruptsNobody*: attempts end as
stopped or skipped only if they were told to. *StopDrains*, *WaitsEnd*: a stop releases
every attempt, no wait for a code is for ever. Two workers are enough for one to disturb
the other's challenge, id or skip: the state has one challenge slot and sets of ids, and no
action looks at more than one other attempt. Two attempts for two threads leave a resumed
attempt next to a fresh one; two challenges let the second replace the first.

**register_runner** asks whether concurrent completions can register too many.
*SlotsWithinTarget*: successes, consumed identities and futures in flight stay within the
target. *LossesAreHistoryFaults*: accounts in the database exceed the count by failed
history writes and by nothing else. *TerminalIsSound*: a
terminal status means a drained pool, and `done` the target reached. *TaskEnds*, and
*ImplementsGate* as above. Three accounts on two threads make the pool full, partly
refilled and empty; the fourth attempt is the backfill, with its own last refusal at the
limit.

**domain_rotation**: *SlotsRespected*, *NoReplay* (no more accounts of a domain than one
task was asked for), *OverIsSettled* (a group that is over has no task, and one that is
completed no failure), *NothingStranded* (a group that goes on has a task or a timer for
every domain in a slot), *OutcomeFinal* (in memory and in the database, also after a
restart). Three domains on two slots have one waiting, one retrying and one at work; a
circuit of two distinct domains can break while the third has not started.

**web_session_lease**: *HeldIsActive* (a held browser counts for capacity and for the next
login), *NoCommandLost* (a
command without an answer is with its caller, in the queue or at work),
*OneCommandPerRequest* (a repeated request shares its command), *ReleaseSticks* (no step
undoes a release or reopens a lease that is over), *ReleaseEnds* (a release ends the hold).
Two threads let a release meet another thread's command and a repetition meet the first
request; two commands fill the queue behind one at work; two tries have one wait between
them.

**components** asks of each of its modules what a reviewer of that code would argue about.

- *history*, *stops*: whether the row can be trusted. *RowFollowsTask*: four kinds of threads
  insert one row, an account's result does not close the task, and the row is terminal once
  the runner is over, when fewer writes fail than are tried. Part of *NothingGoesBack*:
  neither the row nor what the API shows of it becomes unfinished again, after cleanup, crash
  or late write, and the row's cursor and window do not go back although the record is
  trimmed and compacted. Windows of two lines already overlap, touch and come apart; a
  finished record of one line makes compaction lose lines the row must keep.
- *quality*: *PoorDomainsDrain* states the threshold against the set of decisions and the ledger
  - quantifying over sets of misses instead of counting them as the code does - for every order
  of results. Part of *NothingGoesBack*: an extracted link is not taken back.
- *exits*: *ExitsAreExclusive* (each exit in use is leased to its user, also while the heartbeat
  is late) and *RestIsExact* (an active lease has a living attempt and an exit that had its rest;
  a late heartbeat of an attempt that is over neither shortens nor prolongs the cool-down). The
  first needs `Interval + Lag < TTL`, which the module assumes and the code's numbers give
  with a wide margin.
- *delivery*: *DeliveriesAgree*: answers never pair a card or an account with two partners, a
  repeated key gets the same answer, and no account that a redemption may pick meets the check
  for duplicates, which would block every card after it. One writer at a time reads first and
  writes later; section 6 says what two may do.
- *payment*, *window*: *OrdersWithinTarget* (one order for an account, and paid accounts and orders
  under way together within the target), *OrdersAreOwn* (what is reported and copied is the
  account's own order, although the card's row may have another's), *EndsAreSettled* (a task that
  ends has a result for every account and leaves nothing open that a poller would ask for). Two
  accounts on one card are enough for one row to be overwritten by the other; three with a
  target of two have a full window, a failure and a replacement.
- *email*: *TargetsAreSafe*: a mailbox that was given back is not the address, a difference
  between OpenAI and the account's row has a reservation that knows of it, the code is never
  sent once it may have changed the address and never by two runners. *ChangesEnd*: what is
  done is whole; unless a write has raised, what runs has a thread and what crossed the
  boundary can be resumed. Six requests let both targets be prepared, started, resumed and
  released in any order.
- *pool*, *list*: *NumbersBindOnce* (one worker and one account for a number of the task, one
  message, and no number beyond its accounts) and *BindingsSettle* (what OpenAI confirmed is on
  the row unless its write failed, nothing is made up, every account has a result).
- *paypal*: *PaymentsFollowed* (nobody logs in and nothing says "paid" before PayPal authorized
  it; an item of a living account has a row, a run that will write it, or a marker from which
  the next start makes it; the copies of a row that is over say so or will). Part of
  *NothingGoesBack*: the row stays, its end is final, a login that succeeded is not repeated. The
  exceptions are named in the module: an answer that was lost on its way or could not be
  written (`AnswerLost`), and a second run beside or after the first (`RanTwice`).

Between them the passing runs fire every action, and every property of a passing run has a mutant of
the code that breaks it.

## 4. Fairness

Safety runs use `Spec`, without fairness. The liveness properties use `FairSpec`:

- `TaskControl`: weak fairness of time, of each worker's wait loop (it is woken by
  `notify_all` or after half a second), and of reaching `finish_attempt` and leaving (the
  work between two checkpoints is bounded by its own timeouts). Nothing of the operator:
  no code ever has to be typed.
- `RegisterRunner`: weak fairness of the dispatcher, whose `wait` lasts half a second at
  most, and of each attempt, each of whose waits has a timeout (browser's hard timeout, OTP
  deadline, HTTP timeouts). `Wait` itself can time out with nothing done, so an attempt's
  end is not implied by the dispatcher's.
- `WebSessionLease`: weak fairness of each owner's turn. The hold's loop turns every
  quarter of a second, its browser calls are bounded, and a login that has started ends one
  way or another. Stops, lost pages and the API threads are not assumed to happen.
- `DomainRotation` and everything in `components`: safety only. That something goes on is stated
  without fairness, as an invariant: *NothingStranded* (a timer or a task is there), *RowSettles*
  (a runner that is over has written its row), *EndsAreSettled*, *RunningIsRun* and *CanGoOn* of an
  e-mail change, *ItemsAreFollowed* of a payment.

## 5. The proofs

The runs show the safety properties on small instances; TLAPS shows them for every value of
the constants. Each safety invariant and each action property of the passing runs is stated by a
theorem. A proof module extends its component, or instantiates it, states the inductive
invariant at its top and proves it action by action; the theorems follow from it.

### Assumptions

Each is a named definition in the component's module, and TLC evaluates it in the runs.

| assumption | says | because |
|---|---|---|
| `BoundsAssumption` (`TaskControl`), `LeaseAssumption`, `BoundsAssumption` (`EmailChange`), `ReloginAssumption` | bounds are naturals; there is a lease, a try and a login; `refresh` is no request id | bounds of the models, and limits the code clamps |
| `ParametersAssumption` | target, concurrency and the cap of the policy are at least 1 | the request model's validation |
| `GroupAssumption` | as many slots as domains at most, a task asks for an account at least | the group is built from the domains that were given |
| `ExitAssumption` | a heartbeat's interval and its lateness (`Lag`) fit into the lease | the settings give a lease of 900 s at least and an interval of a third of it, 300 s at most: a heartbeat has 600 s and more to come late |
| `WindowsAssumption` | the window of a finished task is no longer than that of an active one, and a checkpoint comes before the window is full | the constants of the store |
| `PolicyAssumption`, `OrderAssumption` | finite sets of accounts; a threshold is a percentage | there are as many as were requested |
| `BindingAssumption` | a list names numbers; widths and limits are at least 1 | the task's parser |
| `StockAssumption`, `OneWriter` | `Nobody` is no account, the empty key is a key; one administrator acts at a time | the second is a restriction, see below |

`OneWriter` is not something the code gives. It excludes exactly what section 6 reports of
`set_card_status`: two administrators who enable one card at once. Redemptions still come
between the read and the write of the administrator, any number of them.

### The invariants

**TaskControl_proofs.** `TypeCorrect` is proved on its own, action by action. The other
safety properties are not inductive: that no two threads share an id needs every held id to
have been issued, and that a pending challenge has its waiter needs to know that the waiter
was neither stopped nor skipped since. `HeldIdsIssued` says that a worker's id is below the next
and that only idle workers have none; `WaiterUndisturbed` that while a challenge is pending no
skip is counted and its owner is active and not a target - the request that would target it
cancels the challenge in the same step. `ClosedGateCorrect` and `GracefulStopCorrect` are action
properties. `ImplementsGateCorrect` maps every step to a step of `AttemptGate` or to a stutter,
using the invariant where an attempt is resumed or released.

**RegisterRunner_proofs.** `Future(i)` ties together what is said of one attempt in seven
places: the next index, the futures in flight and done, the active ids, the claims, the saved
accounts and the outcome. `Counts` says that `success` is the number of attempts whose future
was collected as a success and that accounts lost on the way are no more than failed writes;
`Course` what the dispatcher knows at each place of its loop, in particular that with nothing
in flight it reaches the top only with a reason to end. `SlotsWithinTarget` carries itself
with `Counts`: a backfill comes after the failed attempt has left. That the runner implements
`AttemptGate` needs `Future` only.

**DomainRotation_proofs.** `Item` says of one domain that it has a child task exactly while it
is live, that what it registered is what its present task did, and that a timer, armed or fired, is
that of its present retry while the group runs: a callback that comes late finds another number or
a group that winds up. `Sane` adds the count of the slots, `Good` that a group that runs has no
failed domain, `Standing` the order of memory and database (a final state is persisted before it
leaves memory, and not before the group is idle). The refill takes as many waiting domains as slots are free;
`FirstFit` shows that it takes no more, and some if there are any. It rests on there being a smallest
and a largest number in a finite set, for which strict inclusion of its subsets is well-founded.

**WebSessionLease_proofs.** `Follows(v, w)` says what one step may make of a lease: it stays
well-typed and *owned* (a lease whose owner has not left counts as active, an unused one has
no status and no release), a release sticks, `releasing` gives way only to an end, an end is
final. `CommandsStep` shows that a step keeps the kind and the lease of every command or
appends one whose request had none; `CallersStep` that an API thread in the middle of a call
has a lease that was created and a command that was made (`Engaged`). *NoCommandLost* needs more,
`Tracked`: an unused lease has an empty queue, an owner that waits has no job, and a command that
is about to be put is meant for that lease.

**EmailChange_proofs.** The hard part is that the code is not sent twice. `Solo(r)`: as long as
the code was not sent, or its answer is not settled, one claim is out for the reservation, with
the API thread that made it or with one runner. Once the answer is known there may be two (an
observation of section 6), and the invariant does not deny it. `Back` says that a mailbox on its
way to its provider was never asked for and cannot be claimed, `Tells` how far row, OpenAI and
account are at each place of a runner, `Known` where OpenAI's address is written when the account
has another, `Ends` what a row says while no write has failed.

**PaypalFollowup_proofs.** `RowsAreLegal`: a row, and each worker's copy of it, says of the payment
only what the service said. `LanesApart`: while a worker serves a row nobody else moves it, for
the two workers' states are disjoint; what it wrote and has not copied yet is still the row once
that is over. With `CopiesAreTrue` these are `Books`. `Trail` is about the way to the row:
items, markers and rows come from a run, a run that finds an earlier submission is the second,
and where one run wrote the marker it brings the row back or says how it ended.

**Ledgers_proofs.** Five components, each with an invariant of its own.
*TaskHistory*: who writes holds the lock and has read the row as it is; a window is empty only
before the first line; what closes the task is written once it has ended (`ClosedByEnd`); and once
the callback is through, the row is terminal or every try has raised (`CallbackCounts`).
*DomainQuality*: the counters are those of the ledger recomputed, and are within both
thresholds while the domain is active; a lemma shows that the streak is the number of misses after the last success.
*DeliveryCards*: no account belongs to two cards, events and answers are of the card's present
account, and what a writer has read holds as far as its write relies on it (`ReadStands`).
*CdkOrders*: an account is in one place (waiting, in hand, or with an order under way); nothing was
sent for who is about to be sent for; paid accounts and orders under way fit the target with room
for the one in hand (`WindowKept`); a result that is an end is that of the account's own order; and
copies are the runner's until the operator asks for something (`CopiesOwn`).
*PhoneBinding*: a number in somebody's hands is in nobody else's and was not used up;
what OpenAI has bound is that number or a used one (`RemoteApart`); one in hand has room in the
pool; rows and results follow what OpenAI has bound.

**MCComponents_proofs.** Its first part is about `ExitIPRegistry`, for all constants: an exit in
use is leased to its user for longer than the heartbeat may still take (`Covered`), and the
heartbeat beats while its attempt works (`Tended`). The second part is about the composition that
the run `components` checks: for each component, that the scope never changes, that a behaviour in
its scope is one of the component, and that its constants meet the component's assumption
(`ComponentsAssumption`). So what the run checks is stated by a theorem about the same formula,
with the sets of accounts, cards, callers, keys and sessions left open, and the statement for *all*
constants is the theorem of the same name in `Ledgers_proofs`, `EmailChange_proofs` or
`PaypalFollowup_proofs`.

### The theorems

| module | theorems, for all constants that meet the assumption |
|---|---|
| `TaskControl_proofs` | `TypeCorrect`; `AttemptBooksCorrect`: active ids are the threads'; `PendingChallengeHasWaiterCorrect`: a code that is accepted has a reader; `ClosedGateCorrect`; `GracefulStopCorrect`: a graceful stop interrupts nobody; `ImplementsGateCorrect` |
| `RegisterRunner_proofs` | `TypeCorrect`; `SlotsWithinTargetCorrect`; `LossesAreHistoryFaultsCorrect`; `TerminalIsSoundCorrect`; `ImplementsGateCorrect` |
| `DomainRotation_proofs` | `TypeCorrect`; `SlotsRespectedCorrect`; `NoReplayCorrect`; `OverIsSettledCorrect`; `NothingStrandedCorrect`; `OutcomeFinalCorrect` |
| `WebSessionLease_proofs` | `TypeCorrect`; `HeldIsActiveCorrect`; `NoCommandLostCorrect`; `OneCommandPerRequestCorrect`; `ReleaseSticksCorrect` |
| `EmailChange_proofs` | `TypeCorrect`; `TargetsAreSafeCorrect`; `ChangesEndCorrect` |
| `PaypalFollowup_proofs` | `TypeCorrect`; `PaidMeansAuthorizedCorrect`; `PaymentsFollowedCorrect`; `GoesForwardCorrect` |
| `Ledgers_proofs` | history: `RowFollowsTaskCorrect`, `RowSettlesCorrect`, `HistoryGoesForwardCorrect`; quality: `PoorDomainsDrainCorrect`, `LinkKeptCorrect`; cards: `AnswersAgreeCorrect`, `StockIsDeliverableCorrect`; orders: `OrdersWithinTargetCorrect`, `OrdersAreOwnCorrect`, `EndsAreSettledCorrect`; numbers: `NumbersBindOnceCorrect`, `BindingsSettleCorrect`; and the types of the five |
| `MCComponents_proofs` | exits: `TypeCorrect`, `ExitsAreExclusiveCorrect`, `RestIsExactCorrect`; and one theorem for each other property of the run `components`, `NothingGoesBackCorrect` among them |

### What is only model-checked

Every liveness property - *StopDrains*, *WaitsEnd*, *TaskEnds*, *ReleaseEnds* -, since there is no
rule here for fairness and `ENABLED`; and the seven findings, which are counterexamples.
`NothingStranded`, `RowSettles`, `EndsAreSettled` and `ChangesEnd`, which say without fairness that
something goes on, are proved. Induction over data in general is out of the provers' reach: where a
component counts, the proofs rest on the library's facts about cardinalities and on invariants that
name the set that is counted.

## 6. Findings

Each is a run that ends in a violation of what a text of the repository says.

- **A skip is lost** (`task_control_skip`, `SkipIsHonoured`). A code is submitted, the
  operator then skips the account, and the action handler's own checkpoint consumes the
  skip: `wait_for_verification_code` takes the exception for a failed action
  (`src/core/task_runtime.py:417`) and returns the code.
- **A failed history write registers one account more** (`register_runner_history`,
  `SavesWithinTarget`). `_save_task_log` (`src/api/tasks.py:29074`) is inside the attempt's
  try, after the account was saved: the success becomes a failure and is backfilled.
- **A stop request's lines are not saved** (`task_history_stop`, `StopReplyKeepsLines`).
  When the windows of row and record are disjoint the merge keeps the row's
  (`src/api/tasks.py:13649`).
- **A task that is done becomes failed** (`task_history_outcome`, `OutcomeStands`). The
  phone-binding runner saves once more after `finish`; when that raises, its handler
  finishes the task a second time (`src/api/tasks.py:22973`).
- **A stop locks an account out** (`web_session_lease_conflict`, `ConflictMeansRunning`). A
  stop met by a log line between the lease's creation and the next attempt
  (`src/services/chatgpt_core/web_session_login.py:525`) leaves the lease active with no
  thread; later logins of the account are refused as if one were running.
- **An ordered account is reported as one that never was** (`cdk_unsubmitted`,
  `UnsubmittedHasNoOrder`). An immediate stop that meets the pause after an order was booked is
  caught as a failed submission (`src/api/tasks.py:18700`); the summary's group says "accounts
  that never received an upstream order" (`src/api/tasks.py:16911`).
- **A change of e-mail is stuck** (`email_boundary`, `CanGoOn`). A write that raises right at
  the boundary (`src/services/chatgpt_core/email_change.py:1402`) leaves a row that crossed it and
  is not resumable: neither resume nor release accepts it, against `src/changelog.md:233`.

Observed while modelling, without a text that promises otherwise:

- *E-mail change.* Two resumptions of one reservation may run beside each other (the second runner
  then fails at the boundary, but may overwrite `done` by `partial`). A stop at the checkpoint
  right after the boundary was written leaves "recover only" although nothing was sent.
- *Delivery cards.* `set_card_status` reads first and writes later
  (`src/services/delivery_cards/service.py:1318`). When two requests enable one disabled card at once
  and it is redeemed between their writes, the later one sets it back to "unused", and its next
  redemption answers with a second account, which the comment above that line wants to
  exclude. `DeliveryCards` with two `Sessions` shows it (*AnswersAgree* fails after ten steps);
  *DeliveriesAgree* is therefore checked with administrators who act one after the other,
  while redemptions go on beside each of them.
- *Phone binding.* The rejection of an account that has a number already is blamed on the
  claimed number, which was not touched. A stop or skip at
  `src/services/chatgpt_core/oauth_client.py:4868`, after OpenAI accepted, leaves the binding
  unrecorded. A list never offers a number again that was given back as reusable
  (`src/api/tasks.py:22260`), although the reason of the skip says it is left for others
  (`src/api/tasks.py:22736`). A skip during the wait before a new authorization leaves the
  pool uncounted; one in the start delay ends as "unknown"; one consumed by the log line inside
  `record_chatgpt_confirmed_phone_binding` is swallowed. A checkpoint or claim that raises at
  `src/api/tasks.py:22511` leaves the attempt's id active. Two *tasks* on one number may lose a
  count in `record_success`, which may also enable a number that was disabled meanwhile.
- *PayPal.* Once the poller has rewritten the marker from "submitted" to the row's state, a
  second run of the account no longer sees that it was submitted and submits again; the service
  is idempotent for a link, but the marker may end as "extract_failed" or "submitted" beside a
  terminal row. A crash between the service's answer and the marker leaves an item nobody
  follows. An e-mail change ends the account's follow-up as `account_identity_changed`. A run
  that the backfill at start overtakes leaves the payment's stage at "submitted".

## 7. What is not modelled

In modelled components: log lines' text and byte limits (entries stand for both); metadata
of a challenge; a task's progress fields; the browser profile's files and the validation of
payment links; limits of 500 finished leases and 64 answered commands; persisted domain
snapshots other than the state; `_run_register`'s preparation of mailboxes, proxies and
fingerprints, whose result is that an attempt succeeds or fails.

`ExitIPRegistry`: how an address is probed. `DeliveryCards`: tokens, rate limits, the statuses that
nothing commits, deletion of accounts. `CdkOrders`: import and quota checks, the status between the
two commits of a booking, an account's payment state, deletion, manual reconciliation, restart.
`EmailChange`: phases, expiry of leases, the sign-in of the browser, and an account edited by hand in the
middle. `PhoneBinding`: the serial runner, the probe-only mode, two tasks on one number,
prefixes and sampling, import and deletion. `PaypalFollowup`: tasks that only extract links, the
coordinator's counters, back-off times, events and summaries, and other writers of the
account's extra data.

Components, each listed in `PROJECT.json` with its reason: the sign-up *engines* are
sequential scripts over remote pages (a nondeterministic outcome in the runner); the
runners of the *other task types* use the modelled control, store and pools; *mailboxes*,
*proxies*, *captchas* and *synchronisation* are clients of services whose answers are inputs
here; *accounts*, *configuration* and the *database* are rows and queries; *frontend*,
*extension*, *desktop shell* and *deployment* hold no state of the backend. The alias pool and the
shared browsers have protocols of their own and are in the plan.

## 8. Plan

The order is that of importance to the system: first what every task depends on, then what
may spend money or identities twice.

1. *(done)* `AttemptGate`, `TaskControl`, `RegisterRunner`: the gate, the monitor, the
   dispatcher.
2. *(done)* `TaskHistory`; `DomainRotation`, `DomainQuality`; `WebSessionLease`.
3. *(done)* `ExitIPRegistry`; `DeliveryCards`; `CdkOrders`; `PhoneBinding`; `EmailChange`;
   `PaypalFollowup`.
4. *(done)* Theorems: every safety and action property of every run that passes, and the
   refinement of `AttemptGate` by both modules.
5. In the existing modules: one active lease for an account with three leases and a late
   snapshot (`src/services/chatgpt_core/web_session_lease.py:300`); the expired challenge whose
   answer comes after the deadline (`src/core/task_runtime.py:459`); two binding tasks on one
   number (`src/services/chatgpt_core/phone_pool_repository.py:1543`).
6. Theorems about more than the runs state: *AnswersAgree* with several administrators would need
   the code to read again under its lock; the counters of `CdkOrders`' summary as a refinement
   of its set of accounts; `WebSessionLease` with a queue that is bounded.
7. The alias pool; shared-browser capacity.
