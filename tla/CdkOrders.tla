------------------------------- MODULE CdkOrders -------------------------------
(***************************************************************************)
(* Payment orders that accounts place with cards of several uses: the task *)
(* that submits the orders and asks for their ends                         *)
(* (_run_baxigpt_cdk_submit), the cards' rows, which hold one order each   *)
(* (BaxiGptCdkRepository), the orders' copies on the accounts, the status  *)
(* poller and the operator's requests.  The upstream service is the        *)
(* environment.  An order is named after the account it was placed for.    *)
(***************************************************************************)
EXTENDS Integers, FiniteSets

CONSTANTS
    Accounts, Cards,
    Target,             \* target_success_count; 0 is all accounts
    FailureContinue,    \* failure_continue
    MaxRequests         \* bound: the operator's requests

VARIABLES
    remote,     \* the orders at the upstream service, and how often they were sent
    row,        \* baxigpt_cdk_pool
    extra,      \* extra.baxigpt_cdk of the accounts
    phase,      \* where the runner is
    cards,      \* active_cdks, by the check before the first order
    pending,    \* pending_accounts
    hand,       \* the account and the card that are being submitted
    orders,     \* active_orders: the card of each
    todo,       \* the orders not asked for yet in this round
    moved,      \* len(pending_accounts) != last_pending_count
    result,     \* runtime_results: the last one of each account
    stop, skip, \* the task's control
    targets,    \* _targets of the poller
    flight,     \* the poller's request under way
    asked       \* the operator's requests so far

runner == <<phase, cards, pending, hand, orders, todo, moved, result>>
poller == <<targets, flight>>
vars   == <<remote, row, extra, runner, stop, skip, poller, asked>>

Nobody == "nobody"

\* What the module assumes of its constants.
OrderAssumption ==
    /\ IsFiniteSet(Accounts) /\ Nobody \notin Accounts \cup Cards
    /\ Target \in Nat /\ MaxRequests \in Nat
    /\ FailureContinue \in BOOLEAN

Ends   == {"paid", "failed"}

OrdersUpstream == [state : {"none", "open"} \cup Ends, times : 0..2]
Rows   == [status : {"available", "open", "disabled"} \cup Ends,
           account : Accounts \cup {Nobody}, order : Accounts \cup {Nobody}]
Copies == [status : {"none", "open", "stopped", "disabled"} \cup Ends,
           order : Accounts \cup {Nobody}, card : Cards \cup {Nobody}, muted : BOOLEAN]
Empty  == [status |-> "none", order |-> Nobody, card |-> Nobody, muted |-> FALSE]
Idle    == [account |-> Nobody, card |-> Nobody, ok |-> FALSE]
Resting == [card |-> Nobody, order |-> Nobody]

TypeOK ==
    /\ remote \in [Accounts -> OrdersUpstream]
    /\ row \in [Cards -> Rows]
    /\ extra \in [Accounts -> Copies]
    /\ phase \in {"checking", "top", "submitting", "sending", "answering", "pausing",
                  "waiting", "polling", "ended", "stopping", "over", "stopped"}
    /\ cards \in [Cards -> {"unchecked", "usable", "refused"}]
    /\ pending \subseteq Accounts
    /\ hand \in [account : Accounts, card : Cards, ok : BOOLEAN] \cup {Idle}
    /\ hand = Idle <=> phase \notin {"sending", "answering", "pausing"}
    /\ orders \in [Accounts -> Cards \cup {Nobody}]
    /\ todo \subseteq {a \in Accounts : orders[a] # Nobody}
    /\ moved \in BOOLEAN /\ skip \in BOOLEAN
    /\ result \in [Accounts -> {"none", "unsubmitted", "timeout"} \cup Ends]
    /\ stop \in {"no", "after_current", "immediate"}
    /\ targets \subseteq Cards
    /\ flight \in [card : Cards, order : Accounts] \cup {Resting}
    /\ asked \in 0..MaxRequests

Init ==
    /\ remote = [a \in Accounts |-> [state |-> "none", times |-> 0]]
    /\ row \in [Cards -> {[status |-> s, account |-> Nobody, order |-> Nobody] : s \in {"available", "failed"}}]
    /\ extra = [a \in Accounts |-> Empty]
    /\ phase = "checking"
    /\ cards = [c \in Cards |-> "unchecked"]
    /\ pending = Accounts
    /\ hand = Idle
    /\ orders = [a \in Accounts |-> Nobody]
    /\ todo = {}
    /\ moved = FALSE
    /\ result = [a \in Accounts |-> "none"]
    /\ stop = "no" /\ skip = FALSE
    /\ targets = {} /\ flight = Resting
    /\ asked = 0

-----------------------------------------------------------------------------
(* The cards' rows and the accounts' copies. *)

Cleared(r) == [status |-> "available", account |-> Nobody, order |-> Nobody]

\* mark_code_info of a card that may be used
Informed(r) == IF r.status \in {"open", "disabled"} THEN r ELSE Cleared(r)

\* reserve_for_account, which leaves the binding of a card that has ended as
\* it is, and mark_submit_success, which then writes the order all the same
Booked(r, a) ==
    [status |-> "open", order |-> a,
     account |-> IF r.status \in {"available", "open"} THEN a ELSE r.account]

\* An order of the runner has ended (mark_submit_success, mark_status_response).
Ended(r, a, end) == [r EXCEPT !.status = end, !.order = a]

\* persist_account_binding_extra
Copy(c, status, order) == [status |-> status, order |-> order, card |-> c, muted |-> FALSE]

\* persist_bound_account_extra, _refresh_bound_account_local_status
Synced(c, r) ==
    IF r.account = Nobody THEN extra
    ELSE [extra EXCEPT ![r.account] = Copy(c, r.status, r.order)]

-----------------------------------------------------------------------------
(* The runner's accounts. *)

Active == {a \in Accounts : orders[a] # Nobody}
Paid   == {a \in Accounts : result[a] = "paid"}

Reached == Target > 0 /\ Cardinality(Paid) >= Target

\* Mutant: orders under way do not fill the window.
WindowFull_Paid == Target > 0 /\ Cardinality(Paid) >= Target

\* submit_window_full
WindowFull == Target > 0 /\ Cardinality(Active) >= Target - Cardinality(Paid)

Told(these, what) == [a \in Accounts |-> IF a \in these THEN what ELSE result[a]]

Halted == stop = "immediate" \/ skip

\* With no order under way, the accounts that still wait are given up.
GivenUp == IF Active = {} THEN pending ELSE {}

\* A submission pass is over, with these accounts reported as unsubmitted.
PassEnds(given) ==
    /\ pending' = IF Active = {} THEN {} ELSE pending \ given
    /\ result' = Told(given, "unsubmitted")
    /\ phase' = IF Active = {} THEN "ended" ELSE "waiting"
    /\ hand' = Idle

-----------------------------------------------------------------------------
(* The runner. *)

\* The quota of every card is asked for before the first order.
Precheck(c) ==
    /\ phase = "checking" /\ stop = "no"
    /\ cards[c] = "unchecked"
    /\ \/ row' = [row EXCEPT ![c] = Informed(@)] /\ cards' = [cards EXCEPT ![c] = "usable"]
       \/ row' = [row EXCEPT ![c].status = "failed"] /\ cards' = [cards EXCEPT ![c] = "refused"]
       \/ row' = row /\ cards' = [cards EXCEPT ![c] = "usable"]       \* the request raises
    /\ UNCHANGED <<remote, extra, phase, pending, hand, orders, todo, moved, result,
                   stop, skip, poller, asked>>

Checked ==
    /\ phase = "checking"
    /\ stop = "after_current" \/ \A c \in Cards : cards[c] # "unchecked"
    /\ phase' = "top"
    /\ UNCHANGED <<remote, row, extra, cards, pending, hand, orders, todo, moved, result,
                   stop, skip, poller, asked>>

\* The head of the loop, up to the first submission pass.
Top ==
    LET drained == IF stop = "after_current" \/ Reached THEN pending ELSE {} IN
    /\ phase = "top"
    /\ result' = Told(drained, "unsubmitted")
    /\ pending' = pending \ drained
    /\ phase' = IF pending' # {} THEN "submitting" ELSE IF Active = {} THEN "ended" ELSE "waiting"
    /\ moved' = FALSE
    /\ UNCHANGED <<remote, row, extra, cards, hand, orders, todo, stop, skip, poller, asked>>

\* The account at the head of the queue gets a card that code_info lets pass.
Picks(a, c) ==
    /\ phase = "submitting" /\ stop # "after_current"
    /\ ~Reached /\ ~WindowFull
    /\ a \in pending /\ cards[c] = "usable"
    /\ pending' = pending \ {a}
    /\ hand' = [account |-> a, card |-> c, ok |-> FALSE]
    /\ moved' = TRUE
    /\ phase' = "sending"
    /\ UNCHANGED <<remote, row, extra, cards, orders, todo, result, stop, skip, poller, asked>>

\* No card lets pass: once more if the pass took any account off the queue.
NoCard ==
    /\ phase = "submitting" /\ stop # "after_current"
    /\ pending # {} /\ ~Reached /\ ~WindowFull
    /\ moved' = FALSE
    /\ IF moved THEN UNCHANGED <<phase, pending, hand, result>> ELSE PassEnds(GivenUp)
    /\ UNCHANGED <<remote, row, extra, cards, orders, todo, stop, skip, poller, asked>>

PassOver ==
    /\ phase = "submitting"
    /\ stop = "after_current" \/ pending = {} \/ Reached \/ WindowFull
    /\ PassEnds(IF stop = "after_current" THEN pending ELSE GivenUp)
    /\ UNCHANGED <<remote, row, extra, cards, orders, todo, moved, stop, skip, poller, asked>>

\* The stop is met with the account in hand: it goes back to the others.
PutsBack ==
    /\ phase = "sending" /\ stop = "after_current"
    /\ PassEnds(pending \cup {hand.account})
    /\ UNCHANGED <<remote, row, extra, cards, orders, todo, moved, stop, skip, poller, asked>>

\* The account is gone or has no access token.
NoToken ==
    /\ phase = "sending"
    /\ result' = Told({hand.account}, "unsubmitted")
    /\ hand' = Idle /\ phase' = "submitting"
    /\ UNCHANGED <<remote, row, extra, cards, pending, orders, todo, moved, stop, skip, poller, asked>>

\* The request is sent; the answer may be a refusal, or be lost.
Sends ==
    LET a == hand.account IN
    /\ phase = "sending" /\ stop # "after_current"
    /\ \E accepted, answered \in BOOLEAN :
          /\ remote' = IF accepted
                       THEN [remote EXCEPT ![a] = [state |-> "open", times |-> @.times + 1]]
                       ELSE remote
          /\ hand' = [hand EXCEPT !.ok = accepted /\ answered]
    /\ phase' = "answering"
    /\ UNCHANGED <<row, extra, cards, pending, orders, todo, moved, result, stop, skip, poller, asked>>

Books ==
    LET a == hand.account
        c == hand.card IN
    /\ phase = "answering" /\ hand.ok
    /\ row' = [row EXCEPT ![c] = Booked(@, a)]
    /\ extra' = [extra EXCEPT ![a] = Copy(c, "open", a)]
    /\ orders' = [orders EXCEPT ![a] = c]
    /\ phase' = "pausing"
    /\ UNCHANGED <<remote, cards, pending, hand, todo, moved, result, stop, skip, poller, asked>>

PauseEnds ==
    /\ phase = "pausing"
    /\ phase' = "submitting" /\ hand' = Idle
    /\ UNCHANGED <<remote, row, extra, cards, pending, orders, todo, moved, result,
                   stop, skip, poller, asked>>

Requeued == IF FailureContinue THEN pending ELSE {}

\* The except clause of a submission: a refusal, a lost answer, and also the
\* stop or skip that interrupts the pause after an order was booked (there is
\* no pause when the task has one account).
SubmitFails ==
    LET told == {hand.account} \cup (IF FailureContinue THEN {} ELSE pending) IN
    /\ \/ phase = "answering" /\ ~hand.ok
       \/ phase = "pausing" /\ Halted /\ Cardinality(Accounts) > 1
    /\ skip' = (skip /\ (phase = "answering" \/ stop = "immediate"))
    /\ result' = Told(told, "unsubmitted")
    /\ pending' = Requeued
    /\ phase' = "submitting" /\ hand' = Idle
    /\ UNCHANGED <<remote, row, extra, cards, orders, todo, moved, stop, poller, asked>>

Wakes ==
    /\ phase = "waiting"
    /\ phase' = "polling" /\ todo' = Active
    /\ UNCHANGED <<remote, row, extra, cards, pending, hand, orders, moved, result,
                   stop, skip, poller, asked>>

\* Mutant: the order on the card's row is asked for.
Asked_Row(a) == row[orders[a]].order

Asked(a) == a

Leaves(a) ==
    /\ todo' = todo \ {a}
    /\ orders' = [orders EXCEPT ![a] = Nobody]
    /\ UNCHANGED <<remote, cards, hand, moved, phase, stop, skip, poller, asked>>

\* refresh_paid_account_local_status
PaidCopy(a) == [extra EXCEPT ![a] = Copy(orders[a], "paid", a)]

OrderPaid(a) ==
    /\ phase = "polling" /\ a \in todo
    /\ Asked(a) # Nobody /\ remote[Asked(a)].state = "paid"
    /\ row' = [row EXCEPT ![orders[a]] = Ended(@, a, "paid")]
    /\ extra' = PaidCopy(a)
    /\ result' = Told({a}, "paid")
    /\ pending' = pending
    /\ Leaves(a)

\* Only a reason that the account is to blame for is copied to the account.
OrderFailed(a) ==
    LET drained == IF stop = "after_current" THEN pending ELSE {} IN
    /\ phase = "polling" /\ a \in todo
    /\ Asked(a) # Nobody /\ remote[Asked(a)].state = "failed"
    /\ row' = [row EXCEPT ![orders[a]] = Ended(@, a, "failed")]
    /\ \/ extra' = [extra EXCEPT ![a] = Copy(orders[a], "failed", a)]
       \/ extra' = extra
    /\ result' = [Told(drained, "unsubmitted") EXCEPT ![a] = "failed"]
    /\ pending' = IF FailureContinue THEN pending \ drained ELSE {}
    /\ Leaves(a)

\* 24 hours have gone by, or the request raised once they had.
OrderTimesOut(a) ==
    /\ phase = "polling" /\ a \in todo
    /\ result' = Told({a}, "timeout")
    /\ UNCHANGED <<row, extra, pending>>
    /\ Leaves(a)

StillOpen(a) ==
    /\ phase = "polling" /\ a \in todo
    /\ todo' = todo \ {a}
    /\ UNCHANGED <<remote, row, extra, phase, cards, pending, hand, orders, moved, result,
                   stop, skip, poller, asked>>

RoundOver ==
    /\ phase = "polling" /\ todo = {}
    /\ phase' = "top"
    /\ UNCHANGED <<remote, row, extra, cards, pending, hand, orders, todo, moved, result,
                   stop, skip, poller, asked>>

\* A checkpoint outside the submission's try.
Interrupted ==
    /\ phase \in {"checking", "top", "submitting", "waiting", "polling"}
    /\ Halted
    /\ phase' = "stopping" /\ skip' = FALSE
    /\ UNCHANGED <<remote, row, extra, cards, pending, hand, orders, todo, moved, result,
                   stop, poller, asked>>

\* Mutant: the accounts of an order that is still open keep it.
Stopped_Plain(c) == c

Stopped(c) == IF c.status = "open" THEN [c EXCEPT !.status = "stopped", !.muted = TRUE] ELSE c

\* The task is finished, and stop_task_polling marks what it left open.
Closes ==
    /\ phase \in {"ended", "stopping"}
    /\ phase' = IF phase = "ended" THEN "over" ELSE "stopped"
    /\ extra' = [a \in Accounts |-> Stopped(extra[a])]
    /\ targets' = targets \ {extra'[a].card : a \in {b \in Accounts : extra'[b].muted}}
    /\ UNCHANGED <<remote, row, cards, pending, hand, orders, todo, moved, result,
                   stop, skip, flight, asked>>

-----------------------------------------------------------------------------
(* The upstream service, the task's control, the operator and the poller. *)

Settles(a) ==
    /\ remote[a].state = "open"
    /\ \E end \in Ends : remote' = [remote EXCEPT ![a].state = end]
    /\ UNCHANGED <<row, extra, runner, stop, skip, poller, asked>>

Running == phase \notin {"over", "stopped"}

RequestStop(mode) ==
    /\ Running
    /\ stop = "no" \/ (stop = "after_current" /\ mode = "immediate")
    /\ stop' = mode
    /\ UNCHANGED <<remote, row, extra, runner, skip, poller, asked>>

RequestSkip ==
    /\ Running /\ phase # "checking"
    /\ ~skip
    /\ skip' = TRUE
    /\ UNCHANGED <<remote, row, extra, runner, stop, poller, asked>>

Requests == asked < MaxRequests /\ asked' = asked + 1

\* set_status
SetStatus(c, s) ==
    /\ Requests
    /\ row' = [row EXCEPT ![c] = IF s = "available" THEN Cleared(@) ELSE [@ EXCEPT !.status = s]]
    /\ UNCHANGED <<remote, extra, runner, stop, skip, poller>>

\* What the service says of an order goes to the row, whatever order that
\* holds by now, and from there to the account the row is bound to.
StatusArrives(c, order) ==
    LET r == [row[c] EXCEPT !.status = remote[order].state] IN
    /\ row' = [row EXCEPT ![c] = r]
    /\ extra' = Synced(c, r)

\* POST /status
QueryStatus(c) ==
    /\ Requests
    /\ row[c].order # Nobody
    /\ StatusArrives(c, row[c].order)
    /\ UNCHANGED <<remote, runner, stop, skip, poller>>

\* _record_polling_disabled
Muted(c) == row[c].account # Nobody /\ extra[row[c].account].muted

\* POST /poll
StartPoll(c) ==
    /\ Requests
    /\ row[c].order # Nobody
    /\ IF row[c].status = "open"
       THEN /\ targets' = IF Muted(c) THEN targets ELSE targets \cup {c}
            /\ extra' = extra
       ELSE /\ row[c].status # "available"
            /\ extra' = Synced(c, row[c])
            /\ targets' = targets
    /\ UNCHANGED <<remote, row, runner, stop, skip, flight>>

PollEnds(c) ==
    /\ targets' = targets \ {c}
    /\ flight' = Resting
    /\ UNCHANGED <<remote, runner, stop, skip, asked>>

\* _poll_once finds that nothing is to be asked for, or that time is up.
PollDrops(c) ==
    /\ c \in targets /\ flight = Resting
    /\ row' = row
    /\ \/ /\ row[c].order = Nobody \/ Muted(c)
          /\ extra' = extra
       \/ /\ row[c].order # Nobody /\ ~Muted(c)
          /\ extra' = Synced(c, row[c])
    /\ PollEnds(c)

PollSends(c) ==
    /\ c \in targets /\ flight = Resting
    /\ row[c].order # Nobody /\ row[c].status = "open" /\ ~Muted(c)
    /\ flight' = [card |-> c, order |-> row[c].order]
    /\ UNCHANGED <<remote, row, extra, runner, stop, skip, targets, asked>>

PollAnswered ==
    /\ flight # Resting
    /\ StatusArrives(flight.card, flight.order)
    /\ flight' = Resting
    /\ targets' = IF row'[flight.card].status \in Ends THEN targets \ {flight.card} ELSE targets
    /\ UNCHANGED <<remote, runner, stop, skip, asked>>

PollRaises ==
    /\ flight # Resting
    /\ flight' = Resting
    /\ UNCHANGED <<remote, row, extra, runner, stop, skip, targets, asked>>

Runner ==
    \/ \E c \in Cards : Precheck(c) \/ \E a \in Accounts : Picks(a, c)
    \/ Checked \/ Top \/ NoCard \/ PassOver \/ PutsBack \/ NoToken \/ Sends
    \/ Books \/ PauseEnds \/ SubmitFails \/ Wakes \/ RoundOver \/ Interrupted \/ Closes
    \/ \E a \in Accounts : OrderPaid(a) \/ OrderFailed(a) \/ OrderTimesOut(a) \/ StillOpen(a)

Operator ==
    \/ \E mode \in {"after_current", "immediate"} : RequestStop(mode)
    \/ RequestSkip
    \/ \E c \in Cards :
          \/ QueryStatus(c) \/ StartPoll(c)
          \/ \E s \in {"available", "disabled", "failed"} : SetStatus(c, s)

Poller == PollAnswered \/ PollRaises \/ \E c \in Cards : PollDrops(c) \/ PollSends(c)

Next == Runner \/ Operator \/ Poller \/ \E a \in Accounts : Settles(a)

Spec == Init /\ [][Next]_vars

-----------------------------------------------------------------------------
(* Properties. *)

\* An order is placed once for an account, also when the answer was lost,
\* the card was refused or the task was stopped in between.  Orders under way
\* count against the target: however they end, no more than
\* target_success_count accounts are reported as paid.
OrdersWithinTarget ==
    /\ \A a \in Accounts : remote[a].times <= 1
    /\ Target > 0 => Cardinality(Paid) + Cardinality(Active) <= Target

\* What the task reports of an account is the end of its own order, although
\* the card's row may hold the order of another account by then.  As long as
\* no request of the operator copies rows to accounts, an account has a copy
\* of its own order, and one that says paid is in the results.
OrdersAreOwn ==
    \A a \in Accounts :
       /\ result[a] \in Ends => result[a] = remote[a].state
       /\ asked = 0 =>
             /\ extra[a].order \in {a, Nobody}
             /\ extra[a].status = "paid" => result[a] = "paid"

\* A task that was not interrupted has a result for every account, and one
\* that is over leaves no copy that could be polled again.
EndsAreSettled ==
    /\ phase = "over" /\ FailureContinue => \A a \in Accounts : result[a] # "none" /\ orders[a] = Nobody
    /\ phase \in {"over", "stopped"} /\ asked = 0 => \A a \in Accounts : extra[a].status # "open"

\* "Accounts that never received an upstream order" is what the summary's
\* group of unsubmitted accounts says of itself (api/tasks.py:16911).
UnsubmittedHasNoOrder ==
    \A a \in Accounts : result[a] = "unsubmitted" => orders[a] = Nobody
=============================================================================
