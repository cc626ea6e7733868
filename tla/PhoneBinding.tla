----------------------------- MODULE PhoneBinding -----------------------------
(***************************************************************************)
(* A task that binds phone numbers to accounts with several workers        *)
(* (_run_phone_binding_test_concurrent): the allocation of numbers, from   *)
(* the pool or from the request's list; what a worker does with a number   *)
(* at OpenAI (_handle_add_phone_verification); where a binding is written; *)
(* and the pool's rows (PhonePoolRepository) with their maintenance and    *)
(* the operator's requests.  OpenAI and the supplier of the text messages  *)
(* are the environment.                                                    *)
(***************************************************************************)
EXTENDS Integers, FiniteSets, Sequences

CONSTANTS
    Accounts, Phones,
    UsePool,            \* numbers come from the pool, else from the list
    Items,              \* phone_items: a sequence of numbers
    Width,              \* effective_concurrency
    MaxAccounts,        \* max_accounts of a number
    StopModes,          \* the stops an operator may ask for
    MaxSkips, MaxFaults, MaxRequests    \* bounds: skips, faults, other requests

VARIABLES
    phase,      \* the dispatcher: "running", "draining", "over"
    place,      \* where each account's worker is
    held,       \* the number each worker has claimed
    cursor,     \* phone_cursor
    claimed, terminal, successful,      \* ..._phones_this_run
    asked,      \* the accounts for which OpenAI sent a number a message
    remote,     \* the number OpenAI has bound to each account
    confirmed,  \* the accounts whose binding the program was told of
    binding,    \* chatgpt_phone_binding of the accounts
    pool,       \* phone_pool: the status and the accounts of each number
    result,     \* account_results
    stop, skips, faults, requests

allocation == <<held, cursor, claimed, terminal, successful>>
openai     == <<asked, remote>>
operator   == <<stop, skips, requests>>
vars == <<phase, place, allocation, openai, confirmed, binding, pool, result, operator, faults>>

Nothing  == "nothing"
Another  == "another"           \* an account that is not of this task

\* What the module assumes of its constants.
BindingAssumption ==
    /\ IsFiniteSet(Accounts)
    /\ Another \notin Accounts /\ Nothing \notin Phones
    /\ UsePool \in BOOLEAN
    /\ Items \in Seq(Phones)
    /\ Width \in Nat \ {0} /\ MaxAccounts \in Nat \ {0}
    /\ StopModes \subseteq {"after", "now"}
    /\ MaxSkips \in Nat /\ MaxFaults \in Nat /\ MaxRequests \in Nat

Done     == {"over", "broken", "stopped", "collected"}
Touched  == {"marked", "accepted", "completed", "persisted"}
Holding  == {"trying", "sent"} \cup Touched
Verdicts == {"cannot_send", "exhausted", "rate_limited"}
Rows     == [status : {"active", "disabled"} \cup Verdicts,
             emails : SUBSET (Accounts \cup {Another})]

TypeOK ==
    /\ phase \in {"running", "draining", "over"}
    /\ place \in [Accounts -> {"waiting", "ready", "top"} \cup Holding \cup Done]
    /\ held \in [Accounts -> Phones \cup {Nothing}]
    /\ \A a \in Accounts : held[a] = Nothing <=> place[a] \notin Holding
    /\ cursor \in 0..Len(Items)
    /\ claimed = {held[a] : a \in Accounts} \ {Nothing}
    /\ terminal \subseteq Phones /\ successful \subseteq Phones
    /\ asked \in [Phones -> SUBSET Accounts]
    /\ remote \in [Accounts -> Phones \cup {Nothing}]
    /\ confirmed \subseteq Accounts
    /\ binding \in [Accounts -> Phones \cup {Nothing}]
    /\ pool \in [Phones -> Rows]
    /\ result \in [Accounts -> {Nothing, "bound", "account_phone_bound", "failed",
                                "skipped", "not_tested", "unknown"}]
    /\ stop \in {"none"} \cup StopModes
    /\ skips \in 0..MaxSkips /\ faults \in 0..MaxFaults /\ requests \in 0..MaxRequests

\* A fixed list may hold numbers that could not be reached (list_unavailable_numbers).
Init ==
    /\ phase = "running"
    /\ place = [a \in Accounts |-> "waiting"]
    /\ held = [a \in Accounts |-> Nothing]
    /\ cursor = 0
    /\ claimed = {} /\ terminal = {} /\ successful = {}
    /\ asked = [p \in Phones |-> {}]
    /\ remote = [a \in Accounts |-> Nothing]
    /\ confirmed = {}
    /\ binding = [a \in Accounts |-> Nothing]
    /\ \E first \in Phones, status \in {"active", "cannot_send"} :
          /\ UsePool => status = "active"
          /\ pool = [p \in Phones |-> [status |-> IF p = first THEN status ELSE "active",
                                       emails |-> IF p = first THEN {Another} ELSE {}]]
    /\ result = [a \in Accounts |-> Nothing]
    /\ stop = "none" /\ skips = 0 /\ faults = 0 /\ requests = 0

-----------------------------------------------------------------------------
(* The pool's rows.                                                        *)

\* PhonePoolRecord.available
Available(p) == pool[p].status = "active" /\ Cardinality(pool[p].emails) < MaxAccounts

\* record_success
RecordSuccess(p, a) ==
    LET emails == pool[p].emails \cup {a}
    IN  pool' = [pool EXCEPT ![p] =
            [emails |-> emails,
             status |-> IF Cardinality(emails) >= MaxAccounts THEN "exhausted" ELSE "active"]]

\* record_failure, and the write that fails and is only logged
RecordFailure(p, statuses) ==
    \/ /\ \E status \in statuses : pool' = [pool EXCEPT ![p].status = status]
       /\ UNCHANGED faults
    \/ /\ faults < MaxFaults /\ faults' = faults + 1
       /\ UNCHANGED pool

-----------------------------------------------------------------------------
(* Numbers.                                                                *)

\* Mutant: a number that was used may be taken by the next account.
Excluded_Unused == terminal \cup claimed

Excluded == terminal \cup successful \cup claimed

\* claim_phone_item.  The pool's order, by last use, is any.
Choices ==
    IF UsePool
    THEN {[phone |-> p, cursor |-> cursor] : p \in {q \in Phones : Available(q)} \ Excluded}
    ELSE LET free == {i \in (cursor + 1)..Len(Items) : Items[i] \notin Excluded}
         IN  {[phone |-> Items[i], cursor |-> i] : i \in {j \in free : \A k \in free : j <= k}}

\* release_phone
Released(a, how) ==
    /\ held' = [held EXCEPT ![a] = Nothing]
    /\ claimed' = claimed \ {held[a]}
    /\ terminal' = CASE how = "terminal" -> terminal \cup {held[a]}
                     [] how = "reusable" -> terminal \ {held[a]}
                     [] OTHER -> terminal
    /\ successful' = CASE how = "successful" -> successful \cup {held[a]}
                       [] how = "reusable" -> successful \ {held[a]}
                       [] OTHER -> successful
    /\ UNCHANGED cursor

\* phone_was_touched
AsTouched(a) == IF place[a] \in Touched THEN "successful" ELSE "reusable"

-----------------------------------------------------------------------------
(* A worker: process_account.                                              *)

At(a, p) == place[a] = p
Goes(a, p) == place' = [place EXCEPT ![a] = p]
Answers(a, status) == result' = [result EXCEPT ![a] = status]

\* Behind the gate, after the delay: an attempt, or nothing.
Start(a) ==
    /\ At(a, "ready")
    /\ Goes(a, IF stop = "none" THEN "top" ELSE "over")
    /\ UNCHANGED <<phase, allocation, openai, confirmed, binding, pool, result, operator, faults>>

\* The top of the loop: the next number, or none is left.
Claim(a) ==
    /\ At(a, "top")
    /\ IF Choices = {}
       THEN /\ Goes(a, "over") /\ Answers(a, "not_tested")
            /\ cursor' = IF UsePool THEN cursor ELSE Len(Items)
            /\ UNCHANGED <<held, claimed, terminal, successful>>
       ELSE /\ \E c \in Choices :
                  /\ held' = [held EXCEPT ![a] = c.phone]
                  /\ claimed' = claimed \cup {c.phone}
                  /\ cursor' = c.cursor
            /\ Goes(a, "trying")
            /\ UNCHANGED <<terminal, successful, result>>
    /\ UNCHANGED <<phase, openai, confirmed, binding, pool, operator, faults>>

\* The pool cannot be read: the worker's future raises.
ClaimFails(a) ==
    /\ UsePool /\ At(a, "top")
    /\ faults < MaxFaults /\ faults' = faults + 1
    /\ Goes(a, "broken")
    /\ UNCHANGED <<phase, allocation, openai, confirmed, binding, pool, result, operator>>

\* The account has its tokens without a new number, which stays for another.
AlreadyBound(a) ==
    /\ At(a, "trying")
    /\ Released(a, "reusable")
    /\ Goes(a, "over") /\ Answers(a, "account_phone_bound")
    /\ UNCHANGED <<phase, openai, confirmed, binding, pool, operator, faults>>

\* OpenAI sends a message to the number.
Send(a) ==
    /\ At(a, "trying")
    /\ asked' = [asked EXCEPT ![held[a]] = @ \cup {a}]
    /\ Goes(a, "sent")
    /\ UNCHANGED <<phase, allocation, remote, confirmed, binding, pool, result, operator, faults>>

\* mark_sms_sent
MarkSent(a) ==
    /\ At(a, "sent")
    /\ Goes(a, "marked")
    /\ UNCHANGED <<phase, allocation, openai, confirmed, binding, pool, result, operator, faults>>

\* The code is submitted and OpenAI accepts it: _validate_phone_otp.
Accepted(a) ==
    /\ At(a, "marked")
    /\ remote' = [remote EXCEPT ![a] = held[a]]
    /\ Goes(a, "accepted")
    /\ UNCHANGED <<phase, allocation, asked, confirmed, binding, pool, result, operator, faults>>

\* Mutant: the binding is written with the result only.
Confirm_Later(a) ==
    /\ At(a, "accepted")
    /\ confirmed' = confirmed \cup {a}
    /\ Goes(a, "completed")
    /\ UNCHANGED <<phase, allocation, openai, binding, pool, result, operator, faults>>

\* After the last look at the stop: the binding is written at once, and a write
\* that fails is only logged; complete.
Confirm(a) ==
    /\ At(a, "accepted")
    /\ confirmed' = confirmed \cup {a}
    /\ \/ binding' = [binding EXCEPT ![a] = held[a]] /\ UNCHANGED faults
       \/ faults < MaxFaults /\ faults' = faults + 1 /\ UNCHANGED binding
    /\ Goes(a, "completed")
    /\ UNCHANGED <<phase, allocation, openai, pool, result, operator>>

\* The tokens have been fetched, or not after all retries: _persist_phone_binding_result.
Persist(a) ==
    /\ At(a, "completed")
    /\ binding' = [binding EXCEPT ![a] = held[a]]
    /\ Goes(a, "persisted")
    /\ UNCHANGED <<phase, allocation, openai, confirmed, pool, result, operator, faults>>

\* record_pool_result, whose failure is only logged, and the number is used.
Bound(a) ==
    /\ At(a, "persisted")
    /\ \/ RecordSuccess(held[a], a) /\ UNCHANGED faults
       \/ faults < MaxFaults /\ faults' = faults + 1 /\ UNCHANGED pool
    /\ Released(a, "successful")
    /\ Goes(a, "over") /\ Answers(a, "bound")
    /\ UNCHANGED <<phase, openai, confirmed, binding, operator>>

\* The number is to blame: the account goes on with another one.
NumberFails(a) ==
    /\ place[a] \in {"trying", "marked"}
    /\ Released(a, "terminal")
    /\ RecordFailure(held[a], Verdicts)
    /\ Goes(a, "top")
    /\ UNCHANGED <<phase, openai, confirmed, binding, result, operator>>

\* The account ends without a binding, for another reason: OpenAI's refusal
\* cancels the number, so it may be touched before a message was sent.  A
\* failure of the relay makes it active again.
Fails(a, how) ==
    /\ Released(a, how)
    /\ \E statuses \in {{pool[held[a]].status}, {"active"}} : RecordFailure(held[a], statuses)
    /\ Goes(a, "over") /\ Answers(a, "failed")
    /\ UNCHANGED <<phase, asked, confirmed, binding, operator>>

AccountFails(a) ==
    /\ \/ At(a, "trying") /\ (Fails(a, "reusable") \/ Fails(a, "successful"))
       \/ At(a, "marked") /\ Fails(a, "successful")
    /\ UNCHANGED remote

\* OpenAI accepted the code and the answer is lost.
AnswerLost(a) ==
    /\ At(a, "marked")
    /\ remote' = [remote EXCEPT ![a] = held[a]]
    /\ Fails(a, "successful")

\* The database fails between the confirmed binding and its result, which is
\* then written as any failure.
ResultFails(a) ==
    /\ place[a] \in {"completed", "persisted"}
    /\ faults < MaxFaults /\ faults' = faults + 1
    /\ Released(a, "successful")
    /\ Goes(a, "over") /\ Answers(a, "failed")
    /\ UNCHANGED <<phase, openai, confirmed, binding, pool, operator>>

\* A skip, at a checkpoint.  Before there is an attempt it breaks the future.
Skip(a) ==
    /\ skips < MaxSkips /\ skips' = skips + 1
    /\ \/ /\ At(a, "ready")
          /\ Goes(a, "broken")
          /\ UNCHANGED <<allocation, result>>
       \/ /\ place[a] \in Holding \ {"persisted"}
          /\ Released(a, AsTouched(a))
          /\ Goes(a, "over") /\ Answers(a, "skipped")
    /\ UNCHANGED <<phase, openai, confirmed, binding, pool, stop, requests, faults>>

\* A stop, at a checkpoint.
Stopped(a) ==
    /\ stop = "now"
    /\ \/ place[a] \in {"ready", "top"} /\ UNCHANGED allocation
       \/ place[a] \in Holding \ {"persisted"} /\ Released(a, AsTouched(a))
    /\ Goes(a, "stopped")
    /\ UNCHANGED <<phase, openai, confirmed, binding, pool, result, operator, faults>>

-----------------------------------------------------------------------------
(* The dispatcher.                                                         *)

InFlight == {a \in Accounts : place[a] \notin {"waiting", "collected"}}

\* The accounts' order is any.
Submit(a) ==
    /\ phase = "running" /\ stop = "none"
    /\ At(a, "waiting")
    /\ Cardinality(InFlight) < Width
    /\ Goes(a, "ready")
    /\ UNCHANGED <<phase, allocation, openai, confirmed, binding, pool, result, operator, faults>>

\* A finished future; one that broke has its result written here.
Collect(a) ==
    /\ phase = "running"
    /\ \/ At(a, "over") /\ Goes(a, "collected") /\ UNCHANGED <<phase, result>>
       \/ At(a, "broken") /\ Goes(a, "collected") /\ Answers(a, "unknown") /\ UNCHANGED phase
       \/ At(a, "stopped") /\ phase' = "draining" /\ UNCHANGED <<place, result>>
    /\ UNCHANGED <<allocation, openai, confirmed, binding, pool, operator, faults>>

\* The checkpoint of the loop.
StopSeen ==
    /\ phase = "running" /\ stop = "now" /\ InFlight # {}
    /\ phase' = "draining"
    /\ UNCHANGED <<place, allocation, openai, confirmed, binding, pool, result, operator, faults>>

\* The loop ends, or the executor has been shut down.
Finish ==
    /\ \/ /\ phase = "running" /\ InFlight = {}
          /\ stop # "none" \/ \A a \in Accounts : place[a] = "collected"
       \/ /\ phase = "draining"
          /\ \A a \in InFlight : place[a] \in Done
    /\ phase' = "over"
    /\ UNCHANGED <<place, allocation, openai, confirmed, binding, pool, result, operator, faults>>

-----------------------------------------------------------------------------
(* Others: the operator and the maintenance of the pool.                   *)

RequestStop ==
    /\ phase # "over" /\ stop # "now"
    /\ stop' \in StopModes \ {stop}
    /\ UNCHANGED <<phase, place, allocation, openai, confirmed, binding, pool, result,
                   skips, requests, faults>>

\* set_enabled, reset_status
SetStatus(p) ==
    /\ requests < MaxRequests /\ requests' = requests + 1
    /\ \E status \in {"active", "disabled"} \ {pool[p].status} :
          pool' = [pool EXCEPT ![p].status = status]
    /\ UNCHANGED <<phase, place, allocation, openai, confirmed, binding, result,
                   stop, skips, faults>>

\* recover_expired_temporary_statuses, for a number whose time has come
Recover(p) ==
    /\ pool[p].status = "rate_limited"
    /\ pool' = [pool EXCEPT ![p].status = "active"]
    /\ UNCHANGED <<phase, place, allocation, openai, confirmed, binding, result, operator, faults>>

Worker(a) ==
    \/ Start(a) \/ Claim(a) \/ ClaimFails(a) \/ AlreadyBound(a)
    \/ Send(a) \/ MarkSent(a) \/ Accepted(a) \/ AnswerLost(a) \/ Confirm(a)
    \/ Persist(a) \/ Bound(a)
    \/ NumberFails(a) \/ AccountFails(a) \/ ResultFails(a)
    \/ Skip(a) \/ Stopped(a)

Next ==
    \/ \E a \in Accounts : Worker(a) \/ Submit(a) \/ Collect(a)
    \/ StopSeen \/ Finish
    \/ RequestStop
    \/ \E p \in Phones : SetStatus(p) \/ Recover(p)

Spec == Init /\ [][Next]_vars

-----------------------------------------------------------------------------
(* Safety. *)

\* Within a task a number is in one worker's hands, is bound to one account at
\* most, also when the answer is lost or the worker interrupted, and gets a
\* second message only if a worker was interrupted before it noted the first.  No
\* number of the pool gets more accounts than it may, whatever the operator
\* does meanwhile ("multiple account workers cannot reuse the same phone item",
\* src/api/tasks.py:22032).
NumbersBindOnce ==
    /\ \A a, b \in Accounts :
          a # b => /\ held[a] = Nothing \/ held[a] # held[b]
                   /\ remote[a] = Nothing \/ remote[a] # remote[b]
    /\ \A p \in Phones :
          /\ stop # "now" => Cardinality(asked[p]) <= 1 + skips
          /\ UsePool => Cardinality(pool[p].emails) <= MaxAccounts

\* A binding that OpenAI confirmed is on the account's row whatever happens to
\* the worker afterwards, unless its write failed; no row and no count is made
\* up; a result that says bound is on the row and in the pool, also after a
\* failed write to the row; and a task that nobody stopped has a result for
\* every account ("Existing accounts are persisted
\* immediately", src/services/chatgpt_core/oauth_client.py:234).
BindingsSettle ==
    /\ \A a \in Accounts :
          /\ binding[a] # Nothing => binding[a] = remote[a]
          /\ a \in confirmed => binding[a] = remote[a] \/ faults > 0
          /\ result[a] = "bound" => /\ binding[a] # Nothing
                                    /\ a \in pool[binding[a]].emails \/ faults > 0
          /\ result[a] = "failed" /\ a \in confirmed => faults > 0
          /\ phase = "over" /\ stop = "none" => result[a] # Nothing
    /\ \A p \in Phones : \A a \in pool[p].emails \ {Another} : binding[a] = p
    /\ phase = "over" => claimed = {} /\ \A a \in Accounts : place[a] \in Done \cup {"waiting"}
=============================================================================
