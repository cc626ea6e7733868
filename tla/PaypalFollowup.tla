----------------------------- MODULE PaypalFollowup -----------------------------
(***************************************************************************)
(* The PayPal payment of one registered account.  Runs of                  *)
(* run_registration_paypal_payment_for_account extract an approval link    *)
(* and hand it to the payment service: the coordinator of the registration *)
(* runs it once, and so do continuations after the account's Auth has been *)
(* captured late.  Two worker threads follow the payment in a durable row, *)
(* one asks for its result, one logs in afterwards and waits for the       *)
(* subscription; after a restart the account's marker brings back what the *)
(* row does not have.  The row is authoritative, the marker and the stages *)
(* of the account's pipeline are its copies.  The payment service and the  *)
(* login are the environment; events and logs are left out.                *)
(***************************************************************************)
EXTENDS Integers

CONSTANTS
    Continuations,      \* threads that resume the pipeline; "task" is the coordinator's
    MaxRelogins,        \* MAX_RELOGIN_ATTEMPTS
    MaxCrashes          \* bound: deaths of the process

VARIABLES
    email,      \* the account's e-mail, "gone" once it was deleted or replaced
    token,      \* the account has an access token
    marker,     \* extra.chatgpt_paypal_auto_payment
    pipeline,   \* the stages payment_link and payment, and the continuation
    upstream,   \* the item of the payment service, one for the account's link
    row,        \* registration_paypal_payment_followups
    run,        \* where each run is, and the e-mail it read
    work,       \* the two workers, and the row as each has read it
    unmarked,   \* history: an item was not written into the account's marker
    crashes

\* At least one login is tried.
ReloginAssumption == MaxRelogins \in Nat \ {0} /\ MaxCrashes \in Nat

account == <<email, token>>
copies  == <<marker, pipeline>>
vars == <<account, copies, upstream, row, run, work, unmarked, crashes>>

Runs     == {"task"} \cup Continuations
Lanes    == {"poll", "post"}
Emails   == {"old", "new"}
Active   == {"payment_pending", "relogin_pending", "local_refresh_pending"}
Terminal == {"payment_failed", "payment_unknown", "relogin_failed", "subscription_confirmed",
             "local_unconfirmed", "account_identity_changed"}

Rows  == [state : Active \cup Terminal \cup {"none"}, email : Emails,
          authorized : BOOLEAN, relogins : 0..MaxRelogins]
NoRow == [state |-> "none", email |-> "old", authorized |-> FALSE, relogins |-> 0]
Rest(p) == [at |-> p, seen |-> NoRow]

TypeOK ==
    /\ email \in Emails \cup {"gone"} /\ token \in BOOLEAN
    /\ marker \in [status : Active \cup Terminal
                       \cup {"none", "pending_auth", "running", "extract_failed",
                             "submit_failed", "submitted"}, item : BOOLEAN]
    /\ pipeline \in [link : {"queued", "pending_auth", "running", "succeeded", "failed"},
                     payment : {"auth_pending", "blocked", "submitting", "submit_failed", "submitted",
                                "payment_pending", "succeeded", "failed", "unknown"},
                     resumed : BOOLEAN]     \* a blocked payment may wait for the Auth
    /\ upstream \in {"none", "open", "authorized", "failed", "interrupted"}
    /\ row \in Rows
    /\ run \in [Runs -> [at : {"waiting", "extracting", "sending", "answered", "marked",
                               "known", "ensuring", "over", "blocked", "lost"}, email : Emails]]
    /\ work \in [Lanes -> [at : {"boot", "idle", "due", "asking", "login", "marking"}, seen : Rows]]
    /\ unmarked \in BOOLEAN /\ crashes \in 0..MaxCrashes

\* initialize_registration_pipeline, for an account with or without its Auth
Init ==
    /\ email = "old" /\ token \in BOOLEAN
    /\ marker = [status |-> "none", item |-> FALSE]
    /\ pipeline = [link    |-> IF token THEN "queued" ELSE "pending_auth",
                   payment |-> IF token THEN "blocked" ELSE "auth_pending",
                   resumed |-> FALSE]
    /\ upstream = "none"
    /\ row = NoRow
    /\ run = [r \in Runs |-> [at |-> "waiting", email |-> "old"]]
    /\ work = [poll |-> Rest("boot"), post |-> Rest("idle")]
    /\ unmarked = FALSE /\ crashes = 0

\* Writes are tried once, and a failure is only logged.
Tries(effect, nothing) == effect \/ nothing

-----------------------------------------------------------------------------
(* The copies on the account. *)

\* _persist_marker and update_registration_pipeline_stage look at the identity.
Marks(r, status, item) ==
    Tries(marker' = IF email = run[r].email THEN [status |-> status, item |-> item] ELSE marker,
          UNCHANGED marker)

Stages(r, changed) == pipeline' = IF email = run[r].email THEN changed ELSE pipeline

\* apply_payment_followup_to_extra
PaymentOf(s) ==
    CASE s.authorized -> "succeeded"
      [] s.state = "payment_failed" -> "failed"
      [] s.state = "payment_unknown" -> "unknown"
      [] OTHER -> "payment_pending"

\* _update_marker_for_followup, from the row as its writer has it
Mirrors(s) ==
    Tries(IF email = s.email
          THEN /\ marker' = [marker EXCEPT !.status = s.state]
               /\ pipeline' = [pipeline EXCEPT !.payment = PaymentOf(s)]
          ELSE UNCHANGED copies,
          UNCHANGED copies)

-----------------------------------------------------------------------------
(* A run: link, payment service, marker, row. *)

At(r, p) == run[r].at = p
Was(p) == [at |-> p, email |-> "old"]      \* nobody reads the e-mail of a run that is over
Goes(r, p) == run' = [run EXCEPT ![r].at = p]

\* The end of a run.  finish_registration_pipeline_continuation does not look
\* at the identity.
Leaves(r, p, changed) ==
    /\ run' = [run EXCEPT ![r] = Was(p)]
    /\ pipeline' = [(IF email = run[r].email THEN changed ELSE pipeline)
                    EXCEPT !.resumed = @ /\ r = "task"]

\* Who may begin: the coordinator, or a continuation that claims the pipeline
\* (claim_registration_pipeline_continuation).
AwaitsAuth == pipeline.link = "pending_auth" \/ pipeline.payment = "auth_pending"

MayBegin(r) ==
    /\ At(r, "waiting")
    /\ r = "task" \/ (token /\ AwaitsAuth /\ ~pipeline.resumed)

Begun(r, p) == run' = [run EXCEPT ![r] = [at |-> p, email |-> email]]
Claimed(r)  == [pipeline EXCEPT !.resumed = @ \/ r # "task"]

\* This task has submitted the account before and the marker still says so.
Submitted == marker.status = "submitted" /\ marker.item

Begin(r) ==
    /\ MayBegin(r)
    /\ IF email = "gone"
       THEN /\ run' = [run EXCEPT ![r] = Was("blocked")]
            /\ UNCHANGED copies
       ELSE \/ /\ Submitted
               /\ Begun(r, "known")
               /\ pipeline' = Claimed(r) /\ UNCHANGED marker
            \/ /\ ~Submitted /\ ~token
               /\ run' = [run EXCEPT ![r] = Was("blocked")]
               /\ marker' = [status |-> "pending_auth", item |-> FALSE]
               /\ pipeline' = [pipeline EXCEPT !.link = "pending_auth", !.payment = "blocked"]
            \/ /\ ~Submitted /\ token
               /\ Begun(r, "extracting")
               /\ marker' = [status |-> "running", item |-> FALSE]
               /\ pipeline' = [Claimed(r) EXCEPT !.link = "running"]
    /\ UNCHANGED <<account, upstream, row, work, unmarked, crashes>>

\* No link, or it cannot be written.
ExtractFails(r) ==
    /\ At(r, "extracting")
    /\ Marks(r, "extract_failed", FALSE)
    /\ Leaves(r, "over", [pipeline EXCEPT !.link = "failed", !.payment = "blocked"])
    /\ UNCHANGED <<account, upstream, row, work, unmarked, crashes>>

\* The link arrives and is saved, if the account is still the same.
Saves(r) ==
    /\ At(r, "extracting")
    /\ IF email = run[r].email
       THEN /\ Goes(r, "sending")
            /\ marker' = [status |-> "running", item |-> FALSE]
            /\ pipeline' = [pipeline EXCEPT !.link = "succeeded", !.payment = "submitting"]
       ELSE Leaves(r, "over", pipeline) /\ UNCHANGED marker
    /\ UNCHANGED <<account, upstream, row, work, unmarked, crashes>>

\* The service has one item for a link, however often it is sent.
Enqueued == upstream' = IF upstream = "none" THEN "open" ELSE upstream

Sends(r) ==
    /\ At(r, "sending")
    /\ Enqueued
    /\ Goes(r, "answered")
    /\ UNCHANGED <<account, copies, row, work, unmarked, crashes>>

\* No answer, whether the service has the item or not.
SendFails(r) ==
    /\ At(r, "sending")
    /\ \/ Enqueued /\ Leaves(r, "lost", [pipeline EXCEPT !.payment = "submit_failed"])
       \/ UNCHANGED upstream /\ Leaves(r, "over", [pipeline EXCEPT !.payment = "submit_failed"])
    /\ Marks(r, "submit_failed", FALSE)
    /\ UNCHANGED <<account, row, work, unmarked, crashes>>

MarksSubmitted(r) ==
    /\ At(r, "answered")
    /\ Marks(r, "submitted", TRUE)
    /\ unmarked' = (unmarked \/ ~Submitted')
    /\ Goes(r, "marked")
    /\ UNCHANGED <<account, pipeline, upstream, row, work, crashes>>

\* Also where an earlier submission was found.
StagesSubmitted(r) ==
    /\ run[r].at \in {"marked", "known"}
    /\ Tries(Stages(r, [pipeline EXCEPT !.link = IF At(r, "known") THEN "succeeded" ELSE @,
                                        !.payment = "submitted"]),
             UNCHANGED pipeline)
    /\ Goes(r, "ensuring")
    /\ UNCHANGED <<account, marker, upstream, row, work, unmarked, crashes>>

\* ensure_payment_followup
Ensured(who) ==
    CASE row.state = "none" -> [NoRow EXCEPT !.state = "payment_pending", !.email = who]
      [] row.state \in Active -> [row EXCEPT !.email = who]
      [] OTHER -> row

Ensures(r) ==
    /\ At(r, "ensuring")
    /\ Tries(row' = Ensured(run[r].email), UNCHANGED row)
    /\ Leaves(r, "over", pipeline)
    /\ UNCHANGED <<account, marker, upstream, work, unmarked, crashes>>

-----------------------------------------------------------------------------
(* The workers: one lane asks for results, the other logs in and waits. *)

\* Mutant: one queue for both workers.
Lane_Any(w) == Active

\* The states a worker takes from the table.
Lane(w) == IF w = "poll" THEN {"payment_pending"} ELSE {"relogin_pending", "local_refresh_pending"}

\* Mutant: only what the payment service may still hold.
Unfinished_Pending == {"submitted", "running", "payment_pending"}

\* The markers of the boot's backfill.
Unfinished == {"submitted", "running"} \cup Active
Recoverable == email # "gone" /\ marker.status \in Unfinished /\ marker.item

Turns(w, p) == work' = [work EXCEPT ![w].at = p]
Rested(w)   == work' = [work EXCEPT ![w] = Rest("idle")]

\* _persist_row_update, whose result is copied to the account afterwards.
Updates(w, changed) ==
    Tries(/\ row' = changed
          /\ work' = [work EXCEPT ![w] = [at |-> "marking", seen |-> changed]],
          /\ UNCHANGED row
          /\ Rested(w))

\* backfill_followups_from_markers, before the first poll of the process
Backfills ==
    /\ work["poll"].at = "boot"
    /\ IF Recoverable THEN Updates("poll", Ensured(email))
       ELSE Rested("poll") /\ UNCHANGED row
    /\ UNCHANGED <<account, copies, upstream, run, unmarked, crashes>>

\* reconcile_due_followups; when a row is due is left open.
Takes(w) ==
    /\ work[w].at = "idle" /\ row.state \in Lane(w)
    /\ work' = [work EXCEPT ![w] = [at |-> "due", seen |-> row]]
    /\ UNCHANGED <<account, copies, upstream, row, run, unmarked, crashes>>

\* The account of the row as it was read was renamed, deleted or replaced.
GivesUp(w) ==
    /\ work[w].at = "due" /\ work[w].seen.email # email
    /\ Tries(row' = [row EXCEPT !.state = "account_identity_changed"], UNCHANGED row)
    /\ Rested(w)
    /\ UNCHANGED <<account, copies, upstream, run, unmarked, crashes>>

Serves(w, state) ==
    work[w].at = "due" /\ work[w].seen.email = email /\ work[w].seen.state = state

\* _process_row: the deadline bounds the polling only.  When it passes is open.
Expires(w) ==
    /\ Serves(w, "payment_pending")
    /\ Updates(w, [row EXCEPT !.state = "payment_unknown"])
    /\ UNCHANGED <<account, copies, upstream, run, unmarked, crashes>>

Asks(w) ==
    /\ Serves(w, "payment_pending")
    /\ Turns(w, "asking")
    /\ UNCHANGED <<account, copies, upstream, row, run, unmarked, crashes>>

\* _remote_failure_state, _remote_is_authorized
Told ==
    CASE upstream = "authorized"  -> "relogin_pending"
      [] upstream = "failed"      -> "payment_failed"
      [] upstream = "interrupted" -> "payment_unknown"
      [] OTHER                    -> "payment_pending"

\* The result, or an error of the query, which is tried again.
Answers(w) ==
    /\ work[w].at = "asking"
    /\ \/ Updates(w, [row EXCEPT !.state = Told, !.authorized = upstream = "authorized"])
       \/ Rested(w) /\ UNCHANGED row
    /\ UNCHANGED <<account, copies, upstream, run, unmarked, crashes>>

\* The login of _process_relogin ...
LogsIn(w) ==
    /\ Serves(w, "relogin_pending")
    /\ Turns(w, "login")
    /\ UNCHANGED <<account, copies, upstream, row, run, unmarked, crashes>>

\* ... and its end, counted from the row as it was read.
LoggedIn(w) ==
    LET tries == work[w].seen.relogins + 1
        Ends(state) == Updates(w, [row EXCEPT !.state = state, !.relogins = tries])
    IN /\ work[w].at = "login"
       /\ \/ Ends("local_refresh_pending")
          \/ Ends("relogin_failed")
          \/ tries < MaxRelogins /\ Ends("relogin_pending")
       /\ UNCHANGED <<account, copies, upstream, run, unmarked, crashes>>

\* The local evidence of a subscription is there, or LOCAL_REFRESH_GRACE_SECONDS
\* have passed, or the row waits.
Refreshes(w) ==
    /\ Serves(w, "local_refresh_pending")
    /\ \/ \E state \in {"subscription_confirmed", "local_unconfirmed"} :
             Updates(w, [row EXCEPT !.state = state])
       \/ Rested(w) /\ UNCHANGED row
    /\ UNCHANGED <<account, copies, upstream, run, unmarked, crashes>>

\* The copies follow the row as it was written, not as it is now.
Copies(w) ==
    /\ work[w].at = "marking"
    /\ Mirrors(work[w].seen)
    /\ Rested(w)
    /\ UNCHANGED <<account, upstream, row, run, unmarked, crashes>>

-----------------------------------------------------------------------------
(* The surroundings. *)

\* A runner of the payment service finishes, or is interrupted.
Pays ==
    /\ upstream = "open"
    /\ upstream' \in {"authorized", "failed", "interrupted"}
    /\ UNCHANGED <<account, copies, row, run, work, unmarked, crashes>>

\* The account's Auth is captured, its e-mail is changed, or it is deleted.
AccountChanges ==
    /\ email # "gone"
    /\ \/ ~token /\ token' = TRUE /\ UNCHANGED email
       \/ email = "old" /\ email' = "new" /\ UNCHANGED token
       \/ email' = "gone" /\ UNCHANGED token
    /\ UNCHANGED <<copies, upstream, row, run, work, unmarked, crashes>>

\* A claim is respected for CONTINUATION_RUNNING_TIMEOUT_SECONDS only.
ClaimExpires ==
    /\ pipeline.resumed
    /\ pipeline' = [pipeline EXCEPT !.resumed = FALSE]
    /\ UNCHANGED <<account, marker, upstream, row, run, work, unmarked, crashes>>

\* The process dies and is started again.  An answer that was on its way, or
\* only in memory, is lost, and so is the coordinator's queue.
Restarts ==
    /\ crashes < MaxCrashes
    /\ crashes' = crashes + 1
    /\ \/ UNCHANGED upstream
       \/ (\E r \in Runs : At(r, "sending")) /\ Enqueued
    /\ run' = [r \in Runs |->
                 CASE run[r].at \in {"sending", "answered"} -> Was("lost")
                   [] run[r].at \in {"lost", "blocked"} -> run[r]
                   [] At(r, "waiting") /\ r # "task" -> run[r]
                   [] OTHER -> Was("over")]
    /\ work' = [poll |-> Rest("boot"), post |-> Rest("idle")]
    /\ UNCHANGED <<account, copies, row, unmarked>>

-----------------------------------------------------------------------------
Runner(r) ==
    \/ Begin(r) \/ ExtractFails(r) \/ Saves(r) \/ Sends(r) \/ SendFails(r)
    \/ MarksSubmitted(r) \/ StagesSubmitted(r) \/ Ensures(r)

Worker(w) ==
    \/ Takes(w) \/ GivesUp(w) \/ Expires(w) \/ Asks(w) \/ Answers(w) \/ LogsIn(w)
    \/ LoggedIn(w) \/ Refreshes(w) \/ Copies(w)

Next ==
    \/ \E r \in Runs : Runner(r)
    \/ Backfills
    \/ \E w \in Lanes : Worker(w)
    \/ Pays \/ AccountChanges \/ ClaimExpires \/ Restarts

Spec == Init /\ [][Next]_vars

-----------------------------------------------------------------------------
(* Properties. *)

InHand == {"answered", "marked", "known", "ensuring"}

\* A second run found the submission's marker rewritten by the poller, or worked
\* beside the first.
RanTwice == \E r, q \in Runs : r # q /\ {run[r].at, run[q].at} \cap {"waiting", "blocked"} = {}

\* The answer of the payment service was lost on its way or in memory, its
\* marker could not be written, or a second run may have written over it.
AnswerLost ==
    \/ \E r \in Runs : At(r, "lost")
    \/ unmarked
    \/ RanTwice

\* Nobody logs in, and no copy says that the account paid, before PayPal has
\* authorized the payment; a payment that was authorized is not called failed
\* (_process_row, the irreversible boundary of _remote_failure_state).
PaidMeansAuthorized ==
    /\ \/ row.authorized
       \/ pipeline.payment = "succeeded"
       \/ marker.status \in {"relogin_pending", "local_refresh_pending", "relogin_failed",
                             "subscription_confirmed", "local_unconfirmed"}
       \/ \E w \in Lanes : work[w].at = "login"
       => upstream = "authorized" /\ row.authorized
    /\ upstream = "authorized" => row.state # "payment_failed" /\ pipeline.payment # "failed"

\* An item of an account that is still there is followed: there is a row, a run
\* that will write it, or a marker from which the next boot makes it.
ItemsAreFollowed ==
    upstream # "none" /\ email # "gone" =>
        \/ row.state # "none"
        \/ Recoverable
        \/ \E r \in Runs : run[r].at \in InHand
        \/ AnswerLost

\* The copies of a row that is over say so, or will: a worker is about to write
\* them, or the next boot repairs them.  The two lanes write them in any order,
\* each from the row it has read.  (A run that the boot's backfill overtakes
\* between its marker and its stage leaves the stage at "submitted".)
CopiesCatchUp ==
    /\ row.state \in Terminal \ {"account_identity_changed"}
    /\ email = row.email
    => \/ marker.status = row.state /\ pipeline.payment \in {PaymentOf(row), "submitted"}
       \/ Recoverable
       \/ \E w \in Lanes : work[w].at = "marking" /\ work[w].seen.state = row.state
       \/ RanTwice \/ unmarked

\* A payment is followed to its end, and told as it went.
PaymentsFollowed == PaidMeansAuthorized /\ ItemsAreFollowed /\ CopiesCatchUp

\* What is durable goes forward: a row stays, its end is final, an authorization
\* is not taken back, and a login that succeeded is not made again.
GoesForward ==
    /\ row.state # "none" => row'.state # "none"
    /\ row.state \in Terminal => row'.state = row.state
    /\ row.authorized => row'.authorized
    /\ row.state = "local_refresh_pending" => row'.state # "relogin_pending"
    /\ row'.relogins >= row.relogins
=============================================================================
