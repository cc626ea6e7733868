------------------------- MODULE PaypalFollowup_proofs -------------------------
(***************************************************************************)
(* Theorems of PaypalFollowup, for any set of continuations, any number of *)
(* login tries and any number of restarts.                                 *)
(***************************************************************************)
EXTENDS PaypalFollowup, TLAPS

\* The states of a row whose payment PayPal has authorized.
Paid == {"relogin_pending", "local_refresh_pending", "relogin_failed",
         "subscription_confirmed", "local_unconfirmed"}

\* A row says of the payment only what the payment service has said, and of the
\* logins only what is left of them.
LegalRow(s) ==
    /\ s.authorized => upstream = "authorized"
    /\ s.state \in Paid => s.authorized
    /\ s.state \in {"none", "payment_pending", "payment_failed", "payment_unknown"}
         => ~s.authorized
    /\ s.state = "payment_failed" => upstream = "failed"
    /\ s.state = "relogin_pending" => s.relogins < MaxRelogins
    /\ s.state \in {"none", "payment_pending"} => s.relogins = 0

RowsAreLegal == LegalRow(row) /\ \A w \in Lanes : LegalRow(work[w].seen)

\* While a worker serves a row nobody else moves it: the lanes are disjoint.
\* What a worker has written and not copied yet is still the row once it is over.
LanesApart ==
  \A w \in Lanes :
    /\ work[w].at \in {"due", "asking", "login"} =>
         /\ row.state = work[w].seen.state
         /\ row.state \in Lane(w)
         /\ row.relogins = work[w].seen.relogins
    /\ work[w].at = "asking" => row.state = "payment_pending"
    /\ work[w].at = "login" => row.state = "relogin_pending"
    /\ work[w].at = "marking" =>
         /\ row.state # "none" /\ work[w].seen.state # "none"
         /\ work[w].seen.state \in Terminal => row = work[w].seen
         /\ work[w].seen.authorized => row.authorized

\* The copies of the account follow a row that has said so.
CopiesAreTrue ==
    /\ pipeline.payment = "succeeded" \/ marker.status \in Paid => row.authorized
    /\ pipeline.payment = "failed" => upstream = "failed"

\* Runs that have the service's answer behind them.
Past == {"marked", "known", "ensuring", "over", "lost"}

\* Items, markers and rows come from a run, and a run that finds an earlier
\* submission is the second.
Traced ==
    /\ marker.item \/ row.state # "none" => \E q \in Runs : run[q].at \in Past
    /\ upstream # "none" => \E q \in Runs : run[q].at \in Past \cup {"answered"}
    /\ ~token => \A q \in Runs \ {"task"} : run[q].at \in {"waiting", "blocked"}
    /\ (\E r \in Runs : run[r].at = "known") => RanTwice

\* Where one run wrote the marker, the marker brings the row back, or says how
\* the row has ended.
MarkerKept ==
    /\ ~RanTwice /\ ~unmarked
    /\ row.state # "none" \/ \E r \in Runs : run[r].at \in {"marked", "ensuring"}
    => /\ marker.item
       /\ \/ marker.status \in Unfinished
          \/ /\ row.state \in Terminal /\ marker.status = row.state
             /\ pipeline.payment \in {PaymentOf(row), "submitted"}

\* ItemsAreFollowed, when a run past its marker is no longer counted on.
Followed ==
    upstream # "none" /\ email # "gone" =>
        \/ row.state # "none"
        \/ Recoverable
        \/ \E r \in Runs : At(r, "answered")
        \/ AnswerLost

Books == TypeOK /\ RowsAreLegal /\ LanesApart /\ CopiesAreTrue
Trail == Traced /\ MarkerKept /\ Followed
IInv  == Books /\ Trail

-----------------------------------------------------------------------------
(* What the helpers of the actions do. *)

MarkerSet   == [status : Active \cup Terminal
                    \cup {"none", "pending_auth", "running", "extract_failed",
                          "submit_failed", "submitted"}, item : BOOLEAN]
PipelineSet == [link : {"queued", "pending_auth", "running", "succeeded", "failed"},
                payment : {"auth_pending", "blocked", "submitting", "submit_failed", "submitted",
                           "payment_pending", "succeeded", "failed", "unknown"},
                resumed : BOOLEAN]
RunPlaces   == {"waiting", "extracting", "sending", "answered", "marked",
                "known", "ensuring", "over", "blocked", "lost"}
WorkPlaces  == {"boot", "idle", "due", "asking", "login", "marking"}

\* TypeOK, by its variables.
LEMMA Types ==
  TypeOK <=>
    /\ email \in Emails \cup {"gone"} /\ token \in BOOLEAN
    /\ marker \in MarkerSet /\ pipeline \in PipelineSet
    /\ upstream \in {"none", "open", "authorized", "failed", "interrupted"}
    /\ row \in Rows
    /\ run \in [Runs -> [at : RunPlaces, email : Emails]]
    /\ work \in [Lanes -> [at : WorkPlaces, seen : Rows]]
    /\ unmarked \in BOOLEAN /\ crashes \in 0..MaxCrashes
  BY DEF TypeOK, MarkerSet, PipelineSet, RunPlaces, WorkPlaces

LEMMA TypesPrime ==
  TypeOK' <=>
    /\ email' \in Emails \cup {"gone"} /\ token' \in BOOLEAN
    /\ marker' \in MarkerSet /\ pipeline' \in PipelineSet
    /\ upstream' \in {"none", "open", "authorized", "failed", "interrupted"}
    /\ row' \in Rows
    /\ run' \in [Runs -> [at : RunPlaces, email : Emails]]
    /\ work' \in [Lanes -> [at : WorkPlaces, seen : Rows]]
    /\ unmarked' \in BOOLEAN /\ crashes' \in 0..MaxCrashes
  BY DEF TypeOK, MarkerSet, PipelineSet, RunPlaces, WorkPlaces

\* The end of a run moves that run alone, and touches the claim of the pipeline
\* besides what its caller changes.
LEMMA LeavesDoes ==
  ASSUME TypeOK, NEW r \in Runs, NEW p \in RunPlaces, NEW changed \in PipelineSet,
         Leaves(r, p, changed)
  PROVE  /\ run' \in [Runs -> [at : RunPlaces, email : Emails]]
         /\ run'[r].at = p
         /\ \A q \in Runs \ {r} : run'[q] = run[q]
         /\ pipeline' \in PipelineSet
         /\ pipeline'.payment \in {changed.payment, pipeline.payment}
<1> DEFINE base == IF email = run[r].email THEN changed ELSE pipeline
<1>1. base \in PipelineSet /\ base.payment \in {changed.payment, pipeline.payment}
  BY Types
<1>2. pipeline' = [base EXCEPT !.resumed = @ /\ r = "task"]
  BY DEF Leaves
<1> HIDE DEF base
<1>3. /\ pipeline' \in PipelineSet
      /\ pipeline'.payment = base.payment
  BY <1>1, <1>2 DEF PipelineSet
<1>4. Was(p) \in [at : RunPlaces, email : Emails] /\ Was(p).at = p
  BY DEF Was, Emails
<1>5. /\ run' \in [Runs -> [at : RunPlaces, email : Emails]]
      /\ run'[r] = Was(p)
      /\ \A q \in Runs \ {r} : run'[q] = run[q]
  BY <1>4, Types DEF Leaves
<1> QED
  BY <1>1, <1>3, <1>4, <1>5

\* A worker that has written its row goes on to copy it; one that could not write
\* rests.  The other worker is left alone.
LEMMA UpdatesDoes ==
  ASSUME ReloginAssumption, TypeOK, NEW w \in Lanes, NEW changed \in Rows,
         Updates(w, changed)
  PROVE  /\ work' \in [Lanes -> [at : WorkPlaces, seen : Rows]]
         /\ \A v \in Lanes \ {w} : work'[v] = work[v]
         /\ \/ /\ row' = changed
               /\ work'[w].at = "marking" /\ work'[w].seen = changed
            \/ /\ row' = row
               /\ work'[w].at = "idle" /\ work'[w].seen = NoRow
<1>1. NoRow \in Rows
  BY DEF NoRow, Rows, Emails, ReloginAssumption
<1> QED
  BY <1>1, Types DEF Updates, Tries, Rested, Rest, WorkPlaces

\* ensure_payment_followup makes a row that is legal, and moves none.
LEMMA EnsuredDoes ==
  ASSUME ReloginAssumption, TypeOK, RowsAreLegal, NEW who \in Emails
  PROVE  /\ Ensured(who) \in Rows
         /\ LegalRow(Ensured(who))
         /\ Ensured(who).state # "none"
         /\ row.state # "none" => /\ Ensured(who).state = row.state
                                  /\ Ensured(who).authorized = row.authorized
                                  /\ Ensured(who).relogins = row.relogins
         /\ row.state = "none" => Ensured(who).state = "payment_pending"
         /\ row.state \in Terminal => Ensured(who) = row
<1>r. row \in Rows /\ row.state \in Active \cup Terminal \cup {"none"} /\ LegalRow(row)
  BY Types DEF RowsAreLegal, Rows
<1>1. CASE row.state = "none"
  <2>1. Ensured(who) = [state |-> "payment_pending", email |-> who,
                        authorized |-> FALSE, relogins |-> 0]
    BY <1>1 DEF Ensured, NoRow, Active
  <2> QED
    BY <1>1, <2>1 DEF Rows, Active, Terminal, LegalRow, Paid, ReloginAssumption
<1>2. CASE row.state \in Active
  <2>1. Ensured(who) = [row EXCEPT !.email = who]
    BY <1>2 DEF Ensured, Active
  <2>2. /\ [row EXCEPT !.email = who] \in Rows
        /\ [row EXCEPT !.email = who].state = row.state
        /\ [row EXCEPT !.email = who].authorized = row.authorized
        /\ [row EXCEPT !.email = who].relogins = row.relogins
    BY <1>r DEF Rows
  <2>3. row.state # "none" /\ row.state \notin Terminal
    BY <1>2 DEF Active, Terminal
  <2> QED
    BY <1>r, <2>1, <2>2, <2>3 DEF LegalRow
<1>3. CASE row.state \in Terminal
  <2>1. Ensured(who) = row /\ row.state # "none"
    BY <1>3 DEF Ensured, Active, Terminal
  <2> QED
    BY <1>r, <2>1
<1> QED
  BY <1>r, <1>1, <1>2, <1>3

-----------------------------------------------------------------------------
(* The row, its workers and the copies. *)

\* A run that only sets stages before the payment's end disturbs nobody.
LEMMA Gentle ==
  ASSUME Books, row' = row, work' = work, upstream' = upstream \/ upstream = "none",
         pipeline'.payment = pipeline.payment \/ pipeline'.payment \notin {"succeeded", "failed"},
         marker'.status = marker.status \/ marker'.status \notin Paid
  PROVE  RowsAreLegal' /\ LanesApart' /\ CopiesAreTrue'
<1>1. RowsAreLegal'
  BY DEF Books, RowsAreLegal, LegalRow
<1>2. LanesApart'
  BY DEF Books, LanesApart, Lane
<1>3. CopiesAreTrue'
  BY DEF Books, CopiesAreTrue
<1> QED
  BY <1>1, <1>2, <1>3

\* A row that is ensured stays where the workers have it.
LEMMA EnsuringKeepsLanes ==
  ASSUME ReloginAssumption, Books, NEW who \in Emails, row' = Ensured(who),
         UNCHANGED <<upstream, marker>>, pipeline'.payment = pipeline.payment,
         \A w \in Lanes : \/ work'[w] = work[w]
                          \/ work'[w].at = "marking" /\ work'[w].seen = row'
  PROVE  RowsAreLegal' /\ LanesApart' /\ CopiesAreTrue'
<1>1. /\ row' \in Rows
      /\ LegalRow(row')
      /\ row'.state # "none"
      /\ row.state # "none" => /\ row'.state = row.state
                               /\ row'.authorized = row.authorized
                               /\ row'.relogins = row.relogins
      /\ row.state = "none" => row'.state = "payment_pending"
      /\ row.state \in Terminal => row' = row
  BY EnsuredDoes DEF Books
<1>2. RowsAreLegal'
  BY <1>1 DEF Books, RowsAreLegal, LegalRow
<1>3. ASSUME NEW w \in Lanes
      PROVE  /\ work'[w].at \in {"due", "asking", "login"} =>
                  /\ row'.state = work'[w].seen.state
                  /\ row'.state \in Lane(w)
                  /\ row'.relogins = work'[w].seen.relogins
             /\ work'[w].at = "asking" => row'.state = "payment_pending"
             /\ work'[w].at = "login" => row'.state = "relogin_pending"
             /\ work'[w].at = "marking" =>
                  /\ row'.state # "none" /\ work'[w].seen.state # "none"
                  /\ work'[w].seen.state \in Terminal => row' = work'[w].seen
                  /\ work'[w].seen.authorized => row'.authorized
  <2>1. CASE work'[w].at = "marking" /\ work'[w].seen = row'
    BY <2>1, <1>1
  <2>2. CASE work'[w] = work[w]
    <3>1. work[w].at \in {"due", "asking", "login"} => row.state # "none"
      BY DEF Books, LanesApart, Lane
    <3> QED
      BY <2>2, <3>1, <1>1 DEF Books, LanesApart
  <2> QED
    BY <2>1, <2>2
<1>4. LanesApart'
  BY <1>3 DEF LanesApart, Lane
<1>5. row.authorized => row'.authorized
  BY <1>1 DEF Books, RowsAreLegal, LegalRow
<1>6. CopiesAreTrue'
  BY <1>5 DEF Books, CopiesAreTrue
<1> QED
  BY <1>2, <1>4, <1>6

\* A worker that writes the row it serves: no one else serves it, and what was
\* written earlier and not copied yet was written while the row went on.
LEMMA ServingKeepsLanes ==
  ASSUME ReloginAssumption, Books, NEW w \in Lanes, row.state \in Lane(w),
         NEW changed \in Rows, LegalRow(changed), changed.state # "none",
         row.authorized => changed.authorized,
         Updates(w, changed), UNCHANGED <<upstream, copies>>
  PROVE  /\ work' \in [Lanes -> [at : WorkPlaces, seen : Rows]]
         /\ row' \in Rows
         /\ RowsAreLegal' /\ LanesApart' /\ CopiesAreTrue'
<1>u. /\ work' \in [Lanes -> [at : WorkPlaces, seen : Rows]]
      /\ \A v \in Lanes \ {w} : work'[v] = work[v]
      /\ \/ /\ row' = changed
            /\ work'[w].at = "marking" /\ work'[w].seen = changed
         \/ /\ row' = row
            /\ work'[w].at = "idle" /\ work'[w].seen = NoRow
  BY UpdatesDoes DEF Books
<1>n. LegalRow(NoRow)
  BY DEF LegalRow, NoRow, Paid
<1>1. RowsAreLegal'
  <2>1. LegalRow(row') /\ \A v \in Lanes : LegalRow(work'[v].seen)
    BY <1>u, <1>n DEF Books, RowsAreLegal
  <2> QED
    BY <2>1 DEF RowsAreLegal, LegalRow
<1>2. row.authorized => row'.authorized
  BY <1>u
<1>3. row.state \notin Terminal /\ row.state # "none"
  BY DEF Lane, Terminal
<1>4. \A v \in Lanes \ {w} : row.state \notin Lane(v)
  BY DEF Lanes, Lane
<1>5. ASSUME NEW v \in Lanes
      PROVE  /\ work'[v].at \in {"due", "asking", "login"} =>
                  /\ row'.state = work'[v].seen.state
                  /\ row'.state \in Lane(v)
                  /\ row'.relogins = work'[v].seen.relogins
             /\ work'[v].at = "asking" => row'.state = "payment_pending"
             /\ work'[v].at = "login" => row'.state = "relogin_pending"
             /\ work'[v].at = "marking" =>
                  /\ row'.state # "none" /\ work'[v].seen.state # "none"
                  /\ work'[v].seen.state \in Terminal => row' = work'[v].seen
                  /\ work'[v].seen.authorized => row'.authorized
  <2>1. CASE v = w
    BY <2>1, <1>u
  <2>2. CASE v # w
    <3>1. work'[v] = work[v] /\ work[v].at \notin {"due", "asking", "login"}
      BY <2>2, <1>u, <1>4 DEF Books, LanesApart
    <3>2. work[v].at = "marking" =>
             /\ work[v].seen.state # "none" /\ work[v].seen.state \notin Terminal
             /\ work[v].seen.authorized => row'.authorized
      BY <1>2, <1>3 DEF Books, LanesApart
    <3>3. row'.state # "none"
      BY <1>u, <1>3
    <3> QED
      BY <3>1, <3>2, <3>3
  <2> QED
    BY <2>1, <2>2
<1>6. LanesApart'
  BY <1>5 DEF LanesApart, Lane
<1>7. CopiesAreTrue'
  BY <1>2 DEF Books, CopiesAreTrue, copies
<1>8. row' \in Rows
  BY <1>u, Types DEF Books
<1> QED
  BY <1>u, <1>1, <1>6, <1>7, <1>8

\* A run keeps the books: whatever it writes to the copies is of a payment that
\* has not ended, and a row it ensures is moved by no one.
LEMMA RunKeepsBooks ==
  ASSUME ReloginAssumption, Books, NEW r \in Runs, Runner(r)
  PROVE  Books'
<1>t. /\ email \in Emails \cup {"gone"} /\ marker \in MarkerSet
      /\ pipeline \in PipelineSet /\ row \in Rows
      /\ run \in [Runs -> [at : RunPlaces, email : Emails]]
      /\ work \in [Lanes -> [at : WorkPlaces, seen : Rows]]
      /\ upstream \in {"none", "open", "authorized", "failed", "interrupted"}
  BY Types DEF Books
<1>w. \A p \in RunPlaces : Was(p) \in [at : RunPlaces, email : Emails]
  BY DEF Was, Emails
<1>g. ASSUME NEW p \in RunPlaces, Goes(r, p)
      PROVE  run' \in [Runs -> [at : RunPlaces, email : Emails]]
  BY <1>g, <1>t DEF Goes
<1>m. \A st \in {"submitted", "running", "pending_auth", "extract_failed", "submit_failed"},
         i \in BOOLEAN :
         /\ [status |-> st, item |-> i] \in MarkerSet
         /\ [status |-> st, item |-> i].status \notin Paid
  BY DEF MarkerSet, Paid
<1>k. ASSUME NEW st \in {"submitted", "extract_failed", "submit_failed"}, NEW i \in BOOLEAN,
             Marks(r, st, i)
      PROVE  /\ marker' \in MarkerSet
             /\ marker'.status = marker.status \/ marker'.status \notin Paid
  BY <1>k, <1>t, <1>m DEF Marks, Tries
<1>1. CASE Begin(r)
  <2> DEFINE one == run' = [run EXCEPT ![r] = Was("blocked")] /\ UNCHANGED copies
             two == Begun(r, "known") /\ pipeline' = Claimed(r) /\ UNCHANGED marker
             three == /\ run' = [run EXCEPT ![r] = Was("blocked")]
                      /\ marker' = [status |-> "pending_auth", item |-> FALSE]
                      /\ pipeline' = [pipeline EXCEPT !.link = "pending_auth",
                                                      !.payment = "blocked"]
             four == /\ Begun(r, "extracting")
                     /\ marker' = [status |-> "running", item |-> FALSE]
                     /\ pipeline' = [Claimed(r) EXCEPT !.link = "running"]
  <2>0. one \/ (email # "gone" /\ two) \/ three \/ (email # "gone" /\ four)
    BY <1>1 DEF Begin
  <2>c. Claimed(r) \in PipelineSet /\ Claimed(r).payment = pipeline.payment
    BY <1>t DEF Claimed, PipelineSet
  <2>1. run' \in [Runs -> [at : RunPlaces, email : Emails]]
    BY <2>0, <1>t, <1>w DEF Begun, RunPlaces
  <2>2. /\ marker' \in MarkerSet
        /\ marker'.status = marker.status \/ marker'.status \notin Paid
    BY <2>0, <1>t, <1>m DEF copies
  <2>3. /\ pipeline' \in PipelineSet
        /\ pipeline'.payment \in {pipeline.payment, "blocked"}
    <3>1. CASE one \/ two
      BY <3>1, <2>c, <1>t DEF copies
    <3>2. CASE three
      BY <3>2, <1>t DEF PipelineSet
    <3>3. CASE four
      BY <3>3, <2>c DEF PipelineSet
    <3> QED
      BY <2>0, <3>1, <3>2, <3>3
  <2>4. UNCHANGED <<account, upstream, row, work, unmarked, crashes>>
    BY <1>1 DEF Begin
  <2> HIDE DEF one, two, three, four
  <2>5. TypeOK'
    BY <2>1, <2>2, <2>3, <2>4, Types, TypesPrime DEF Books, account
  <2> QED
    BY <2>2, <2>3, <2>4, <2>5, Gentle DEF Books
<1>2. CASE ExtractFails(r)
  <2>1. [pipeline EXCEPT !.link = "failed", !.payment = "blocked"] \in PipelineSet
        /\ [pipeline EXCEPT !.link = "failed", !.payment = "blocked"].payment = "blocked"
    BY <1>t DEF PipelineSet
  <2>2. /\ Marks(r, "extract_failed", FALSE)
        /\ Leaves(r, "over", [pipeline EXCEPT !.link = "failed", !.payment = "blocked"])
        /\ UNCHANGED <<account, upstream, row, work, unmarked, crashes>>
    BY <1>2 DEF ExtractFails
  <2>3. /\ marker' \in MarkerSet
        /\ marker'.status = marker.status \/ marker'.status \notin Paid
    BY <2>2, <1>k
  <2>4. /\ run' \in [Runs -> [at : RunPlaces, email : Emails]]
        /\ pipeline' \in PipelineSet
        /\ pipeline'.payment \in {pipeline.payment, "blocked"}
    BY <2>1, <2>2, LeavesDoes DEF Books, RunPlaces
  <2>5. TypeOK'
    BY <2>2, <2>3, <2>4, Types, TypesPrime DEF Books, account
  <2> QED
    BY <2>2, <2>3, <2>4, <2>5, Gentle DEF Books
<1>3. CASE Saves(r)
  <2>1. UNCHANGED <<account, upstream, row, work, unmarked, crashes>>
    BY <1>3 DEF Saves
  <2>2. /\ marker' \in MarkerSet
        /\ marker'.status = marker.status \/ marker'.status \notin Paid
    BY <1>3, <1>t, <1>m DEF Saves
  <2>3. /\ run' \in [Runs -> [at : RunPlaces, email : Emails]]
        /\ pipeline' \in PipelineSet
        /\ pipeline'.payment \in {pipeline.payment, "submitting"}
    <3>1. CASE email = run[r].email
      <4>1. /\ Goes(r, "sending")
            /\ pipeline' = [pipeline EXCEPT !.link = "succeeded", !.payment = "submitting"]
        BY <1>3, <3>1 DEF Saves
      <4>2. pipeline' \in PipelineSet /\ pipeline'.payment = "submitting"
        BY <4>1, <1>t DEF PipelineSet
      <4> QED
        BY <4>1, <4>2, <1>g DEF RunPlaces
    <3>2. CASE email # run[r].email
      <4>1. Leaves(r, "over", pipeline)
        BY <1>3, <3>2 DEF Saves
      <4> QED
        BY <4>1, <1>t, LeavesDoes DEF Books, RunPlaces
    <3> QED
      BY <3>1, <3>2
  <2>4. TypeOK'
    BY <2>1, <2>2, <2>3, Types, TypesPrime DEF Books, account
  <2> QED
    BY <2>1, <2>2, <2>3, <2>4, Gentle DEF Books
<1>4. CASE Sends(r)
  <2>1. /\ Enqueued /\ Goes(r, "answered")
        /\ UNCHANGED <<account, copies, row, work, unmarked, crashes>>
    BY <1>4 DEF Sends
  <2>2. /\ upstream' \in {"none", "open", "authorized", "failed", "interrupted"}
        /\ upstream' = upstream \/ upstream = "none"
    BY <2>1, <1>t DEF Enqueued
  <2>3. run' \in [Runs -> [at : RunPlaces, email : Emails]]
    BY <2>1, <1>g DEF RunPlaces
  <2>4. TypeOK'
    BY <2>1, <2>2, <2>3, Types, TypesPrime DEF Books, account, copies
  <2> QED
    BY <2>1, <2>2, <2>4, Gentle DEF Books, copies
<1>5. CASE SendFails(r)
  <2> DEFINE failed == [pipeline EXCEPT !.payment = "submit_failed"]
  <2>1. failed \in PipelineSet /\ failed.payment = "submit_failed"
    BY <1>t DEF PipelineSet
  <2>2. /\ Marks(r, "submit_failed", FALSE)
        /\ UNCHANGED <<account, row, work, unmarked, crashes>>
    BY <1>5 DEF SendFails
  <2>3. Leaves(r, "lost", failed) \/ Leaves(r, "over", failed)
    BY <1>5 DEF SendFails
  <2>4. /\ upstream' \in {"none", "open", "authorized", "failed", "interrupted"}
        /\ upstream' = upstream \/ upstream = "none"
    BY <1>5, <1>t DEF SendFails, Enqueued
  <2> HIDE DEF failed
  <2>5. /\ run' \in [Runs -> [at : RunPlaces, email : Emails]]
        /\ pipeline' \in PipelineSet
        /\ pipeline'.payment \in {pipeline.payment, "submit_failed"}
    BY <2>1, <2>3, LeavesDoes DEF Books, RunPlaces
  <2>6. /\ marker' \in MarkerSet
        /\ marker'.status = marker.status \/ marker'.status \notin Paid
    BY <2>2, <1>k
  <2>7. TypeOK'
    BY <2>2, <2>4, <2>5, <2>6, Types, TypesPrime DEF Books, account
  <2> QED
    BY <2>2, <2>4, <2>5, <2>6, <2>7, Gentle DEF Books
<1>6. CASE MarksSubmitted(r)
  <2>1. /\ Marks(r, "submitted", TRUE) /\ Goes(r, "marked")
        /\ UNCHANGED <<account, pipeline, upstream, row, work, crashes>>
        /\ unmarked' \in BOOLEAN
    BY <1>6 DEF MarksSubmitted
  <2>2. /\ marker' \in MarkerSet
        /\ marker'.status = marker.status \/ marker'.status \notin Paid
    BY <2>1, <1>k
  <2>3. run' \in [Runs -> [at : RunPlaces, email : Emails]]
    BY <2>1, <1>g DEF RunPlaces
  <2>4. TypeOK'
    BY <2>1, <2>2, <2>3, Types, TypesPrime DEF Books, account
  <2> QED
    BY <2>1, <2>2, <2>4, Gentle DEF Books
<1>7. CASE StagesSubmitted(r)
  <2> DEFINE staged == [pipeline EXCEPT !.link = IF At(r, "known") THEN "succeeded" ELSE @,
                                        !.payment = "submitted"]
  <2>1. staged \in PipelineSet /\ staged.payment = "submitted"
    BY <1>t DEF PipelineSet
  <2>2. /\ pipeline' \in {pipeline, staged} /\ Goes(r, "ensuring")
        /\ UNCHANGED <<account, marker, upstream, row, work, unmarked, crashes>>
    BY <1>7 DEF StagesSubmitted, Tries, Stages
  <2> HIDE DEF staged
  <2>3. pipeline' \in PipelineSet /\ pipeline'.payment \in {pipeline.payment, "submitted"}
    BY <2>1, <2>2, <1>t
  <2>4. run' \in [Runs -> [at : RunPlaces, email : Emails]]
    BY <2>2, <1>g DEF RunPlaces
  <2>5. TypeOK'
    BY <2>2, <2>3, <2>4, Types, TypesPrime DEF Books, account
  <2> QED
    BY <2>2, <2>3, <2>5, Gentle DEF Books
<1>8. CASE Ensures(r)
  <2>1. /\ row' = Ensured(run[r].email) \/ row' = row
        /\ Leaves(r, "over", pipeline)
        /\ UNCHANGED <<account, marker, upstream, work, unmarked, crashes>>
    BY <1>8 DEF Ensures, Tries
  <2>2. run[r].email \in Emails
    BY <1>t
  <2>3. /\ run' \in [Runs -> [at : RunPlaces, email : Emails]]
        /\ pipeline' \in PipelineSet /\ pipeline'.payment = pipeline.payment
    BY <2>1, <1>t, LeavesDoes DEF Books, RunPlaces
  <2>4. row' \in Rows
    BY <2>1, <2>2, <1>t, EnsuredDoes DEF Books
  <2>5. TypeOK'
    BY <2>1, <2>3, <2>4, Types, TypesPrime DEF Books, account
  <2>6. CASE row' = row
    BY <2>1, <2>3, <2>5, <2>6, Gentle DEF Books
  <2>7. CASE row' = Ensured(run[r].email)
    BY <2>1, <2>2, <2>3, <2>5, <2>7, EnsuringKeepsLanes DEF Books
  <2> QED
    BY <2>1, <2>6, <2>7
<1> QED
  BY <1>1, <1>2, <1>3, <1>4, <1>5, <1>6, <1>7, <1>8 DEF Runner

\* What a worker reads, and the row it would write, by its place.
LEMMA Serving ==
  ASSUME Books, NEW w \in Lanes
  PROVE  /\ row \in Rows /\ LegalRow(row) /\ work[w].seen \in Rows
         /\ work[w].at \in {"due", "asking", "login"} => row.state \in Lane(w)
         /\ \A p \in {"payment_pending", "relogin_pending", "local_refresh_pending"} :
              Serves(w, p) => row.state = p
         /\ \A st \in Active \cup Terminal :
              /\ [row EXCEPT !.state = st] \in Rows
              /\ [row EXCEPT !.state = st].state = st
              /\ [row EXCEPT !.state = st].email = row.email
              /\ [row EXCEPT !.state = st].authorized = row.authorized
              /\ [row EXCEPT !.state = st].relogins = row.relogins
  BY Types DEF Books, RowsAreLegal, LanesApart, Serves, Rows

\* A step of a worker keeps the books.
LEMMA WorkerKeepsBooks ==
  ASSUME ReloginAssumption, Books, NEW w \in Lanes, Worker(w)
  PROVE  Books'
<1>t. /\ email \in Emails \cup {"gone"} /\ marker \in MarkerSet
      /\ pipeline \in PipelineSet /\ row \in Rows
      /\ work \in [Lanes -> [at : WorkPlaces, seen : Rows]]
  BY Types DEF Books
<1>n. NoRow \in Rows /\ LegalRow(NoRow)
  BY DEF NoRow, Rows, Emails, LegalRow, Paid, ReloginAssumption
<1>u. ASSUME row.state \in Lane(w), NEW changed \in Rows, LegalRow(changed),
             changed.state # "none", row.authorized => changed.authorized,
             Updates(w, changed),
             UNCHANGED <<account, copies, upstream, run, unmarked, crashes>>
      PROVE  Books'
  <2>1. /\ work' \in [Lanes -> [at : WorkPlaces, seen : Rows]] /\ row' \in Rows
        /\ RowsAreLegal' /\ LanesApart' /\ CopiesAreTrue'
    BY <1>u, ServingKeepsLanes
  <2> QED
    BY <1>u, <2>1, Types, TypesPrime DEF Books, account, copies
\* A worker that turns to another place, or rests, without a write.
<1>p. ASSUME NEW p \in WorkPlaces, NEW s \in Rows, LegalRow(s),
             work' = [work EXCEPT ![w] = [at |-> p, seen |-> s]],
             UNCHANGED <<account, copies, upstream, row, run, unmarked, crashes>>,
             p \in {"due", "asking", "login"} =>
                \/ s = row /\ row.state \in Lane(w)
                \/ s = work[w].seen /\ work[w].at = "due",
             p = "asking" => row.state = "payment_pending",
             p = "login" => row.state = "relogin_pending",
             p # "marking"
      PROVE  Books'
  <2>1. /\ work' \in [Lanes -> [at : WorkPlaces, seen : Rows]]
        /\ work'[w].at = p /\ work'[w].seen = s
        /\ \A v \in Lanes \ {w} : work'[v] = work[v]
    BY <1>p, <1>t
  <2>2. RowsAreLegal'
    <3>1. LegalRow(row') /\ \A v \in Lanes : LegalRow(work'[v].seen)
      BY <1>p, <2>1 DEF Books, RowsAreLegal
    <3> QED
      BY <1>p, <3>1 DEF RowsAreLegal, LegalRow
  <2>3. LanesApart'
    BY <1>p, <2>1 DEF Books, LanesApart, Lane
  <2>4. CopiesAreTrue'
    BY <1>p DEF Books, CopiesAreTrue, copies
  <2> QED
    BY <1>p, <2>1, <2>2, <2>3, <2>4, Types, TypesPrime DEF Books, account, copies
<1>r. ASSUME Rested(w), UNCHANGED <<account, copies, upstream, row, run, unmarked, crashes>>
      PROVE  Books'
  BY <1>r, <1>n, <1>p DEF Rested, Rest, WorkPlaces
<1>q. ASSUME NEW p \in {"asking", "login"}, work[w].at = "due", Turns(w, p),
             UNCHANGED <<account, copies, upstream, row, run, unmarked, crashes>>,
             p = "asking" => row.state = "payment_pending",
             p = "login" => row.state = "relogin_pending"
      PROVE  Books'
  <2>0. ASSUME NEW x \in [at : WorkPlaces, seen : Rows]
        PROVE  [x EXCEPT !.at = p] = [at |-> p, seen |-> x.seen]
    OBVIOUS
  <2>1. work' = [work EXCEPT ![w] = [at |-> p, seen |-> work[w].seen]]
    BY <1>q, <1>t, <2>0 DEF Turns
  <2>2. work[w].seen \in Rows /\ LegalRow(work[w].seen)
    BY <1>t DEF Books, RowsAreLegal
  <2> QED
    BY <1>q, <2>1, <2>2, <1>p DEF WorkPlaces
<1>1. CASE Takes(w)
  <2>1. /\ row.state \in Lane(w)
        /\ work' = [work EXCEPT ![w] = [at |-> "due", seen |-> row]]
        /\ UNCHANGED <<account, copies, upstream, row, run, unmarked, crashes>>
    BY <1>1 DEF Takes
  <2>2. row \in Rows /\ LegalRow(row) /\ "due" \in WorkPlaces
    BY Serving DEF WorkPlaces
  <2> QED
    BY <2>1, <2>2, <1>p
<1>2. CASE GivesUp(w)
  <2>1. /\ work[w].at = "due" /\ row.state \in Lane(w)
        /\ row' = [row EXCEPT !.state = "account_identity_changed"] \/ row' = row
        /\ Rested(w)
        /\ UNCHANGED <<account, copies, upstream, run, unmarked, crashes>>
    BY <1>2, Serving DEF GivesUp, Tries
  <2>2. CASE row' = row
    BY <2>1, <2>2, <1>r
  <2>3. CASE row' = [row EXCEPT !.state = "account_identity_changed"]
    <3>1. /\ row' \in Rows /\ row'.state = "account_identity_changed"
          /\ row'.authorized = row.authorized
      BY <2>3, Serving DEF Terminal
    <3>2. LegalRow(row')
      BY <3>1, Serving DEF LegalRow, Paid
    <3>3. /\ work' \in [Lanes -> [at : WorkPlaces, seen : Rows]]
          /\ work'[w].at = "idle" /\ work'[w].seen = NoRow
          /\ \A v \in Lanes \ {w} : work'[v] = work[v]
      BY <2>1, <1>t, <1>n DEF Rested, Rest, WorkPlaces
    <3>4. RowsAreLegal'
      <4>1. \A v \in Lanes : LegalRow(work'[v].seen)
        BY <3>3, <1>n DEF Books, RowsAreLegal
      <4> QED
        BY <2>1, <3>2, <4>1 DEF RowsAreLegal, LegalRow
    <3>5. LanesApart'
      <4>1. ASSUME NEW v \in Lanes, v # w
            PROVE  /\ work[v].at \notin {"due", "asking", "login"}
                   /\ work[v].at = "marking" =>
                         /\ work[v].seen.state # "none"
                         /\ work[v].seen.state \notin Terminal
                         /\ work[v].seen.authorized => row'.authorized
        BY <2>1, <3>1, <4>1 DEF Books, LanesApart, Lanes, Lane, Terminal
      <4> QED
        BY <3>1, <3>3, <4>1 DEF LanesApart, Lane
    <3>6. CopiesAreTrue'
      BY <2>1, <3>1 DEF Books, CopiesAreTrue, copies
    <3> QED
      BY <2>1, <3>1, <3>3, <3>4, <3>5, <3>6, Types, TypesPrime DEF Books, account, copies
  <2> QED
    BY <2>1, <2>2, <2>3
<1>3. CASE Expires(w)
  <2> DEFINE changed == [row EXCEPT !.state = "payment_unknown"]
  <2>1. /\ row.state = "payment_pending" /\ row.state \in Lane(w)
        /\ Updates(w, changed)
        /\ UNCHANGED <<account, copies, upstream, run, unmarked, crashes>>
    BY <1>3, Serving DEF Expires, Serves
  <2>2. /\ changed \in Rows /\ changed.state = "payment_unknown"
        /\ changed.authorized = row.authorized
    BY Serving DEF Terminal
  <2> HIDE DEF changed
  <2>3. LegalRow(changed)
    BY <2>1, <2>2, Serving DEF LegalRow, Paid
  <2> QED
    BY <2>1, <2>2, <2>3, <1>u
<1>4. CASE Asks(w)
  BY <1>4, Serving, <1>q DEF Asks, Serves
<1>5. CASE Answers(w)
  <2> DEFINE changed == [row EXCEPT !.state = Told, !.authorized = upstream = "authorized"]
  <2>1. /\ row.state = "payment_pending" /\ row.state \in Lane(w)
        /\ UNCHANGED <<account, copies, upstream, run, unmarked, crashes>>
    BY <1>5 DEF Answers, Books, LanesApart
  <2>2. CASE Rested(w) /\ UNCHANGED row
    BY <2>1, <2>2, <1>r
  <2>3. CASE Updates(w, changed)
    <3>1. Told \in Active \cup Terminal
      BY DEF Told, Active, Terminal
    <3>2. /\ changed \in Rows /\ changed.state = Told
          /\ changed.authorized = (upstream = "authorized")
          /\ changed.relogins = row.relogins
      BY <3>1, <1>t DEF Rows
    <3>3. row.relogins = 0 /\ ~row.authorized
      BY <2>1, Serving DEF LegalRow
    <3> HIDE DEF changed
    <3>4. LegalRow(changed)
      <4>1. CASE upstream = "authorized"
        <5>1. Told = "relogin_pending"
          BY <4>1 DEF Told
        <5>2. 0 < MaxRelogins
          BY DEF ReloginAssumption
        <5> QED
          BY <3>2, <3>3, <4>1, <5>1, <5>2 DEF LegalRow
      <4>2. CASE upstream # "authorized"
        <5>1. /\ changed.state \in {"payment_failed", "payment_unknown", "payment_pending"}
              /\ changed.state = "payment_failed" => upstream = "failed"
          BY <3>2, <4>2 DEF Told
        <5> QED
          BY <3>2, <3>3, <4>2, <5>1 DEF LegalRow, Paid
      <4> QED
        BY <4>1, <4>2
    <3>5. changed.state # "none"
      BY <3>1, <3>2 DEF Active, Terminal
    <3> QED
      BY <2>1, <2>3, <3>2, <3>3, <3>4, <3>5, <1>u
  <2> QED
    BY <1>5, <2>2, <2>3 DEF Answers
<1>6. CASE LogsIn(w)
  BY <1>6, Serving, <1>q DEF LogsIn, Serves
<1>7. CASE LoggedIn(w)
  <2> DEFINE tries == work[w].seen.relogins + 1
             changed(st) == [row EXCEPT !.state = st, !.relogins = tries]
  <2>1. /\ row.state = "relogin_pending" /\ row.state \in Lane(w)
        /\ work[w].seen.relogins = row.relogins
        /\ UNCHANGED <<account, copies, upstream, run, unmarked, crashes>>
    BY <1>7 DEF LoggedIn, Books, LanesApart
  <2>2. PICK st \in {"local_refresh_pending", "relogin_failed", "relogin_pending"} :
           /\ st = "relogin_pending" => tries < MaxRelogins
           /\ Updates(w, changed(st))
    BY <1>7 DEF LoggedIn
  <2>3. /\ row.authorized /\ row.relogins < MaxRelogins /\ row.relogins \in 0..MaxRelogins
        /\ upstream = "authorized" /\ MaxRelogins \in Nat
    BY <2>1, Serving DEF LegalRow, Paid, Rows, ReloginAssumption
  <2>4. tries \in 0..MaxRelogins
    BY <2>1, <2>3
  <2> HIDE DEF tries
  <2>5. /\ changed(st) \in Rows /\ changed(st).state = st
        /\ changed(st).authorized /\ changed(st).relogins = tries
    BY <1>t, <2>2, <2>3, <2>4 DEF Rows, Active, Terminal
  <2> HIDE DEF changed
  <2>6. LegalRow(changed(st))
    BY <2>2, <2>3, <2>5 DEF LegalRow, Paid
  <2> QED
    BY <2>1, <2>2, <2>3, <2>5, <2>6, <1>u
<1>8. CASE Refreshes(w)
  <2>1. /\ row.state = "local_refresh_pending" /\ row.state \in Lane(w)
        /\ UNCHANGED <<account, copies, upstream, run, unmarked, crashes>>
    BY <1>8, Serving DEF Refreshes, Serves
  <2>2. CASE Rested(w) /\ UNCHANGED row
    BY <2>1, <2>2, <1>r
  <2>3. ASSUME NEW st \in {"subscription_confirmed", "local_unconfirmed"},
               Updates(w, [row EXCEPT !.state = st])
        PROVE  Books'
    <3> DEFINE changed == [row EXCEPT !.state = st]
    <3>1. /\ changed \in Rows /\ changed.state = st /\ changed.authorized = row.authorized
      BY Serving DEF Terminal
    <3>2. row.authorized /\ upstream = "authorized"
      BY <2>1, Serving DEF LegalRow, Paid
    <3>3. Updates(w, changed)
      BY <2>3
    <3> HIDE DEF changed
    <3>4. LegalRow(changed)
      BY <3>1, <3>2 DEF LegalRow, Paid
    <3> QED
      BY <2>1, <3>1, <3>2, <3>3, <3>4, <1>u
  <2> QED
    BY <1>8, <2>2, <2>3 DEF Refreshes
<1>9. CASE Copies(w)
  <2> DEFINE s == work[w].seen
  <2>1. /\ work[w].at = "marking" /\ Mirrors(s) /\ Rested(w)
        /\ UNCHANGED <<account, upstream, row, run, unmarked, crashes>>
    BY <1>9 DEF Copies
  <2>2. /\ s \in Rows /\ LegalRow(s) /\ s.state # "none"
        /\ s.authorized => row.authorized
    BY <2>1, <1>t DEF Books, RowsAreLegal, LanesApart
  <2> HIDE DEF s
  <2>3. \/ UNCHANGED copies
        \/ /\ marker' = [marker EXCEPT !.status = s.state]
           /\ pipeline' = [pipeline EXCEPT !.payment = PaymentOf(s)]
    BY <2>1 DEF Mirrors, Tries
  <2>4. /\ PaymentOf(s) \in {"succeeded", "failed", "unknown", "payment_pending"}
        /\ PaymentOf(s) = "succeeded" => s.authorized
        /\ PaymentOf(s) = "failed" => s.state = "payment_failed"
    BY DEF PaymentOf
  <2>5. marker' \in MarkerSet /\ marker'.status \in {marker.status, s.state}
    BY <2>2, <2>3, <1>t DEF MarkerSet, Rows, copies
  <2>6. pipeline' \in PipelineSet /\ pipeline'.payment \in {pipeline.payment, PaymentOf(s)}
    BY <2>3, <2>4, <1>t DEF PipelineSet, copies
  <2>7. CopiesAreTrue'
    BY <2>1, <2>2, <2>4, <2>5, <2>6 DEF Books, CopiesAreTrue, LegalRow
  <2>8. /\ work' \in [Lanes -> [at : WorkPlaces, seen : Rows]]
        /\ work'[w].at = "idle" /\ work'[w].seen = NoRow
        /\ \A v \in Lanes \ {w} : work'[v] = work[v]
    BY <2>1, <1>t, <1>n DEF Rested, Rest, WorkPlaces
  <2>9. RowsAreLegal'
    <3>1. LegalRow(row) /\ \A v \in Lanes : LegalRow(work'[v].seen)
      BY <2>8, <1>n DEF Books, RowsAreLegal
    <3> QED
      BY <2>1, <3>1 DEF RowsAreLegal, LegalRow
  <2>10. LanesApart'
    BY <2>1, <2>8 DEF Books, LanesApart, Lane
  <2> QED
    BY <2>1, <2>5, <2>6, <2>7, <2>8, <2>9, <2>10, Types, TypesPrime DEF Books, account
<1> QED
  BY <1>1, <1>2, <1>3, <1>4, <1>5, <1>6, <1>7, <1>8, <1>9 DEF Worker

\* The boot's backfill writes no more than a run would have.
LEMMA BackfillKeepsBooks ==
  ASSUME ReloginAssumption, Books, Backfills
  PROVE  Books'
<1>t. /\ work \in [Lanes -> [at : WorkPlaces, seen : Rows]] /\ row \in Rows
      /\ "poll" \in Lanes /\ NoRow \in Rows /\ pipeline \in PipelineSet
  BY Types DEF Books, Lanes, NoRow, Rows, Emails, ReloginAssumption
<1>0. UNCHANGED <<account, copies, upstream, run, unmarked, crashes>>
  BY DEF Backfills
<1>1. CASE Recoverable
  <2>1. email \in Emails /\ Updates("poll", Ensured(email))
    BY <1>1, Types DEF Books, Recoverable, Backfills
  <2>2. /\ work' \in [Lanes -> [at : WorkPlaces, seen : Rows]]
        /\ \A v \in Lanes \ {"poll"} : work'[v] = work[v]
        /\ \/ /\ row' = Ensured(email)
              /\ work'["poll"].at = "marking" /\ work'["poll"].seen = Ensured(email)
           \/ /\ row' = row
              /\ work'["poll"].at = "idle" /\ work'["poll"].seen = NoRow
    BY <2>1, <1>t, EnsuredDoes, UpdatesDoes DEF Books
  <2>3. CASE row' = Ensured(email) /\ work'["poll"].at = "marking"
             /\ work'["poll"].seen = Ensured(email)
    <3>1. row' \in Rows
      BY <2>1, <2>3, EnsuredDoes DEF Books
    <3>2. RowsAreLegal' /\ LanesApart' /\ CopiesAreTrue'
      BY <1>0, <2>1, <2>2, <2>3, EnsuringKeepsLanes DEF Books, copies
    <3> QED
      BY <1>0, <2>2, <3>1, <3>2, Types, TypesPrime DEF Books, account, copies
  <2>4. CASE row' = row /\ work'["poll"].at = "idle" /\ work'["poll"].seen = NoRow
    <3>1. RowsAreLegal'
      <4>1. LegalRow(row) /\ \A v \in Lanes : LegalRow(work'[v].seen)
        BY <2>2, <2>4 DEF Books, RowsAreLegal, LegalRow, NoRow, Paid
      <4> QED
        BY <1>0, <2>4, <4>1 DEF RowsAreLegal, LegalRow
    <3>2. LanesApart'
      BY <2>2, <2>4 DEF Books, LanesApart, Lane
    <3>3. CopiesAreTrue'
      BY <1>0, <2>4 DEF Books, CopiesAreTrue, copies
    <3> QED
      BY <1>0, <1>t, <2>2, <2>4, <3>1, <3>2, <3>3, Types, TypesPrime
      DEF Books, account, copies
  <2> QED
    BY <2>2, <2>3, <2>4
<1>2. CASE ~Recoverable
  <2>1. row' = row /\ work' = [work EXCEPT !["poll"] = Rest("idle")]
    BY <1>2 DEF Backfills, Rested
  <2>2. /\ work' \in [Lanes -> [at : WorkPlaces, seen : Rows]]
        /\ work'["poll"].at = "idle" /\ work'["poll"].seen = NoRow
        /\ \A v \in Lanes \ {"poll"} : work'[v] = work[v]
    BY <2>1, <1>t DEF Rest, WorkPlaces
  <2>3. RowsAreLegal'
    <3>1. LegalRow(row) /\ \A v \in Lanes : LegalRow(work'[v].seen)
      BY <2>2 DEF Books, RowsAreLegal, LegalRow, NoRow, Paid
    <3> QED
      BY <1>0, <2>1, <3>1 DEF RowsAreLegal, LegalRow
  <2>4. LanesApart'
    BY <2>1, <2>2 DEF Books, LanesApart, Lane
  <2>5. CopiesAreTrue'
    BY <1>0, <2>1 DEF Books, CopiesAreTrue, copies
  <2> QED
    BY <1>0, <2>1, <2>2, <2>3, <2>4, <2>5, Types, TypesPrime DEF Books, account, copies
<1> QED
  BY <1>1, <1>2

\* Nor does the world around the account disturb them: an end of the payment
\* service is final, and a restart forgets what the workers had read.
LEMMA WorldKeepsBooks ==
  ASSUME ReloginAssumption, Books, Pays \/ AccountChanges \/ ClaimExpires \/ Restarts
  PROVE  Books'
<1>n. NoRow \in Rows /\ LegalRow(NoRow)'
  BY DEF NoRow, Rows, Emails, LegalRow, Paid, ReloginAssumption
<1>1. CASE Pays
  <2>1. /\ upstream = "open" /\ upstream' \in {"authorized", "failed", "interrupted"}
        /\ UNCHANGED <<account, copies, row, run, work, unmarked, crashes>>
    BY <1>1 DEF Pays
  <2>2. RowsAreLegal'
    BY <2>1 DEF Books, RowsAreLegal, LegalRow
  <2>3. LanesApart'
    BY <2>1 DEF Books, LanesApart, Lane
  <2>4. CopiesAreTrue'
    BY <2>1 DEF Books, CopiesAreTrue, copies
  <2> QED
    BY <2>1, <2>2, <2>3, <2>4, Types, TypesPrime DEF Books, account, copies
<1>2. CASE AccountChanges
  <2>1. /\ email' \in Emails \cup {"gone"} /\ token' \in BOOLEAN
        /\ UNCHANGED <<copies, upstream, row, run, work, unmarked, crashes>>
    BY <1>2, Types DEF AccountChanges, Books, Emails
  <2> QED
    BY <2>1, Gentle, Types, TypesPrime DEF Books, copies
<1>3. CASE ClaimExpires
  <2>1. pipeline' \in PipelineSet /\ pipeline'.payment = pipeline.payment
    BY <1>3, Types DEF ClaimExpires, Books, PipelineSet
  <2> QED
    BY <1>3, <2>1, Gentle, Types, TypesPrime DEF ClaimExpires, Books, account
<1>4. CASE Restarts
  <2>1. /\ upstream' = upstream \/ upstream = "none"
        /\ upstream' \in {"none", "open", "authorized", "failed", "interrupted"}
    BY <1>4, Types DEF Restarts, Enqueued, Books
  <2>2. crashes' \in 0..MaxCrashes
    BY <1>4, Types DEF Restarts, Books, ReloginAssumption
  <2>3. run' \in [Runs -> [at : RunPlaces, email : Emails]]
    <3>1. \A p \in RunPlaces : Was(p) \in [at : RunPlaces, email : Emails]
      BY DEF Was, Emails
    <3> QED
      BY <1>4, <3>1, Types DEF Restarts, Books, RunPlaces
  <2>4. /\ work' \in [Lanes -> [at : WorkPlaces, seen : Rows]]
        /\ \A v \in Lanes : work'[v].at \in {"boot", "idle"} /\ work'[v].seen = NoRow
    <3>1. work' = [poll |-> Rest("boot"), post |-> Rest("idle")]
      BY <1>4 DEF Restarts
    <3>2. \A p \in {"boot", "idle"} : /\ Rest(p) \in [at : WorkPlaces, seen : Rows]
                                      /\ Rest(p).at = p /\ Rest(p).seen = NoRow
      BY <1>n DEF Rest, WorkPlaces
    <3> QED
      BY <3>1, <3>2 DEF Lanes
  <2>5. UNCHANGED <<account, copies, row, unmarked>>
    BY <1>4 DEF Restarts
  <2>6. RowsAreLegal'
    <3>1. LegalRow(row)'
      BY <2>1, <2>5 DEF Books, RowsAreLegal, LegalRow
    <3>2. \A v \in Lanes : LegalRow(work[v].seen)'
      BY <2>4 DEF LegalRow, NoRow, Paid
    <3> QED
      BY <3>1, <3>2 DEF RowsAreLegal
  <2>7. LanesApart'
    BY <2>4 DEF LanesApart
  <2>8. CopiesAreTrue'
    BY <2>1, <2>5 DEF Books, CopiesAreTrue, copies
  <2> QED
    BY <2>1, <2>2, <2>3, <2>4, <2>5, <2>6, <2>7, <2>8, Types, TypesPrime
    DEF Books, account, copies
<1> QED
  BY <1>1, <1>2, <1>3, <1>4

LEMMA BooksInvariance == ReloginAssumption /\ Books /\ [Next]_vars => Books'
<1> SUFFICES ASSUME ReloginAssumption, Books, [Next]_vars PROVE Books'
  OBVIOUS
<1>1. CASE UNCHANGED vars
  BY <1>1, Gentle, Types, TypesPrime DEF vars, Books, account, copies
<1>2. CASE Next
  BY <1>2, RunKeepsBooks, WorkerKeepsBooks, BackfillKeepsBooks, WorldKeepsBooks DEF Next
<1> QED
  BY <1>1, <1>2

\* A new account has no row, no worker has read one, and no stage tells of a payment.
LEMMA InitBooks == ReloginAssumption /\ Init => Books
<1> SUFFICES ASSUME ReloginAssumption, Init PROVE Books
  OBVIOUS
<1>n. NoRow \in Rows /\ LegalRow(NoRow)
  BY DEF NoRow, Rows, Emails, LegalRow, Paid, ReloginAssumption
<1>1. /\ work \in [Lanes -> [at : WorkPlaces, seen : Rows]]
      /\ \A v \in Lanes : work[v].at \in {"boot", "idle"} /\ work[v].seen = NoRow
  <2>1. work = [poll |-> Rest("boot"), post |-> Rest("idle")]
    BY DEF Init
  <2>2. \A p \in {"boot", "idle"} : /\ Rest(p) \in [at : WorkPlaces, seen : Rows]
                                    /\ Rest(p).at = p /\ Rest(p).seen = NoRow
    BY <1>n DEF Rest, WorkPlaces
  <2> QED
    BY <2>1, <2>2 DEF Lanes
<1>2. /\ pipeline \in PipelineSet /\ pipeline.payment \in {"auth_pending", "blocked"}
      /\ marker \in MarkerSet /\ marker.status = "none"
  BY DEF Init, PipelineSet, MarkerSet
<1>3. run \in [Runs -> [at : RunPlaces, email : Emails]]
  BY DEF Init, RunPlaces, Emails
<1>0. /\ email \in Emails \cup {"gone"} /\ token \in BOOLEAN
      /\ upstream = "none" /\ row = NoRow /\ unmarked = FALSE
      /\ crashes \in 0..MaxCrashes
  BY DEF Init, Emails, ReloginAssumption
<1>4. TypeOK
  BY <1>n, <1>0, <1>1, <1>2, <1>3, Types
<1>5. RowsAreLegal /\ LanesApart
  BY <1>n, <1>1 DEF Init, RowsAreLegal, LanesApart
<1>6. CopiesAreTrue
  BY <1>2 DEF CopiesAreTrue, Paid
<1> QED
  BY <1>4, <1>5, <1>6 DEF Books

\* The books of the row, its workers and its copies are kept in every step.
LEMMA BooksCorrect == ASSUME ReloginAssumption PROVE Spec => []Books
<1>1. Init => Books
  BY InitBooks
<1>2. Books /\ [Next]_vars => Books'
  BY BooksInvariance
<1> QED
  BY <1>1, <1>2, PTL DEF Spec

\* The account, its marker and stages, the row, the runs and the workers keep
\* their types; in particular no row counts more logins than are allowed.
THEOREM TypeCorrect == ASSUME ReloginAssumption PROVE Spec => []TypeOK
<1>1. Books => TypeOK
  BY DEF Books
<1> QED
  BY BooksCorrect, <1>1, PTL

\* What the books say of the payment is what PayPal has said.
LEMMA BooksTellThePayment == Books => PaidMeansAuthorized
<1> SUFFICES ASSUME Books PROVE PaidMeansAuthorized
  OBVIOUS
<1>1. LegalRow(row)
  BY DEF Books, RowsAreLegal
<1>2. ASSUME \E w \in Lanes : work[w].at = "login" PROVE row.authorized
  BY <1>1, <1>2 DEF Books, LanesApart, LegalRow, Paid
<1> QED
  BY <1>1, <1>2 DEF Books, CopiesAreTrue, PaidMeansAuthorized, LegalRow, Paid

\* Nobody logs in and no copy tells of a payment before PayPal has authorized
\* it, and an authorized payment is never called failed, whatever runs, workers
\* and restarts interleave.
THEOREM PaidMeansAuthorizedCorrect == ASSUME ReloginAssumption PROVE Spec => []PaidMeansAuthorized
<1> QED
  BY BooksCorrect, BooksTellThePayment, PTL

-----------------------------------------------------------------------------
(* What is durable. *)

\* A worker writes the row it serves, forward.
LEMMA WorkerWrites ==
  ASSUME ReloginAssumption, Books, NEW w \in Lanes, Worker(w)
  PROVE  \/ row' = row
         \/ \E st \in Active \cup Terminal :
              /\ row.state \in Lane(w)
              /\ row'.state = st
              /\ row.state = "local_refresh_pending" => st # "relogin_pending"
              /\ row.authorized => row'.authorized
              /\ row'.relogins >= row.relogins
<1>t. row \in Rows /\ row.relogins \in Nat
  BY Types DEF Books, Rows, ReloginAssumption
<1>1. CASE Takes(w) \/ Asks(w) \/ LogsIn(w) \/ Copies(w)
  BY <1>1 DEF Takes, Asks, LogsIn, Copies
<1> DEFINE Moved(st) == row' = [row EXCEPT !.state = st]
<1>m. ASSUME NEW st \in Active \cup Terminal, Moved(st)
      PROVE  row'.state = st /\ row'.authorized = row.authorized /\ row'.relogins = row.relogins
  BY <1>m, Serving
<1> HIDE DEF Moved
<1>2. CASE GivesUp(w)
  <2>1. row.state \in Lane(w) /\ (row' = row \/ Moved("account_identity_changed"))
    BY <1>2, Serving DEF GivesUp, Tries, Moved
  <2> QED
    BY <2>1, <1>m, <1>t DEF Terminal
<1>3. CASE Expires(w)
  <2>1. row.state \in Lane(w) /\ (row' = row \/ Moved("payment_unknown"))
    BY <1>3, Serving DEF Expires, Serves, Updates, Tries, Moved
  <2> QED
    BY <2>1, <1>m, <1>t DEF Terminal
<1>4. CASE Answers(w)
  <2>1. row.state = "payment_pending" /\ row.state \in Lane(w)
    BY <1>4 DEF Answers, Books, LanesApart
  <2>2. ~row.authorized
    BY <2>1, Serving DEF LegalRow
  <2>3. row' = row \/ row' = [row EXCEPT !.state = Told, !.authorized = upstream = "authorized"]
    BY <1>4 DEF Answers, Updates, Tries
  <2>4. Told \in Active \cup Terminal
    BY DEF Told, Active, Terminal
  <2>5. row' = row \/ (row'.state = Told /\ row'.relogins = row.relogins)
    BY <2>3, <1>t DEF Rows
  <2> QED
    BY <2>1, <2>2, <2>4, <2>5, <1>t
<1>5. CASE LoggedIn(w)
  <2> DEFINE tries == work[w].seen.relogins + 1
  <2>1. /\ row.state = "relogin_pending" /\ row.state \in Lane(w)
        /\ tries = row.relogins + 1
    BY <1>5 DEF LoggedIn, Books, LanesApart
  <2> HIDE DEF tries
  <2>2. \/ row' = row
        \/ \E st \in {"local_refresh_pending", "relogin_failed", "relogin_pending"} :
             row' = [row EXCEPT !.state = st, !.relogins = tries]
    BY <1>5 DEF LoggedIn, Updates, Tries, tries
  <2>3. \/ row' = row
        \/ \E st \in {"local_refresh_pending", "relogin_failed", "relogin_pending"} :
             /\ row'.state = st /\ row'.authorized = row.authorized
             /\ row'.relogins = tries
    BY <2>2, <1>t DEF Rows
  <2>4. {"local_refresh_pending", "relogin_failed", "relogin_pending"}
          \subseteq Active \cup Terminal
    BY DEF Active, Terminal
  <2> QED
    BY <2>1, <2>3, <2>4, <1>t
<1>6. CASE Refreshes(w)
  <2>1. /\ row.state \in Lane(w)
        /\ \/ row' = row
           \/ \E st \in {"subscription_confirmed", "local_unconfirmed"} : Moved(st)
    BY <1>6, Serving DEF Refreshes, Serves, Updates, Tries, Moved
  <2>2. {"subscription_confirmed", "local_unconfirmed"} \subseteq Active \cup Terminal
    BY DEF Terminal
  <2> QED
    BY <2>1, <2>2, <1>m, <1>t
<1> QED
  BY <1>1, <1>2, <1>3, <1>4, <1>5, <1>6 DEF Worker

\* How each step may write the row: not at all, ensured, or as its worker serves it.
LEMMA RowWrites ==
  ASSUME ReloginAssumption, Books, Next
  PROVE  \/ row' = row
         \/ \E who \in Emails : row' = Ensured(who)
         \/ \E w \in Lanes, st \in Active \cup Terminal :
              /\ row.state \in Lane(w)
              /\ row'.state = st
              /\ row.state = "local_refresh_pending" => st # "relogin_pending"
              /\ row.authorized => row'.authorized
              /\ row'.relogins >= row.relogins
<1>t. /\ run \in [Runs -> [at : RunPlaces, email : Emails]]
      /\ row \in Rows /\ row.relogins \in Nat
  BY Types DEF Books, Rows, ReloginAssumption
<1>1. ASSUME NEW r \in Runs, Runner(r)
      PROVE  row' = row \/ \E who \in Emails : row' = Ensured(who)
  BY <1>1, <1>t DEF Runner, Begin, ExtractFails, Saves, Sends, SendFails, MarksSubmitted,
     StagesSubmitted, Ensures, Tries
<1>2. CASE Backfills
  BY <1>2, Types DEF Backfills, Recoverable, Updates, Tries, Books
<1>3. CASE Pays \/ AccountChanges \/ ClaimExpires \/ Restarts
  BY <1>3 DEF Pays, AccountChanges, ClaimExpires, Restarts
<1> QED
  BY <1>1, <1>2, <1>3, WorkerWrites DEF Next

\* What the database holds of a payment never goes back: the row stays, its end is
\* final, an authorization is kept, and a login that succeeded is not repeated.
THEOREM GoesForwardCorrect == ASSUME ReloginAssumption PROVE Spec => [][GoesForward]_vars
<1>1. ASSUME Books, Next PROVE GoesForward
  <2>r. row \in Rows /\ row.relogins \in Nat /\ LegalRow(row) /\ RowsAreLegal /\ TypeOK
    BY <1>1, Types DEF Books, RowsAreLegal, Rows, ReloginAssumption
  <2>1. CASE row' = row
    BY <2>1, <2>r DEF GoesForward, Terminal
  <2>2. ASSUME NEW who \in Emails, row' = Ensured(who) PROVE GoesForward
    <3>1. /\ row'.state # "none"
          /\ row.state # "none" => /\ row'.state = row.state
                                   /\ row'.authorized = row.authorized
                                   /\ row'.relogins = row.relogins
          /\ row' \in Rows
      BY <2>2, <2>r, EnsuredDoes
    <3>2. CASE row.state = "none"
      <4>1. row.relogins = 0 /\ ~row.authorized /\ row'.relogins \in Nat
        BY <2>r, <3>1, <3>2 DEF LegalRow, Rows, ReloginAssumption
      <4> QED
        BY <3>1, <3>2, <4>1 DEF GoesForward, Terminal
    <3>3. CASE row.state # "none"
      BY <2>r, <3>1, <3>3 DEF GoesForward
    <3> QED
      BY <3>2, <3>3
  <2>3. ASSUME NEW w \in Lanes, NEW st \in Active \cup Terminal,
               row.state \in Lane(w), row'.state = st,
               row.state = "local_refresh_pending" => st # "relogin_pending",
               row.authorized => row'.authorized, row'.relogins >= row.relogins
        PROVE  GoesForward
    BY <2>3 DEF GoesForward, Lane, Active, Terminal
  <2> QED
    BY <1>1, <2>1, <2>2, <2>3, RowWrites
<1>2. Books /\ [Next]_vars => [GoesForward]_vars
  BY <1>1
<1> QED
  BY BooksCorrect, <1>2, PTL DEF Spec

-----------------------------------------------------------------------------
(* The trail of an item: from the run that sent it to the row that follows it. *)

\* The path of a run.
LEMMA RunMoves ==
  ASSUME ReloginAssumption, Books, NEW r \in Runs, Runner(r)
  PROVE  /\ UNCHANGED <<account, work, crashes>>
         /\ \A q \in Runs \ {r} : run'[q] = run[q]
         /\ \/ Begin(r) /\ run[r].at = "waiting"
                        /\ run'[r].at \in {"blocked", "known", "extracting"}
            \/ ExtractFails(r) /\ run[r].at = "extracting" /\ run'[r].at = "over"
            \/ Saves(r) /\ run[r].at = "extracting" /\ run'[r].at \in {"sending", "over"}
            \/ Sends(r) /\ run[r].at = "sending" /\ run'[r].at = "answered"
            \/ SendFails(r) /\ run[r].at = "sending" /\ run'[r].at \in {"lost", "over"}
            \/ MarksSubmitted(r) /\ run[r].at = "answered" /\ run'[r].at = "marked"
            \/ StagesSubmitted(r) /\ run[r].at \in {"marked", "known"}
                                  /\ run'[r].at = "ensuring"
            \/ Ensures(r) /\ run[r].at = "ensuring" /\ run'[r].at = "over"
         /\ Sends(r) => run'[r].at = "answered"
         /\ SendFails(r) => run'[r].at \in {"lost", "over"}
<1>t. run \in [Runs -> [at : RunPlaces, email : Emails]]
  BY Types DEF Books
<1>g. ASSUME NEW p \in RunPlaces, Goes(r, p)
      PROVE  run'[r].at = p /\ \A q \in Runs \ {r} : run'[q] = run[q]
  BY <1>g, <1>t DEF Goes
<1>l. ASSUME NEW p \in RunPlaces, NEW changed, Leaves(r, p, changed)
      PROVE  run'[r].at = p /\ \A q \in Runs \ {r} : run'[q] = run[q]
  BY <1>l, <1>t DEF Leaves, Was
<1>s. Sends(r) => run'[r].at = "answered"
  BY <1>g DEF Sends, RunPlaces
<1>f. SendFails(r) => run'[r].at \in {"lost", "over"}
  BY <1>l DEF SendFails, RunPlaces
<1>1. CASE Begin(r)
  BY <1>1, <1>s, <1>f, <1>t DEF Begin, MayBegin, At, Was, Begun
<1>2. CASE ExtractFails(r)
  BY <1>2, <1>s, <1>f, <1>l DEF ExtractFails, At, RunPlaces
<1>3. CASE Saves(r)
  BY <1>3, <1>s, <1>f, <1>g, <1>l DEF Saves, At, RunPlaces
<1>4. CASE Sends(r)
  BY <1>4, <1>s, <1>f, <1>g DEF Sends, At, RunPlaces
<1>5. CASE SendFails(r)
  BY <1>5, <1>s, <1>f, <1>l DEF SendFails, At, RunPlaces
<1>6. CASE MarksSubmitted(r)
  BY <1>6, <1>s, <1>f, <1>g DEF MarksSubmitted, At, RunPlaces
<1>7. CASE StagesSubmitted(r)
  BY <1>7, <1>s, <1>f, <1>g DEF StagesSubmitted, RunPlaces
<1>8. CASE Ensures(r)
  BY <1>8, <1>s, <1>f, <1>l DEF Ensures, At, RunPlaces
<1> QED
  BY <1>1, <1>2, <1>3, <1>4, <1>5, <1>6, <1>7, <1>8 DEF Runner

\* A restart ends what had begun.
LEMMA RestartMoves ==
  ASSUME Books, Restarts, NEW q \in Runs
  PROVE  /\ run[q].at \in {"sending", "answered", "lost"} => run'[q].at = "lost"
         /\ run[q].at = "blocked" => run'[q].at = "blocked"
         /\ run[q].at = "waiting" => run'[q].at \in {"waiting", "over"}
         /\ run[q].at = "waiting" /\ q # "task" => run'[q].at = "waiting"
         /\ run[q].at \in {"extracting", "marked", "known", "ensuring", "over"} =>
              run'[q].at = "over"
<1>1. run' = [r \in Runs |->
                 CASE run[r].at \in {"sending", "answered"} -> Was("lost")
                   [] run[r].at \in {"lost", "blocked"} -> run[r]
                   [] At(r, "waiting") /\ r # "task" -> run[r]
                   [] OTHER -> Was("over")]
  BY DEF Restarts
<1>2. CASE run[q].at \in {"sending", "answered"}
  BY <1>1, <1>2 DEF Was, At
<1>3. CASE run[q].at \in {"lost", "blocked"}
  BY <1>1, <1>3 DEF Was, At
<1>4. CASE run[q].at = "waiting"
  BY <1>1, <1>4 DEF Was, At
<1>5. CASE run[q].at \in {"extracting", "marked", "known", "ensuring", "over"}
  BY <1>1, <1>5 DEF Was, At
<1> QED
  BY <1>2, <1>3, <1>4, <1>5

\* A worker writes the row and, when it copies, the account's marker and stages.
LEMMA WorkerFrame ==
  ASSUME NEW w \in Lanes, Worker(w)
  PROVE  /\ UNCHANGED <<account, upstream, run, unmarked, crashes>>
         /\ Copies(w) \/ UNCHANGED copies
<1>1. CASE Takes(w) \/ Asks(w) \/ LogsIn(w)
  BY <1>1 DEF Takes, Asks, LogsIn
<1>2. CASE GivesUp(w) \/ Expires(w) \/ Answers(w)
  BY <1>2 DEF GivesUp, Expires, Answers
<1>3. CASE LoggedIn(w)
  BY <1>3 DEF LoggedIn
<1>4. CASE Refreshes(w) \/ Copies(w)
  BY <1>4 DEF Refreshes, Copies
<1> QED
  BY <1>1, <1>2, <1>3, <1>4 DEF Worker

\* A run that has begun stays begun, one that is past the answer stays past it, and
\* what was lost is lost; so the losses the properties except are kept in mind.
LEMMA RunsGoOn ==
  ASSUME ReloginAssumption, Books, Next
  PROVE  /\ \A q \in Runs :
              /\ run[q].at = "lost" => run'[q].at = "lost"
              /\ run[q].at \in Past => run'[q].at \in Past
              /\ run[q].at = "answered" => run'[q].at \in Past \cup {"answered"}
              /\ run[q].at \notin {"waiting", "blocked"} =>
                   run'[q].at \notin {"waiting", "blocked"}
         /\ unmarked => unmarked'
         /\ token => token'
         /\ email = "gone" => email' = "gone"
<1>p. run \in [Runs -> [at : RunPlaces, email : Emails]]
  BY Types DEF Books
<1>1. ASSUME NEW r \in Runs, Runner(r)
      PROVE  /\ \A q \in Runs :
              /\ run[q].at = "lost" => run'[q].at = "lost"
              /\ run[q].at \in Past => run'[q].at \in Past
              /\ run[q].at = "answered" => run'[q].at \in Past \cup {"answered"}
              /\ run[q].at \notin {"waiting", "blocked"} =>
                   run'[q].at \notin {"waiting", "blocked"}
             /\ unmarked => unmarked'
  <2>1. unmarked => unmarked'
    BY <1>1 DEF Runner, Begin, ExtractFails, Saves, Sends, SendFails, MarksSubmitted,
       StagesSubmitted, Ensures
  <2> QED
    BY <1>1, <2>1, RunMoves DEF Past
<1>2. CASE Restarts
  BY <1>2, <1>p, RestartMoves DEF Past, RunPlaces, Restarts, account
<1>3. CASE Backfills \/ Pays \/ AccountChanges \/ ClaimExpires
  BY <1>3 DEF Backfills, Pays, AccountChanges, ClaimExpires, account
<1>4. CASE \E w \in Lanes : Worker(w)
  BY <1>4, WorkerFrame DEF account
<1> QED
  BY <1>1, <1>2, <1>3, <1>4, RunMoves DEF Next, account

\* Two runs that have begun remain two, and a run that begins where another one has
\* gone before is the second.
LEMMA TwoRuns ==
  ASSUME ReloginAssumption, Books, Next
  PROVE  /\ RanTwice => RanTwice'
         /\ AnswerLost => AnswerLost'
         /\ \A r, q \in Runs :
              /\ run[r].at \notin Past \cup {"answered"}
              /\ run'[r].at \notin {"waiting", "blocked"}
              /\ run[q].at \in Past \cup {"answered"}
              => RanTwice'
<1>1. RanTwice => RanTwice'
  BY RunsGoOn DEF RanTwice
<1>2. AnswerLost => AnswerLost'
  BY <1>1, RunsGoOn DEF AnswerLost, At
<1>3. ASSUME NEW r \in Runs, run[r].at \notin Past \cup {"answered"},
             run'[r].at \notin {"waiting", "blocked"},
             NEW q \in Runs, run[q].at \in Past \cup {"answered"}
      PROVE  RanTwice'
  <2>1. q # r /\ run'[q].at \notin {"waiting", "blocked"}
    BY <1>3, RunsGoOn DEF Past
  <2> QED
    BY <1>3, <2>1 DEF RanTwice
<1> QED
  BY <1>1, <1>2, <1>3

\* An item in the marker, a row or an item at the service is put there by a run,
\* and a continuation does not begin without the Auth.
LEMMA TracedKept ==
  ASSUME ReloginAssumption, Books, Traced, Next
  PROVE  Traced'
<1>g. /\ \A q \in Runs : run[q].at \in Past => run'[q].at \in Past
      /\ \A q \in Runs : run[q].at \in Past \cup {"answered"} =>
                           run'[q].at \in Past \cup {"answered"}
      /\ token => token'
  BY RunsGoOn
<1>a. (\E q \in Runs : run[q].at \in Past) => \E q \in Runs : run'[q].at \in Past
  BY <1>g
<1>b. (\E q \in Runs : run[q].at \in Past \cup {"answered"}) =>
         \E q \in Runs : run'[q].at \in Past \cup {"answered"}
  BY <1>g
<1>1. marker'.item \/ row'.state # "none" => \E q \in Runs : run'[q].at \in Past
  <2>1. ASSUME NEW r \in Runs, Runner(r), marker'.item \/ row'.state # "none"
        PROVE  \E q \in Runs : run'[q].at \in Past
    <3>1. CASE Begin(r)
      BY <2>1, <3>1, <1>a DEF Begin, copies, Traced
    <3>2. CASE ExtractFails(r)
      BY <2>1, <3>2, <1>a DEF ExtractFails, Marks, Tries, Traced
    <3>3. CASE Saves(r)
      BY <2>1, <3>3, <1>a DEF Saves, Traced
    <3>4. CASE Sends(r)
      BY <2>1, <3>4, <1>a DEF Sends, copies, Traced
    <3>5. CASE SendFails(r)
      BY <2>1, <3>5, <1>a DEF SendFails, Marks, Tries, Traced
    <3>6. CASE MarksSubmitted(r) \/ StagesSubmitted(r) \/ Ensures(r)
      <4>1. run'[r].at \in Past
        BY <2>1, <3>6, RunMoves DEF Past, MarksSubmitted, StagesSubmitted, Ensures, At
      <4> QED
        BY <4>1
    <3> QED
      BY <2>1, <3>1, <3>2, <3>3, <3>4, <3>5, <3>6 DEF Runner
  <2>2. CASE Backfills
    <3>1. marker' = marker /\ (row' = row \/ marker.item)
      BY <2>2 DEF Backfills, copies, Recoverable
    <3> QED
      BY <3>1, <1>a DEF Traced
  <2>3. ASSUME NEW w \in Lanes, Worker(w), marker'.item \/ row'.state # "none"
        PROVE  \E q \in Runs : run'[q].at \in Past
    <3>1. row' = row \/ row.state # "none"
      BY <2>3, WorkerWrites DEF Lane
    <3>2. marker'.item = marker.item
      <4>1. marker \in MarkerSet
        BY Types DEF Books
      <4> QED
        BY <2>3, <4>1, WorkerFrame DEF Copies, Mirrors, Tries, copies, MarkerSet
    <3> QED
      BY <2>3, <3>1, <3>2, <1>a DEF Traced
  <2>4. CASE Pays \/ AccountChanges \/ ClaimExpires \/ Restarts
    BY <2>4, <1>a DEF Pays, AccountChanges, ClaimExpires, Restarts, copies, Traced
  <2> QED
    BY <2>1, <2>2, <2>3, <2>4 DEF Next
<1>2. upstream' # "none" => \E q \in Runs : run'[q].at \in Past \cup {"answered"}
  <2>1. ASSUME NEW r \in Runs, Runner(r), upstream' # "none"
        PROVE  \E q \in Runs : run'[q].at \in Past \cup {"answered"}
    <3>1. CASE Sends(r)
      BY <2>1, <3>1, RunMoves DEF Past, Sends, At
    <3>2. CASE SendFails(r)
      BY <2>1, <3>2, RunMoves DEF Past, SendFails, At
    <3>3. CASE ~Sends(r) /\ ~SendFails(r)
      <4>1. upstream' = upstream
        BY <2>1, <3>3 DEF Runner, Begin, ExtractFails, Saves, MarksSubmitted, StagesSubmitted,
           Ensures
      <4> QED
        BY <2>1, <4>1, <1>b DEF Traced
    <3> QED
      BY <3>1, <3>2, <3>3
  <2>2. CASE Restarts
    <3>1. CASE upstream' = upstream
      BY <3>1, <1>b DEF Traced
    <3>2. ASSUME NEW r \in Runs, At(r, "sending")
          PROVE  run'[r].at \in Past
      BY <2>2, <3>2, RestartMoves DEF At, Past
    <3> QED
      BY <2>2, <3>1, <3>2 DEF Restarts
  <2>3. CASE \/ Backfills \/ (\E w \in Lanes : Worker(w)) \/ AccountChanges \/ ClaimExpires
             \/ Pays
    <3>1. upstream' = upstream \/ upstream # "none"
      BY <2>3, WorkerFrame DEF Backfills, AccountChanges, ClaimExpires, Pays
    <3> QED
      BY <3>1, <1>b DEF Traced
  <2> QED
    BY <2>1, <2>2, <2>3 DEF Next
<1>3. ~token' => \A q \in Runs \ {"task"} : run'[q].at \in {"waiting", "blocked"}
  <2> SUFFICES ASSUME ~token', NEW q \in Runs \ {"task"}
               PROVE  run'[q].at \in {"waiting", "blocked"}
    OBVIOUS
  <2>0. ~token /\ run[q].at \in {"waiting", "blocked"}
    BY <1>g DEF Traced
  <2>1. ASSUME NEW r \in Runs, Runner(r) PROVE run'[q].at \in {"waiting", "blocked"}
    <3>1. CASE r = q
      <4>1. Begin(q)
        BY <2>0, <2>1, <3>1, RunMoves
      <4> QED
        BY <2>0, <4>1 DEF Begin, MayBegin
    <3>2. CASE r # q
      BY <2>0, <2>1, <3>2, RunMoves
    <3> QED
      BY <3>1, <3>2
  <2>2. CASE Restarts
    BY <2>0, <2>2, RestartMoves
  <2>3. CASE \/ Backfills \/ (\E w \in Lanes : Worker(w)) \/ AccountChanges \/ ClaimExpires
             \/ Pays
    BY <2>0, <2>3, WorkerFrame DEF Backfills, AccountChanges, ClaimExpires, Pays
  <2> QED
    BY <2>1, <2>2, <2>3 DEF Next
<1>4. (\E r \in Runs : run'[r].at = "known") => RanTwice'
  <2>1. ASSUME NEW r \in Runs, run'[r].at = "known", run[r].at # "known"
        PROVE  RanTwice'
    <3>1. ASSUME NEW q \in Runs, Runner(q) PROVE q = r /\ Begin(r) /\ run[r].at = "waiting"
      BY <2>1, <3>1, RunMoves
    <3>2. ~Restarts
      BY <2>1, RestartMoves, Types DEF Books, RunPlaces
    <3>3. run' # run
      BY <2>1
    <3>4. Begin(r) /\ run[r].at = "waiting"
      BY <3>1, <3>2, <3>3, WorkerFrame DEF Next, Backfills, Pays, AccountChanges, ClaimExpires
    <3>5. Submitted
      BY <2>1, <3>4, Types DEF Begin, Books, Was, Begun
    <3>6. \E q \in Runs : run[q].at \in Past
      BY <3>5 DEF Submitted, Traced
    <3> QED
      BY <2>1, <3>4, <3>6, TwoRuns DEF Past
  <2>2. ASSUME NEW r \in Runs, run[r].at = "known" PROVE RanTwice'
    BY <2>2, TwoRuns DEF Traced
  <2> QED
    BY <2>1, <2>2
<1> QED
  BY <1>1, <1>2, <1>3, <1>4 DEF Traced

\* The marker keeps what a single run wrote in it: what runs before the answer
\* would write needs a second run, and workers copy only what the row has reached.
LEMMA MarkerKeptKept ==
  ASSUME ReloginAssumption, Books, Traced, MarkerKept, Next
  PROVE  MarkerKept'
<1> DEFINE Behind == row.state # "none" \/ \E r \in Runs : run[r].at \in {"marked", "ensuring"}
           Good == \/ marker.status \in Unfinished
                   \/ /\ row.state \in Terminal /\ marker.status = row.state
                      /\ pipeline.payment \in {PaymentOf(row), "submitted"}
<1> SUFFICES ASSUME ~RanTwice', ~unmarked', Behind' PROVE marker'.item /\ Good'
  BY DEF MarkerKept
<1>0. ~RanTwice /\ ~unmarked
  BY TwoRuns, RunsGoOn
<1>i. Behind => marker.item /\ Good
  BY <1>0 DEF MarkerKept
<1>p. Behind => \E q \in Runs : run[q].at \in Past
  BY DEF Traced, Past
<1>t. /\ marker \in MarkerSet /\ pipeline \in PipelineSet /\ row \in Rows
      /\ work \in [Lanes -> [at : WorkPlaces, seen : Rows]]
  BY Types DEF Books
<1>q. ASSUME Behind, marker' = marker, row' = row,
             pipeline'.payment \in {pipeline.payment, "submitted"}
      PROVE  marker'.item /\ Good'
  BY <1>i, <1>q DEF PaymentOf, Unfinished
<1> HIDE DEF Good
<1>1. ASSUME NEW r \in Runs, Runner(r) PROVE marker'.item /\ Good'
  <2>m. \A q \in Runs \ {r} : run'[q] = run[q]
    BY <1>1, RunMoves
  <2>s. ASSUME run[r].at \notin Past \cup {"answered"},
               run'[r].at \notin {"waiting", "blocked"}, Behind
        PROVE  FALSE
    BY <2>s, <1>p, TwoRuns
  <2>b. row' = row /\ run'[r].at \notin {"marked", "ensuring"} => Behind
    BY <2>m
  <2>1. CASE Begin(r)
    <3>1. /\ run[r].at = "waiting" /\ run'[r].at \in {"blocked", "known", "extracting"}
          /\ row' = row
      BY <1>1, <2>1, RunMoves DEF Begin, At, MayBegin
    <3>2. Behind
      BY <2>b, <3>1
    <3>3. run'[r].at = "blocked"
      BY <2>s, <3>1, <3>2 DEF Past
    <3>4. UNCHANGED copies \/ (~token /\ r = "task")
      <4>1. ~Begun(r, "known") /\ ~Begun(r, "extracting")
        BY <3>3, Types DEF Begun, Books
      <4> QED
        BY <2>1, <4>1 DEF Begin, MayBegin
    <3>5. ASSUME ~token, r = "task" PROVE FALSE
      BY <1>p, <3>1, <3>2, <3>5 DEF Traced, Past
    <3> QED
      BY <1>q, <3>1, <3>2, <3>4, <3>5 DEF copies
  <2>2. CASE ExtractFails(r) \/ Saves(r) \/ SendFails(r)
    <3>1. /\ run[r].at \notin Past \cup {"answered"}
          /\ run'[r].at \notin {"waiting", "blocked", "marked", "ensuring"}
          /\ row' = row
      BY <1>1, <2>2, RunMoves DEF Past, ExtractFails, Saves, SendFails, At
    <3> QED
      BY <2>b, <2>s, <3>1
  <2>3. CASE Sends(r)
    <3>1. row' = row /\ marker' = marker /\ pipeline' = pipeline
      BY <2>3 DEF Sends, copies
    <3>2. run'[r].at = "answered"
      BY <1>1, <2>3, RunMoves DEF Sends, At
    <3> QED
      BY <2>b, <1>q, <3>1, <3>2
  <2>4. CASE MarksSubmitted(r)
    BY <2>4 DEF MarksSubmitted, Submitted, Unfinished, Good
  <2>5. CASE StagesSubmitted(r)
    <3>1. marker' = marker /\ row' = row /\ pipeline'.payment \in {pipeline.payment, "submitted"}
      BY <2>5, <1>t DEF StagesSubmitted, Tries, Stages, PipelineSet
    <3>2. CASE run[r].at = "marked"
      BY <1>q, <3>1, <3>2
    <3>3. CASE run[r].at = "known"
      BY <1>0, <3>3 DEF Traced
    <3> QED
      BY <2>5, <3>2, <3>3 DEF StagesSubmitted
  <2>6. CASE Ensures(r)
    <3>1. run[r].at = "ensuring" /\ marker' = marker /\ pipeline'.payment = pipeline.payment
      <4>1. Leaves(r, "over", pipeline)
        BY <2>6 DEF Ensures
      <4>2. pipeline'.payment \in {pipeline.payment, pipeline.payment}
        BY <4>1, <1>t, LeavesDoes DEF Books, RunPlaces
      <4> QED
        BY <2>6, <4>2 DEF Ensures, At
    <3>2. Behind
      BY <3>1
    <3>3. CASE row' = row
      BY <1>q, <3>1, <3>2, <3>3
    <3>4. ASSUME NEW who \in Emails, row' = Ensured(who) PROVE marker'.item /\ Good'
      <4>1. row.state \in Terminal => row' = row
        BY <3>4, EnsuredDoes DEF Books
      <4> QED
        BY <1>i, <1>q, <3>1, <3>2, <4>1 DEF Good, Unfinished
    <3> QED
      BY <2>6, <3>3, <3>4, Types DEF Ensures, Tries, Books
  <2> QED
    BY <1>1, <2>1, <2>2, <2>3, <2>4, <2>5, <2>6 DEF Runner
<1>2. CASE Backfills
  <2>1. UNCHANGED <<copies, run>>
    BY <1>2 DEF Backfills
  <2>2. CASE Recoverable
    BY <2>1, <2>2 DEF Recoverable, Good, copies, Unfinished
  <2>3. CASE row' = row
    BY <1>q, <2>1, <2>3 DEF copies
  <2> QED
    BY <1>2, <2>2, <2>3 DEF Backfills
<1>3. ASSUME NEW w \in Lanes, Worker(w) PROVE marker'.item /\ Good'
  <2>1. run' = run
    BY <1>3, WorkerFrame
  <2>2. CASE UNCHANGED copies
    <3>1. CASE row' = row
      BY <1>q, <2>1, <2>2, <3>1 DEF copies
    <3>2. CASE row.state \in Lane(w)
      <4>1. row.state # "none" /\ row.state \notin Terminal
        BY <3>2 DEF Lane, Terminal
      <4> QED
        BY <1>i, <2>2, <4>1 DEF Good, copies, Unfinished
    <3> QED
      BY <1>3, <3>1, <3>2, WorkerWrites
  <2>3. CASE Copies(w)
    <3> DEFINE s == work[w].seen
    <3>1. /\ work[w].at = "marking" /\ Mirrors(s) /\ row' = row
          /\ s \in Rows /\ s.state # "none" /\ row.state # "none"
          /\ s.state \in Terminal => row = s
      BY <2>3, <1>t DEF Copies, Books, LanesApart
    <3>2. marker.item /\ Good
      BY <1>i, <3>1
    <3>3. CASE UNCHANGED copies
      BY <1>q, <3>1, <3>3 DEF copies
    <3>4. CASE /\ marker' = [marker EXCEPT !.status = s.state]
               /\ pipeline' = [pipeline EXCEPT !.payment = PaymentOf(s)]
      <4>1. marker'.item = marker.item /\ marker'.status = s.state
            /\ pipeline'.payment = PaymentOf(s)
        BY <3>4, <1>t DEF MarkerSet, PipelineSet
      <4>2. CASE s.state \in Terminal
        <5>1. row' = s
          BY <3>1, <4>2
        <5> QED
          BY <3>2, <4>1, <4>2, <5>1 DEF Good, PaymentOf
      <4>3. CASE s.state \in Active
        BY <3>2, <4>1, <4>3 DEF Good, Unfinished
      <4> QED
        BY <3>1, <4>2, <4>3 DEF Rows
    <3> QED
      BY <3>1, <3>3, <3>4 DEF Mirrors, Tries
  <2> QED
    BY <1>3, <2>2, <2>3, WorkerFrame
<1>4. CASE Pays \/ AccountChanges
  BY <1>4, <1>q DEF Pays, AccountChanges, copies
<1>5. CASE ClaimExpires
  BY <1>5, <1>q, <1>t DEF ClaimExpires, PipelineSet
<1>6. CASE Restarts
  <2>1. Behind
    BY <1>6, Types, RestartMoves DEF Restarts, Books, RunPlaces
  <2> QED
    BY <1>6, <1>q, <2>1 DEF Restarts, copies
<1> QED
  BY <1>1, <1>2, <1>3, <1>4, <1>5, <1>6 DEF Next

\* An item is not left alone: the run that sent it marks it, loses it, or leaves it
\* to the marker or the row.
LEMMA FollowedKept ==
  ASSUME ReloginAssumption, Books, Traced, Followed, Next
  PROVE  Followed'
<1> DEFINE There == row.state # "none" \/ Recoverable \/ AnswerLost
<1> SUFFICES ASSUME upstream' # "none", email' # "gone", ~AnswerLost'
             PROVE  \/ row'.state # "none"
                    \/ Recoverable'
                    \/ \E r \in Runs : At(r, "answered")'
  BY DEF Followed, At, Recoverable, AnswerLost
<1>0. ~AnswerLost /\ email # "gone" /\ ~unmarked' /\ ~RanTwice'
      /\ \A r \in Runs : run'[r].at # "lost"
  BY TwoRuns, RunsGoOn DEF AnswerLost, At
<1>i. upstream # "none" =>
         row.state # "none" \/ Recoverable \/ \E r \in Runs : run[r].at = "answered"
  BY <1>0 DEF Followed, At
<1>m. marker' = marker => (Recoverable <=> Recoverable')
  BY <1>0 DEF Recoverable, Unfinished
<1>p. upstream # "none" => \E q \in Runs : run[q].at \in Past \cup {"answered"}
  BY DEF Traced
<1>r. row.state # "none" => row'.state # "none"
  <2>1. ASSUME NEW who \in Emails, row' = Ensured(who) PROVE row'.state # "none"
    BY <2>1, EnsuredDoes DEF Books
  <2> QED
    BY <2>1, RowWrites DEF Active, Terminal
<1>1. ASSUME NEW r \in Runs, Runner(r)
      PROVE  row'.state # "none" \/ Recoverable' \/ \E q \in Runs : run'[q].at = "answered"
  <2>m. \A q \in Runs \ {r} : run'[q] = run[q]
    BY <1>1, RunMoves
  <2>s. ASSUME run[r].at \notin Past \cup {"answered"},
               run'[r].at \notin {"waiting", "blocked"}, upstream # "none"
        PROVE  FALSE
    BY <2>s, <1>0, <1>p, TwoRuns
  <2>1. CASE Begin(r)
    <3>1. run[r].at = "waiting" /\ run'[r].at = "blocked" /\ upstream # "none"
      BY <1>1, <2>1, <2>s, RunMoves DEF Begin, Past, At, MayBegin
    <3>2. ~token /\ r = "task"
      <4>1. ~Begun(r, "known") /\ ~Begun(r, "extracting")
        BY <3>1, Types DEF Begun, Books
      <4> QED
        BY <2>1, <4>1, <1>0 DEF Begin, MayBegin
    <3> QED
      BY <1>p, <3>1, <3>2 DEF Traced, Past
  <2>2. CASE ExtractFails(r) \/ Saves(r)
    BY <1>1, <2>2, <2>s, RunMoves DEF Past, ExtractFails, Saves, At
  <2>3. CASE Sends(r)
    BY <1>1, <2>3, RunMoves DEF Sends, At
  <2>4. CASE SendFails(r)
    <3>1. run[r].at = "sending" /\ run'[r].at = "over"
      BY <1>0, <1>1, <2>4, RunMoves DEF SendFails, At
    <3>2. ~Leaves(r, "lost", [pipeline EXCEPT !.payment = "submit_failed"])
      BY <3>1, Types DEF Leaves, Was, Books
    <3>3. upstream' = upstream
      BY <2>4, <3>2 DEF SendFails
    <3> QED
      BY <2>s, <3>1, <3>3 DEF Past
  <2>5. CASE MarksSubmitted(r)
    <3>1. Submitted'
      BY <1>0, <2>5 DEF MarksSubmitted
    <3> QED
      BY <3>1 DEF Submitted, Recoverable, Unfinished
  <2>6. CASE StagesSubmitted(r) \/ Ensures(r)
    <3>1. marker' = marker /\ upstream' = upstream /\ run[r].at # "answered"
      BY <2>6 DEF StagesSubmitted, Ensures, At
    <3> QED
      BY <1>i, <1>m, <1>r, <2>m, <3>1
  <2> QED
    BY <1>1, <2>1, <2>2, <2>3, <2>4, <2>5, <2>6 DEF Runner
<1>2. CASE Backfills \/ Pays \/ AccountChanges \/ ClaimExpires
  BY <1>2, <1>i, <1>m, <1>r DEF Backfills, Pays, AccountChanges, ClaimExpires, copies, At
<1>3. ASSUME NEW w \in Lanes, Worker(w)
      PROVE  row'.state # "none" \/ Recoverable' \/ \E q \in Runs : run'[q].at = "answered"
  <2>1. run' = run /\ upstream' = upstream
    BY <1>3, WorkerFrame
  <2>2. CASE UNCHANGED copies
    BY <1>i, <1>m, <1>r, <2>1, <2>2 DEF copies
  <2>3. CASE Copies(w)
    BY <1>r, <2>3 DEF Copies, Books, LanesApart
  <2> QED
    BY <1>3, <2>2, <2>3, WorkerFrame
<1>4. CASE Restarts
  <2>1. \A q \in Runs : run[q].at \notin {"sending", "answered"}
    BY <1>0, <1>4, RestartMoves DEF Books
  <2>2. upstream' = upstream /\ marker' = marker
    BY <1>4, <2>1 DEF Restarts, At, copies
  <2> QED
    BY <1>i, <1>m, <1>r, <2>1, <2>2
<1> QED
  BY <1>1, <1>2, <1>3, <1>4 DEF Next, At

\* Without a run there is neither item nor marker nor row.
LEMMA InitTrail == Init => Trail
<1> SUFFICES ASSUME Init PROVE Trail
  OBVIOUS
<1>1. /\ upstream = "none" /\ row.state = "none" /\ marker.item = FALSE
      /\ \A r \in Runs : run[r].at = "waiting"
  BY DEF Init, NoRow
<1> QED
  BY <1>1 DEF Trail, Traced, MarkerKept, Followed

\* The strengthening of PaymentsFollowed is inductive.
LEMMA Invariance == ASSUME ReloginAssumption PROVE Spec => []IInv
<1>1. Init => IInv
  BY InitBooks, InitTrail DEF IInv
<1>2. ASSUME IInv, [Next]_vars PROVE IInv'
  <2>1. Books'
    BY <1>2, BooksInvariance DEF IInv
  <2>2. CASE Next
    BY <1>2, <2>1, <2>2, TracedKept, MarkerKeptKept, FollowedKept DEF IInv, Trail
  <2>3. CASE UNCHANGED vars
    <3>1. /\ email' = email /\ token' = token /\ marker' = marker /\ pipeline' = pipeline
          /\ upstream' = upstream /\ row' = row /\ run' = run /\ unmarked' = unmarked
      BY <2>3 DEF vars, account, copies
    <3>2. (RanTwice <=> RanTwice') /\ (AnswerLost <=> AnswerLost') /\ (Recoverable <=> Recoverable')
      BY <3>1 DEF RanTwice, AnswerLost, Recoverable, At, Unfinished
    <3>3. Traced' /\ Followed'
      BY <1>2, <3>1, <3>2 DEF IInv, Trail, Traced, Followed, At, Past
    <3>4. MarkerKept'
      BY <1>2, <3>1, <3>2 DEF IInv, Trail, MarkerKept, Unfinished, PaymentOf
    <3> QED
      BY <2>1, <3>3, <3>4 DEF IInv, Trail
  <2> QED
    BY <1>2, <2>2, <2>3
<1> QED
  BY <1>1, <1>2, PTL DEF Spec

\* The PayPal payment of an account is followed to its end and told as it went: no
\* item is forgotten and no copy stays behind a row that is over, for any number
\* of continuations and restarts, unless an answer or its marker was lost, or a
\* second run wrote over the first.
THEOREM PaymentsFollowedCorrect == ASSUME ReloginAssumption PROVE Spec => []PaymentsFollowed
<1>1. ASSUME IInv PROVE PaymentsFollowed
  <2>1. PaidMeansAuthorized
    BY <1>1, BooksTellThePayment DEF IInv
  <2>2. ItemsAreFollowed
    BY <1>1 DEF IInv, Trail, Followed, ItemsAreFollowed, InHand, At
  <2>3. CopiesCatchUp
    <3>1. row.state # "none" /\ email # "gone" => RanTwice \/ unmarked \/ Recoverable
            \/ (marker.status = row.state /\ pipeline.payment \in {PaymentOf(row), "submitted"})
      BY <1>1 DEF IInv, Trail, MarkerKept, Recoverable
    <3>2. row.email # "gone"
      BY <1>1, Types DEF IInv, Books, Rows, Emails
    <3> QED
      BY <3>1, <3>2 DEF CopiesCatchUp, Terminal
  <2> QED
    BY <2>1, <2>2, <2>3 DEF PaymentsFollowed
<1> QED
  BY Invariance, <1>1, PTL
=============================================================================
