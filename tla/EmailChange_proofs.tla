--------------------------- MODULE EmailChange_proofs ---------------------------
(***************************************************************************)
(* Theorems of EmailChange, for any number of targets, of callers of the   *)
(* API and of runners, and any bounds on requests, faults and restarts.    *)
(***************************************************************************)
EXTENDS EmailChange, FiniteSetTheorems, TLAPS

HotPlaces  == {"asking", "verify", "answer"}
PastPlaces == {"login", "commit", "stamp", "finalize", "persist", "done"}
Working    == {"begin", "load", "failing"} \cup HotPlaces \cup PastPlaces
Acting     == Working \cup {"reconcile"}

\* What a thread and a caller are doing with row r.
On(t, r)        == run[t].row = r
Acts(t, r)      == On(t, r) /\ run[t].at \in Acting
Works(r)        == \E t \in Threads : On(t, r) /\ run[t].at \in Working
Launching(c, r) == api[c].row = r /\ api[c].at = "launching"
Launches(r)     == \E c \in Callers : Launching(c, r)
Held(r)         == rows[r].status \in Holding

\* The code has not been sent, or its answer is not settled.
Unsettled(r) == ~Crossed(r) \/ \E t \in Threads : On(t, r) /\ run[t].at \in HotPlaces

\* The mailbox is back with its provider, or on its way there.
GivenBack(r) ==
    \/ mailbox[r] = "released" \/ rows[r].status \in {"releasing", "released"}
    \/ \E c \in Callers : api[c].row = r /\ api[c].at \in {"releasing", "confirming", "undoing"}

-----------------------------------------------------------------------------
(* The inductive invariant. *)

RunPlaces == Acting \cup {"idle", "over"}
ApiPlaces == {"idle", "inserting", "starting", "resuming", "launching", "releasing",
              "confirming", "undoing"}
Runs      == [at : RunPlaces, row : Emails, crossed : BOOLEAN, retry : BOOLEAN, stopped : BOOLEAN]
Calls     == [at : ApiPlaces, row : Emails, source : Emails]
Boxes     == {"none", "leased", "released", "finalized"}

Typed ==
    /\ remote \in Emails /\ email \in Emails
    /\ rows \in [Targets -> Rows] /\ mailbox \in [Targets -> Boxes]
    /\ active \subseteq Targets
    /\ api \in [Callers -> Calls] /\ run \in [Threads -> Runs]
    /\ asked \in 0..MaxRequests /\ faults \in 0..MaxFaults /\ crashes \in 0..MaxCrashes

OneHeld == \A q, r \in Targets : Held(q) /\ Held(r) => q = r

\* A reservation that was not started has no history and no runner.
Fresh(r) ==
    /\ rows[r].status = "none" => rows[r] = NoRow
    /\ mailbox[r] = "none" => rows[r].status = "none" /\ \A c \in Callers : api[c].row # r
    /\ rows[r].status \in {"none", "created"} =>
         /\ ~Crossed(r) /\ ~rows[r].committed /\ ~rows[r].finalized /\ ~rows[r].resumable
         /\ \A t \in Threads : ~On(t, r)
         /\ ~Launches(r)

\* A caller that inserts a row has the mailbox for itself.
Inserting(c) ==
    api[c].at = "inserting" =>
        /\ api[c].row \in Targets
        /\ rows[api[c].row].status = "none" /\ mailbox[api[c].row] = "leased"
        /\ \A d \in Callers : api[d].row = api[c].row => d = c
        /\ api[c].source # api[c].row
        /\ api[c].source \in Targets => rows[api[c].source].committed

Places ==
    /\ \A c \in Callers : api[c].at = "idle" <=> api[c].row = Original
    /\ \A t \in Threads : run[t].at = "idle" <=> run[t].row = Original

\* As long as it is not settled whether the code was sent and what it did, one
\* claim is out for the row, with the caller that made it or with one runner.
Solo(r) ==
    Unsettled(r) =>
        /\ \A t, u \in Threads : Acts(t, r) /\ Acts(u, r) => t = u
        /\ \A c, d \in Callers : Launching(c, r) /\ Launching(d, r) => c = d
        /\ \A t \in Threads, c \in Callers : ~(Acts(t, r) /\ Launching(c, r))
        /\ Launches(r) \/ Works(r) => rows[r].status = "running"
        /\ rows[r].resumable /\ rows[r].status \in {"failed", "partial"} =>
             ~Launches(r) /\ \A t \in Threads : ~Acts(t, r)

\* A mailbox that goes back has never been asked for, and is not claimed again.
Back(r) ==
    GivenBack(r) =>
        /\ ~Crossed(r) /\ ~rows[r].resumable
        /\ rows[r].status \in {"none", "releasing", "failed", "released"}
        /\ ~Launches(r) /\ ~Works(r)

Mail(r) ==
    /\ rows[r].finalized => mailbox[r] = "finalized"
    /\ rows[r].status = "done" => rows[r].committed /\ rows[r].finalized
    /\ \A t \in Threads : On(t, r) /\ run[t].at \in {"persist", "done"} => mailbox[r] = "finalized"

\* A change starts from an address whose own change was committed.
Sourced(r) ==
    rows[r].status # "none" =>
        /\ rows[r].source # r
        /\ rows[r].source \in Targets => rows[rows[r].source].committed

Committed(r) ==
    /\ email = r \/ remote = r => Crossed(r)
    /\ rows[r].committed => email # rows[r].source /\ Crossed(r)

\* Where a runner is tells how far its row, OpenAI and the account are.
Tells(w, v, r) ==
    LET crossed == v.submitted \/ v.changed IN
    /\ w.at \in PastPlaces => crossed /\ w.crossed
    /\ w.at \in {"stamp", "finalize", "persist", "done"} => email # v.source
    /\ w.at = "commit" /\ email = v.source => remote = r
    /\ w.at \in HotPlaces => email = v.source /\ ~v.changed /\ ~w.crossed
    /\ w.at = "asking" => ~v.submitted /\ remote = v.source
    /\ w.at = "verify" => v.submitted /\ remote = v.source
    /\ w.at = "answer" => v.submitted /\ remote \in {r, v.source}
    /\ w.at = "failing" /\ w.stopped /\ (w.crossed \/ w.retry) => crossed

Told(t, r) == On(t, r) => Tells(run[t], rows[r], r)

\* ChangeIsKnown, by the address.
Known ==
    remote # email =>
        remote \in Targets /\ Held(remote) /\ Crossed(remote) /\ rows[remote].source = email

\* Without a failing write, a row that says running is run, and a runner that
\* fails past the boundary says so.
Ends(r) ==
    faults = 0 =>
        /\ rows[r].status = "running" =>
             Launches(r) \/ \E t \in Threads : On(t, r) /\ run[t].at # "over"
        /\ rows[r].status \in {"failed", "partial"} /\ Crossed(r) => rows[r].resumable
        /\ \A t \in Threads :
             On(t, r) /\ run[t].at = "failing" /\ Crossed(r) => run[t].crossed \/ run[t].retry

RowInv(r) == Fresh(r) /\ Solo(r) /\ Back(r) /\ Mail(r) /\ Sourced(r) /\ Committed(r) /\ Ends(r)

IInv ==
    /\ Typed /\ OneHeld /\ Places /\ Known
    /\ \A r \in Targets : RowInv(r)
    /\ \A c \in Callers : Inserting(c)
    /\ \A t \in Threads, r \in Targets : Told(t, r)

-----------------------------------------------------------------------------
(* Steps of one runner that neither send the code nor learn what it did, nor *)
(* write the account.                                                        *)

\* The runner t goes on with its row r, that becomes v, and is then w: what the
\* invariant needs of the step.
Fits(t, r, v, w) ==
    /\ w.row = r /\ w.at \in RunPlaces \ {"idle"}
    /\ v.source = rows[r].source /\ v.status \notin {"none", "created"}
    /\ Crossed(r) <=> v.submitted \/ v.changed
    /\ rows[r].committed => v.committed
    /\ v.committed => email # v.source /\ Crossed(r)
    /\ v.status \in Holding => Held(r) \/ ~Taken(r)
    /\ w.at \in HotPlaces => run[t].at \in HotPlaces \/ ~Crossed(r)
    /\ Unsettled(r) =>
         /\ w.at \in Working => v.status = "running"
         /\ v.resumable /\ v.status \in {"failed", "partial"} => w.at = "over"
    /\ v = rows[r] \/ v.status \notin {"releasing", "released"}
    /\ GivenBack(r) => v = rows[r] /\ w.at \notin Working
    /\ v.finalized \/ w.at \in {"persist", "done"} => mailbox[r] = "finalized"
    /\ v.status = "done" => v.committed /\ v.finalized
    /\ Held(r) => v.status \in Holding \/ email # v.source
    /\ Tells(w, v, r)

\* ... and what it needs unless a write has raised.
Lasts(r, v, w) ==
    /\ v.status = "running" => w.at # "over"
    /\ v.status \in {"failed", "partial"} /\ Crossed(r) => v.resumable
    /\ w.at = "failing" /\ Crossed(r) => w.crossed \/ w.retry

Others == UNCHANGED <<remote, email, mailbox, api, asked, crashes>>

LEMMA AdvanceKept ==
  ASSUME BoundsAssumption, IInv, NEW t \in Threads, NEW r \in Targets, Acts(t, r),
         NEW v \in Rows, NEW w \in Runs, Fits(t, r, v, w),
         rows' = [rows EXCEPT ![r] = v], run' = [run EXCEPT ![t] = w], Others,
         active' \subseteq Targets, faults' \in faults..MaxFaults,
         faults' = 0 => Lasts(r, v, w)
  PROVE  IInv'
<1>a. /\ Typed /\ OneHeld /\ Places /\ Known /\ On(t, r) /\ run[t].at \in Acting
      /\ \A q \in Targets : RowInv(q)
      /\ \A c \in Callers : Inserting(c)
      /\ \A u \in Threads, q \in Targets : Told(u, q)
  BY DEF IInv, Acts
<1>o. r # Original /\ Original \notin Targets
  BY DEF BoundsAssumption
<1>b. /\ \A u \in Threads \ {t} : run'[u] = run[u]
      /\ \A q \in Targets \ {r} : rows'[q] = rows[q]
      /\ remote' = remote /\ email' = email /\ mailbox' = mailbox /\ api' = api
      /\ run'[t] = w /\ w.row = r /\ run[t].row = r /\ rows'[r] = v
      /\ run' \in [Threads -> Runs] /\ rows' \in [Targets -> Rows]
  BY <1>a DEF Fits, Typed, On, Others
<1>c. \A q \in Targets : /\ rows'[q].submitted \/ rows'[q].changed <=> Crossed(q)
                         /\ rows'[q].source = rows[q].source
                         /\ rows[q].committed => rows'[q].committed
  BY <1>b DEF Fits, Crossed
<1>1. Typed'
  BY <1>a, <1>b DEF Typed, Others, BoundsAssumption
<1>2. OneHeld'
  BY <1>a, <1>b DEF OneHeld, Held, Taken, Fits
<1>3. Places'
  BY <1>a, <1>b, <1>o DEF Places, Fits
<1>4. Known'
  BY <1>a, <1>b, <1>c DEF Known, Held, Fits, Crossed
<1>5. ASSUME NEW q \in Targets PROVE RowInv(q)'
  <2>c. /\ Crossed(q)' <=> Crossed(q)
        /\ rows'[q].source = rows[q].source
        /\ rows[q].committed => rows'[q].committed
    BY <1>c DEF Crossed
  <2>h. Unsettled(q)' => Unsettled(q)
    BY <1>b, <2>c, <1>a DEF Unsettled, On, Fits
  <2>l. Launches(q)' <=> Launches(q)
    BY <1>b DEF Launching, Launches
  <2>g. GivenBack(q)' => GivenBack(q)
    BY <1>b DEF GivenBack, Fits
  <2>5. Fresh(q)'
    <3>1. Fresh(q)
      BY <1>a DEF RowInv
    <3>2. CASE q # r
      BY <3>1, <3>2, <1>b, <2>c, <2>l DEF Fresh, On
    <3>3. CASE q = r
      <4>1. rows[r].status \notin {"none", "created"}
        BY <3>1, <3>3, <1>b DEF Fresh, On
      <4> QED
        BY <3>1, <3>3, <4>1, <1>b DEF Fresh, Fits
    <3> QED
      BY <3>2, <3>3
  <2>6. Solo(q)'
    <3>1. Solo(q)
      BY <1>a DEF RowInv
    <3>2. CASE q # r
      BY <3>1, <3>2, <1>b, <2>h, <2>l DEF Solo, Acts, Works, On, Launching
    <3>3. CASE q = r
      <4> SUFFICES ASSUME Unsettled(q)' PROVE Solo(q)'
        BY DEF Solo
      <4>1. Unsettled(q) /\ Acts(t, q)
        BY <2>h, <3>3
      <4>2. /\ \A u \in Threads : Acts(u, q) => u = t
            /\ \A c \in Callers : ~Launching(c, q)
        BY <3>1, <4>1 DEF Solo
      <4>3. \A u \in Threads : run'[u].row = q /\ run'[u].at \in Acting => u = t
        BY <4>2, <1>b DEF Acts, On
      <4>4. ~Launches(q)' /\ \A c \in Callers : ~(api'[c].row = q /\ api'[c].at = "launching")
        BY <4>2, <2>l, <1>b DEF Launches, Launching
      <4>5. /\ run'[t].at \in Working => rows'[q].status = "running"
            /\ rows'[q].resumable /\ rows'[q].status \in {"failed", "partial"}
                 => run'[t].at \notin Acting
        BY <4>1, <3>3, <1>b DEF Fits, Acting, Working, HotPlaces, PastPlaces
      <4> QED
        BY <4>3, <4>4, <4>5 DEF Solo, Works, Launching, Acts, On, Acting
    <3> QED
      BY <3>2, <3>3
  <2>7. Back(q)'
    <3>1. Back(q)
      BY <1>a DEF RowInv
    <3>2. CASE q # r
      BY <3>1, <3>2, <1>b, <2>c, <2>g, <2>l DEF Back, Works, On
    <3>3. CASE q = r
      BY <3>1, <3>3, <1>b, <2>c, <2>g, <2>l DEF Back, Works, On, Fits, Working, HotPlaces, PastPlaces
    <3> QED
      BY <3>2, <3>3
  <2>8. Mail(q)'
    <3>1. Mail(q)
      BY <1>a DEF RowInv
    <3>2. CASE q # r
      BY <3>1, <3>2, <1>b DEF Mail, On
    <3>3. CASE q = r
      BY <3>1, <3>3, <1>b DEF Mail, On, Fits
    <3> QED
      BY <3>2, <3>3
  <2>9. Sourced(q)'
    <3>1. Sourced(q) /\ Fresh(r)
      BY <1>a DEF RowInv
    <3>2. rows[r].status # "none"
      BY <3>1, <1>b DEF Fresh, On
    <3> QED
      BY <3>1, <3>2, <1>b, <1>c, <1>a DEF Sourced, RowInv
  <2>10. Committed(q)'
    <3>1. Committed(q)
      BY <1>a DEF RowInv
    <3> QED
      BY <3>1, <1>b, <2>c DEF Committed, Fits
  <2>11. Ends(q)'
    <3>1. Ends(q)
      BY <1>a DEF RowInv
    <3>2. faults' = 0 => faults = 0
      BY <1>a DEF Typed
    <3>3. CASE q # r
      BY <3>1, <3>2, <3>3, <1>b, <2>c, <2>l DEF Ends, On
    <3>4. CASE q = r
      BY <3>1, <3>2, <3>4, <1>b, <2>c, <2>l DEF Ends, On, Lasts, Crossed
    <3> QED
      BY <3>3, <3>4
  <2> QED
    BY <2>5, <2>6, <2>7, <2>8, <2>9, <2>10, <2>11 DEF RowInv
<1>12. ASSUME NEW c \in Callers PROVE Inserting(c)'
  <2>1. Inserting(c) /\ (api[c].row = r => rows[r].status # "none")
    BY <1>a, <1>b DEF RowInv, Fresh, On
  <2> QED
    BY <2>1, <1>b, <1>c DEF Inserting
<1>13. ASSUME NEW u \in Threads, NEW q \in Targets PROVE Told(u, q)'
  <2>1. CASE u = t
    BY <2>1, <1>b DEF Told, On, Fits, Tells
  <2>2. CASE u # t /\ q # r
    BY <2>2, <1>a, <1>b, <1>c DEF Told, Tells, On, Crossed
  <2>3. CASE u # t /\ q = r /\ On(u, r)
    <3>1. run[u].at \notin HotPlaces
      BY <2>3, <1>a DEF RowInv, Solo, Unsettled, Acts, Acting, Working
    <3>2. Told(u, r)
      BY <1>a
    <3> QED
      BY <2>3, <3>1, <3>2, <1>b, <1>c DEF Told, Tells, On, HotPlaces, Crossed
  <2>4. CASE u # t /\ q = r /\ ~On(u, r)
    BY <2>4, <1>b DEF Told, On, Fits, Tells
  <2> QED
    BY <2>1, <2>2, <2>3, <2>4
<1> QED
  BY <1>1, <1>2, <1>3, <1>4, <1>5, <1>12, <1>13 DEF IInv

LEMMA RunnerKnows ==
  ASSUME BoundsAssumption, IInv, NEW t \in Threads, run[t].at # "idle"
  PROVE  /\ run[t] \in Runs /\ run[t].row \in Targets /\ rows[run[t].row] \in Rows
         /\ rows[run[t].row].status \notin {"none", "created"}
<1>1. run[t] \in Runs /\ run[t].row \in Targets
  BY DEF IInv, Typed, Places, Runs, Emails, BoundsAssumption
<1> QED
  BY <1>1 DEF IInv, Typed, RowInv, Fresh, On

LEMMA WorkerKnows ==
  ASSUME BoundsAssumption, IInv, NEW t \in Threads, run[t].at \in Working, NEW r \in Targets, On(t, r)
  PROVE  /\ Acts(t, r) /\ run[t] \in Runs /\ rows[r] \in Rows
         /\ rows[r].status \notin {"none", "created"}
         /\ Tells(run[t], rows[r], r) /\ RowInv(r)
         /\ ~GivenBack(r) /\ (Unsettled(r) => rows[r].status = "running")
         /\ rows = [rows EXCEPT ![r] = rows[r]] /\ faults \in 0..MaxFaults /\ active \subseteq Targets
<1>1. Acts(t, r) /\ RowInv(r) /\ Told(t, r)
  BY DEF IInv, Acts, Acting
<1>2. run[t] \in Runs /\ rows[r] \in Rows /\ rows[r].status \notin {"none", "created"}
  BY RunnerKnows DEF Working, HotPlaces, PastPlaces, On
<1>3. ~GivenBack(r) /\ (Unsettled(r) => rows[r].status = "running")
  BY <1>1 DEF RowInv, Back, Solo, Works
<1>4. /\ rows = [rows EXCEPT ![r] = rows[r]] /\ faults \in 0..MaxFaults /\ active \subseteq Targets
  BY DEF IInv, Typed
<1> QED
  BY <1>1, <1>2, <1>3, <1>4 DEF Told

\* An error leaves the row as it is.
LEMMA Falls ==
  ASSUME BoundsAssumption, IInv, NEW t \in Threads, run[t].at \in Working, NEW r \in Targets, On(t, r),
         NEW crossed \in BOOLEAN, NEW retry \in BOOLEAN, NEW stopped \in BOOLEAN,
         Error(t, crossed, retry, stopped), rows' = rows, active' = active, Others,
         faults' \in faults..MaxFaults,
         stopped /\ (crossed \/ retry) => Crossed(r),
         faults' = 0 /\ Crossed(r) => crossed \/ retry
  PROVE  IInv'
<1> DEFINE w == [run[t] EXCEPT !.at = "failing", !.crossed = crossed, !.retry = retry,
                               !.stopped = stopped]
<1>k. /\ Acts(t, r) /\ run[t] \in Runs /\ rows[r] \in Rows
      /\ rows[r].status \notin {"none", "created"}
      /\ Tells(run[t], rows[r], r) /\ RowInv(r)
      /\ ~GivenBack(r) /\ (Unsettled(r) => rows[r].status = "running")
      /\ rows = [rows EXCEPT ![r] = rows[r]] /\ faults \in 0..MaxFaults /\ active \subseteq Targets
  BY WorkerKnows
<1>w. /\ w \in Runs /\ w.row = r /\ w.at = "failing" /\ w.crossed = crossed
      /\ w.retry = retry /\ w.stopped = stopped
  BY <1>k DEF Runs, RunPlaces, Acting, Working, On
<1>r. run' = [run EXCEPT ![t] = w]
  BY DEF Error
<1> HIDE DEF w
<1>1. Fits(t, r, rows[r], w)
  BY <1>k, <1>w DEF Fits, Tells, RunPlaces, Acting, Working, Held, RowInv, Committed, Mail, Crossed,
                    HotPlaces, PastPlaces
<1>2. faults' = 0 => Lasts(r, rows[r], w)
  BY <1>k, <1>w DEF Lasts, RowInv, Ends
<1> QED
  BY <1>1, <1>2, <1>k, <1>w, <1>r, AdvanceKept

\* A runner goes from place to place and leaves the row as it is.
LEMMA Walks ==
  ASSUME BoundsAssumption, IInv, NEW t \in Threads, run[t].at \in Working, NEW r \in Targets, On(t, r),
         NEW place \in RunPlaces \ {"idle"}, To(t, place),
         rows' = rows, active' \subseteq Targets, Others, faults' \in faults..MaxFaults,
         place \in HotPlaces => run[t].at \in HotPlaces,
         place \in {"persist", "done"} => mailbox[r] = "finalized",
         faults' = 0 => place \notin {"over", "failing"},
         place = "failing" => ~run[t].stopped,
         Tells([run[t] EXCEPT !.at = place], rows[r], r)
  PROVE  IInv'
<1> DEFINE w == [run[t] EXCEPT !.at = place]
<1>k. /\ Acts(t, r) /\ run[t] \in Runs /\ rows[r] \in Rows
      /\ rows[r].status \notin {"none", "created"}
      /\ Tells(run[t], rows[r], r) /\ RowInv(r)
      /\ ~GivenBack(r) /\ (Unsettled(r) => rows[r].status = "running")
      /\ rows = [rows EXCEPT ![r] = rows[r]] /\ faults \in 0..MaxFaults /\ active \subseteq Targets
  BY WorkerKnows
<1>w. /\ w \in Runs /\ w.row = r /\ w.at = place
  BY <1>k DEF Runs, On
<1>r. run' = [run EXCEPT ![t] = w] /\ Tells(w, rows[r], r)
  BY DEF To
<1> HIDE DEF w
<1>1. Fits(t, r, rows[r], w)
  BY <1>k, <1>w, <1>r DEF Fits, Held, RowInv, Committed, Mail, Crossed
<1>2. faults' = 0 => Lasts(r, rows[r], w)
  BY <1>k, <1>w DEF Lasts, RowInv, Ends
<1> QED
  BY <1>1, <1>2, <1>k, <1>w, <1>r, AdvanceKept

\* A write of the row past the boundary, which may not be made, or raise.
LEMMA Updates ==
  ASSUME BoundsAssumption, IInv, NEW t \in Threads, run[t].at \in PastPlaces, NEW r \in Targets, On(t, r),
         NEW v \in Rows, NEW place \in {"finalize", "done", "over"},
         Update(t, [rows EXCEPT ![r] = v], place), Others, active' = active,
         v.source = rows[r].source, v.status \in {"running", "done"},
         v.submitted = rows[r].submitted, v.changed = rows[r].changed,
         v.committed = (rows[r].committed \/ run[t].at # "persist"),
         email # rows[r].source,
         v.finalized => mailbox[r] = "finalized",
         v.status = "done" => v.committed /\ v.finalized /\ place = "over",
         place = "over" => v.status = "done",
         place = "done" => mailbox[r] = "finalized"
  PROVE  IInv'
<1>k. /\ Acts(t, r) /\ run[t] \in Runs /\ rows[r] \in Rows
      /\ rows[r].status \notin {"none", "created"}
      /\ Tells(run[t], rows[r], r) /\ RowInv(r)
      /\ ~GivenBack(r) /\ (Unsettled(r) => rows[r].status = "running")
      /\ rows = [rows EXCEPT ![r] = rows[r]] /\ faults \in 0..MaxFaults /\ active \subseteq Targets
  BY WorkerKnows DEF Working
<1>c. run[t].crossed = TRUE /\ Crossed(r) /\ ~Unsettled(r) /\ run[t].row = r
  <2>1. run[t].crossed = TRUE /\ Crossed(r) /\ run[t].row = r
    BY <1>k DEF Tells, Runs, Crossed, On
  <2>2. ASSUME NEW u \in Threads, On(u, r), run[u].at \in HotPlaces PROVE FALSE
    <3>1. Unsettled(r) /\ Acts(u, r)
      BY <2>2 DEF Unsettled, Acts, Acting, Working
    <3>2. u = t
      BY <3>1, <1>k DEF RowInv, Solo
    <3> QED
      BY <2>2, <3>2 DEF HotPlaces, PastPlaces
  <2> QED
    BY <2>1, <2>2 DEF Unsettled
<1>1. CASE Breaks(t) /\ rows' = rows /\ faults' \in faults..MaxFaults
  BY <1>1, <1>c, Falls DEF Breaks, Working
<1> DEFINE w1 == [run[t] EXCEPT !.at = place]
           w2 == [run[t] EXCEPT !.at = "failing", !.crossed = TRUE, !.retry = TRUE, !.stopped = FALSE]
<1>w. /\ w1 \in Runs /\ w1.row = r /\ w1.at = place /\ w1.crossed
      /\ w2 \in Runs /\ w2.row = r /\ w2.at = "failing" /\ w2.crossed /\ ~w2.stopped
  BY <1>k, <1>c DEF Runs, RunPlaces, Acting, Working, PastPlaces
<1>r. /\ To(t, place) => run' = [run EXCEPT ![t] = w1]
      /\ Breaks(t) => run' = [run EXCEPT ![t] = w2]
  BY <1>c DEF To, Breaks, Error
<1> HIDE DEF w1, w2
<1>f. ASSUME NEW w \in {w1, w2}, ~Clashes(r, [rows EXCEPT ![r] = v])
      PROVE  Fits(t, r, v, w) /\ Lasts(r, v, w)
  <2>1. v.status \in Holding => ~Taken(r)
    BY <1>f, <1>k DEF Clashes, IInv, Typed
  <2>2. Crossed(r) <=> v.submitted \/ v.changed
    BY DEF Crossed
  <2>3. rows[r].committed => email # rows[r].source
    BY <1>k DEF RowInv, Committed
  <2>4. email # v.source
    OBVIOUS
  <2>5. Fits(t, r, v, w)
    BY <1>f, <1>k, <1>c, <1>w, <2>1, <2>2, <2>3, <2>4
    DEF Fits, Tells, RunPlaces, Acting, Working, PastPlaces, HotPlaces
  <2>6. Lasts(r, v, w)
    BY <1>w, <1>f DEF Lasts
  <2> QED
    BY <2>5, <2>6
<1>2. CASE ~Clashes(r, [rows EXCEPT ![r] = v]) /\ rows' = [rows EXCEPT ![r] = v]
           /\ (To(t, place) \/ Breaks(t)) /\ faults' \in faults..MaxFaults
  <2>1. PICK w \in {w1, w2} : run' = [run EXCEPT ![t] = w]
    BY <1>2, <1>r
  <2> QED
    BY <1>2, <2>1, <1>f, <1>w, <1>k, AdvanceKept
<1> QED
  BY <1>1, <1>2, <1>c, <1>k DEF Update, Raises, BoundsAssumption

LEMMA StampsKept ==
  ASSUME BoundsAssumption, IInv, NEW t \in Threads, Stamps(t) PROVE IInv'
<1> DEFINE r == run[t].row
           v == [rows[r] EXCEPT !.status = "running", !.committed = TRUE, !.resumable = TRUE]
<1>1. run[t].at = "stamp" /\ run[t].at \in PastPlaces /\ run[t].at \in Working
  BY DEF Stamps, At, PastPlaces, Working
<1>2. r \in Targets /\ rows[r] \in Rows /\ On(t, r) /\ Tells(run[t], rows[r], r) /\ RowInv(r)
  BY <1>1, RunnerKnows, WorkerKnows DEF On
<1>3. /\ v \in Rows /\ v.source = rows[r].source /\ v.status = "running"
      /\ v.submitted = rows[r].submitted /\ v.changed = rows[r].changed
      /\ v.committed = TRUE /\ v.finalized = rows[r].finalized
  BY <1>2 DEF Rows, Holding
<1>4. Update(t, [rows EXCEPT ![r] = v], "finalize") /\ Others /\ active' = active
  BY DEF Stamps, Others
<1>5. email # rows[r].source /\ (rows[r].finalized => mailbox[r] = "finalized")
  BY <1>1, <1>2 DEF Tells, RowInv, Mail
<1> HIDE DEF r, v
<1> QED
  BY <1>1, <1>2, <1>3, <1>4, <1>5, Updates

LEMMA PersistsKept ==
  ASSUME BoundsAssumption, IInv, NEW t \in Threads, Persists(t) PROVE IInv'
<1> DEFINE r == run[t].row
           v == [rows[r] EXCEPT !.status = "running", !.finalized = TRUE]
<1>1. run[t].at = "persist" /\ run[t].at \in PastPlaces /\ run[t].at \in Working
  BY DEF Persists, At, PastPlaces, Working
<1>2. r \in Targets /\ rows[r] \in Rows /\ On(t, r) /\ Tells(run[t], rows[r], r) /\ RowInv(r)
  BY <1>1, RunnerKnows, WorkerKnows DEF On
<1>3. /\ v \in Rows /\ v.source = rows[r].source /\ v.status = "running"
      /\ v.submitted = rows[r].submitted /\ v.changed = rows[r].changed
      /\ v.committed = rows[r].committed
  BY <1>2 DEF Rows, Holding
<1>4. Update(t, [rows EXCEPT ![r] = v], "done") /\ Others /\ active' = active
  <2>1. [rows EXCEPT ![r].status = "running", ![r].finalized = TRUE] = [rows EXCEPT ![r] = v]
    BY <1>2 DEF IInv, Typed
  <2> QED
    BY <2>1 DEF Persists, Others
<1>5. email # rows[r].source /\ mailbox[r] = "finalized"
  BY <1>1, <1>2 DEF Tells, RowInv, Mail
<1>6. v.committed = (rows[r].committed \/ run[t].at # "persist")
  BY <1>1, <1>2, <1>3 DEF Rows
<1> HIDE DEF r, v
<1> QED
  BY <1>1, <1>2, <1>3, <1>4, <1>5, <1>6, Updates

LEMMA CompletesKept ==
  ASSUME BoundsAssumption, IInv, NEW t \in Threads, Completes(t) PROVE IInv'
<1> DEFINE r == run[t].row
           v == [rows[r] EXCEPT !.status = "done", !.committed = TRUE, !.finalized = TRUE,
                                !.resumable = FALSE]
<1>1. run[t].at = "done" /\ run[t].at \in PastPlaces /\ run[t].at \in Working
  BY DEF Completes, At, PastPlaces, Working
<1>2. r \in Targets /\ rows[r] \in Rows /\ On(t, r) /\ Tells(run[t], rows[r], r) /\ RowInv(r)
  BY <1>1, RunnerKnows, WorkerKnows DEF On
<1>3. /\ v \in Rows /\ v.source = rows[r].source /\ v.status = "done"
      /\ v.submitted = rows[r].submitted /\ v.changed = rows[r].changed
      /\ v.committed = TRUE /\ v.finalized = TRUE
  BY <1>2 DEF Rows
<1>4. Update(t, [rows EXCEPT ![r] = v], "over") /\ Others /\ active' = active
  BY DEF Completes, Others
<1>5. email # rows[r].source /\ mailbox[r] = "finalized"
  BY <1>1, <1>2 DEF Tells, RowInv, Mail
<1> HIDE DEF r, v
<1> QED
  BY <1>1, <1>2, <1>3, <1>4, <1>5, Updates

LEMMA TaskBeginsKept ==
  ASSUME BoundsAssumption, IInv, NEW t \in Threads, TaskBegins(t) PROVE IInv'
<1> DEFINE r == run[t].row
<1>1. run[t].at = "begin" /\ run[t].at \in Working
  BY DEF TaskBegins, At, Working
<1>2. r \in Targets /\ On(t, r) /\ run[t] \in Runs /\ faults \in 0..MaxFaults /\ active \subseteq Targets
  BY <1>1, RunnerKnows, WorkerKnows DEF On
<1>3. Others /\ rows' = rows /\ active' \subseteq Targets
  BY <1>2 DEF TaskBegins, Others
<1>4. PICK place \in {"load", "reconcile", "over"} :
        /\ To(t, place) /\ faults' \in faults..MaxFaults
        /\ faults' = 0 => place # "over"
  BY <1>2 DEF TaskBegins, Raises, BoundsAssumption
<1>5. place \in RunPlaces \ {"idle"} /\ place \notin HotPlaces \cup PastPlaces \cup {"failing"}
  BY DEF RunPlaces, Acting, Working, HotPlaces, PastPlaces
<1>6. Tells([run[t] EXCEPT !.at = place], rows[r], r)
  <2> DEFINE w == [run[t] EXCEPT !.at = place]
  <2>1. w.at = place
    BY <1>2 DEF Runs
  <2> HIDE DEF w
  <2> QED
    BY <2>1, <1>5 DEF Tells, PastPlaces, HotPlaces
<1> HIDE DEF r
<1> QED
  BY <1>1, <1>2, <1>3, <1>4, <1>5, <1>6, Walks DEF PastPlaces

LEMMA GoesWrongKept ==
  ASSUME BoundsAssumption, IInv, NEW t \in Threads, GoesWrong(t) PROVE IInv'
<1> DEFINE r == run[t].row
<1>1. run[t].at \in PastPlaces /\ run[t].at \in Working
  BY DEF GoesWrong, PastPlaces, Working
<1>2. /\ r \in Targets /\ On(t, r) /\ run[t] \in Runs /\ Tells(run[t], rows[r], r)
      /\ faults \in 0..MaxFaults
  BY <1>1, RunnerKnows, WorkerKnows DEF On, PastPlaces
<1>3. run[t].crossed = TRUE /\ Crossed(r)
  BY <1>1, <1>2 DEF Tells, Runs, Crossed
<1>4. Others /\ rows' = rows /\ active' = active /\ faults' \in faults..MaxFaults
  BY <1>2 DEF GoesWrong, Others, Raises, BoundsAssumption
<1>5. \E stopped \in BOOLEAN : Error(t, TRUE, TRUE, stopped)
  BY <1>3 DEF GoesWrong, Stops, Breaks, Fails
<1> HIDE DEF r
<1> QED
  BY <1>1, <1>2, <1>3, <1>4, <1>5, Falls

LEMMA LoggedInKept ==
  ASSUME BoundsAssumption, IInv, NEW t \in Threads, LoggedIn(t) PROVE IInv'
<1> DEFINE r == run[t].row
           w == [run[t] EXCEPT !.at = "commit"]
<1>1. run[t].at = "login" /\ run[t].at \in Working /\ "commit" \in RunPlaces \ {"idle"}
  BY DEF LoggedIn, At, PastPlaces, Working, RunPlaces, Acting
<1>2. /\ r \in Targets /\ On(t, r) /\ run[t] \in Runs /\ Tells(run[t], rows[r], r)
      /\ faults \in 0..MaxFaults /\ active \subseteq Targets
  BY <1>1, RunnerKnows, WorkerKnows DEF On
<1>3. /\ Others /\ rows' = rows /\ active' \subseteq Targets /\ faults' \in faults..MaxFaults
      /\ To(t, "commit") /\ remote = r
  BY <1>2 DEF LoggedIn, Others, BoundsAssumption
<1>4. w.at = "commit" /\ w.crossed = run[t].crossed
  BY <1>2 DEF Runs
<1> HIDE DEF r
<1>5. Tells(w, rows[r], r)
  <2> HIDE DEF w
  <2> QED
    BY <1>1, <1>2, <1>3, <1>4 DEF Tells, PastPlaces, HotPlaces
<1> QED
  BY <1>1, <1>2, <1>3, <1>5, Walks DEF HotPlaces

LEMMA HandlesKept ==
  ASSUME BoundsAssumption, IInv, NEW t \in Threads, Handles(t) PROVE IInv'
<1> DEFINE r == run[t].row
           v == [rows[r] EXCEPT !.status = IF run[t].crossed THEN "partial" ELSE "failed",
                                !.resumable = run[t].crossed \/ run[t].retry]
<1>1. run[t].at = "failing" /\ run[t].at \in Working
  BY DEF Handles, At, Working
<1>2. r \in Targets /\ On(t, r)
  BY <1>1, RunnerKnows DEF On
<1>k. /\ Acts(t, r) /\ run[t] \in Runs /\ rows[r] \in Rows
      /\ rows[r].status \notin {"none", "created"}
      /\ Tells(run[t], rows[r], r) /\ RowInv(r)
      /\ ~GivenBack(r) /\ (Unsettled(r) => rows[r].status = "running")
      /\ rows = [rows EXCEPT ![r] = rows[r]] /\ faults \in 0..MaxFaults /\ active \subseteq Targets
  BY <1>1, <1>2, WorkerKnows
<1>3. /\ v \in Rows /\ v.source = rows[r].source /\ v.status \in {"failed", "partial"}
      /\ v.resumable = (run[t].crossed \/ run[t].retry)
      /\ v.submitted = rows[r].submitted /\ v.changed = rows[r].changed
      /\ v.committed = rows[r].committed /\ v.finalized = rows[r].finalized
  BY <1>k DEF Rows, Runs, Holding
<1>4. [rows EXCEPT ![r].status = IF run[t].crossed THEN "partial" ELSE "failed",
                   ![r].resumable = run[t].crossed \/ run[t].retry] = [rows EXCEPT ![r] = v]
  BY <1>2 DEF IInv, Typed
<1>5. Others /\ active' = active /\ faults' \in faults..MaxFaults
  BY <1>k DEF Handles, Others, Raises, BoundsAssumption
<1>6. \/ /\ ~Clashes(r, [rows EXCEPT ![r] = v]) /\ rows' = [rows EXCEPT ![r] = v]
         /\ To(t, IF run[t].stopped THEN "reconcile" ELSE "over")
      \/ Clashes(r, [rows EXCEPT ![r] = v]) /\ To(t, "over") /\ rows' = rows
      \/ /\ ~Clashes(r, [rows EXCEPT ![r] = v]) /\ rows' \in {rows, [rows EXCEPT ![r] = v]}
         /\ faults' # 0 /\ To(t, "over")
  BY <1>4, <1>k DEF Handles, Raises
<1> HIDE DEF v
<1>7. Clashes(r, [rows EXCEPT ![r] = v]) <=> Taken(r)
  BY <1>2, <1>3 DEF Clashes, IInv, Typed, Holding
<1>8. Taken(r) => rows[r].status \notin Holding
  BY <1>2 DEF Taken, IInv, OneHeld, Held
<1>9. ASSUME NEW place \in {"reconcile", "over"}, To(t, place), rows' = rows,
             faults' = 0 => rows[r].status # "running"
      PROVE  IInv'
  <2> DEFINE w == [run[t] EXCEPT !.at = place]
  <2>1. w \in Runs /\ w.row = r /\ w.at = place
    BY <1>k DEF Runs, RunPlaces, Acting
  <2>2. run' = [run EXCEPT ![t] = w]
    BY <1>9 DEF To
  <2> HIDE DEF w
  <2>3. Unsettled(r) /\ rows[r].resumable /\ rows[r].status \in {"failed", "partial"} => w.at = "over"
    BY <1>k
  <2>4. Fits(t, r, rows[r], w)
    BY <1>k, <2>1, <2>3 DEF Fits, Tells, RunPlaces, Acting, Working, HotPlaces, PastPlaces, Held,
                             RowInv, Committed, Mail, Crossed
  <2>5. faults' = 0 => Lasts(r, rows[r], w)
    BY <1>k, <1>5, <1>9, <2>1 DEF Lasts, RowInv, Ends
  <2> QED
    BY <1>2, <1>5, <1>9, <1>k, <2>1, <2>2, <2>4, <2>5, AdvanceKept
<1>10. ASSUME NEW place \in {"reconcile", "over"}, To(t, place), rows' = [rows EXCEPT ![r] = v],
              ~Taken(r), place = "reconcile" => run[t].stopped
       PROVE  IInv'
  <2> DEFINE w == [run[t] EXCEPT !.at = place]
  <2>1. w \in Runs /\ w.row = r /\ w.at = place
    BY <1>k DEF Runs, RunPlaces, Acting
  <2>2. run' = [run EXCEPT ![t] = w]
    BY <1>10 DEF To
  <2> HIDE DEF w
  <2>3. Unsettled(r) /\ v.resumable => w.at = "over"
    <3>1. Unsettled(r) => ~Crossed(r)
      <4>1. ASSUME NEW u \in Threads, On(u, r), run[u].at \in HotPlaces PROVE FALSE
        <5>1. Unsettled(r) /\ Acts(u, r)
          BY <4>1 DEF Unsettled, Acts, Acting, Working
        <5>2. u = t
          BY <5>1, <1>k DEF RowInv, Solo
        <5> QED
          BY <4>1, <5>2, <1>1 DEF HotPlaces
      <4> QED
        BY <4>1 DEF Unsettled
    <3> QED
      BY <3>1, <1>1, <1>3, <1>k, <1>10, <2>1 DEF Tells, Crossed
  <2>4. Fits(t, r, v, w)
    BY <1>k, <1>3, <1>10, <2>1, <2>3 DEF Fits, Tells, RunPlaces, Acting, Working, HotPlaces, PastPlaces,
                             Held, Holding, RowInv, Committed, Mail, Crossed
  <2>5. faults' = 0 => Lasts(r, v, w)
    <3>1. faults' = 0 => faults = 0
      BY <1>5, <1>k
    <3>2. faults = 0 /\ Crossed(r) => run[t].crossed \/ run[t].retry
      BY <1>1, <1>2, <1>k DEF RowInv, Ends
    <3> QED
      BY <3>1, <3>2, <1>3, <2>1 DEF Lasts
  <2> QED
    BY <1>2, <1>3, <1>5, <1>10, <1>k, <2>1, <2>2, <2>4, <2>5, AdvanceKept
<1> QED
  BY <1>6, <1>7, <1>8, <1>9, <1>10 DEF Holding

\* A row that is at work and not settled is the account's, unchanged at OpenAI.
LEMMA UnsettledIsUnchanged ==
  ASSUME BoundsAssumption, IInv, NEW r \in Targets, Held(r), ~Crossed(r) PROVE remote = email
<1> SUFFICES ASSUME remote # email PROVE FALSE
  OBVIOUS
<1>1. remote \in Targets /\ Held(remote) /\ Crossed(remote)
  BY DEF IInv, Known
<1>2. remote = r
  BY <1>1 DEF IInv, OneHeld
<1> QED
  BY <1>1, <1>2

LEMMA BeginsKept ==
  ASSUME BoundsAssumption, IInv, NEW t \in Threads, Begins(t) PROVE IInv'
<1> DEFINE r == run[t].row
           crossed == Crossed(r) \/ email = r \/ rows[r].committed
           v1 == [rows[r] EXCEPT !.status = "running", !.resumable = FALSE,
                                 !.committed = rows[r].committed \/ email = r]
           v2 == [rows[r] EXCEPT !.status = "running", !.resumable = FALSE]
           w1 == [run[t] EXCEPT !.at = Resumes(r), !.crossed = crossed, !.retry = crossed]
           w2 == [run[t] EXCEPT !.at = "failing", !.crossed = Crossed(r), !.retry = Crossed(r),
                                !.stopped = FALSE]
<1>1. run[t].at = "load" /\ run[t].at \in Working
  BY DEF Begins, At, Working
<1>2. r \in Targets /\ On(t, r)
  BY <1>1, RunnerKnows DEF On
<1>k. /\ Acts(t, r) /\ run[t] \in Runs /\ rows[r] \in Rows
      /\ rows[r].status \notin {"none", "created"}
      /\ Tells(run[t], rows[r], r) /\ RowInv(r)
      /\ ~GivenBack(r) /\ (Unsettled(r) => rows[r].status = "running")
      /\ rows = [rows EXCEPT ![r] = rows[r]] /\ faults \in 0..MaxFaults /\ active \subseteq Targets
  BY <1>1, <1>2, WorkerKnows
<1>c. /\ Crossed(r) \in BOOLEAN /\ crossed = Crossed(r)
      /\ email = r => rows[r].source # email
      /\ rows[r].committed => rows[r].source # email
  BY <1>k DEF Crossed, RowInv, Committed, Sourced, Rows
<1>p. Resumes(r) \in {"done", "finalize", "failing", "login", "asking"}
  BY DEF Resumes
<1>3. /\ v1 \in Rows /\ v1.source = rows[r].source /\ v1.status = "running" /\ ~v1.resumable
      /\ v1.submitted = rows[r].submitted /\ v1.changed = rows[r].changed
      /\ v1.committed = (rows[r].committed \/ email = r) /\ v1.finalized = rows[r].finalized
      /\ v2 \in Rows /\ v2.source = rows[r].source /\ v2.status = "running" /\ ~v2.resumable
      /\ v2.submitted = rows[r].submitted /\ v2.changed = rows[r].changed
      /\ v2.committed = rows[r].committed /\ v2.finalized = rows[r].finalized
  BY <1>k DEF Rows, Holding
<1>4. /\ w1 \in Runs /\ w1.row = r /\ w1.at = Resumes(r) /\ w1.crossed = crossed /\ w1.retry = crossed
      /\ w2 \in Runs /\ w2.row = r /\ w2.at = "failing" /\ w2.crossed = Crossed(r)
      /\ w2.retry = Crossed(r) /\ ~w2.stopped
  BY <1>k, <1>c, <1>p DEF Runs, RunPlaces, Acting, Working, HotPlaces, PastPlaces, On
<1>5. [[rows EXCEPT ![r] = v1] EXCEPT ![r].committed = rows[r].committed] = [rows EXCEPT ![r] = v2]
  <2>1. [v1 EXCEPT !.committed = rows[r].committed] = v2
    BY <1>k DEF Rows
  <2>2. [[rows EXCEPT ![r] = v1] EXCEPT ![r].committed = rows[r].committed]
          = [rows EXCEPT ![r] = [v1 EXCEPT !.committed = rows[r].committed]]
    <3> HIDE DEF v1
    <3> QED
      BY <1>2 DEF IInv, Typed
  <2> QED
    BY <2>1, <2>2
<1>6. Others /\ active' = active /\ faults' \in faults..MaxFaults
  <2>1. Others /\ active' = active
    BY DEF Begins, Others
  <2>2. faults' = faults \/ Raises
    BY DEF Begins
  <2> QED
    BY <2>1, <2>2, <1>k DEF Raises, BoundsAssumption
<1>7. \/ /\ ~Clashes(r, [rows EXCEPT ![r] = v1]) /\ rows' = [rows EXCEPT ![r] = v1]
         /\ run' = [run EXCEPT ![t] = w1]
      \/ (\E stopped \in BOOLEAN : Error(t, Crossed(r), Crossed(r), stopped)) /\ rows' = rows
      \/ /\ ~Clashes(r, [rows EXCEPT ![r] = v1]) /\ rows' = [rows EXCEPT ![r] = v2]
         /\ Error(t, Crossed(r), Crossed(r), FALSE)
  <2> DEFINE stated == [rows EXCEPT ![r] = v1]
             partial == [stated EXCEPT ![r].committed = rows[r].committed]
  <2>1. \/ ~Clashes(r, stated) /\ rows' = stated /\ run' = [run EXCEPT ![t] = w1]
        \/ Error(t, Crossed(r), Crossed(r), TRUE) /\ rows' = rows
        \/ Error(t, Crossed(r), Crossed(r), FALSE) /\ rows' = rows
        \/ /\ ~Clashes(r, stated) /\ rows' \in {rows, partial}
           /\ Error(t, Crossed(r), Crossed(r), FALSE)
    BY Zenon DEF Begins
  <2> HIDE DEF v1, w1
  <2>2. partial = [rows EXCEPT ![r] = v2]
    BY <1>5
  <2> HIDE DEF stated, partial
  <2> QED
    BY <2>1, <2>2 DEF stated
<1>8. Clashes(r, [rows EXCEPT ![r] = v1]) <=> Taken(r)
  BY <1>2, <1>3 DEF Clashes, IInv, Typed, Holding
<1>h. Error(t, Crossed(r), Crossed(r), FALSE) => run' = [run EXCEPT ![t] = w2]
  BY DEF Error
<1>t. /\ Resumes(r) \in {"done", "finalize"} => email = r /\ Crossed(r)
      /\ Resumes(r) = "done" => mailbox[r] = "finalized"
      /\ Resumes(r) = "login" => Crossed(r)
      /\ Resumes(r) = "asking" =>
           /\ ~Crossed(r) /\ email = rows[r].source /\ remote = rows[r].source
           /\ ~rows[r].submitted /\ ~rows[r].changed
  <2>1. ~Crossed(r) => remote = email
    BY <1>2, <1>k, UnsettledIsUnchanged DEF Unsettled, Held, Holding
  <2> QED
    BY <1>k, <1>c, <2>1 DEF Resumes, RowInv, Committed, Mail, Crossed
<1> HIDE DEF r, v1, v2, w1, w2, crossed
<1>9. ASSUME NEW stopped \in BOOLEAN, Error(t, Crossed(r), Crossed(r), stopped), rows' = rows
      PROVE  IInv'
  BY <1>1, <1>2, <1>c, <1>6, <1>9, Falls
<1>10. ASSUME ~Taken(r) PROVE Fits(t, r, v1, w1) /\ Lasts(r, v1, w1)
  BY <1>10, <1>k, <1>c, <1>p, <1>3, <1>4, <1>t
  DEF Fits, Lasts, Tells, RunPlaces, Acting, Working, HotPlaces, PastPlaces, Holding,
      RowInv, Committed, Mail, Crossed
<1>11. ASSUME ~Taken(r) PROVE Fits(t, r, v2, w2) /\ Lasts(r, v2, w2)
  BY <1>11, <1>k, <1>c, <1>3, <1>4
  DEF Fits, Lasts, Tells, RunPlaces, Acting, Working, HotPlaces, PastPlaces, Holding,
      RowInv, Committed, Mail, Crossed
<1>12. CASE ~Taken(r) /\ rows' = [rows EXCEPT ![r] = v1] /\ run' = [run EXCEPT ![t] = w1]
  BY <1>12, <1>2, <1>3, <1>4, <1>6, <1>k, <1>10, AdvanceKept
<1>13. CASE ~Taken(r) /\ rows' = [rows EXCEPT ![r] = v2] /\ run' = [run EXCEPT ![t] = w2]
  BY <1>13, <1>2, <1>3, <1>4, <1>6, <1>k, <1>11, AdvanceKept
<1> QED
  BY <1>7, <1>8, <1>h, <1>9, <1>12, <1>13

LEMMA ReconcilesKept ==
  ASSUME BoundsAssumption, IInv, NEW t \in Threads, Reconciles(t) PROVE IInv'
<1> DEFINE r == run[t].row
           v == IF rows[r].status # "running" THEN rows[r]
                ELSE [rows[r] EXCEPT !.status = IF Crossed(r) THEN "partial" ELSE "failed",
                                     !.resumable = Crossed(r)]
           w == [run[t] EXCEPT !.at = "over"]
<1>1. run[t].at = "reconcile"
  BY DEF Reconciles, At
<1>2. /\ r \in Targets /\ Acts(t, r) /\ rows[r] \in Rows /\ run[t] \in Runs
      /\ rows[r].status \notin {"none", "created"} /\ RowInv(r)
      /\ faults \in 0..MaxFaults /\ active \subseteq Targets
  BY <1>1, RunnerKnows DEF Acts, Acting, On, IInv, Typed
<1>3. /\ v \in Rows /\ v.source = rows[r].source
      /\ v.submitted = rows[r].submitted /\ v.changed = rows[r].changed
      /\ v.committed = rows[r].committed /\ v.finalized = rows[r].finalized
      /\ v = rows[r] \/ /\ rows[r].status = "running" /\ v.status \in {"partial", "failed"}
                        /\ v.resumable = Crossed(r)
      /\ v.status # "running"
  BY <1>2 DEF Rows, Holding, Crossed
<1>4. w \in Runs /\ w.row = r /\ w.at = "over" /\ run' = [run EXCEPT ![t] = w]
  BY <1>2 DEF Runs, RunPlaces, Reconciles, To
<1>5. rows' = [rows EXCEPT ![r] = v]
  <2>1. CASE rows[r].status # "running"
    BY <2>1, <1>2 DEF Reconciles, IInv, Typed
  <2>2. CASE rows[r].status = "running"
    BY <2>2, <1>2 DEF Reconciles, IInv, Typed
  <2> QED
    BY <2>1, <2>2
<1>6. Others /\ active' = active /\ faults' \in faults..MaxFaults
  BY <1>2 DEF Reconciles, Others, BoundsAssumption
<1>7. v = rows[r] \/ Crossed(r) = v.resumable
  BY <1>3
<1> HIDE DEF r, v, w
<1>8. Fits(t, r, v, w)
  BY <1>2, <1>3, <1>4 DEF Fits, Tells, RunPlaces, Acting, Working, HotPlaces, PastPlaces, Held, Holding,
                           RowInv, Committed, Mail, Crossed, Back
<1>9. faults' = 0 => Lasts(r, v, w)
  BY <1>2, <1>3, <1>4, <1>6 DEF Lasts, RowInv, Ends
<1> QED
  BY <1>2, <1>3, <1>4, <1>5, <1>6, <1>8, <1>9, AdvanceKept

-----------------------------------------------------------------------------
(* Steps of the runner that sends the code and learns what it did. *)

\* It is alone with its row, whose change has not reached the account.
LEMMA HotKnows ==
  ASSUME BoundsAssumption, IInv, NEW t \in Threads, run[t].at \in HotPlaces, NEW r \in Targets, On(t, r)
  PROVE  /\ Acts(t, r) /\ run[t] \in Runs /\ rows[r] \in Rows
         /\ Tells(run[t], rows[r], r) /\ RowInv(r) /\ ~GivenBack(r)
         /\ rows[r].status = "running" /\ ~rows[r].committed /\ ~rows[r].changed
         /\ email = rows[r].source /\ email # r /\ remote \in {r, email}
         /\ \A u \in Threads : Acts(u, r) => u = t
         /\ \A c \in Callers : ~Launching(c, r)
         /\ rows = [rows EXCEPT ![r] = rows[r]] /\ faults \in 0..MaxFaults /\ active \subseteq Targets
<1>k. /\ Acts(t, r) /\ run[t] \in Runs /\ rows[r] \in Rows
      /\ rows[r].status \notin {"none", "created"}
      /\ Tells(run[t], rows[r], r) /\ RowInv(r)
      /\ ~GivenBack(r) /\ (Unsettled(r) => rows[r].status = "running")
      /\ rows = [rows EXCEPT ![r] = rows[r]] /\ faults \in 0..MaxFaults /\ active \subseteq Targets
  BY WorkerKnows DEF Working
<1>1. Unsettled(r)
  BY DEF Unsettled
<1>2. /\ \A u \in Threads : Acts(u, r) => u = t
      /\ \A c \in Callers : ~Launching(c, r)
  BY <1>k, <1>1 DEF RowInv, Solo
<1>3. /\ email = rows[r].source /\ ~rows[r].changed /\ rows[r].source # r /\ ~rows[r].committed
      /\ remote \in {r, email}
  BY <1>k DEF Tells, HotPlaces, RowInv, Sourced, Committed
<1> QED
  BY <1>k, <1>1, <1>2, <1>3

LEMMA HotKept ==
  ASSUME BoundsAssumption, IInv, NEW t \in Threads, run[t].at \in HotPlaces, NEW r \in Targets, On(t, r),
         NEW v \in Rows, NEW w \in Runs,
         rows' = [rows EXCEPT ![r] = v], run' = [run EXCEPT ![t] = w],
         UNCHANGED <<email, mailbox, active, api, asked, crashes>>, faults' \in faults..MaxFaults,
         remote' \in {remote, r}, remote' = r => v.submitted,
         v.status = rows[r].status, v.source = rows[r].source, v.changed = rows[r].changed,
         v.committed = rows[r].committed, v.finalized = rows[r].finalized,
         v.resumable = rows[r].resumable,
         w.row = r, w.at \in HotPlaces \cup {"failing"}, w.at \in HotPlaces => ~w.crossed,
         w.at = "asking" => ~v.submitted,
         w.at = "verify" => v.submitted /\ remote' = email,
         w.at = "answer" => v.submitted,
         w.at = "failing" /\ w.stopped /\ (w.crossed \/ w.retry) => v.submitted,
         faults' = 0 /\ w.at = "failing" /\ v.submitted => w.crossed \/ w.retry
  PROVE  IInv'
<1>a. /\ Typed /\ OneHeld /\ Places /\ Known
      /\ \A q \in Targets : RowInv(q)
      /\ \A c \in Callers : Inserting(c)
      /\ \A u \in Threads, q \in Targets : Told(u, q)
  BY DEF IInv
<1>k. /\ Acts(t, r) /\ run[t] \in Runs /\ rows[r] \in Rows
      /\ Tells(run[t], rows[r], r) /\ RowInv(r) /\ ~GivenBack(r)
      /\ rows[r].status = "running" /\ ~rows[r].committed /\ ~rows[r].changed
      /\ email = rows[r].source /\ email # r /\ remote \in {r, email}
      /\ \A u \in Threads : Acts(u, r) => u = t
      /\ \A c \in Callers : ~Launching(c, r)
      /\ rows = [rows EXCEPT ![r] = rows[r]] /\ faults \in 0..MaxFaults /\ active \subseteq Targets
  BY HotKnows
<1>o. r # Original /\ Original \notin Targets /\ w.at \notin {"idle", "over", "reconcile"} /\ w.at \in Working
  BY DEF BoundsAssumption, HotPlaces, Working
<1>b. /\ \A u \in Threads \ {t} : run'[u] = run[u]
      /\ \A q \in Targets \ {r} : rows'[q] = rows[q]
      /\ email' = email /\ mailbox' = mailbox /\ api' = api
      /\ run'[t] = w /\ w.row = r /\ run[t].row = r /\ rows'[r] = v
      /\ run' \in [Threads -> Runs] /\ rows' \in [Targets -> Rows]
  BY <1>a DEF Typed, On
<1>1. Typed'
  BY <1>a, <1>b DEF Typed, BoundsAssumption, Emails
<1>2. OneHeld'
  BY <1>a, <1>b DEF OneHeld, Held
<1>3. Places'
  BY <1>a, <1>b, <1>o DEF Places, HotPlaces
<1>4. Known'
  BY <1>b, <1>k DEF Known, Held, Holding, Crossed
<1>5. ASSUME NEW q \in Targets PROVE RowInv(q)'
  <2>l. Launches(q)' <=> Launches(q)
    BY <1>b DEF Launching, Launches
  <2>c. q # r => (Crossed(q)' <=> Crossed(q))
    BY <1>b DEF Crossed
  <2>h. q # r => (Unsettled(q)' <=> Unsettled(q))
    BY <1>b, <2>c DEF Unsettled, On
  <2>g. GivenBack(q)' <=> GivenBack(q)
    BY <1>b, <1>k DEF GivenBack
  <2>1. Fresh(q)'
    <3>1. Fresh(q)
      BY <1>a DEF RowInv
    <3>2. CASE q # r
      BY <3>1, <3>2, <1>b, <2>c, <2>l DEF Fresh, On
    <3>3. CASE q = r
      BY <3>1, <3>3, <1>b, <1>k DEF Fresh
    <3> QED
      BY <3>2, <3>3
  <2>2. Solo(q)'
    <3>1. Solo(q)
      BY <1>a DEF RowInv
    <3>2. CASE q # r
      BY <3>1, <3>2, <1>b, <2>h, <2>l DEF Solo, Acts, Works, On, Launching
    <3>3. CASE q = r
      <4>1. \A u \in Threads : run'[u].row = q /\ run'[u].at \in Acting => u = t
        BY <3>3, <1>k, <1>b DEF Acts, On
      <4>2. ~Launches(q)' /\ \A c \in Callers : ~(api'[c].row = q /\ api'[c].at = "launching")
        BY <3>3, <1>k, <2>l, <1>b DEF Launches, Launching
      <4> QED
        BY <3>3, <4>1, <4>2, <1>b, <1>k DEF Solo, Works, Launching, Acts, On, Acting
    <3> QED
      BY <3>2, <3>3
  <2>3. Back(q)'
    <3>1. Back(q)
      BY <1>a DEF RowInv
    <3> QED
      BY <3>1, <1>b, <1>k, <2>c, <2>g, <2>l DEF Back, Works, On
  <2>4. Mail(q)'
    <3>1. Mail(q)
      BY <1>a DEF RowInv
    <3> QED
      BY <3>1, <1>b, <1>o, <1>k DEF Mail, On, HotPlaces
  <2>5. Sourced(q)'
    <3>1. Sourced(q) /\ Sourced(r)
      BY <1>a DEF RowInv
    <3> QED
      BY <3>1, <1>b, <1>k DEF Sourced
  <2>6. Committed(q)'
    <3>1. Committed(q)
      BY <1>a DEF RowInv
    <3>2. CASE q # r
      BY <3>1, <3>2, <1>b, <1>k, <2>c DEF Committed
    <3>3. CASE q = r
      BY <3>3, <1>b, <1>k DEF Committed, Crossed
    <3> QED
      BY <3>2, <3>3
  <2>7. Ends(q)'
    <3>1. Ends(q) /\ (faults' = 0 => faults = 0)
      BY <1>a, <1>k DEF RowInv
    <3>2. CASE q # r
      BY <3>1, <3>2, <1>b, <2>c, <2>l DEF Ends, On
    <3>3. CASE q = r
      <4>1. \A u \in Threads : run'[u].row = q /\ run'[u].at = "failing" => u = t
        BY <3>3, <1>k, <1>b DEF Acts, On, Acting, Working
      <4>2. faults' = 0 /\ w.at = "failing" /\ v.submitted => w.crossed \/ w.retry
        OBVIOUS
      <4>3. Crossed(q)' <=> v.submitted
        BY <3>3, <1>b, <1>k DEF Crossed
      <4> QED
        BY <3>1, <3>3, <4>1, <4>2, <4>3, <1>b, <1>o, <1>k DEF Ends, On
    <3> QED
      BY <3>2, <3>3
  <2> QED
    BY <2>1, <2>2, <2>3, <2>4, <2>5, <2>6, <2>7 DEF RowInv
<1>6. ASSUME NEW c \in Callers PROVE Inserting(c)'
  BY <1>a, <1>b, <1>k DEF Inserting
<1>7. ASSUME NEW u \in Threads, NEW q \in Targets PROVE Told(u, q)'
  <2>1. CASE u = t
    BY <2>1, <1>b, <1>k, <1>o DEF Told, Tells, On, HotPlaces, PastPlaces
  <2>2. CASE u # t /\ q = r
    BY <2>2, <1>b, <1>k DEF Told, Tells, On, Acts, Acting, Working, HotPlaces, PastPlaces
  <2>3. CASE u # t /\ q # r /\ On(u, q)
    <3>1. Told(u, q) /\ RowInv(q)
      BY <1>a
    <3>2. run[u].at \notin HotPlaces
      <4> SUFFICES ASSUME run[u].at \in HotPlaces PROVE FALSE
        OBVIOUS
      <4>1. rows[q].status = "running"
        BY <2>3, HotKnows
      <4> QED
        BY <4>1, <2>3, <1>a, <1>k DEF OneHeld, Held, Holding
    <3>3. rows[q].status # "none" /\ rows[q].source # q
      BY <2>3, <3>1, RunnerKnows DEF RowInv, Sourced, Fresh
    <3> QED
      BY <2>3, <3>1, <3>2, <3>3, <1>b, <1>k DEF Told, Tells, On, HotPlaces
  <2>4. CASE u # t /\ ~On(u, q)
    BY <2>4, <1>b DEF Told, On
  <2> QED
    BY <2>1, <2>2, <2>3, <2>4
<1> QED
  BY <1>1, <1>2, <1>3, <1>4, <1>5, <1>6, <1>7 DEF IInv

\* A hot runner may fail before it has crossed the boundary, or say so.
LEMMA HotFalls ==
  ASSUME BoundsAssumption, IInv, NEW t \in Threads, run[t].at \in HotPlaces, NEW r \in Targets, On(t, r),
         NEW v \in Rows, rows' = [rows EXCEPT ![r] = v],
         NEW crossed \in BOOLEAN, NEW retry \in BOOLEAN, NEW stopped \in BOOLEAN,
         Error(t, crossed, retry, stopped),
         UNCHANGED <<remote, email, mailbox, active, api, asked, crashes>>, faults' \in faults..MaxFaults,
         remote = r => v.submitted,
         v.status = rows[r].status, v.source = rows[r].source, v.changed = rows[r].changed,
         v.committed = rows[r].committed, v.finalized = rows[r].finalized,
         v.resumable = rows[r].resumable,
         stopped /\ (crossed \/ retry) => v.submitted,
         faults' = 0 /\ v.submitted => crossed \/ retry
  PROVE  IInv'
<1> DEFINE w == [run[t] EXCEPT !.at = "failing", !.crossed = crossed, !.retry = retry,
                               !.stopped = stopped]
<1>1. run[t] \in Runs /\ run[t].row = r
  BY HotKnows DEF On
<1>2. /\ w \in Runs /\ w.row = r /\ w.at = "failing" /\ w.crossed = crossed
      /\ w.retry = retry /\ w.stopped = stopped /\ w.at \in HotPlaces \cup {"failing"}
      /\ w.at \notin HotPlaces
  BY <1>1 DEF Runs, RunPlaces, Acting, Working, HotPlaces
<1>3. run' = [run EXCEPT ![t] = w]
  BY DEF Error
<1>4. remote' \in {remote, r} /\ (remote' = r => v.submitted)
  OBVIOUS
<1> HIDE DEF w
<1> QED
  BY <1>2, <1>3, <1>4, HotKept DEF HotPlaces

LEMMA AsksKept ==
  ASSUME BoundsAssumption, IInv, NEW t \in Threads, Asks(t) PROVE IInv'
<1> DEFINE r == run[t].row
           v == [rows[r] EXCEPT !.submitted = TRUE]
           w == [run[t] EXCEPT !.at = "verify"]
<1>1. run[t].at = "asking" /\ run[t].at \in HotPlaces
  BY DEF Asks, At, HotPlaces
<1>2. r \in Targets /\ On(t, r)
  BY <1>1, RunnerKnows DEF On, HotPlaces
<1>k. /\ run[t] \in Runs /\ rows[r] \in Rows /\ Tells(run[t], rows[r], r)
      /\ rows[r].status = "running" /\ email # r /\ remote = email
      /\ run[t].crossed = FALSE /\ rows[r].submitted = FALSE
      /\ rows = [rows EXCEPT ![r] = rows[r]] /\ faults \in 0..MaxFaults
  BY <1>1, <1>2, HotKnows DEF Tells, Runs, Rows
<1>3. /\ v \in Rows /\ v.status = rows[r].status /\ v.source = rows[r].source
      /\ v.changed = rows[r].changed /\ v.committed = rows[r].committed
      /\ v.finalized = rows[r].finalized /\ v.resumable = rows[r].resumable /\ v.submitted = TRUE
  BY <1>k DEF Rows
<1>4. w \in Runs /\ w.row = r /\ w.at = "verify" /\ w.crossed = FALSE
  BY <1>k DEF Runs, RunPlaces, Acting, Working, HotPlaces
<1>5. [rows EXCEPT ![r].submitted = TRUE] = [rows EXCEPT ![r] = v]
  BY <1>2 DEF IInv, Typed
<1>6. UNCHANGED <<remote, email, mailbox, active, api, asked, crashes>>
  BY DEF Asks
<1>r. Raises => faults' # 0
  BY <1>k DEF Raises, BoundsAssumption
<1>7. \/ rows' = rows /\ \E retry, stopped \in BOOLEAN :
                           Error(t, FALSE, retry, stopped) /\ (stopped => ~retry)
      \/ rows' = [rows EXCEPT ![r] = v] /\ run' = [run EXCEPT ![t] = w]
      \/ rows' = [rows EXCEPT ![r] = v] /\ Error(t, FALSE, FALSE, FALSE) /\ faults' # 0
  BY <1>5, <1>k, <1>r DEF Asks, Update, Stops, Breaks, To
<1>8. faults' \in faults..MaxFaults
  <2>1. faults' = faults \/ Raises
    BY DEF Asks, Update
  <2> QED
    BY <2>1, <1>k DEF Raises, BoundsAssumption
<1> HIDE DEF r, v, w
<1>9. CASE rows' = rows /\ \E retry, stopped \in BOOLEAN :
                             Error(t, FALSE, retry, stopped) /\ (stopped => ~retry)
  BY <1>9, <1>1, <1>2, <1>k, <1>6, <1>8, HotFalls
<1>10. CASE rows' = [rows EXCEPT ![r] = v] /\ run' = [run EXCEPT ![t] = w]
  BY <1>10, <1>1, <1>2, <1>k, <1>3, <1>4, <1>6, <1>8, HotKept DEF HotPlaces
<1>11. CASE rows' = [rows EXCEPT ![r] = v] /\ Error(t, FALSE, FALSE, FALSE) /\ faults' # 0
  BY <1>11, <1>1, <1>2, <1>k, <1>3, <1>6, <1>8, HotFalls
<1> QED
  BY <1>7, <1>9, <1>10, <1>11

LEMMA VerifiesKept ==
  ASSUME BoundsAssumption, IInv, NEW t \in Threads, Verifies(t) PROVE IInv'
<1> DEFINE r == run[t].row
           w == [run[t] EXCEPT !.at = "answer"]
<1>1. run[t].at = "verify" /\ run[t].at \in HotPlaces
  BY DEF Verifies, At, HotPlaces
<1>2. r \in Targets /\ On(t, r)
  BY <1>1, RunnerKnows DEF On, HotPlaces
<1>k. /\ run[t] \in Runs /\ rows[r] \in Rows
      /\ email # r /\ remote = email
      /\ run[t].crossed = FALSE /\ rows[r].submitted = TRUE
      /\ rows = [rows EXCEPT ![r] = rows[r]] /\ faults \in 0..MaxFaults
  BY <1>1, <1>2, HotKnows DEF Tells, Runs, Rows
<1>4. w \in Runs /\ w.row = r /\ w.at = "answer" /\ w.crossed = FALSE
  BY <1>k DEF Runs, RunPlaces, Acting, Working, HotPlaces
<1>6. UNCHANGED <<email, mailbox, active, api, asked, crashes>> /\ rows' = rows
  BY DEF Verifies
<1>7. \/ remote' \in {remote, r} /\ run' = [run EXCEPT ![t] = w]
      \/ Error(t, TRUE, TRUE, TRUE) /\ remote' = remote
  BY DEF Verifies, To
<1>8. faults' \in faults..MaxFaults
  BY <1>k DEF Verifies, BoundsAssumption
<1> HIDE DEF r, w
<1>9. CASE Error(t, TRUE, TRUE, TRUE) /\ remote' = remote
  BY <1>9, <1>1, <1>2, <1>k, <1>6, <1>8, HotFalls
<1>10. CASE remote' \in {remote, r} /\ run' = [run EXCEPT ![t] = w]
  BY <1>10, <1>1, <1>2, <1>k, <1>4, <1>6, <1>8, HotKept DEF HotPlaces
<1> QED
  BY <1>7, <1>9, <1>10

LEMMA AnsweredKept ==
  ASSUME BoundsAssumption, IInv, NEW t \in Threads, Answered(t) PROVE IInv'
<1> DEFINE r == run[t].row
           v == [rows[r] EXCEPT !.submitted = FALSE]
           c == [rows[r] EXCEPT !.changed = TRUE]
           w == [run[t] EXCEPT !.at = "asking"]
           login == [run[t] EXCEPT !.at = "login", !.crossed = TRUE]
           fails == [run[t] EXCEPT !.at = "failing", !.crossed = TRUE, !.retry = TRUE, !.stopped = FALSE]
<1>1. run[t].at = "answer" /\ run[t].at \in HotPlaces
  BY DEF Answered, At, HotPlaces
<1>2. r \in Targets /\ On(t, r)
  BY <1>1, RunnerKnows DEF On, HotPlaces
<1>k. /\ Acts(t, r) /\ run[t] \in Runs /\ rows[r] \in Rows /\ RowInv(r) /\ ~GivenBack(r)
      /\ email = rows[r].source
      /\ rows[r].status = "running" /\ ~rows[r].committed /\ rows[r].changed = FALSE
      /\ run[t].crossed = FALSE /\ rows[r].submitted = TRUE
      /\ rows = [rows EXCEPT ![r] = rows[r]] /\ faults \in 0..MaxFaults /\ active \subseteq Targets
  BY <1>1, <1>2, HotKnows DEF Tells, Runs, Rows
<1>3. /\ v \in Rows /\ v.status = rows[r].status /\ v.source = rows[r].source
      /\ v.changed = rows[r].changed /\ v.committed = rows[r].committed
      /\ v.finalized = rows[r].finalized /\ v.resumable = rows[r].resumable /\ v.submitted = FALSE
      /\ c \in Rows /\ c.status = rows[r].status /\ c.source = rows[r].source
      /\ c.changed = TRUE /\ c.committed = rows[r].committed
      /\ c.finalized = rows[r].finalized /\ c.resumable = rows[r].resumable /\ c.submitted = TRUE
  BY <1>k DEF Rows
<1>4. /\ w \in Runs /\ w.row = r /\ w.at = "asking" /\ w.crossed = FALSE
      /\ login \in Runs /\ login.row = r /\ login.at = "login" /\ login.crossed = TRUE
      /\ fails \in Runs /\ fails.row = r /\ fails.at = "failing" /\ fails.crossed = TRUE
      /\ fails.stopped = FALSE
  BY <1>k DEF Runs, RunPlaces, Acting, Working, HotPlaces, PastPlaces
<1>5. /\ [rows EXCEPT ![r].submitted = FALSE] = [rows EXCEPT ![r] = v]
      /\ [rows EXCEPT ![r].changed = TRUE] = [rows EXCEPT ![r] = c]
  BY <1>2 DEF IInv, Typed
<1>6. UNCHANGED <<remote, email, mailbox, active, api, asked, crashes>>
  BY DEF Answered
<1>r. Raises => faults' # 0
  BY <1>k DEF Raises, BoundsAssumption
<1>7. \/ rows' = rows /\ Error(t, TRUE, TRUE, FALSE)
      \/ rows' = rows /\ Error(t, FALSE, FALSE, FALSE) /\ faults' # 0
      \/ rows' = [rows EXCEPT ![r] = c] /\ run' \in {[run EXCEPT ![t] = login], [run EXCEPT ![t] = fails]}
      \/ remote # r /\ rows' = [rows EXCEPT ![r] = v] /\ \E retry \in BOOLEAN : Error(t, FALSE, retry, FALSE)
      \/ remote # r /\ rows' = [rows EXCEPT ![r] = v] /\ run' = [run EXCEPT ![t] = w]
  <2>1. \/ Fails(t) /\ rows' = rows
        \/ rows' = [rows EXCEPT ![r] = c] /\ (run' = [run EXCEPT ![t] = login] \/ Fails(t))
        \/ remote # r /\ rows' = [rows EXCEPT ![r] = v] /\ \E retry \in BOOLEAN : Error(t, FALSE, retry, FALSE)
        \/ remote # r /\ rows' = [rows EXCEPT ![r] = v] /\ To(t, "asking")
        \/ Breaks(t) /\ Raises /\ rows' = rows
    BY <1>5 DEF Answered, Unknown
  <2> QED
    BY <2>1, <1>k, <1>r DEF Fails, Breaks, Error, To
<1>8. faults' \in faults..MaxFaults
  <2>1. faults' = faults \/ Raises
    BY DEF Answered
  <2> QED
    BY <2>1, <1>k DEF Raises, BoundsAssumption
<1> HIDE DEF r, v, c, w, login, fails
<1>9. CASE rows' = rows /\ Error(t, TRUE, TRUE, FALSE)
  BY <1>9, <1>1, <1>2, <1>k, <1>6, <1>8, HotFalls
<1>10. CASE rows' = rows /\ Error(t, FALSE, FALSE, FALSE) /\ faults' # 0
  BY <1>10, <1>1, <1>2, <1>k, <1>6, <1>8, HotFalls
<1>11. ASSUME NEW z \in {login, fails}, rows' = [rows EXCEPT ![r] = c], run' = [run EXCEPT ![t] = z]
       PROVE  IInv'
  <2>1. Fits(t, r, c, z)
    BY <1>11, <1>k, <1>3, <1>4
    DEF Fits, Tells, RunPlaces, Acting, Working, HotPlaces, PastPlaces, Held, Holding,
        RowInv, Committed, Mail, Crossed
  <2>2. Lasts(r, c, z)
    BY <1>11, <1>k, <1>3, <1>4 DEF Lasts
  <2> QED
    BY <1>11, <1>2, <1>k, <1>3, <1>4, <1>6, <1>8, <2>1, <2>2, AdvanceKept DEF Others
<1>12. CASE remote # r /\ rows' = [rows EXCEPT ![r] = v] /\ \E retry \in BOOLEAN : Error(t, FALSE, retry, FALSE)
  BY <1>12, <1>1, <1>2, <1>3, <1>6, <1>8, HotFalls
<1>13. CASE remote # r /\ rows' = [rows EXCEPT ![r] = v] /\ run' = [run EXCEPT ![t] = w]
  BY <1>13, <1>1, <1>2, <1>3, <1>4, <1>6, <1>8, HotKept DEF HotPlaces
<1> QED
  BY <1>7, <1>9, <1>10, <1>11, <1>12, <1>13

-----------------------------------------------------------------------------
(* The write of the account, the mailbox that is kept, and the end of a task. *)

\* A row whose change started from r comes after r's own.
LEMMA SourceIsBehind ==
  ASSUME BoundsAssumption, IInv, NEW r \in Targets, NEW y \in Targets,
         rows[y].status # "none", email = rows[r].source
  PROVE  rows[y].source # r
<1> SUFFICES ASSUME rows[y].source = r PROVE FALSE
  OBVIOUS
<1>1. rows[r].committed
  BY DEF IInv, RowInv, Sourced
<1> QED
  BY <1>1 DEF IInv, RowInv, Committed

LEMMA CommitsKept ==
  ASSUME BoundsAssumption, IInv, NEW t \in Threads, Commits(t) PROVE IInv'
<1> DEFINE r == run[t].row
           w == [run[t] EXCEPT !.at = "stamp"]
<1>1. run[t].at = "commit" /\ run[t].at \in PastPlaces /\ run[t].at \in Working
  BY DEF Commits, At, PastPlaces, Working
<1>2. r \in Targets /\ On(t, r)
  BY <1>1, RunnerKnows DEF On, PastPlaces
<1>k. /\ Acts(t, r) /\ run[t] \in Runs /\ rows[r] \in Rows
      /\ rows[r].status \notin {"none", "created"}
      /\ Tells(run[t], rows[r], r) /\ RowInv(r)
      /\ ~GivenBack(r) /\ (Unsettled(r) => rows[r].status = "running")
      /\ rows = [rows EXCEPT ![r] = rows[r]] /\ faults \in 0..MaxFaults /\ active \subseteq Targets
  BY <1>1, <1>2, WorkerKnows
<1>6. UNCHANGED <<remote, rows, mailbox, active, api, asked, faults, crashes>>
  BY DEF Commits
<1>7. \/ email = rows[r].source /\ email' = r /\ run' = [run EXCEPT ![t] = w]
      \/ Error(t, TRUE, TRUE, FALSE) /\ email' = email
  BY DEF Commits, To, Fails
<1>4. w \in Runs /\ w.row = r /\ w.at = "stamp" /\ w.crossed = run[t].crossed
  BY <1>k DEF Runs, RunPlaces, Acting, Working, PastPlaces
<1>f. faults' \in faults..MaxFaults
  BY <1>k, <1>6 DEF BoundsAssumption
<1> HIDE DEF r, w
<1>8. CASE Error(t, TRUE, TRUE, FALSE) /\ email' = email
  BY <1>8, <1>1, <1>2, <1>6, <1>f, Falls DEF Others
<1>9. CASE email = rows[r].source /\ email' = r /\ run' = [run EXCEPT ![t] = w]
  <2>a. /\ Typed /\ OneHeld /\ Places /\ Known
        /\ \A q \in Targets : RowInv(q)
        /\ \A c \in Callers : Inserting(c)
        /\ \A u \in Threads, q \in Targets : Told(u, q)
    BY DEF IInv
  <2>b. /\ \A u \in Threads \ {t} : run'[u] = run[u]
        /\ run'[t] = w /\ w.row = r /\ run[t].row = r /\ rows' = rows
        /\ api' = api /\ mailbox' = mailbox /\ email' = r /\ remote' = remote
        /\ run' \in [Threads -> Runs]
    BY <1>6, <1>9, <1>4, <1>2, <2>a DEF Typed, On
  <2>r. remote = r /\ email # r /\ Crossed(r) /\ run[t].crossed /\ rows[r].source # r
    BY <1>k, <1>1, <1>9 DEF Tells, RowInv, Sourced, Crossed, PastPlaces
  <2>s. \A y \in Targets : rows[y].status # "none" => rows[y].source # r
    BY <1>2, <1>9, SourceIsBehind
  <2>1. Typed'
    BY <2>a, <2>b, <1>2, <1>6 DEF Typed, Emails
  <2>2. OneHeld'
    BY <2>a, <2>b DEF OneHeld, Held
  <2>3. Places'
    BY <2>a, <2>b, <1>2, <1>4 DEF Places, BoundsAssumption
  <2>4. Known'
    BY <2>b, <2>r DEF Known
  <2>5. ASSUME NEW q \in Targets PROVE RowInv(q)'
    <3>c. Crossed(q)' <=> Crossed(q)
      BY <2>b DEF Crossed
    <3>l. Launches(q)' <=> Launches(q)
      BY <2>b DEF Launching, Launches
    <3>g. GivenBack(q)' <=> GivenBack(q)
      BY <2>b DEF GivenBack
    <3>p. RowInv(q)
      BY <2>a
    <3>h. Unsettled(q)' => Unsettled(q)
      BY <2>b, <3>c, <1>4 DEF Unsettled, On, HotPlaces
    <3>1. Fresh(q)'
      BY <3>p, <2>b, <3>c, <3>l, <1>4 DEF RowInv, Fresh, On
    <3>2. Solo(q)'
      BY <3>p, <2>b, <3>h, <3>l, <1>4, <1>1
      DEF RowInv, Solo, Acts, Works, On, Launching, Acting, Working, PastPlaces
    <3>3. Back(q)'
      BY <3>p, <2>b, <3>c, <3>g, <3>l, <1>4, <1>1 DEF RowInv, Back, Works, On
    <3>4. Mail(q)'
      BY <3>p, <2>b, <1>4 DEF RowInv, Mail, On
    <3>5. Sourced(q)'
      BY <3>p, <2>b DEF RowInv, Sourced
    <3>6. Committed(q)'
      <4>1. rows[q].committed => rows[q].status # "none"
        BY <3>p DEF RowInv, Fresh
      <4> QED
        BY <4>1, <3>p, <2>b, <2>r, <2>s, <3>c DEF RowInv, Committed
    <3>7. Ends(q)'
      BY <3>p, <2>b, <3>c, <3>l, <1>4, <1>6 DEF RowInv, Ends, On
    <3> QED
      BY <3>1, <3>2, <3>3, <3>4, <3>5, <3>6, <3>7 DEF RowInv
  <2>6. ASSUME NEW c \in Callers PROVE Inserting(c)'
    BY <2>a, <2>b DEF Inserting
  <2>7. ASSUME NEW u \in Threads, NEW q \in Targets PROVE Told(u, q)'
    <3>1. CASE u = t
      BY <3>1, <2>b, <2>r, <1>4, <1>k DEF Told, Tells, On, PastPlaces, HotPlaces, Crossed
    <3>2. CASE u # t /\ On(u, q) /\ run[u].at # "idle"
      <4>1. rows[q].status # "none" /\ rows[q].source # r /\ Told(u, q)
        BY <3>2, <2>a, <2>s, RunnerKnows DEF On
      <4>2. run[u].at \notin HotPlaces
        <5> SUFFICES ASSUME run[u].at \in HotPlaces PROVE FALSE
          OBVIOUS
        <5>1. \A z \in Threads : Acts(z, q) => z = u
          BY <3>2, HotKnows
        <5>2. q # r
          BY <5>1, <3>2, <1>k
        <5>3. email = rows[q].source /\ remote \in {q, email}
          BY <3>2, HotKnows
        <5> QED
          BY <5>2, <5>3, <2>r
      <4> QED
        BY <4>1, <4>2, <3>2, <2>b DEF Told, Tells, On, HotPlaces
    <3>3. CASE u # t /\ ~On(u, q)
      BY <3>3, <2>b DEF Told, On
    <3>4. On(u, q) => run[u].at # "idle"
      BY <2>a DEF Places, On, BoundsAssumption
    <3> QED
      BY <3>1, <3>2, <3>3, <3>4
  <2> QED
    BY <2>1, <2>2, <2>3, <2>4, <2>5, <2>6, <2>7 DEF IInv
<1> QED
  BY <1>7, <1>8, <1>9

LEMMA FinalizesKept ==
  ASSUME BoundsAssumption, IInv, NEW t \in Threads, Finalizes(t) PROVE IInv'
<1> DEFINE r == run[t].row
           w1 == [run[t] EXCEPT !.at = "persist"]
           w2 == [run[t] EXCEPT !.at = "failing", !.crossed = TRUE, !.retry = TRUE, !.stopped = FALSE]
<1>1. run[t].at = "finalize" /\ run[t].at \in PastPlaces /\ run[t].at \in Working
  BY DEF Finalizes, At, PastPlaces, Working
<1>2. r \in Targets /\ On(t, r)
  BY <1>1, RunnerKnows DEF On, PastPlaces
<1>k. /\ Acts(t, r) /\ run[t] \in Runs /\ rows[r] \in Rows
      /\ rows[r].status \notin {"none", "created"}
      /\ Tells(run[t], rows[r], r) /\ RowInv(r)
      /\ ~GivenBack(r) /\ (Unsettled(r) => rows[r].status = "running")
      /\ rows = [rows EXCEPT ![r] = rows[r]] /\ faults \in 0..MaxFaults /\ active \subseteq Targets
  BY <1>1, <1>2, WorkerKnows
<1>6. UNCHANGED <<remote, email, rows, active, api, asked, faults, crashes>>
  BY DEF Finalizes
<1>4. /\ w1 \in Runs /\ w1.row = r /\ w1.at = "persist" /\ w1.crossed = run[t].crossed
      /\ w2 \in Runs /\ w2.row = r /\ w2.at = "failing" /\ w2.crossed /\ ~w2.stopped
  BY <1>k DEF Runs, RunPlaces, Acting, Working, PastPlaces
<1>7. PICK w \in {w1, w2} : run' = [run EXCEPT ![t] = w]
  BY DEF Finalizes, To, Fails, Error
<1>m. /\ mailbox' \in [Targets -> Boxes] /\ mailbox'[r] = "finalized" /\ mailbox[r] # "none"
      /\ \A q \in Targets \ {r} : mailbox'[q] = mailbox[q]
  <2>1. mailbox[r] \in {"leased", "finalized"}
    BY <1>2, <1>k DEF RowInv, Fresh, GivenBack, IInv, Typed, Boxes
  <2>2. mailbox' = [mailbox EXCEPT ![r] = IF @ = "leased" THEN "finalized" ELSE @]
    BY DEF Finalizes
  <2> QED
    BY <1>2, <2>1, <2>2 DEF IInv, Typed, Boxes
<1> HIDE DEF r, w1, w2
<1>w. w \in Runs /\ w.row = r /\ w.at \in {"persist", "failing"} /\ w.crossed /\ ~(w.at = "failing" /\ w.stopped)
      /\ email # rows[r].source /\ Crossed(r)
  BY <1>4, <1>7, <1>k, <1>1 DEF Tells, Crossed
<1>a. /\ Typed /\ OneHeld /\ Places /\ Known
      /\ \A q \in Targets : RowInv(q)
      /\ \A c \in Callers : Inserting(c)
      /\ \A u \in Threads, q \in Targets : Told(u, q)
  BY DEF IInv
<1>b. /\ \A u \in Threads \ {t} : run'[u] = run[u]
      /\ run'[t] = w /\ run[t].row = r /\ rows' = rows
      /\ api' = api /\ email' = email /\ remote' = remote
      /\ run' \in [Threads -> Runs]
  BY <1>6, <1>7, <1>w, <1>2, <1>a DEF Typed, On
<1>11. Typed'
  BY <1>a, <1>b, <1>6, <1>m DEF Typed
<1>12. OneHeld' /\ Known'
  BY <1>a, <1>b DEF OneHeld, Held, Known, Crossed
<1>13. Places'
  BY <1>a, <1>b, <1>2, <1>w DEF Places, BoundsAssumption
<1>15. ASSUME NEW q \in Targets PROVE RowInv(q)'
  <2>c. Crossed(q)' <=> Crossed(q)
    BY <1>b DEF Crossed
  <2>l. Launches(q)' <=> Launches(q)
    BY <1>b DEF Launching, Launches
  <2>g. GivenBack(q)' => GivenBack(q)
    BY <1>b, <1>m DEF GivenBack
  <2>p. RowInv(q)
    BY <1>a
  <2>h. Unsettled(q)' => Unsettled(q)
    BY <1>b, <2>c, <1>w DEF Unsettled, On, HotPlaces
  <2>1. Fresh(q)'
    BY <2>p, <1>b, <2>c, <2>l, <1>w, <1>m DEF RowInv, Fresh, On
  <2>2. Solo(q)'
    BY <2>p, <1>b, <2>h, <2>l, <1>w, <1>1
    DEF RowInv, Solo, Acts, Works, On, Launching, Acting, Working, PastPlaces
  <2>3. Back(q)'
    BY <2>p, <1>b, <2>c, <2>g, <2>l, <1>w, <1>1 DEF RowInv, Back, Works, On
  <2>4. Mail(q)'
    BY <2>p, <1>b, <1>w, <1>m DEF RowInv, Mail, On
  <2>5. Sourced(q)' /\ Committed(q)'
    BY <2>p, <1>b, <2>c DEF RowInv, Sourced, Committed
  <2>7. Ends(q)'
    BY <2>p, <1>b, <2>c, <2>l, <1>w, <1>6 DEF RowInv, Ends, On
  <2> QED
    BY <2>1, <2>2, <2>3, <2>4, <2>5, <2>7 DEF RowInv
<1>16. ASSUME NEW c \in Callers PROVE Inserting(c)'
  BY <1>a, <1>b, <1>m, <1>k DEF Inserting
<1>17. ASSUME NEW u \in Threads, NEW q \in Targets PROVE Told(u, q)'
  <2>1. CASE u = t
    BY <2>1, <1>b, <1>w DEF Told, Tells, On, PastPlaces, HotPlaces, Crossed
  <2>2. CASE u # t
    BY <2>2, <1>a, <1>b DEF Told, Tells, On
  <2> QED
    BY <2>1, <2>2
<1> QED
  BY <1>11, <1>12, <1>13, <1>15, <1>16, <1>17 DEF IInv

LEMMA TaskEndsKept ==
  ASSUME BoundsAssumption, IInv, NEW t \in Threads, TaskEnds(t) PROVE IInv'
<1>a. /\ Typed /\ OneHeld /\ Places /\ Known
      /\ \A q \in Targets : RowInv(q)
      /\ \A c \in Callers : Inserting(c)
      /\ \A u \in Threads, q \in Targets : Told(u, q)
  BY DEF IInv
<1>1. run[t].at = "over" /\ UNCHANGED <<remote, email, rows, mailbox, api, asked, faults, crashes>>
  BY DEF TaskEnds, At
<1>2. Asleep \in Runs /\ Asleep.at = "idle" /\ Asleep.row = Original
  BY DEF Asleep, Runs, RunPlaces, Emails
<1>b. /\ \A u \in Threads \ {t} : run'[u] = run[u]
      /\ run'[t] = Asleep /\ rows' = rows /\ mailbox' = mailbox
      /\ api' = api /\ email' = email /\ remote' = remote
      /\ run' \in [Threads -> Runs] /\ active' \subseteq Targets
  BY <1>1, <1>2, <1>a DEF Typed, TaskEnds
<1>o. Original \notin Targets
  BY DEF BoundsAssumption
<1>11. Typed'
  BY <1>a, <1>b, <1>1 DEF Typed
<1>12. OneHeld' /\ Known'
  BY <1>a, <1>b DEF OneHeld, Held, Known, Crossed
<1>13. Places'
  BY <1>a, <1>b, <1>2 DEF Places
<1>15. ASSUME NEW q \in Targets PROVE RowInv(q)'
  <2>c. Crossed(q)' <=> Crossed(q)
    BY <1>b DEF Crossed
  <2>l. Launches(q)' <=> Launches(q)
    BY <1>b DEF Launching, Launches
  <2>g. GivenBack(q)' => GivenBack(q)
    BY <1>b DEF GivenBack
  <2>p. RowInv(q)
    BY <1>a
  <2>h. Unsettled(q)' => Unsettled(q)
    BY <1>b, <2>c, <1>2 DEF Unsettled, On, HotPlaces
  <2>1. Fresh(q)'
    BY <2>p, <1>b, <2>c, <2>l, <1>2, <1>o DEF RowInv, Fresh, On
  <2>2. Solo(q)'
    BY <2>p, <1>b, <2>h, <2>l, <1>2, <1>o DEF RowInv, Solo, Acts, Works, On, Launching
  <2>3. Back(q)'
    BY <2>p, <1>b, <2>c, <2>g, <2>l, <1>2, <1>o DEF RowInv, Back, Works, On
  <2>4. Mail(q)'
    BY <2>p, <1>b, <1>2, <1>o DEF RowInv, Mail, On
  <2>5. Sourced(q)' /\ Committed(q)'
    BY <2>p, <1>b, <2>c DEF RowInv, Sourced, Committed
  <2>7. Ends(q)'
    BY <2>p, <1>b, <2>c, <2>l, <1>2, <1>1, <1>o DEF RowInv, Ends, On
  <2> QED
    BY <2>1, <2>2, <2>3, <2>4, <2>5, <2>7 DEF RowInv
<1>16. ASSUME NEW c \in Callers PROVE Inserting(c)'
  BY <1>a, <1>b DEF Inserting
<1>17. ASSUME NEW u \in Threads, NEW q \in Targets PROVE Told(u, q)'
  BY <1>a, <1>b, <1>2, <1>o DEF Told, Tells, On
<1> QED
  BY <1>11, <1>12, <1>13, <1>15, <1>16, <1>17 DEF IInv

-----------------------------------------------------------------------------
(* The API. *)

Giving == {"releasing", "confirming", "undoing"}

\* The caller c, that did not claim row r, goes on with it or replies: what the
\* invariant needs of the step.
Serves(c, r, v, k, b) ==
    /\ api[c].at \notin {"inserting", "launching"}
    /\ \A d \in Callers : ~(api[d].at = "inserting" /\ api[d].row = r)
    /\ mailbox[r] # "none" /\ b # "none"
    /\ k.at # "inserting" /\ (k.row = r \/ k.row = Original) /\ (k.at = "idle" <=> k.row = Original)
    /\ v.source = rows[r].source /\ v.submitted = rows[r].submitted /\ v.changed = rows[r].changed
    /\ v.committed = rows[r].committed /\ v.finalized = rows[r].finalized
    /\ v = rows[r] \/ v.status \notin {"none", "created", "done"}
    /\ v.status \in Holding => Held(r) \/ ~Taken(r)
    /\ b = mailbox[r] \/ (b = "released" /\ mailbox[r] = "leased" /\ GivenBack(r))
    /\ k.at = "launching" =>
         /\ v.status = "running" /\ ~GivenBack(r)
         /\ Unsettled(r) => ~Launches(r) /\ \A t \in Threads : ~Acts(t, r)
    /\ Unsettled(r) =>
         /\ Launches(r) \/ Works(r) => v.status = "running"
         /\ v.resumable /\ v.status \in {"failed", "partial"} => v = rows[r] /\ k.at # "launching"
    /\ GivenBack(r) \/ k.at \in Giving \/ v.status \in {"releasing", "released"} =>
         /\ ~Crossed(r) /\ ~v.resumable /\ ~Launches(r) /\ ~Works(r)
         /\ v.status \in {"none", "releasing", "failed", "released"}
    /\ Held(r) => v.status \in Holding \/ ~Crossed(r)
    /\ v = rows[r] \/ /\ v.status = "running" => k.at = "launching"
                      /\ v.status \in {"failed", "partial"} /\ Crossed(r) => v.resumable

LEMMA CallKept ==
  ASSUME BoundsAssumption, IInv, NEW c \in Callers, NEW r \in Targets,
         NEW v \in Rows, NEW k \in Calls, NEW b \in Boxes, Serves(c, r, v, k, b),
         rows' = [rows EXCEPT ![r] = v], api' = [api EXCEPT ![c] = k],
         mailbox' = [mailbox EXCEPT ![r] = b],
         UNCHANGED <<remote, email, active, run, faults, crashes>>, asked' \in 0..MaxRequests
  PROVE  IInv'
<1>a. /\ Typed /\ OneHeld /\ Places /\ Known
      /\ \A q \in Targets : RowInv(q)
      /\ \A d \in Callers : Inserting(d)
      /\ \A u \in Threads, q \in Targets : Told(u, q)
  BY DEF IInv
<1>o. r # Original /\ Original \notin Targets
  BY DEF BoundsAssumption
<1>b. /\ \A d \in Callers \ {c} : api'[d] = api[d]
      /\ \A q \in Targets \ {r} : rows'[q] = rows[q] /\ mailbox'[q] = mailbox[q]
      /\ api'[c] = k /\ rows'[r] = v /\ mailbox'[r] = b
      /\ remote' = remote /\ email' = email /\ run' = run /\ faults' = faults
      /\ api' \in [Callers -> Calls] /\ rows' \in [Targets -> Rows] /\ mailbox' \in [Targets -> Boxes]
  BY <1>a DEF Typed
<1>c. \A q \in Targets : /\ rows'[q].source = rows[q].source
                         /\ rows'[q].committed = rows[q].committed
                         /\ rows'[q].finalized = rows[q].finalized
                         /\ rows'[q].submitted = rows[q].submitted
                         /\ rows'[q].changed = rows[q].changed
  BY <1>b DEF Serves
<1>1. Typed'
  BY <1>a, <1>b DEF Typed
<1>2. OneHeld'
  BY <1>a, <1>b DEF OneHeld, Held, Taken, Serves
<1>3. Places'
  BY <1>a, <1>b DEF Places, Serves
<1>4. Known'
  BY <1>a, <1>b, <1>c DEF Known, Held, Serves, Crossed
<1>5. ASSUME NEW q \in Targets PROVE RowInv(q)'
  <2>p. RowInv(q)
    BY <1>a
  <2>c. Crossed(q)' <=> Crossed(q)
    BY <1>c DEF Crossed
  <2>h. Unsettled(q)' <=> Unsettled(q)
    BY <1>b, <2>c DEF Unsettled, On
  <2>l. /\ q # r => (Launches(q)' => Launches(q))
        /\ Launches(q)' => Launches(q) \/ (q = r /\ k.at = "launching")
        /\ Launches(q) => Launches(q)'
        /\ q = r /\ k.at = "launching" => Launches(q)'
    BY <1>b, <1>o DEF Launching, Launches, Serves
  <2>g. GivenBack(q)' => \/ GivenBack(q)
                         \/ q = r /\ (k.at \in Giving \/ v.status \in {"releasing", "released"})
    BY <1>b, <1>o DEF GivenBack, Serves, Giving
  <2>1. Fresh(q)'
    <3>1. CASE q # r
      BY <3>1, <2>p, <1>b, <2>c, <2>l, <1>o DEF RowInv, Fresh, On, Serves
    <3>2. CASE q = r
      BY <3>2, <2>p, <1>b, <2>c, <2>l DEF RowInv, Fresh, On, Serves
    <3> QED
      BY <3>1, <3>2
  <2>2. Solo(q)'
    <3>1. CASE q # r
      BY <3>1, <2>p, <1>b, <2>h, <2>l, <1>o DEF RowInv, Solo, Acts, Works, On, Launching, Serves
    <3>2. CASE q = r
      <4> SUFFICES ASSUME Unsettled(q)' PROVE Solo(q)'
        BY DEF Solo
      <4>1. Unsettled(q) /\ Solo(q)
        BY <2>h, <2>p DEF RowInv
      <4>2. /\ \A t, u \in Threads : Acts(t, q) /\ Acts(u, q) => t = u
            /\ \A d, e \in Callers : Launching(d, q) /\ Launching(e, q) => d = e
            /\ \A t \in Threads, d \in Callers : ~(Acts(t, q) /\ Launching(d, q))
        BY <4>1 DEF Solo
      <4>3. \A d \in Callers : api'[d].row = q /\ api'[d].at = "launching" =>
                IF k.at = "launching" THEN d = c ELSE Launching(d, q)
        BY <3>2, <4>1, <1>b DEF Launching, Serves, Launches
      <4>4. k.at = "launching" => \A t \in Threads : ~Acts(t, q)
        BY <3>2, <4>1 DEF Serves
      <4>5. /\ \A d, e \in Callers : Launching(d, q)' /\ Launching(e, q)' => d = e
            /\ \A t \in Threads, d \in Callers : ~(Acts(t, q)' /\ Launching(d, q)')
        BY <4>2, <4>3, <4>4, <1>b DEF Launching, Acts, On
      <4>6. Launches(q)' \/ Works(q) => v.status = "running"
        BY <3>2, <4>1, <2>l DEF Serves
      <4>7. v.resumable /\ v.status \in {"failed", "partial"} =>
              ~Launches(q)' /\ \A t \in Threads : ~Acts(t, q)
        BY <3>2, <4>1, <2>l DEF Serves, Solo
      <4> QED
        BY <3>2, <4>2, <4>5, <4>6, <4>7, <1>b DEF Solo, Works, Acts, On, Launching
    <3> QED
      BY <3>1, <3>2
  <2>3. Back(q)'
    <3>1. CASE q # r
      BY <3>1, <2>p, <1>b, <2>c, <2>g, <2>l DEF RowInv, Back, Works, On
    <3>2. CASE q = r
      <4>1. Works(q)' <=> Works(q)
        BY <1>b DEF Works, On
      <4> QED
        BY <3>2, <4>1, <1>b, <2>c, <2>g, <2>l DEF Back, Serves, Giving
    <3> QED
      BY <3>1, <3>2
  <2>4. Mail(q)'
    BY <2>p, <1>b, <1>c DEF RowInv, Mail, On, Serves
  <2>5. Sourced(q)'
    <3>1. rows[r].status = "none" => rows[r].source = Original
      BY <1>a DEF RowInv, Fresh, NoRow
    <3> QED
      BY <3>1, <2>p, <1>b, <1>c, <1>o DEF RowInv, Sourced, Serves
  <2>6. Committed(q)'
    BY <2>p, <1>b, <1>c, <2>c DEF RowInv, Committed
  <2>7. Ends(q)'
    BY <2>p, <1>b, <2>c, <2>l DEF RowInv, Ends, On, Serves
  <2> QED
    BY <2>1, <2>2, <2>3, <2>4, <2>5, <2>6, <2>7 DEF RowInv
<1>6. ASSUME NEW d \in Callers PROVE Inserting(d)'
  BY <1>a, <1>b, <1>c, <1>o DEF Inserting, Serves
<1>7. ASSUME NEW u \in Threads, NEW q \in Targets PROVE Told(u, q)'
  BY <1>a, <1>b, <1>c DEF Told, Tells, On
<1> QED
  BY <1>1, <1>2, <1>3, <1>4, <1>5, <1>6, <1>7 DEF IInv

LEMMA CallKnows ==
  ASSUME BoundsAssumption, IInv, NEW c \in Callers, NEW r \in Targets,
         rows[r].status # "none" \/ (api[c].row = r /\ api[c].at # "inserting")
  PROVE  /\ \A d \in Callers : ~(api[d].at = "inserting" /\ api[d].row = r)
         /\ mailbox[r] # "none" /\ mailbox[r] \in Boxes /\ rows[r] \in Rows /\ RowInv(r)
         /\ api[c] \in Calls /\ (api[c].at = "idle" <=> api[c].row = Original)
         /\ rows = [rows EXCEPT ![r] = rows[r]] /\ mailbox = [mailbox EXCEPT ![r] = mailbox[r]]
         /\ r # Original /\ asked \in 0..MaxRequests
<1>1. RowInv(r) /\ \A d \in Callers : Inserting(d)
  BY DEF IInv
<1>2. mailbox[r] # "none"
  BY <1>1 DEF RowInv, Fresh
<1>3. \A d \in Callers : ~(api[d].at = "inserting" /\ api[d].row = r)
  BY <1>1 DEF Inserting
<1>4. /\ mailbox[r] \in Boxes /\ rows[r] \in Rows /\ api[c] \in Calls
      /\ (api[c].at = "idle" <=> api[c].row = Original)
      /\ rows = [rows EXCEPT ![r] = rows[r]] /\ mailbox = [mailbox EXCEPT ![r] = mailbox[r]]
      /\ r # Original /\ asked \in 0..MaxRequests
  BY DEF IInv, Typed, Places, BoundsAssumption
<1> QED
  BY <1>1, <1>2, <1>3, <1>4

\* A request that is only noted, and a caller that only replies.
LEMMA CallMoves ==
  ASSUME BoundsAssumption, IInv, NEW c \in Callers, NEW r \in Targets,
         rows[r].status # "none" \/ (api[c].row = r /\ api[c].at # "inserting"),
         api[c].at \notin {"inserting", "launching"},
         NEW k \in Calls, k.at \in {"idle", "starting", "resuming"},
         k.row = r \/ k.row = Original, k.at = "idle" <=> k.row = Original,
         api' = [api EXCEPT ![c] = k], UNCHANGED <<remote, email, active, run, faults, crashes>>,
         rows' = [rows EXCEPT ![r] = rows[r]], mailbox' = [mailbox EXCEPT ![r] = mailbox[r]],
         asked' \in 0..MaxRequests
  PROVE  IInv'
<1>1. /\ \A d \in Callers : ~(api[d].at = "inserting" /\ api[d].row = r)
      /\ mailbox[r] # "none" /\ mailbox[r] \in Boxes /\ rows[r] \in Rows /\ RowInv(r)
      /\ rows = [rows EXCEPT ![r] = rows[r]] /\ mailbox = [mailbox EXCEPT ![r] = mailbox[r]]
  BY CallKnows
<1>2. Serves(c, r, rows[r], k, mailbox[r])
  <2>1. k.at \notin Giving \cup {"launching", "inserting"}
    BY DEF Giving
  <2>2. Unsettled(r) => (Launches(r) \/ Works(r) => rows[r].status = "running")
    BY <1>1 DEF RowInv, Solo
  <2>3. GivenBack(r) \/ k.at \in Giving \/ rows[r].status \in {"releasing", "released"} =>
          /\ ~Crossed(r) /\ ~rows[r].resumable /\ ~Launches(r) /\ ~Works(r)
          /\ rows[r].status \in {"none", "releasing", "failed", "released"}
    BY <2>1, <1>1 DEF RowInv, Back, GivenBack
  <2> QED
    BY <1>1, <2>1, <2>2, <2>3 DEF Serves, Held
<1>3. rows[r] \in Rows /\ mailbox[r] \in Boxes
  BY <1>1
<1> QED
  BY <1>2, <1>3, CallKept

LEMMA StartKept ==
  ASSUME BoundsAssumption, IInv, NEW c \in Callers, NEW r \in Targets, Start(c, r) \/ Resume(c, r)
  PROVE  IInv'
<1>1. PICK place \in {"starting", "resuming"} :
        /\ api' = [api EXCEPT ![c] = [@ EXCEPT !.at = place, !.row = r]]
        /\ api[c].at = "idle" /\ rows[r].status # "none" /\ asked < MaxRequests /\ asked' = asked + 1
        /\ UNCHANGED <<rows, mailbox, remote, email, active, run, faults, crashes>>
  BY DEF Start, Resume, Goes, Requests
<1> DEFINE k == [api[c] EXCEPT !.at = place, !.row = r]
<1>2. /\ api[c] \in Calls /\ r # Original /\ asked \in 0..MaxRequests
      /\ rows = [rows EXCEPT ![r] = rows[r]] /\ mailbox = [mailbox EXCEPT ![r] = mailbox[r]]
  BY <1>1, CallKnows
<1>3. k \in Calls /\ k.at = place /\ k.row = r
  BY <1>2 DEF Calls, ApiPlaces, Emails
<1>4. asked' \in 0..MaxRequests
  BY <1>1, <1>2 DEF BoundsAssumption
<1> HIDE DEF k
<1>5. api' = [api EXCEPT ![c] = k]
  BY <1>1 DEF k
<1>6. k.row = r /\ k.at \in {"starting", "resuming"} /\ (k.at = "idle" <=> k.row = Original)
  BY <1>2, <1>3
<1>7. api[c].at \notin {"inserting", "launching"} /\ rows[r].status # "none"
  BY <1>1
<1>8. UNCHANGED <<remote, email, active, run, faults, crashes>>
  BY <1>1
<1>9. rows' = [rows EXCEPT ![r] = rows[r]] /\ mailbox' = [mailbox EXCEPT ![r] = mailbox[r]]
  BY <1>1, <1>2
<1> QED
  BY <1>3, <1>4, <1>5, <1>6, <1>7, <1>8, <1>9, CallMoves

LEMMA ClaimKept ==
  ASSUME BoundsAssumption, IInv, NEW c \in Callers, Claim(c) PROVE IInv'
<1> DEFINE r == api[c].row
           v == [rows[r] EXCEPT !.status = "running", !.resumable = FALSE]
           k == [api[c] EXCEPT !.at = "launching", !.row = r]
<1>1. api[c].at \in {"starting", "resuming"}
  BY DEF Claim
<1>2. r \in Targets
  BY <1>1 DEF IInv, Typed, Calls, Places, Emails
<1>k. /\ \A d \in Callers : ~(api[d].at = "inserting" /\ api[d].row = r)
      /\ mailbox[r] # "none" /\ mailbox[r] \in Boxes /\ rows[r] \in Rows /\ RowInv(r)
      /\ api[c] \in Calls
      /\ rows = [rows EXCEPT ![r] = rows[r]] /\ mailbox = [mailbox EXCEPT ![r] = mailbox[r]]
      /\ r # Original /\ asked \in 0..MaxRequests
  BY <1>1, <1>2, CallKnows
<1>i. Idle \in Calls /\ Idle.at = "idle" /\ Idle.row = Original
  BY DEF Idle, Calls, ApiPlaces, Emails
<1>3. /\ v \in Rows /\ v.source = rows[r].source /\ v.status = "running" /\ v.resumable = FALSE
      /\ v.submitted = rows[r].submitted /\ v.changed = rows[r].changed
      /\ v.committed = rows[r].committed /\ v.finalized = rows[r].finalized
  BY <1>k DEF Rows, Holding
<1>4. k \in Calls /\ k.at = "launching" /\ k.row = r
  BY <1>k DEF Calls, ApiPlaces
<1>5. UNCHANGED <<remote, email, mailbox, active, run, asked, faults, crashes>>
  BY DEF Claim
<1>6. \/ Claims(c) /\ rows' = [rows EXCEPT ![r] = v] /\ api' = [api EXCEPT ![c] = k]
      \/ rows' = rows /\ api' = [api EXCEPT ![c] = Idle]
  <2>1. [rows EXCEPT ![r].status = "running", ![r].resumable = FALSE] = [rows EXCEPT ![r] = v]
    BY <1>2 DEF IInv, Typed
  <2> QED
    BY <2>1 DEF Claim, Goes, Replies
<1>7. Claims(c) => \/ rows[r].status = "created"
                   \/ rows[r].status \in {"failed", "partial"} /\ rows[r].resumable
  BY DEF Claims
<1> HIDE DEF r, v, k
<1>8. CASE rows' = rows /\ api' = [api EXCEPT ![c] = Idle]
  BY <1>8, <1>1, <1>2, <1>k, <1>i, <1>5, CallMoves DEF r
<1>9. CASE Claims(c) /\ rows' = [rows EXCEPT ![r] = v] /\ api' = [api EXCEPT ![c] = k]
  <2>1. ~GivenBack(r)
    BY <1>7, <1>9, <1>k DEF RowInv, Back
  <2>2. Unsettled(r) => ~Launches(r) /\ \A t \in Threads : ~Acts(t, r)
    BY <1>7, <1>9, <1>k DEF RowInv, Solo, Fresh, Acts
  <2>3. Held(r)
    BY <1>7, <1>9 DEF Held, Holding
  <2>4. v.status \in Holding /\ k.at \notin Giving
    BY <1>3, <1>4 DEF Holding, Giving
  <2>5. Serves(c, r, v, k, mailbox[r])
    BY <1>1, <1>k, <1>3, <1>4, <2>1, <2>2, <2>3, <2>4 DEF Serves
  <2> QED
    BY <1>9, <1>2, <1>k, <1>3, <1>4, <1>5, <2>5, CallKept
<1> QED
  BY <1>6, <1>8, <1>9

LEMMA ReleaseKept ==
  ASSUME BoundsAssumption, IInv, NEW c \in Callers, NEW r \in Targets, Release(c, r) PROVE IInv'
<1> DEFINE v == [rows[r] EXCEPT !.status = "releasing", !.resumable = FALSE]
           k == [api[c] EXCEPT !.at = "releasing", !.row = r]
<1>1. /\ api[c].at = "idle" /\ asked < MaxRequests /\ asked' = asked + 1
      /\ rows[r].status \in {"created", "failed", "releasing"} /\ ~Crossed(r)
      /\ UNCHANGED <<remote, email, mailbox, active, run, faults, crashes>>
  BY DEF Release, Requests, Releasable
<1>k. /\ \A d \in Callers : ~(api[d].at = "inserting" /\ api[d].row = r)
      /\ mailbox[r] # "none" /\ mailbox[r] \in Boxes /\ rows[r] \in Rows /\ RowInv(r)
      /\ api[c] \in Calls
      /\ rows = [rows EXCEPT ![r] = rows[r]] /\ mailbox = [mailbox EXCEPT ![r] = mailbox[r]]
      /\ r # Original /\ asked \in 0..MaxRequests
  BY <1>1, CallKnows
<1>3. /\ v \in Rows /\ v.source = rows[r].source /\ v.status = "releasing" /\ v.resumable = FALSE
      /\ v.submitted = rows[r].submitted /\ v.changed = rows[r].changed
      /\ v.committed = rows[r].committed /\ v.finalized = rows[r].finalized
  BY <1>k DEF Rows, Holding
<1>4. k \in Calls /\ k.at = "releasing" /\ k.row = r
  BY <1>k DEF Calls, ApiPlaces, Emails
<1>5. rows' = [rows EXCEPT ![r] = v] /\ api' = [api EXCEPT ![c] = k]
  <2>1. [rows EXCEPT ![r].status = "releasing", ![r].resumable = FALSE] = [rows EXCEPT ![r] = v]
    BY DEF IInv, Typed
  <2> QED
    BY <2>1 DEF Release, Goes
<1>6. asked' \in 0..MaxRequests
  BY <1>1, <1>k DEF BoundsAssumption
<1> HIDE DEF v, k
<1>7. ~Launches(r) /\ ~Works(r)
  <2>1. Unsettled(r)
    BY <1>1 DEF Unsettled
  <2> QED
    BY <2>1, <1>1, <1>k DEF RowInv, Solo, Works, Launches
<1>8. Held(r) /\ v.status \in Holding
  BY <1>1, <1>3 DEF Held, Holding
<1>9. Serves(c, r, v, k, mailbox[r])
  BY <1>1, <1>k, <1>3, <1>4, <1>7, <1>8 DEF Serves
<1> QED
  BY <1>1, <1>k, <1>3, <1>4, <1>5, <1>6, <1>9, CallKept

LEMMA ReleaseAskedKept ==
  ASSUME BoundsAssumption, IInv, NEW c \in Callers, ReleaseAsked(c) PROVE IInv'
<1> DEFINE r == api[c].row
<1>1. api[c].at = "releasing" /\ UNCHANGED <<remote, email, rows, active, run, asked, faults, crashes>>
  BY DEF ReleaseAsked
<1>2. r \in Targets
  BY <1>1 DEF IInv, Typed, Calls, Places, Emails
<1>k. /\ \A d \in Callers : ~(api[d].at = "inserting" /\ api[d].row = r)
      /\ mailbox[r] # "none" /\ mailbox[r] \in Boxes /\ rows[r] \in Rows /\ RowInv(r)
      /\ api[c] \in Calls
      /\ rows = [rows EXCEPT ![r] = rows[r]] /\ mailbox = [mailbox EXCEPT ![r] = mailbox[r]]
      /\ r # Original /\ asked \in 0..MaxRequests
  BY <1>1, <1>2, CallKnows
<1>g. GivenBack(r)
  BY <1>1 DEF GivenBack
<1>3. PICK place \in {"confirming", "undoing"} :
        api' = [api EXCEPT ![c] = [@ EXCEPT !.at = place, !.row = r]]
  BY DEF ReleaseAsked, Goes
<1> DEFINE k == [api[c] EXCEPT !.at = place, !.row = r]
<1>4. k \in Calls /\ k.at = place /\ k.row = r /\ api' = [api EXCEPT ![c] = k]
  BY <1>k, <1>3 DEF Calls, ApiPlaces
<1>5. PICK b \in Boxes : /\ mailbox' = [mailbox EXCEPT ![r] = b]
                         /\ b = mailbox[r] \/ (b = "released" /\ mailbox[r] = "leased")
  <2>1. mailbox' \in {mailbox, [mailbox EXCEPT ![r] = IF @ = "leased" THEN "released" ELSE @]}
    BY DEF ReleaseAsked
  <2>2. CASE mailbox' = mailbox
    BY <2>2, <1>k
  <2>3. CASE mailbox' = [mailbox EXCEPT ![r] = IF @ = "leased" THEN "released" ELSE @]
    BY <2>3, <1>k DEF Boxes
  <2> QED
    BY <2>1, <2>2, <2>3
<1> HIDE DEF r, k
<1>6. Serves(c, r, rows[r], k, b)
  <2>1. /\ ~Crossed(r) /\ ~rows[r].resumable /\ ~Launches(r) /\ ~Works(r)
        /\ rows[r].status \in {"none", "releasing", "failed", "released"}
    BY <1>g, <1>k DEF RowInv, Back
  <2> QED
    BY <2>1, <1>1, <1>g, <1>k, <1>4, <1>5 DEF Serves, Held
<1> QED
  BY <1>1, <1>2, <1>k, <1>4, <1>5, <1>6, CallKept

LEMMA ReleaseWrittenKept ==
  ASSUME BoundsAssumption, IInv, NEW c \in Callers, ReleaseWritten(c) PROVE IInv'
<1> DEFINE r == api[c].row
           place == IF api[c].at = "confirming" THEN "released" ELSE "failed"
           v == IF Crossed(r) \/ (api[c].at = "undoing" /\ Taken(r)) THEN rows[r]
                ELSE [rows[r] EXCEPT !.resumable = FALSE, !.status = place]
<1>1. /\ api[c].at \in {"confirming", "undoing"}
      /\ UNCHANGED <<remote, email, mailbox, active, run, asked, faults, crashes>>
      /\ api' = [api EXCEPT ![c] = Idle]
  BY DEF ReleaseWritten, Replies
<1>2. r \in Targets
  BY <1>1 DEF IInv, Typed, Calls, Places, Emails
<1>k. /\ \A d \in Callers : ~(api[d].at = "inserting" /\ api[d].row = r)
      /\ mailbox[r] # "none" /\ mailbox[r] \in Boxes /\ rows[r] \in Rows /\ RowInv(r)
      /\ api[c] \in Calls
      /\ rows = [rows EXCEPT ![r] = rows[r]] /\ mailbox = [mailbox EXCEPT ![r] = mailbox[r]]
      /\ r # Original /\ asked \in 0..MaxRequests
  BY <1>1, <1>2, CallKnows
<1>g. GivenBack(r)
  BY <1>1 DEF GivenBack
<1>i. Idle \in Calls /\ Idle.at = "idle" /\ Idle.row = Original
  BY DEF Idle, Calls, ApiPlaces, Emails
<1>b. /\ ~Crossed(r) /\ ~rows[r].resumable /\ ~Launches(r) /\ ~Works(r)
      /\ rows[r].status \in {"none", "releasing", "failed", "released"}
  BY <1>g, <1>k DEF RowInv, Back
<1>3. rows' = [rows EXCEPT ![r] = v]
  <2>1. [rows EXCEPT ![r].resumable = FALSE, ![r].status = place]
          = [rows EXCEPT ![r] = [rows[r] EXCEPT !.resumable = FALSE, !.status = place]]
    BY <1>2 DEF IInv, Typed
  <2>2. rows' = IF Crossed(r) \/ (api[c].at = "undoing" /\ Taken(r)) THEN rows
                ELSE [rows EXCEPT ![r].resumable = FALSE, ![r].status = place]
    BY DEF ReleaseWritten
  <2> QED
    BY <2>1, <2>2, <1>k
<1>4. /\ v \in Rows /\ v.source = rows[r].source
      /\ v.submitted = rows[r].submitted /\ v.changed = rows[r].changed
      /\ v.committed = rows[r].committed /\ v.finalized = rows[r].finalized
      /\ \/ v = rows[r]
         \/ ~v.resumable /\ (v.status = "released" \/ (v.status = "failed" /\ ~Taken(r)))
  BY <1>k, <1>1 DEF Rows, Holding
<1> HIDE DEF r, v, place
<1>5. Serves(c, r, v, Idle, mailbox[r])
  BY <1>1, <1>k, <1>i, <1>b, <1>4 DEF Serves, Held, Holding, Giving
<1> QED
  BY <1>1, <1>2, <1>k, <1>i, <1>3, <1>4, <1>5, CallKept

LEMMA PrepareKept ==
  ASSUME BoundsAssumption, IInv, NEW c \in Callers, NEW r \in Targets, Prepare(c, r) PROVE IInv'
<1> DEFINE k == [at |-> "inserting", row |-> r, source |-> email]
<1>a. /\ Typed /\ OneHeld /\ Places /\ Known
      /\ \A q \in Targets : RowInv(q)
      /\ \A d \in Callers : Inserting(d)
      /\ \A u \in Threads, q \in Targets : Told(u, q)
  BY DEF IInv
<1>1. /\ api[c].at = "idle" /\ asked < MaxRequests /\ asked' = asked + 1
      /\ \A q \in Targets : rows[q].status \notin Holding
      /\ mailbox[r] = "none" /\ mailbox' = [mailbox EXCEPT ![r] = "leased"]
      /\ api' = [api EXCEPT ![c] = k]
      /\ UNCHANGED <<remote, email, rows, active, run, faults, crashes>>
  BY DEF Prepare, Requests
<1>k. k \in Calls /\ k.at = "inserting" /\ k.row = r /\ k.source = email
  BY <1>a DEF Typed, Calls, ApiPlaces, Emails
<1> HIDE DEF k
<1>o. r # Original /\ Original \notin Targets
  BY DEF BoundsAssumption
<1>b. /\ \A d \in Callers \ {c} : api'[d] = api[d]
      /\ \A q \in Targets \ {r} : mailbox'[q] = mailbox[q]
      /\ api'[c] = k /\ mailbox'[r] = "leased" /\ rows' = rows
      /\ remote' = remote /\ email' = email /\ run' = run /\ faults' = faults
      /\ api' \in [Callers -> Calls] /\ mailbox' \in [Targets -> Boxes]
  BY <1>a, <1>1, <1>k DEF Typed, Boxes
<1>r. rows[r].status = "none" /\ (\A d \in Callers : api[d].row # r) /\ ~Crossed(r)
  BY <1>1, <1>a DEF RowInv, Fresh
<1>e. email # r /\ (email \in Targets => rows[email].committed)
  <2>1. email # r
    BY <1>r, <1>a DEF RowInv, Committed
  <2>2. ASSUME email \in Targets PROVE rows[email].committed
    <3>1. Crossed(email)
      BY <2>2, <1>a DEF RowInv, Committed
    <3>2. rows[email].status \notin {"none", "created", "released"}
      BY <2>2, <3>1, <1>a DEF RowInv, Fresh, Back, GivenBack
    <3>3. rows[email].status = "done"
      BY <2>2, <3>2, <1>1, <1>a DEF Typed, Rows
    <3> QED
      BY <2>2, <3>3, <1>a DEF RowInv, Mail
  <2> QED
    BY <2>1, <2>2
<1>11. Typed'
  BY <1>a, <1>b, <1>1 DEF Typed, BoundsAssumption
<1>12. OneHeld' /\ Known'
  BY <1>a, <1>b DEF OneHeld, Held, Known, Crossed
<1>13. Places'
  BY <1>a, <1>b, <1>k, <1>o DEF Places
<1>15. ASSUME NEW q \in Targets PROVE RowInv(q)'
  <2>p. RowInv(q)
    BY <1>a
  <2>c. Crossed(q)' <=> Crossed(q)
    BY <1>b DEF Crossed
  <2>h. Unsettled(q)' <=> Unsettled(q)
    BY <1>b, <2>c DEF Unsettled, On
  <2>l. Launches(q)' => Launches(q)
    BY <1>b, <1>k DEF Launching, Launches
  <2>m. \A d \in Callers : Launching(d, q)' => Launching(d, q)
    BY <1>b, <1>k DEF Launching
  <2>g. GivenBack(q)' => GivenBack(q)
    BY <1>b, <1>k DEF GivenBack
  <2>1. Fresh(q)'
    BY <2>p, <1>b, <1>k, <1>r, <2>c, <2>l DEF RowInv, Fresh, On
  <2>2. Solo(q)'
    BY <2>p, <1>b, <1>k, <2>h, <2>l DEF RowInv, Solo, Acts, Works, On, Launching
  <2>3. Back(q)'
    BY <2>p, <1>b, <2>c, <2>g, <2>l DEF RowInv, Back, Works, On
  <2>4. Mail(q)'
    BY <2>p, <1>b, <1>1 DEF RowInv, Mail, On
  <2>5. Sourced(q)' /\ Committed(q)'
    BY <2>p, <1>b, <2>c DEF RowInv, Sourced, Committed
  <2>7. Ends(q)'
    <3>1. Launches(q) => Launches(q)'
      BY <1>b, <1>1 DEF Launching, Launches
    <3> QED
      BY <3>1, <2>p, <1>b, <2>c DEF RowInv, Ends, On
  <2> QED
    BY <2>1, <2>2, <2>3, <2>4, <2>5, <2>7 DEF RowInv
<1>16. ASSUME NEW d \in Callers PROVE Inserting(d)'
  <2>1. CASE d = c
    BY <2>1, <1>b, <1>k, <1>r, <1>e DEF Inserting
  <2>2. CASE d # c
    BY <2>2, <1>a, <1>b, <1>k, <1>r DEF Inserting
  <2> QED
    BY <2>1, <2>2
<1>17. ASSUME NEW u \in Threads, NEW q \in Targets PROVE Told(u, q)'
  BY <1>a, <1>b DEF Told, Tells, On
<1> QED
  BY <1>11, <1>12, <1>13, <1>15, <1>16, <1>17 DEF IInv

LEMMA InsertKept ==
  ASSUME BoundsAssumption, IInv, NEW c \in Callers, Insert(c) PROVE IInv'
<1> DEFINE r == api[c].row
           v == [NoRow EXCEPT !.status = "created", !.source = api[c].source]
<1>a. /\ Typed /\ OneHeld /\ Places /\ Known
      /\ \A q \in Targets : RowInv(q)
      /\ \A d \in Callers : Inserting(d)
      /\ \A u \in Threads, q \in Targets : Told(u, q)
  BY DEF IInv
<1>1. /\ api[c].at = "inserting" /\ api' = [api EXCEPT ![c] = Idle]
      /\ UNCHANGED <<remote, email, active, run, asked, faults, crashes>>
  BY DEF Insert, Replies
<1>2. /\ r \in Targets /\ rows[r].status = "none" /\ mailbox[r] = "leased"
      /\ \A d \in Callers : api[d].row = r => d = c
      /\ api[c].source # r /\ (api[c].source \in Targets => rows[api[c].source].committed)
  BY <1>1, <1>a DEF Inserting
<1>3. /\ v \in Rows /\ v.status = "created" /\ v.source = api[c].source /\ ~v.submitted /\ ~v.changed
      /\ ~v.committed /\ ~v.finalized /\ ~v.resumable
  BY <1>1, <1>a DEF Rows, NoRow, Holding, Typed, Calls, Emails
<1>i. Idle \in Calls /\ Idle.at = "idle" /\ Idle.row = Original
  BY DEF Idle, Calls, ApiPlaces, Emails
<1>4. \/ /\ rows' = rows /\ mailbox' \in [Targets -> Boxes] /\ mailbox'[r] \in {"leased", "released"}
         /\ \A q \in Targets \ {r} : mailbox'[q] = mailbox[q]
      \/ ~Taken(r) /\ rows' = [rows EXCEPT ![r] = v] /\ mailbox' = mailbox
  <2>1. \/ mailbox' \in {mailbox, [mailbox EXCEPT ![r] = "released"]} /\ rows' = rows
        \/ ~Taken(r) /\ rows' = [rows EXCEPT ![r] = v] /\ mailbox' = mailbox
    BY DEF Insert
  <2> HIDE DEF v
  <2> QED
    BY <2>1, <1>2, <1>a DEF Typed, Boxes
<1> HIDE DEF r, v
<1>o. r # Original /\ Original \notin Targets
  BY <1>2 DEF BoundsAssumption
<1>b. /\ \A d \in Callers \ {c} : api'[d] = api[d] /\ api[d].row # r
      /\ \A q \in Targets \ {r} : mailbox'[q] = mailbox[q] /\ rows'[q] = rows[q]
      /\ api'[c] = Idle /\ mailbox'[r] \in {"leased", "released"} /\ rows'[r] \in {rows[r], v}
      /\ rows'[r] = v => ~Taken(r) /\ mailbox'[r] = "leased"
      /\ remote' = remote /\ email' = email /\ run' = run /\ faults' = faults
      /\ api' \in [Callers -> Calls] /\ mailbox' \in [Targets -> Boxes] /\ rows' \in [Targets -> Rows]
  BY <1>a, <1>1, <1>2, <1>3, <1>4, <1>i DEF Typed
<1>r. /\ rows[r] = NoRow /\ RowInv(r) /\ (\A t \in Threads : ~On(t, r)) /\ ~Launches(r) /\ ~Crossed(r)
      /\ ~rows[r].committed /\ ~rows[r].finalized /\ ~rows[r].resumable
  BY <1>2, <1>a DEF RowInv, Fresh
<1>c. \A q \in Targets : /\ rows'[q].committed <=> rows[q].committed
                         /\ rows'[q].submitted \/ rows'[q].changed <=> Crossed(q)
                         /\ rows'[q].finalized <=> rows[q].finalized
  BY <1>b, <1>r, <1>3 DEF Crossed
<1>11. Typed'
  BY <1>a, <1>b, <1>1 DEF Typed
<1>12. OneHeld'
  BY <1>a, <1>b, <1>2 DEF OneHeld, Held, Taken, Holding
<1>14. Known'
  BY <1>a, <1>b, <1>r, <1>2 DEF Known, Held, Crossed
<1>13. Places'
  BY <1>a, <1>b, <1>i, <1>o DEF Places
<1>15. ASSUME NEW q \in Targets PROVE RowInv(q)'
  <2>p. RowInv(q)
    BY <1>a
  <2>c. Crossed(q)' <=> Crossed(q)
    BY <1>c DEF Crossed
  <2>h. Unsettled(q)' <=> Unsettled(q)
    BY <1>b, <2>c DEF Unsettled, On
  <2>l. Launches(q)' <=> Launches(q)
    BY <1>b, <1>1, <1>i DEF Launching, Launches
  <2>g. q # r => (GivenBack(q)' => GivenBack(q))
    BY <1>b, <1>i DEF GivenBack
  <2>1. Fresh(q)'
    <3>1. CASE q # r
      BY <3>1, <2>p, <1>b, <1>i, <1>o, <2>c, <2>l DEF RowInv, Fresh, On
    <3>2. CASE q = r
      BY <3>2, <1>b, <1>r, <1>3, <2>c, <2>l DEF Fresh, On
    <3> QED
      BY <3>1, <3>2
  <2>2. Solo(q)'
    <3>1. CASE q # r
      BY <3>1, <2>p, <1>b, <1>i, <2>h, <2>l DEF RowInv, Solo, Acts, Works, On, Launching
    <3>2. CASE q = r
      BY <3>2, <1>b, <1>i, <1>r, <2>l DEF Solo, Acts, Works, On, Launching, Launches
    <3> QED
      BY <3>1, <3>2
  <2>3. Back(q)'
    <3>1. CASE q # r
      BY <3>1, <2>p, <1>b, <2>c, <2>g, <2>l DEF RowInv, Back, Works, On
    <3>2. CASE q = r
      <4>1. rows'[r] = v => ~GivenBack(q)'
        BY <3>2, <1>b, <1>3, <1>i DEF GivenBack
      <4>2. rows'[r] = rows[r] => Back(q)'
        BY <3>2, <1>2, <1>r, <1>b, <2>c, <2>l DEF Back, Works, On
      <4> QED
        BY <4>1, <4>2, <1>b DEF Back
    <3> QED
      BY <3>1, <3>2
  <2>4. Mail(q)'
    <3>1. CASE q # r
      BY <3>1, <2>p, <1>b DEF RowInv, Mail, On
    <3>2. CASE q = r
      BY <3>2, <1>b, <1>r, <1>2, <1>3 DEF Mail, On
    <3> QED
      BY <3>1, <3>2
  <2>5. Sourced(q)'
    <3>1. CASE q # r
      BY <3>1, <2>p, <1>b, <1>c DEF RowInv, Sourced
    <3>2. CASE q = r
      BY <3>2, <1>b, <1>c, <1>2, <1>3 DEF Sourced, r
    <3> QED
      BY <3>1, <3>2
  <2>6. Committed(q)'
    <3>1. CASE q # r
      BY <3>1, <2>p, <1>b, <2>c DEF RowInv, Committed
    <3>2. CASE q = r
      BY <3>2, <2>p, <1>b, <2>c, <1>c, <1>r DEF RowInv, Committed
    <3> QED
      BY <3>1, <3>2
  <2>7. Ends(q)'
    <3>1. CASE q # r
      BY <3>1, <2>p, <1>b, <2>c, <2>l DEF RowInv, Ends, On
    <3>2. CASE q = r
      BY <3>2, <1>b, <1>r, <1>2, <1>3, <2>c DEF Ends, On
    <3> QED
      BY <3>1, <3>2
  <2> QED
    BY <2>1, <2>2, <2>3, <2>4, <2>5, <2>6, <2>7 DEF RowInv
<1>16. ASSUME NEW d \in Callers PROVE Inserting(d)'
  <2>1. CASE d = c
    BY <2>1, <1>b, <1>i DEF Inserting
  <2>2. CASE d # c
    BY <2>2, <1>a, <1>b, <1>c, <1>i, <1>o DEF Inserting
  <2> QED
    BY <2>1, <2>2
<1>17. ASSUME NEW u \in Threads, NEW q \in Targets PROVE Told(u, q)'
  <2>1. CASE q # r
    BY <2>1, <1>a, <1>b DEF Told, Tells, On
  <2>2. CASE q = r
    BY <2>2, <1>r, <1>b DEF Told, On
  <2> QED
    BY <2>1, <2>2
<1> QED
  BY <1>11, <1>12, <1>13, <1>14, <1>15, <1>16, <1>17 DEF IInv

LEMMA LaunchKept ==
  ASSUME BoundsAssumption, IInv, NEW c \in Callers, Launch(c) PROVE IInv'
<1> DEFINE r == api[c].row
           w == [Asleep EXCEPT !.at = "begin", !.row = r]
<1>a. /\ Typed /\ OneHeld /\ Places /\ Known
      /\ \A q \in Targets : RowInv(q)
      /\ \A d \in Callers : Inserting(d)
      /\ \A u \in Threads, q \in Targets : Told(u, q)
  BY DEF IInv
<1>1. /\ api[c].at = "launching" /\ api' = [api EXCEPT ![c] = Idle]
      /\ UNCHANGED <<remote, email, rows, mailbox, asked, crashes>>
  BY DEF Launch, Replies
<1>2. r \in Targets
  BY <1>1, <1>a DEF Typed, Calls, Places, Emails
<1>w. w \in Runs /\ w.at = "begin" /\ w.row = r
  BY <1>2 DEF Asleep, Runs, RunPlaces, Acting, Working, Emails
<1>i. Idle \in Calls /\ Idle.at = "idle" /\ Idle.row = Original
  BY DEF Idle, Calls, ApiPlaces, Emails
<1>3. /\ active' \subseteq Targets /\ faults' \in 0..MaxFaults
      /\ \/ faults' # 0 /\ run' = run
         \/ faults' = faults /\ \E t \in Threads : run[t].at = "idle" /\ run' = [run EXCEPT ![t] = w]
  <2>1. /\ active' \in {active, active \cup {r}}
        /\ \/ Raises /\ run' = run
           \/ faults' = faults /\ \E t \in Threads : run[t].at = "idle" /\ run' = [run EXCEPT ![t] = w]
    BY DEF Launch
  <2>2. active \subseteq Targets /\ faults \in 0..MaxFaults
    BY <1>a DEF Typed
  <2> HIDE DEF w
  <2> QED
    BY <2>1, <2>2, <1>2 DEF Raises, BoundsAssumption
<1> HIDE DEF r, w
<1>o. r # Original /\ Original \notin Targets
  BY <1>2 DEF BoundsAssumption
<1>b. /\ \A d \in Callers \ {c} : api'[d] = api[d]
      /\ api'[c] = Idle /\ api[c].row = r /\ rows' = rows /\ mailbox' = mailbox
      /\ remote' = remote /\ email' = email /\ api' \in [Callers -> Calls]
  BY <1>a, <1>1, <1>i DEF Typed, r
<1>r. /\ RowInv(r) /\ Launches(r) /\ ~GivenBack(r) /\ rows[r].status \notin {"none", "created"}
      /\ Unsettled(r) => /\ \A t \in Threads : ~Acts(t, r)
                         /\ \A d \in Callers : Launching(d, r) => d = c
                         /\ rows[r].status = "running"
  <2>1. RowInv(r) /\ Launching(c, r) /\ Launches(r)
    BY <1>2, <1>1, <1>a, <1>b DEF Launching, Launches
  <2> QED
    BY <2>1 DEF RowInv, Back, Fresh, Solo
<1>5. ASSUME NEW q \in Targets
      PROVE  /\ Crossed(q)' <=> Crossed(q)
             /\ Launches(q)' => Launches(q)
             /\ q # r => (Launches(q) => Launches(q)')
             /\ GivenBack(q)' => GivenBack(q)
  <2>1. (Crossed(q)' <=> Crossed(q)) /\ (GivenBack(q)' => GivenBack(q))
    BY <1>b, <1>i DEF Crossed, GivenBack
  <2>2. (Launches(q)' => Launches(q)) /\ (q # r => (Launches(q) => Launches(q)'))
    BY <1>b, <1>i DEF Launches, Launching
  <2> QED
    BY <2>1, <2>2
<1>6. OneHeld' /\ Known'
  BY <1>a, <1>b DEF OneHeld, Held, Known, Crossed
<1>7. ASSUME NEW d \in Callers PROVE Inserting(d)'
  BY <1>a, <1>b, <1>i, <1>o DEF Inserting
<1>8. CASE faults' # 0 /\ run' = run
  <2>1. Typed'
    BY <1>8, <1>a, <1>b, <1>1, <1>3 DEF Typed
  <2>2. Places'
    BY <1>8, <1>a, <1>b, <1>i DEF Places
  <2>3. ASSUME NEW q \in Targets PROVE RowInv(q)'
    <3>p. RowInv(q)
      BY <1>a
    <3>h. Unsettled(q)' <=> Unsettled(q)
      BY <1>8, <1>b, <1>5 DEF Unsettled, On, Crossed
    <3>1. Fresh(q)'
      BY <1>8, <3>p, <1>b, <1>i, <1>5, <1>o DEF RowInv, Fresh, On
    <3>2. Solo(q)'
      BY <1>8, <3>p, <1>b, <1>i, <3>h, <1>5 DEF RowInv, Solo, Acts, Works, On, Launching
    <3>3. Back(q)'
      BY <1>8, <3>p, <1>b, <1>5 DEF RowInv, Back, Works, On
    <3>4. Mail(q)'
      BY <1>8, <3>p, <1>b DEF RowInv, Mail, On
    <3>5. Sourced(q)' /\ Committed(q)'
      BY <3>p, <1>b, <1>5 DEF RowInv, Sourced, Committed
    <3>6. Ends(q)'
      BY <1>8 DEF Ends
    <3> QED
      BY <3>1, <3>2, <3>3, <3>4, <3>5, <3>6 DEF RowInv
  <2>4. ASSUME NEW u \in Threads, NEW q \in Targets PROVE Told(u, q)'
    BY <1>8, <1>a, <1>b DEF Told, Tells, On
  <2> QED
    BY <2>1, <2>2, <2>3, <2>4, <1>6, <1>7 DEF IInv
<1>9. ASSUME NEW t \in Threads, run[t].at = "idle", run' = [run EXCEPT ![t] = w], faults' = faults
      PROVE  IInv'
  <2>b. /\ \A u \in Threads \ {t} : run'[u] = run[u]
        /\ run'[t] = w /\ run' \in [Threads -> Runs] /\ run[t].row = Original
        /\ \A q \in Targets : ~On(t, q)
    BY <1>9, <1>a, <1>w, <1>o DEF Typed, Places, On
  <2>p. w.at \notin HotPlaces \cup PastPlaces \cup {"idle", "over", "failing"}
    BY <1>w DEF HotPlaces, PastPlaces
  <2>1. Typed'
    BY <1>9, <2>b, <1>a, <1>b, <1>1, <1>3 DEF Typed
  <2>2. Places'
    BY <2>b, <2>p, <1>a, <1>b, <1>i, <1>w, <1>o DEF Places
  <2>3. ASSUME NEW q \in Targets PROVE RowInv(q)'
    <3>p. RowInv(q)
      BY <1>a
    <3>c. /\ Crossed(q)' <=> Crossed(q)
          /\ Launches(q)' => Launches(q)
          /\ q # r => (Launches(q) => Launches(q)')
          /\ GivenBack(q)' => GivenBack(q)
      BY <1>5
    <3>h. Unsettled(q)' <=> Unsettled(q)
      BY <2>b, <2>p, <3>c DEF Unsettled, On
    <3>1. Fresh(q)'
      BY <3>p, <2>b, <1>b, <1>i, <1>r, <1>w, <3>c, <1>o DEF RowInv, Fresh, On
    <3>2. Solo(q)'
      <4>1. CASE q # r
        BY <4>1, <3>p, <2>b, <1>b, <1>i, <1>w, <3>h, <3>c DEF RowInv, Solo, Acts, Works, On, Launching
      <4>2. CASE q = r
        <5> SUFFICES ASSUME Unsettled(q)' PROVE Solo(q)'
          BY DEF Solo
        <5>1. /\ \A u \in Threads : ~Acts(u, q)
              /\ \A d \in Callers : Launching(d, q) => d = c
              /\ rows[q].status = "running"
          BY <4>2, <3>h, <1>r
        <5>2. \A u \in Threads : run'[u].row = q /\ run'[u].at \in Acting => u = t
          BY <5>1, <2>b DEF Acts, On
        <5>3. \A d \in Callers : ~(api'[d].row = q /\ api'[d].at = "launching")
          BY <5>1, <1>b, <1>i DEF Launching
        <5> QED
          BY <5>1, <5>2, <5>3, <1>b DEF Solo, Works, Launching, Launches, Acts, On
      <4> QED
        BY <4>1, <4>2
    <3>3. Back(q)'
      BY <3>p, <2>b, <1>b, <1>r, <1>w, <3>c DEF RowInv, Back, Works, On
    <3>4. Mail(q)'
      BY <3>p, <2>b, <2>p, <1>b, <1>w DEF RowInv, Mail, On
    <3>5. Sourced(q)' /\ Committed(q)'
      BY <3>p, <1>b, <3>c DEF RowInv, Sourced, Committed
    <3>6. Ends(q)'
      <4>1. CASE q # r
        BY <4>1, <1>9, <3>p, <2>b, <1>b, <1>w, <3>c DEF RowInv, Ends, On
      <4>2. CASE q = r
        BY <4>2, <1>9, <3>p, <2>b, <2>p, <1>b, <1>w, <3>c DEF RowInv, Ends, On
      <4> QED
        BY <4>1, <4>2
    <3> QED
      BY <3>1, <3>2, <3>3, <3>4, <3>5, <3>6 DEF RowInv
  <2>4. ASSUME NEW u \in Threads, NEW q \in Targets PROVE Told(u, q)'
    <3>1. CASE u = t
      BY <3>1, <2>b, <2>p, <1>w DEF Told, Tells, On, HotPlaces, PastPlaces
    <3>2. CASE u # t
      BY <3>2, <2>b, <1>a, <1>b DEF Told, Tells, On
    <3> QED
      BY <3>1, <3>2
  <2> QED
    BY <2>1, <2>2, <2>3, <2>4, <1>6, <1>7 DEF IInv
<1> QED
  BY <1>3, <1>8, <1>9

-----------------------------------------------------------------------------
(* A restart, and the invariance. *)

LEMMA RestartKept ==
  ASSUME BoundsAssumption, IInv, Restart PROVE IInv'
<1>a. /\ Typed /\ OneHeld /\ Places /\ Known
      /\ \A q \in Targets : RowInv(q)
  BY DEF IInv
<1>1. /\ crashes' \in 0..MaxCrashes /\ active' = {} /\ faults' = faults /\ asked' = asked
      /\ remote' = remote /\ email' = email /\ mailbox' = mailbox
      /\ api' \in [Callers -> Calls] /\ run' \in [Threads -> Runs]
      /\ \A c \in Callers : api'[c].at = "idle" /\ api'[c].row = Original
      /\ \A t \in Threads : run'[t].at = "idle" /\ run'[t].row = Original
  <2>1. Idle \in Calls /\ Idle.at = "idle" /\ Idle.row = Original
    BY DEF Idle, Calls, ApiPlaces, Emails
  <2>2. Asleep \in Runs /\ Asleep.at = "idle" /\ Asleep.row = Original
    BY DEF Asleep, Runs, RunPlaces, Emails
  <2>3. crashes' \in 0..MaxCrashes
    BY <1>a DEF Restart, Typed, BoundsAssumption
  <2> QED
    BY <2>1, <2>2, <2>3 DEF Restart
<1>2. ASSUME NEW q \in Targets
      PROVE  /\ rows'[q] \in Rows /\ rows[q] \in Rows
             /\ rows'[q].source = rows[q].source
             /\ rows'[q].submitted = rows[q].submitted /\ rows'[q].changed = rows[q].changed
             /\ rows'[q].committed = rows[q].committed /\ rows'[q].finalized = rows[q].finalized
             /\ IF rows[q].status = "releasing"
                THEN rows'[q].status = "failed" /\ ~rows'[q].resumable
                ELSE IF rows[q].status = "running"
                     THEN rows'[q].status \in {"partial", "failed"} /\ rows'[q].resumable
                     ELSE rows'[q] = rows[q]
  <2>1. rows[q] \in Rows /\ rows'[q] = Interrupted(rows[q])
    BY <1>a DEF Restart, Typed
  <2>2. CASE rows[q].status = "releasing"
    <3>1. rows'[q] = [rows[q] EXCEPT !.status = "failed", !.resumable = FALSE]
      BY <2>1, <2>2 DEF Interrupted
    <3> QED
      BY <2>1, <2>2, <3>1 DEF Rows, Holding
  <2>3. CASE rows[q].status = "running"
    <3>1. \E st \in {"partial", "failed"} :
            rows'[q] = [rows[q] EXCEPT !.status = st, !.resumable = TRUE]
      BY <2>1, <2>3 DEF Interrupted
    <3> QED
      BY <2>1, <2>3, <3>1 DEF Rows, Holding
  <2>4. CASE rows[q].status \notin {"releasing", "running"}
    <3>1. rows'[q] = rows[q]
      BY <2>1, <2>4 DEF Interrupted
    <3> QED
      BY <2>1, <2>4, <3>1
  <2> QED
    BY <2>2, <2>3, <2>4
<1>o. Original \notin Targets
  BY DEF BoundsAssumption
<1>3. rows' \in [Targets -> Rows]
  BY <1>2 DEF Restart
<1>4. Typed'
  BY <1>a, <1>1, <1>3 DEF Typed
<1>h. \A q \in Targets : /\ rows'[q].status \in Holding <=> rows[q].status \in Holding
                         /\ rows'[q].submitted \/ rows'[q].changed <=> Crossed(q)
  BY <1>2 DEF Holding, Crossed
<1>5. OneHeld'
  BY <1>a, <1>h DEF OneHeld, Held
<1>6. Places'
  BY <1>1 DEF Places
<1>7. Known'
  BY <1>a, <1>1, <1>2, <1>h DEF Known, Held, Crossed
<1>8. ASSUME NEW q \in Targets PROVE RowInv(q)'
  <2>p. RowInv(q)
    BY <1>a
  <2>r. /\ rows'[q].source = rows[q].source
        /\ rows'[q].submitted = rows[q].submitted /\ rows'[q].changed = rows[q].changed
        /\ rows'[q].committed = rows[q].committed /\ rows'[q].finalized = rows[q].finalized
        /\ IF rows[q].status = "releasing"
           THEN rows'[q].status = "failed" /\ ~rows'[q].resumable
           ELSE IF rows[q].status = "running"
                THEN rows'[q].status \in {"partial", "failed"} /\ rows'[q].resumable
                ELSE rows'[q] = rows[q]
    BY <1>2
  <2>c. Crossed(q)' <=> Crossed(q)
    BY <2>r DEF Crossed
  <2>n. /\ ~Launches(q)' /\ ~Works(q)'
        /\ \A t \in Threads : ~Acts(t, q)' /\ ~On(t, q)'
        /\ \A c \in Callers : ~Launching(c, q)' /\ api'[c].row # q
    BY <1>1, <1>o DEF Launches, Launching, Works, Acts, On
  <2>1. Fresh(q)'
    BY <2>p, <2>r, <2>c, <2>n, <1>1, <1>o DEF RowInv, Fresh, On
  <2>2. Solo(q)'
    BY <2>n, <1>1, <1>o DEF Solo, Acts, Launching, On
  <2>3. Back(q)'
    <3>1. GivenBack(q)' => GivenBack(q)
      BY <2>r, <2>n, <1>1 DEF GivenBack
    <3> QED
      BY <3>1, <2>p, <2>r, <2>c, <2>n DEF RowInv, Back
  <2>4. Mail(q)'
    BY <2>p, <2>r, <1>1, <1>o DEF RowInv, Mail, On
  <2>5. Sourced(q)'
    BY <2>p, <2>r, <1>2 DEF RowInv, Sourced
  <2>6. Committed(q)'
    BY <2>p, <2>r, <2>c, <1>1 DEF RowInv, Committed
  <2>7. Ends(q)'
    BY <2>p, <2>r, <2>c, <1>1, <1>o DEF RowInv, Ends, On, Back, GivenBack
  <2> QED
    BY <2>1, <2>2, <2>3, <2>4, <2>5, <2>6, <2>7 DEF RowInv
<1>9. ASSUME NEW c \in Callers PROVE Inserting(c)'
  BY <1>1 DEF Inserting
<1>10. ASSUME NEW u \in Threads, NEW q \in Targets PROVE Told(u, q)'
  BY <1>1, <1>o DEF Told, On
<1> QED
  BY <1>4, <1>5, <1>6, <1>7, <1>8, <1>9, <1>10 DEF IInv

LEMMA InitIInv ==
  ASSUME BoundsAssumption, Init PROVE IInv
<1>1. /\ remote = Original /\ email = Original /\ active = {}
      /\ asked = 0 /\ faults = 0 /\ crashes = 0
      /\ rows = [r \in Targets |-> NoRow] /\ mailbox = [r \in Targets |-> "none"]
      /\ api = [c \in Callers |-> Idle] /\ run = [t \in Threads |-> Asleep]
  BY DEF Init
<1>2. /\ NoRow \in Rows /\ NoRow.status = "none" /\ NoRow.source = Original
      /\ ~NoRow.submitted /\ ~NoRow.changed /\ ~NoRow.committed /\ ~NoRow.finalized /\ ~NoRow.resumable
      /\ Idle \in Calls /\ Idle.at = "idle" /\ Idle.row = Original
      /\ Asleep \in Runs /\ Asleep.at = "idle" /\ Asleep.row = Original
  BY DEF NoRow, Rows, Holding, Idle, Calls, ApiPlaces, Asleep, Runs, RunPlaces, Emails
<1>3. Typed
  BY <1>1, <1>2 DEF Typed, Boxes, Emails, BoundsAssumption
<1>4. OneHeld /\ Places /\ Known
  BY <1>1, <1>2 DEF OneHeld, Held, Holding, Places, Known
<1>5. ASSUME NEW q \in Targets PROVE RowInv(q)
  <2>1. /\ rows[q] = NoRow /\ mailbox[q] = "none" /\ q # Original /\ ~Crossed(q)
        /\ \A t \in Threads : ~On(t, q) /\ ~Acts(t, q)
        /\ \A c \in Callers : api[c].row # q /\ ~Launching(c, q)
    BY <1>1, <1>2 DEF On, Acts, Launching, Crossed, BoundsAssumption
  <2>2. Fresh(q) /\ Solo(q)
    BY <2>1, <1>2 DEF Fresh, Solo, Launches, Works
  <2>3. Back(q) /\ Mail(q) /\ Sourced(q)
    BY <2>1, <1>2 DEF Back, GivenBack, Mail, Sourced
  <2>4. Committed(q) /\ Ends(q)
    BY <1>1, <2>1, <1>2 DEF Committed, Ends
  <2> QED
    BY <2>2, <2>3, <2>4 DEF RowInv
<1>6. ASSUME NEW c \in Callers PROVE Inserting(c)
  BY <1>1, <1>2 DEF Inserting
<1>7. ASSUME NEW t \in Threads, NEW r \in Targets PROVE Told(t, r)
  BY <1>1, <1>2 DEF Told, On, BoundsAssumption
<1> QED
  BY <1>3, <1>4, <1>5, <1>6, <1>7 DEF IInv

LEMMA NextIInv ==
  ASSUME BoundsAssumption PROVE IInv /\ [Next]_vars => IInv'
<1> SUFFICES ASSUME IInv, [Next]_vars PROVE IInv'
  OBVIOUS
<1>1. ASSUME NEW c \in Callers, Api(c) PROVE IInv'
  <2>1. ASSUME NEW r \in Targets, Prepare(c, r) \/ Start(c, r) \/ Resume(c, r) \/ Release(c, r)
        PROVE  IInv'
    BY <2>1, PrepareKept, StartKept, ReleaseKept
  <2>2. CASE Insert(c) \/ Claim(c) \/ Launch(c) \/ ReleaseAsked(c) \/ ReleaseWritten(c)
    BY <2>2, InsertKept, ClaimKept, LaunchKept, ReleaseAskedKept, ReleaseWrittenKept
  <2> QED
    BY <1>1, <2>1, <2>2 DEF Api
<1>2. ASSUME NEW t \in Threads, Runner(t) PROVE IInv'
  <2>1. CASE TaskBegins(t) \/ Begins(t) \/ Asks(t) \/ Verifies(t) \/ Answered(t)
    BY <2>1, TaskBeginsKept, BeginsKept, AsksKept, VerifiesKept, AnsweredKept
  <2>2. CASE GoesWrong(t) \/ LoggedIn(t) \/ Commits(t) \/ Stamps(t) \/ Finalizes(t)
    BY <2>2, GoesWrongKept, LoggedInKept, CommitsKept, StampsKept, FinalizesKept
  <2>3. CASE Persists(t) \/ Completes(t) \/ Handles(t) \/ Reconciles(t) \/ TaskEnds(t)
    BY <2>3, PersistsKept, CompletesKept, HandlesKept, ReconcilesKept, TaskEndsKept
  <2> QED
    BY <1>2, <2>1, <2>2, <2>3 DEF Runner
<1>3. CASE Restart
  BY <1>3, RestartKept
<1>4. CASE UNCHANGED vars
  BY <1>4 DEF vars, IInv, Typed, OneHeld, Held, Places, Known, Crossed, RowInv, Fresh, On, Launches, Launching,
              Solo, Unsettled, Acts, Works, Back, GivenBack, Mail, Sourced, Committed, Ends, Inserting,
              Told, Tells
<1> QED
  BY <1>1, <1>2, <1>3, <1>4 DEF Next

LEMMA Invariance == ASSUME BoundsAssumption PROVE Spec => []IInv
<1>1. Init => IInv
  BY InitIInv
<1>2. IInv /\ [Next]_vars => IInv'
  BY NextIInv
<1> QED
  BY <1>1, <1>2, PTL DEF Spec

LEMMA AtMostOne == ASSUME NEW S, \A x, y \in S : x = y PROVE Cardinality(S) <= 1
<1>1. CASE S = {}
  <2>1. Cardinality(S) = 0
    BY <1>1, FS_EmptySet
  <2> QED
    BY <2>1
<1>2. CASE S # {}
  <2>1. PICK x \in S : TRUE
    BY <1>2
  <2>2. S = {x}
    BY <2>1
  <2>3. Cardinality({x}) = 1
    BY FS_Singleton
  <2>4. Cardinality(S) = 1
    BY <2>2, <2>3
  <2> QED
    BY <2>4
<1> QED
  BY <1>1, <1>2

\* The unique index over the active reservations keeps its promise, and every
\* other variable its type.
THEOREM TypeCorrect == ASSUME BoundsAssumption PROVE Spec => []TypeOK
<1>1. IInv => TypeOK
  <2> SUFFICES ASSUME IInv PROVE TypeOK
    OBVIOUS
  <2> DEFINE holding == {r \in Targets : rows[r].status \in Holding}
  <2>1. \A r, q \in holding : r = q
    BY DEF IInv, OneHeld, Held
  <2> HIDE DEF holding
  <2>2. Cardinality(holding) <= 1
    BY <2>1, AtMostOne
  <2> USE DEF holding
  <2> QED
    BY <2>2 DEF TypeOK, IInv, Typed, Boxes, Calls, ApiPlaces, Runs, RunPlaces, Acting, Working,
                HotPlaces, PastPlaces
<1> QED
  BY <1>1, Invariance, PTL

\* A mailbox that went back to its provider is never the account's address, an
\* address that OpenAI changed is always known to a reservation that holds the
\* account, and the code is sent once: "never replays begin/verify", whatever
\* requests, runners, lost answers and restarts interleave.
THEOREM TargetsAreSafeCorrect == ASSUME BoundsAssumption PROVE Spec => []TargetsAreSafe
<1>1. IInv => TargetsAreSafe
  <2> SUFFICES ASSUME IInv PROVE TargetsAreSafe
    OBVIOUS
  <2>1. ReleasedIsNotUsed
    BY DEF ReleasedIsNotUsed, IInv, RowInv, Back, GivenBack, Committed
  <2>2. ChangeIsKnown
    BY DEF ChangeIsKnown, IInv, Known, Held
  <2>3. ASSUME NEW t \in Threads, At(t, "verify") PROVE remote = rows[run[t].row].source
    <3>1. run[t].row \in Targets
      BY <2>3 DEF IInv, Typed, Places, Runs, Emails, At
    <3> QED
      BY <2>3, <3>1 DEF IInv, Told, Tells, On, At
  <2> DEFINE hot == {t \in Threads : run[t].at \in {"asking", "verify", "answer"}}
  <2>4. \A t, u \in hot : t = u
    <3> SUFFICES ASSUME NEW t \in Threads, NEW u \in Threads,
                        run[t].at \in HotPlaces, run[u].at \in HotPlaces
                 PROVE  t = u
      BY DEF HotPlaces
    <3>1. run[t].row \in Targets /\ run[u].row \in Targets
      BY DEF IInv, Typed, Places, Runs, Emails, HotPlaces
    <3>2. rows[run[t].row].status = "running" /\ rows[run[u].row].status = "running"
      BY <3>1, HotKnows DEF On
    <3>3. run[t].row = run[u].row
      BY <3>1, <3>2 DEF IInv, OneHeld, Held, Holding
    <3>4. Acts(u, run[t].row) /\ \A z \in Threads : Acts(z, run[t].row) => z = t
      BY <3>1, <3>3, HotKnows DEF On
    <3> QED
      BY <3>4
  <2> HIDE DEF hot
  <2>5. Cardinality(hot) <= 1
    BY <2>4, AtMostOne
  <2> USE DEF hot
  <2> QED
    BY <2>1, <2>2, <2>3, <2>5 DEF TargetsAreSafe, VerifyIsNotReplayed
<1> QED
  BY <1>1, Invariance, PTL

\* A change that says done is committed and its mailbox kept; and as long as no
\* write of the database has raised, a row that says running is run and a change
\* that stopped past the boundary can be resumed, across stops and restarts.
THEOREM ChangesEndCorrect == ASSUME BoundsAssumption PROVE Spec => []ChangesEnd
<1>1. IInv => ChangesEnd
  <2> SUFFICES ASSUME IInv PROVE ChangesEnd
    OBVIOUS
  <2>1. DoneIsWhole
    BY DEF DoneIsWhole, IInv, RowInv, Mail
  <2>2. faults = 0 => RunningIsRun
    BY DEF RunningIsRun, IInv, RowInv, Ends, Launches, Launching, On
  <2>3. faults = 0 => CanGoOn
    BY DEF CanGoOn, IInv, RowInv, Ends
  <2> QED
    BY <2>1, <2>2, <2>3 DEF ChangesEnd
<1> QED
  BY <1>1, Invariance, PTL

=============================================================================
