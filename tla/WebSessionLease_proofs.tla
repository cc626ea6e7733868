----------------------- MODULE WebSessionLease_proofs -----------------------
(***************************************************************************)
(* Theorems of WebSessionLease, for any number of leases and API threads   *)
(* and any bounds.                                                         *)
(***************************************************************************)
EXTENDS WebSessionLease, SequenceTheorems, TLAPS

\* What a step that makes no command may do to the commands: no command
\* changes its lease or its kind.
Keeps(s) ==
    /\ s \in Seq(CommandRecords)
    /\ Len(s) = Len(cmds)
    /\ \A j \in 1..Len(cmds) : s[j].lease = cmds[j].lease /\ s[j].kind = cmds[j].kind

\* A lease that is neither unused nor over counts as active while its owner has
\* not left it; what was never used was never released.
Owned(v) ==
    /\ v.owner \notin {"none", "draining", "over"} => v.status \in ActiveStatus
    /\ v.owner = "none" <=> v.status = "none"
    /\ v.owner = "none" => ~v.release

\* What a step may make of the lease v
Follows(v, w) ==
    /\ w \in LeaseRecords
    /\ Owned(w)
    /\ v.release => w.release
    /\ v.release /\ v.status = "releasing" => w.status \in {"releasing"} \cup TerminalStatus
    /\ v.status \in TerminalStatus => w.status = v.status
    /\ v.owner # "none" => w.owner # "none"

\* An API thread in the middle of a call has a lease that was created, and the
\* command it waits for was made.
Engaged(c) ==
    /\ callers[c].pc # "idle" =>
          callers[c].lease \in Ids /\ L[callers[c].lease].owner # "none"
    /\ callers[c].pc \in {"put", "waiting", "expired"} => callers[c].cmd \in 1..Len(cmds)

IInv ==
    /\ TypeOK
    /\ \A l \in Ids : Owned(L[l])
    /\ \A c \in Callers : Engaged(c)
    /\ OneCommandPerRequest

-----------------------------------------------------------------------------
\* A change of one field of one command keeps the commands.
LEMMA CommandUpdates ==
  ASSUME TypeOK
  PROVE  /\ Keeps(cmds)
         /\ \A K : Keeps(Failed(K))
         /\ \A k : Keeps([cmds EXCEPT ![k].done = TRUE])
         /\ \A k : Keeps([cmds EXCEPT ![k].cancelled = TRUE])
         /\ \A k : \A b \in BOOLEAN : Keeps([cmds EXCEPT ![k].cancelled = @ \/ b])
<1>1. /\ cmds \in Seq(CommandRecords)
      /\ Len(cmds) \in Nat
      /\ cmds \in [1..Len(cmds) -> CommandRecords]
  BY LenProperties DEF TypeOK
<1>2. ASSUME NEW s \in [1..Len(cmds) -> CommandRecords],
             \A j \in 1..Len(cmds) : s[j].lease = cmds[j].lease /\ s[j].kind = cmds[j].kind
      PROVE  Keeps(s)
  BY <1>1, <1>2, SeqDef DEF Keeps
<1>3. Keeps(cmds)
  BY <1>1, <1>2
<1>4. ASSUME NEW K PROVE Keeps(Failed(K))
  <2>1. Failed(K) \in [1..Len(cmds) -> CommandRecords]
    BY <1>1 DEF Failed, CommandRecords
  <2>2. \A j \in 1..Len(cmds) : /\ Failed(K)[j].lease = cmds[j].lease
                                /\ Failed(K)[j].kind = cmds[j].kind
    BY <1>1 DEF Failed, CommandRecords
  <2> QED
    BY <1>2, <2>1, <2>2
<1>5. ASSUME NEW k PROVE Keeps([cmds EXCEPT ![k].done = TRUE])
  <2> DEFINE s == [cmds EXCEPT ![k].done = TRUE]
  <2>1. s \in [1..Len(cmds) -> CommandRecords]
    BY <1>1 DEF CommandRecords
  <2>2. \A j \in 1..Len(cmds) : s[j].lease = cmds[j].lease /\ s[j].kind = cmds[j].kind
    BY <1>1 DEF CommandRecords
  <2> QED
    BY <1>2, <2>1, <2>2
<1>6. ASSUME NEW k PROVE Keeps([cmds EXCEPT ![k].cancelled = TRUE])
  <2> DEFINE s == [cmds EXCEPT ![k].cancelled = TRUE]
  <2>1. s \in [1..Len(cmds) -> CommandRecords]
    BY <1>1 DEF CommandRecords
  <2>2. \A j \in 1..Len(cmds) : s[j].lease = cmds[j].lease /\ s[j].kind = cmds[j].kind
    BY <1>1 DEF CommandRecords
  <2> QED
    BY <1>2, <2>1, <2>2
<1>7. ASSUME NEW k, NEW b \in BOOLEAN PROVE Keeps([cmds EXCEPT ![k].cancelled = @ \/ b])
  <2> DEFINE s == [cmds EXCEPT ![k].cancelled = @ \/ b]
  <2>1. CASE b
    BY <1>6, <2>1
  <2>2. CASE ~b
    <3>1. \A j \in 1..Len(cmds) : cmds[j].cancelled \in BOOLEAN /\ cmds[j] \in CommandRecords
      BY <1>1 DEF CommandRecords
    <3>2. s \in [1..Len(cmds) -> CommandRecords]
      BY <1>1, <2>2, <3>1 DEF CommandRecords
    <3>3. \A j \in 1..Len(cmds) : s[j].lease = cmds[j].lease /\ s[j].kind = cmds[j].kind
      BY <1>1, <2>2 DEF CommandRecords
    <3> QED
      BY <1>2, <3>2, <3>3
  <2> QED
    BY <2>1, <2>2
<1> QED
  BY <1>3, <1>4, <1>5, <1>6, <1>7

\* What the methods make of a lease is a lease.
LEMMA LeaseUpdates ==
  ASSUME NEW v \in LeaseRecords
  PROVE  /\ \A s \in ActiveStatus \cup TerminalStatus : Moved(v, s) \in LeaseRecords
         /\ Told(v) \in LeaseRecords
         /\ Emptied(v) \in LeaseRecords
         /\ TabsClosed(v) \in LeaseRecords
         /\ \A K : \A t \in TabStates : TabAfter(v, K, t) \in TabStates
<1> USE DEF LeaseRecords
<1>1. \A s : Class(s) \in Notes
  BY DEF Class, Notes
<1>2. \A s \in ActiveStatus \cup TerminalStatus : Moved(v, s) \in LeaseRecords
  BY <1>1 DEF Moved
<1>3. Told(v) \in LeaseRecords
  BY <1>1 DEF Told
<1>4. \A K : \A t \in TabStates : TabAfter(v, K, t) \in TabStates
  BY DEF TabAfter
<1>5. Emptied(v) \in LeaseRecords
  <2>1. TabAfter(v, Queued(v), "cancelled") \in TabStates
    BY <1>4 DEF TabStates
  <2>2. << >> \in Seq(1..MaxCommands)
    BY EmptySeq
  <2> QED
    BY <2>1, <2>2 DEF Emptied
<1>6. TabsClosed(v) \in LeaseRecords
  BY <1>1 DEF TabsClosed, Told, TabStates
<1> QED
  BY <1>2, <1>3, <1>4, <1>5, <1>6

\* A command that ends badly leaves a lease and the commands as they should be.
LEMMA JobFailedUpdates ==
  ASSUME TypeOK, NEW l \in Ids, NEW k, JobFailed(l, k)
  PROVE  Keeps(cmds') /\ L' \in [Ids -> LeaseRecords]
<1> DEFINE v == [L[l] EXCEPT !.owner = "hold", !.job = 0, !.current = 0]
<1>1. Keeps(cmds')
  BY CommandUpdates DEF JobFailed
<1>2. v \in LeaseRecords
  <2>1. L[l] \in LeaseRecords
    BY DEF TypeOK
  <2>2. 0 \in 0..MaxCommands
    BY LeaseAssumption
  <2> QED
    BY <2>1, <2>2 DEF LeaseRecords
<1>3. Moved(v, "ready_holding") \in LeaseRecords
  BY <1>2, LeaseUpdates DEF ActiveStatus
<1>4. \A s \in {"timed_out", "cancelled", "failed"} :
         Told([v EXCEPT !.tab = TabAfter(v, {k}, s)]) \in LeaseRecords
  <2> TAKE s \in {"timed_out", "cancelled", "failed"}
  <2>1. TabAfter(v, {k}, s) \in TabStates
    BY <1>2, LeaseUpdates DEF TabStates
  <2>2. [v EXCEPT !.tab = TabAfter(v, {k}, s)] \in LeaseRecords
    BY <1>2, <2>1 DEF LeaseRecords
  <2> QED
    BY <2>2, LeaseUpdates
<1>5. \E w \in LeaseRecords : Becomes(l, w)
  BY <1>3, <1>4 DEF JobFailed
<1> QED
  BY <1>1, <1>5 DEF Becomes, TypeOK

\* The owner makes no command.
LEMMA OwnerKeeps ==
  ASSUME TypeOK, NEW l \in Ids, Create(l) \/ Login(l) \/ Hold(l) \/ OwnerTells(l)
  PROVE  Keeps(cmds')
<1>1. CASE Create(l) \/ OwnerTells(l) \/ Login(l)
  BY <1>1, CommandUpdates
     DEF Create, OwnerTells, Login, LoginStarts, StoppedBetween, LoginFails, GivesUp,
         LoginStopped, Keeps
<1>2. CASE HoldStarts(l) \/ HoldEntered(l) \/ SeesRelease(l) \/ HoldEnds(l)
           \/ TabLost(l) \/ Released(l)
  BY <1>2, CommandUpdates
     DEF HoldStarts, HoldEntered, SeesRelease, HoldEnds, TabLost, Released, Keeps
<1>3. CASE Take(l)
  <2>1. L[l].release \in BOOLEAN
    BY DEF TypeOK, LeaseRecords
  <2> QED
    BY <1>3, <2>1, CommandUpdates DEF Take
<1>4. CASE Begin(l)
  BY <1>4, CommandUpdates, JobFailedUpdates DEF Begin, Keeps
<1>5. CASE Work(l)
  BY <1>5, CommandUpdates, JobFailedUpdates DEF Work, Keeps
<1>6. CASE Finish(l)
  BY <1>6, CommandUpdates, JobFailedUpdates DEF Finish
<1>7. CASE WorkInterrupted(l)
  BY <1>7, CommandUpdates DEF WorkInterrupted
<1>8. CASE Leaves(l)
  BY <1>8, CommandUpdates DEF Leaves
<1> QED
  BY <1>1, <1>2, <1>3, <1>4, <1>5, <1>6, <1>7, <1>8 DEF Hold

\* Every step but the making of a command keeps the commands.
LEMMA CommandsStep ==
  ASSUME TypeOK, [Next]_vars
  PROVE  \/ Keeps(cmds')
         \/ \E l \in Ids : NewCommand(l, "refresh")
         \/ \E l \in Ids, r \in Requests : NewCommand(l, r) /\ Known(l, r) = {}
<1>1. CASE UNCHANGED vars
  BY <1>1, CommandUpdates DEF vars, Keeps
<1>2. ASSUME NEW l \in Ids, Create(l) \/ Login(l) \/ Hold(l) \/ OwnerTells(l)
      PROVE  Keeps(cmds')
  BY <1>2, OwnerKeeps
<1>5. ASSUME NEW c \in Callers, NEW l \in Ids, Release(c, l) PROVE Keeps(cmds')
  BY <1>5, CommandUpdates DEF Release
<1>6. ASSUME NEW c \in Callers, NEW l \in Ids, Refresh(c, l) PROVE NewCommand(l, "refresh")
  BY <1>6 DEF Refresh
<1>7. ASSUME NEW c \in Callers, NEW l \in Ids, NEW r \in Requests, Open(c, l, r)
      PROVE  Keeps(cmds') \/ (NewCommand(l, r) /\ Known(l, r) = {})
  BY <1>7, CommandUpdates DEF Open, Keeps
<1>8. ASSUME NEW c \in Callers, NEW l \in Ids, NEW r \in Requests, UpdateStatus(c, l, r)
      PROVE  Keeps(cmds')
  BY <1>8, CommandUpdates DEF UpdateStatus, Keeps
<1>9. ASSUME NEW c \in Callers,
             ReleaseDrains(c) \/ ReleaseMarks(c) \/ Put(c) \/ Answered(c) \/ TimesOut(c)
               \/ RecordsTimeout(c) \/ CallerTells(c)
      PROVE  Keeps(cmds')
  <2>1. CASE ReleaseMarks(c) \/ Put(c) \/ Answered(c) \/ CallerTells(c)
    BY <2>1, CommandUpdates DEF ReleaseMarks, Put, Answered, CallerTells, Keeps
  <2>2. CASE ReleaseDrains(c) \/ RecordsTimeout(c)
    BY <2>2, CommandUpdates DEF ReleaseDrains, RecordsTimeout
  <2>3. CASE TimesOut(c)
    BY <2>3, CommandUpdates DEF TimesOut
  <2> QED
    BY <1>9, <2>1, <2>2, <2>3
<1> QED
  BY <1>1, <1>2, <1>5, <1>6, <1>7, <1>8, <1>9 DEF Next, Api

\* Of status, release and owner the methods change what they say they change.
LEMMA FieldUpdates ==
  ASSUME NEW v \in LeaseRecords
  PROVE  /\ \A s : /\ Moved(v, s).owner = v.owner
                   /\ Moved(v, s).release = v.release
                   /\ Moved(v, s).status = IF Refused(v, s) THEN v.status ELSE s
         /\ Told(v).owner = v.owner /\ Told(v).release = v.release /\ Told(v).status = v.status
         /\ Emptied(v).owner = v.owner /\ Emptied(v).release = v.release
         /\ Emptied(v).status = v.status
         /\ TabsClosed(v).owner = v.owner /\ TabsClosed(v).release = v.release
         /\ TabsClosed(v).status = v.status
<1> USE DEF LeaseRecords
<1>1. ASSUME NEW s
      PROVE  /\ Moved(v, s).owner = v.owner
             /\ Moved(v, s).release = v.release
             /\ Moved(v, s).status = IF Refused(v, s) THEN v.status ELSE s
  BY DEF Moved
<1>2. Told(v).owner = v.owner /\ Told(v).release = v.release /\ Told(v).status = v.status
  BY DEF Told
<1>3. /\ Emptied(v).owner = v.owner /\ Emptied(v).release = v.release
      /\ Emptied(v).status = v.status
  BY DEF Emptied
<1>4. /\ TabsClosed(v).owner = v.owner /\ TabsClosed(v).release = v.release
      /\ TabsClosed(v).status = v.status
  BY <1>2 DEF TabsClosed, Told
<1> QED
  BY <1>1, <1>2, <1>3, <1>4

\* A lease that becomes what may follow leaves the leases as they should be.
LEMMA BecomesFollows ==
  ASSUME TypeOK, \A m \in Ids : Owned(L[m]), NEW l \in Ids, NEW w,
         Becomes(l, w), Follows(L[l], w)
  PROVE  L' \in [Ids -> LeaseRecords] /\ \A m \in Ids : Follows(L[m], L'[m])
<1>1. L \in [Ids -> LeaseRecords] /\ w \in LeaseRecords
  BY DEF TypeOK, Follows
<1>2. L' \in [Ids -> LeaseRecords] /\ L'[l] = w
  BY <1>1 DEF Becomes
<1>3. ASSUME NEW m \in Ids, m # l PROVE Follows(L[m], L'[m])
  <2>1. L'[m] = L[m] /\ L[m] \in LeaseRecords
    BY <1>1, <1>3 DEF Becomes
  <2> QED
    BY <2>1 DEF Follows
<1> QED
  BY <1>2, <1>3

\* A lease in use whose other fields change, and that may tell the manager.
LEMMA QuietFollows ==
  ASSUME NEW v \in LeaseRecords, Owned(v), NEW u \in LeaseRecords,
         u.status = v.status, u.release = v.release,
         v.owner # "none", u.owner # "none",
         u.owner \notin {"draining", "over"} => v.status \in ActiveStatus
  PROVE  Follows(v, u) /\ Follows(v, Told(u))
<1>1. u.status # "none"
  BY DEF Owned
<1>2. Follows(v, u)
  BY <1>1 DEF Follows, Owned
<1>3. Told(u) \in LeaseRecords
  BY LeaseUpdates
<1>4. Told(u).status = u.status /\ Told(u).owner = u.owner /\ Told(u).release = u.release
  BY FieldUpdates
<1> QED
  BY <1>1, <1>2, <1>3, <1>4 DEF Follows, Owned

\* A transition of a lease in use by its owner, who leaves the lease with a
\* terminal status.
LEMMA TransitionFollows ==
  ASSUME NEW v \in LeaseRecords, Owned(v), NEW u \in LeaseRecords,
         u.status = v.status, u.release = v.release,
         v.owner \notin {"none", "draining", "over"}, u.owner # "none",
         NEW s \in ActiveStatus \cup TerminalStatus,
         s \in TerminalStatus => u.owner \in {"draining", "over"}
  PROVE  Follows(v, Moved(u, s))
<1> DEFINE w == Moved(u, s)
<1>1. w \in LeaseRecords
  BY LeaseUpdates
<1>2. /\ w.owner = u.owner /\ w.release = v.release
      /\ w.status = IF Refused(u, s) THEN v.status ELSE s
  BY FieldUpdates
<1>3. v.status \in ActiveStatus
  BY DEF Owned
<1>4. Owned(w)
  BY <1>2, <1>3 DEF Owned, ActiveStatus, TerminalStatus
<1>5. v.release /\ v.status = "releasing" => w.status \in {"releasing"} \cup TerminalStatus
  BY <1>2 DEF Refused, ActiveStatus, TerminalStatus
<1>6. v.status \notin TerminalStatus
  BY <1>3 DEF ActiveStatus, TerminalStatus
<1> QED
  BY <1>1, <1>2, <1>4, <1>5, <1>6 DEF Follows

\* The owner's steps up to the hold.
LEMMA LoginFollows ==
  ASSUME TypeOK, \A m \in Ids : Owned(L[m]), NEW l \in Ids,
         Create(l) \/ Login(l) \/ HoldStarts(l) \/ HoldEntered(l)
  PROVE  \E w : Becomes(l, w) /\ Follows(L[l], w)
<1> DEFINE v == L[l]
<1>1. v \in LeaseRecords /\ Owned(v) /\ 0 \in 0..MaxTries /\ MaxTries \in Nat
  BY LeaseAssumption DEF TypeOK
<1>2. v.tries \in 0..MaxTries
  BY <1>1 DEF LeaseRecords
<1>3. CASE Create(l)
  <2> DEFINE u == [Blank EXCEPT !.status = "opening", !.owner = "between"]
  <2>1. Blank \in LeaseRecords
    BY LeaseAssumption, EmptySeq DEF Blank, LeaseRecords, TabStates, Notes
  <2>2. /\ u \in LeaseRecords
        /\ u.status = "opening" /\ u.owner = "between" /\ u.release = FALSE
    <3>1. Blank.release = FALSE
      BY DEF Blank
    <3> QED
      BY <2>1, <3>1 DEF LeaseRecords, ActiveStatus
  <2>3. /\ Told(u) \in LeaseRecords
        /\ Told(u).status = "opening" /\ Told(u).owner = "between"
    BY <2>2, LeaseUpdates, FieldUpdates
  <2>4. v.owner = "none" /\ Becomes(l, Told(u))
    BY <1>3 DEF Create
  <2>5. Follows(v, Told(u))
    BY <1>1, <2>3, <2>4 DEF Follows, Owned, ActiveStatus, TerminalStatus
  <2> QED
    BY <2>4, <2>5
<1>4. CASE LoginStarts(l)
  <2> DEFINE u == [v EXCEPT !.owner = "browser", !.tries = @ + 1]
  <2>1. Becomes(l, Moved(u, "opening")) /\ v.owner = "between" /\ v.tries < MaxTries
    BY <1>4 DEF LoginStarts, Owner
  <2>2. v.tries + 1 \in 0..MaxTries
    BY <1>1, <1>2, <2>1
  <2>3. /\ u \in LeaseRecords /\ u.status = v.status /\ u.release = v.release
        /\ u.owner = "browser"
    BY <1>1, <2>2 DEF LeaseRecords
  <2> QED
    BY <1>1, <2>1, <2>3, TransitionFollows DEF ActiveStatus, TerminalStatus
<1>5. CASE StoppedBetween(l) \/ LoginFails(l)
  <2>1. PICK o \in {"over", "between"} : Becomes(l, [v EXCEPT !.owner = o])
    BY <1>5 DEF StoppedBetween, LoginFails
  <2>2. v.owner \in {"between", "browser"}
    BY <1>5 DEF StoppedBetween, LoginFails, Owner
  <2> DEFINE u == [v EXCEPT !.owner = o]
  <2>3. u \in LeaseRecords /\ u.status = v.status /\ u.release = v.release /\ u.owner = o
    BY <1>1 DEF LeaseRecords
  <2>4. v.status \in ActiveStatus
    BY <1>1, <2>2 DEF Owned
  <2>5. Follows(v, u)
    BY <1>1, <2>2, <2>3, <2>4, QuietFollows
  <2> QED
    BY <2>1, <2>5
<1>6. CASE GivesUp(l) \/ LoginStopped(l)
  <2> DEFINE u == [v EXCEPT !.owner = "over"]
  <2>1. PICK s \in TerminalStatus : Becomes(l, Moved(u, s))
    BY <1>6 DEF GivesUp, LoginStopped, TerminalStatus
  <2>2. v.owner \in {"between", "browser"}
    BY <1>6 DEF GivesUp, LoginStopped, Owner
  <2>3. u \in LeaseRecords /\ u.status = v.status /\ u.release = v.release /\ u.owner = "over"
    BY <1>1 DEF LeaseRecords
  <2>4. Follows(v, Moved(u, s))
    BY <1>1, <2>2, <2>3, TransitionFollows
  <2> QED
    BY <2>1, <2>4
<1>7. CASE HoldStarts(l)
  <2>1. v.owner = "browser"
    BY <1>7 DEF HoldStarts, Owner
  <2>2. CASE v.release
    <3> DEFINE u == [v EXCEPT !.owner = "closing", !.tries = 0]
    <3>1. Becomes(l, Moved(u, "releasing"))
      BY <1>7, <2>2 DEF HoldStarts
    <3>2. /\ u \in LeaseRecords /\ u.status = v.status /\ u.release = v.release
          /\ u.owner = "closing"
      BY <1>1 DEF LeaseRecords
    <3> QED
      BY <1>1, <2>1, <3>1, <3>2, TransitionFollows DEF ActiveStatus, TerminalStatus
  <2>3. CASE ~v.release
    <3> DEFINE u == [v EXCEPT !.owner = "entering", !.tries = 0]
    <3>1. Becomes(l, u)
      BY <1>7, <2>3 DEF HoldStarts
    <3>2. /\ u \in LeaseRecords /\ u.status = v.status /\ u.release = v.release
          /\ u.owner = "entering"
      BY <1>1 DEF LeaseRecords
    <3>3. v.status \in ActiveStatus
      BY <1>1, <2>1 DEF Owned
    <3>4. Follows(v, u)
      BY <1>1, <2>1, <3>2, <3>3, QuietFollows
    <3> QED
      BY <3>1, <3>4
  <2> QED
    BY <2>2, <2>3
<1>8. CASE HoldEntered(l)
  <2> DEFINE u == [v EXCEPT !.owner = "hold"]
  <2>1. Becomes(l, Moved(u, "ready_holding")) /\ v.owner = "entering"
    BY <1>8 DEF HoldEntered, Owner
  <2>2. u \in LeaseRecords /\ u.status = v.status /\ u.release = v.release /\ u.owner = "hold"
    BY <1>1 DEF LeaseRecords
  <2> QED
    BY <1>1, <2>1, <2>2, TransitionFollows DEF ActiveStatus, TerminalStatus
<1> QED
  BY <1>3, <1>4, <1>5, <1>6, <1>7, <1>8 DEF Login

\* A command that ends badly, of a lease that is held.
LEMMA JobFailedFollows ==
  ASSUME TypeOK, NEW l \in Ids, Owned(L[l]), NEW k, JobFailed(l, k),
         L[l].owner \in {"taken", "working", "finishing"}
  PROVE  \E w : Becomes(l, w) /\ Follows(L[l], w)
<1> DEFINE v == L[l]
           u == [v EXCEPT !.owner = "hold", !.job = 0, !.current = 0]
<1>1. v \in LeaseRecords /\ 0 \in 0..MaxCommands
  BY LeaseAssumption DEF TypeOK
<1>2. u \in LeaseRecords /\ u.status = v.status /\ u.release = v.release /\ u.owner = "hold"
  BY <1>1 DEF LeaseRecords
<1>3. CASE cmds[k].kind = "refresh"
  <2>1. Becomes(l, Moved(u, "ready_holding"))
    BY <1>3 DEF JobFailed
  <2> QED
    BY <1>1, <1>2, <2>1, TransitionFollows DEF ActiveStatus, TerminalStatus
<1>4. CASE cmds[k].kind # "refresh"
  <2>1. PICK s \in {"timed_out", "cancelled", "failed"} :
           Becomes(l, Told([u EXCEPT !.tab = TabAfter(u, {k}, s)]))
    BY <1>4 DEF JobFailed
  <2> DEFINE t == [u EXCEPT !.tab = TabAfter(u, {k}, s)]
  <2>2. TabAfter(u, {k}, s) \in TabStates
    BY <1>2, LeaseUpdates DEF TabStates
  <2>3. t \in LeaseRecords /\ t.status = v.status /\ t.release = v.release /\ t.owner = "hold"
    BY <1>2, <2>2 DEF LeaseRecords
  <2>4. v.status \in ActiveStatus
    BY DEF Owned
  <2>5. Follows(v, Told(t))
    BY <1>1, <2>3, <2>4, QuietFollows
  <2> QED
    BY <2>1, <2>5
<1> QED
  BY <1>3, <1>4

\* The owner's steps while it holds the browser, and its last one.
LEMMA HoldFollows ==
  ASSUME TypeOK, \A m \in Ids : Owned(L[m]), NEW l \in Ids,
         Hold(l), ~HoldStarts(l), ~HoldEntered(l)
  PROVE  \E w : Becomes(l, w) /\ Follows(L[l], w)
<1> DEFINE v == L[l]
<1>1. v \in LeaseRecords /\ Owned(v) /\ 0 \in 0..MaxCommands
  BY LeaseAssumption DEF TypeOK
<1>2. ASSUME NEW o \in {"leaving", "draining", "hold", "over"}
      PROVE  LET u == [v EXCEPT !.owner = o]
             IN  u \in LeaseRecords /\ u.status = v.status /\ u.release = v.release /\ u.owner = o
  BY <1>1 DEF LeaseRecords
<1>3. CASE SeesRelease(l)
  <2>1. PICK o \in {"leaving", "draining"} : Becomes(l, Moved([v EXCEPT !.owner = o], "releasing"))
    BY <1>3 DEF SeesRelease
  <2>2. v.owner = "hold"
    BY <1>3 DEF SeesRelease, Owner
  <2>3. Follows(v, Moved([v EXCEPT !.owner = o], "releasing"))
    BY <1>1, <1>2, <2>2, TransitionFollows DEF ActiveStatus, TerminalStatus
  <2> QED
    BY <2>1, <2>3
<1>4. CASE HoldEnds(l)
  <2>1. PICK s \in {"stopped", "interrupted"} : Becomes(l, Moved([v EXCEPT !.owner = "draining"], s))
    BY <1>4 DEF HoldEnds
  <2>2. v.owner = "hold"
    BY <1>4 DEF HoldEnds, Owner
  <2>3. Follows(v, Moved([v EXCEPT !.owner = "draining"], s))
    BY <1>1, <1>2, <2>2, TransitionFollows DEF TerminalStatus
  <2> QED
    BY <2>1, <2>3
<1>5. CASE Take(l)
  <2> DEFINE u == [v EXCEPT !.queue = Tail(@), !.job = Head(v.queue), !.owner = "taken"]
  <2>1. v.queue \in Seq(1..MaxCommands) /\ v.queue # << >> /\ v.owner = "hold"
    BY <1>1, <1>5 DEF Take, Owner, LeaseRecords
  <2>2. Tail(v.queue) \in Seq(1..MaxCommands) /\ Head(v.queue) \in 0..MaxCommands
    <3>1. Head(v.queue) \in 1..MaxCommands /\ Tail(v.queue) \in Seq(1..MaxCommands)
      BY <2>1, HeadTailProperties
    <3> QED
      BY <3>1, LeaseAssumption
  <2>3. u \in LeaseRecords /\ u.status = v.status /\ u.release = v.release /\ u.owner = "taken"
    BY <1>1, <2>2 DEF LeaseRecords
  <2>4. Becomes(l, u)
    BY <1>5 DEF Take
  <2>5. v.status \in ActiveStatus
    BY <1>1, <2>1 DEF Owned
  <2>6. Follows(v, u)
    BY <1>1, <2>1, <2>3, <2>5, QuietFollows
  <2> QED
    BY <2>4, <2>6
<1>6. CASE Begin(l)
  <2>1. v.owner = "taken" /\ v.job \in 0..MaxCommands
    BY <1>1, <1>6 DEF Begin, Owner, LeaseRecords
  <2> DEFINE k == v.job
             u == [v EXCEPT !.current = k, !.owner = "working"]
  <2>2. u \in LeaseRecords /\ u.status = v.status /\ u.release = v.release /\ u.owner = "working"
    BY <1>1, <2>1 DEF LeaseRecords
  <2>3. CASE JobFailed(l, k)
    BY <1>1, <2>1, <2>3, JobFailedFollows
  <2>4. CASE Becomes(l, Moved(u, "refreshing_session"))
    BY <1>1, <2>1, <2>2, <2>4, TransitionFollows DEF ActiveStatus, TerminalStatus
  <2>5. CASE Becomes(l, u)
    <3>1. v.status \in ActiveStatus
      BY <1>1, <2>1 DEF Owned
    <3> QED
      BY <1>1, <2>1, <2>2, <2>5, <3>1, QuietFollows
  <2> QED
    BY <1>6, <2>3, <2>4, <2>5 DEF Begin
<1>7. CASE Work(l)
  <2>1. v.owner = "working"
    BY <1>7 DEF Work, Owner
  <2> DEFINE u == [v EXCEPT !.owner = "finishing"]
  <2>2. u \in LeaseRecords /\ u.status = v.status /\ u.release = v.release /\ u.owner = "finishing"
    BY <1>1 DEF LeaseRecords
  <2>3. CASE JobFailed(l, v.job)
    BY <1>1, <2>1, <2>3, JobFailedFollows
  <2>4. CASE Becomes(l, u)
    <3>1. v.status \in ActiveStatus
      BY <1>1, <2>1 DEF Owned
    <3> QED
      BY <1>1, <2>1, <2>2, <2>4, <3>1, QuietFollows
  <2> QED
    BY <1>7, <2>3, <2>4 DEF Work
<1>8. CASE Finish(l)
  <2>1. v.owner = "finishing"
    BY <1>8 DEF Finish, Owner
  <2> DEFINE k == v.job
             u == [v EXCEPT !.owner = "hold", !.job = 0, !.current = 0]
             t == [u EXCEPT !.tab = TabAfter(u, {k}, "ready")]
  <2>2. u \in LeaseRecords /\ u.status = v.status /\ u.release = v.release /\ u.owner = "hold"
    BY <1>1 DEF LeaseRecords
  <2>3. CASE JobFailed(l, k)
    BY <1>1, <2>1, <2>3, JobFailedFollows
  <2>4. CASE Becomes(l, Moved(u, "ready_holding"))
    BY <1>1, <2>1, <2>2, <2>4, TransitionFollows DEF ActiveStatus, TerminalStatus
  <2>5. CASE Becomes(l, Told(t))
    <3>1. TabAfter(u, {k}, "ready") \in TabStates
      BY <2>2, LeaseUpdates DEF TabStates
    <3>2. t \in LeaseRecords /\ t.status = v.status /\ t.release = v.release /\ t.owner = "hold"
      BY <2>2, <3>1 DEF LeaseRecords
    <3>3. v.status \in ActiveStatus
      BY <1>1, <2>1 DEF Owned
    <3>4. Follows(v, Told(t))
      BY <1>1, <2>1, <3>2, <3>3, QuietFollows
    <3> QED
      BY <2>5, <3>4
  <2> QED
    BY <1>8, <2>3, <2>4, <2>5 DEF Finish
<1>9. CASE WorkInterrupted(l)
  <2> DEFINE u == [v EXCEPT !.owner = "draining", !.job = 0, !.current = 0]
  <2>1. PICK s \in {"stopped", "releasing"} : Becomes(l, Moved(u, s))
    BY <1>9 DEF WorkInterrupted
  <2>2. v.owner \in {"working", "finishing"}
    BY <1>9 DEF WorkInterrupted
  <2>3. u \in LeaseRecords /\ u.status = v.status /\ u.release = v.release /\ u.owner = "draining"
    BY <1>1 DEF LeaseRecords
  <2>4. s \in ActiveStatus \cup TerminalStatus
    BY DEF ActiveStatus, TerminalStatus
  <2>5. Follows(v, Moved(u, s))
    BY <1>1, <2>2, <2>3, <2>4, TransitionFollows
  <2> QED
    BY <2>1, <2>5
<1>10. CASE TabLost(l)
  <2> DEFINE u == [v EXCEPT !.tab = "closed"]
  <2>1. v.owner = "hold" /\ Becomes(l, Told(u))
    BY <1>10 DEF TabLost, Owner
  <2>2. u \in LeaseRecords /\ u.status = v.status /\ u.release = v.release /\ u.owner = "hold"
    BY <1>1, <2>1 DEF LeaseRecords, TabStates
  <2>3. v.status \in ActiveStatus
    BY <1>1, <2>1 DEF Owned
  <2>4. Follows(v, Told(u))
    BY <1>1, <2>1, <2>2, <2>3, QuietFollows
  <2> QED
    BY <2>1, <2>4
<1>11. CASE Leaves(l)
  <2>1. v.owner \in {"leaving", "draining"}
    BY <1>11 DEF Leaves
  <2> DEFINE d == IF v.owner = "draining" THEN Emptied(v) ELSE v
             x == TabsClosed(d)
             o == IF x.status \in TerminalStatus THEN "over" ELSE "closing"
             u == [x EXCEPT !.owner = o]
  <2>2. d \in LeaseRecords /\ d.status = v.status /\ d.release = v.release /\ d.owner = v.owner
    BY <1>1, LeaseUpdates, FieldUpdates
  <2>3. x \in LeaseRecords /\ x.status = v.status /\ x.release = v.release
    <3> HIDE DEF d
    <3> QED
      BY <2>2, LeaseUpdates, FieldUpdates
  <2>4. u \in LeaseRecords /\ u.status = v.status /\ u.release = v.release /\ u.owner = o
    <3> HIDE DEF x
    <3> QED
      BY <2>3 DEF LeaseRecords
  <2>5. o = "closing" => v.status \in ActiveStatus
    <3>1. v.status # "none" /\ v.status \in {"none"} \cup ActiveStatus \cup TerminalStatus
      BY <1>1, <2>1 DEF Owned, LeaseRecords
    <3>2. o = "closing" => v.status \notin TerminalStatus
      <4> HIDE DEF x
      <4> QED
        BY <2>3
    <3> QED
      BY <3>1, <3>2
  <2>6. Becomes(l, u)
    BY <1>11 DEF Leaves
  <2>7. o \in {"over", "closing"}
    OBVIOUS
  <2>8. Follows(v, u)
    <3> HIDE DEF o, u
    <3> QED
      BY <1>1, <2>1, <2>4, <2>5, <2>7, QuietFollows
  <2> QED
    BY <2>6, <2>8
<1>12. CASE Released(l)
  <2>1. v.owner = "closing" /\ Becomes(l, Moved([v EXCEPT !.owner = "over"], "released"))
    BY <1>12 DEF Released, Owner
  <2>2. Follows(v, Moved([v EXCEPT !.owner = "over"], "released"))
    BY <1>1, <1>2, <2>1, TransitionFollows DEF TerminalStatus
  <2> QED
    BY <2>1, <2>2
<1> QED
  BY <1>3, <1>4, <1>5, <1>6, <1>7, <1>8, <1>9, <1>10, <1>11, <1>12 DEF Hold

\* The steps of the API threads change a lease as they may.
LEMMA ApiFollows ==
  ASSUME IInv, NEW c \in Callers, Api(c)
  PROVE  UNCHANGED L \/ \E l \in Ids : \E w : Becomes(l, w) /\ Follows(L[l], w)
<1> USE DEF IInv
<1>1. ASSUME NEW l \in Ids
      PROVE  /\ L[l] \in LeaseRecords /\ Owned(L[l])
             /\ L[l].status \in {"none"} \cup ActiveStatus \cup TerminalStatus
  BY DEF TypeOK, LeaseRecords
<1>2. /\ callers[c] \in CallerRecords
      /\ callers[c].pc # "idle" =>
            callers[c].lease \in Ids /\ L[callers[c].lease].owner # "none"
  BY DEF TypeOK, Engaged
<1>3. ASSUME NEW l \in Ids, Release(c, l) PROVE \E w : Becomes(l, w) /\ Follows(L[l], w)
  <2> DEFINE u == [L[l] EXCEPT !.release = TRUE]
  <2>1. u \in LeaseRecords /\ u.status = L[l].status /\ u.owner = L[l].owner /\ u.release = TRUE
    BY <1>1 DEF LeaseRecords
  <2>2. L[l].status \in ActiveStatus /\ Becomes(l, u)
    BY <1>3 DEF Release
  <2>3. Follows(L[l], u)
    BY <1>1, <2>1, <2>2 DEF Follows, Owned, ActiveStatus
  <2> QED
    BY <2>2, <2>3
<1>4. CASE \E l \in Ids : Refresh(c, l)
  BY <1>4 DEF Refresh
<1>5. ASSUME NEW l \in Ids, NEW r \in Requests, Open(c, l, r)
      PROVE  UNCHANGED L \/ \E w : Becomes(l, w) /\ Follows(L[l], w)
  <2> DEFINE u == [L[l] EXCEPT !.tab = "opening", !.request = r]
  <2>1. UNCHANGED L \/ Becomes(l, u)
    BY <1>5 DEF Open
  <2>2. u \in LeaseRecords /\ u.status = L[l].status /\ u.release = L[l].release
        /\ u.owner = L[l].owner
    BY <1>1 DEF LeaseRecords, TabStates
  <2>3. Follows(L[l], u)
    BY <1>1, <2>2 DEF Follows, Owned
  <2> QED
    BY <2>1, <2>3
<1>6. ASSUME NEW l \in Ids, NEW r \in Requests, UpdateStatus(c, l, r)
      PROVE  \E w : Becomes(l, w) /\ Follows(L[l], w)
  <2> DEFINE u == [L[l] EXCEPT !.request = r]
  <2>1. Becomes(l, u)
    BY <1>6 DEF UpdateStatus
  <2>2. u \in LeaseRecords /\ u.status = L[l].status /\ u.release = L[l].release
        /\ u.owner = L[l].owner
    BY <1>1 DEF LeaseRecords
  <2>3. Follows(L[l], u)
    BY <1>1, <2>2 DEF Follows, Owned
  <2> QED
    BY <2>1, <2>3
<1> DEFINE m == callers[c].lease
           v == L[m]
<1>7. CASE ReleaseDrains(c)
  <2>1. m \in Ids /\ Becomes(m, Emptied(v))
    BY <1>2, <1>7 DEF ReleaseDrains, At
  <2>2. v \in LeaseRecords /\ Owned(v)
    BY <1>1, <2>1
  <2>3. /\ Emptied(v) \in LeaseRecords /\ Emptied(v).status = v.status
        /\ Emptied(v).release = v.release /\ Emptied(v).owner = v.owner
    BY <2>2, LeaseUpdates, FieldUpdates
  <2>4. Follows(v, Emptied(v))
    BY <2>2, <2>3 DEF Follows, Owned
  <2> QED
    BY <2>1, <2>4
<1>8. CASE ReleaseMarks(c)
  <2>1. m \in Ids /\ v.owner # "none"
    BY <1>2, <1>8 DEF ReleaseMarks, At
  <2>2. v \in LeaseRecords /\ Owned(v)
    BY <1>1, <2>1
  <2>3. CASE Refused(v, "releasing")
    <3>1. Becomes(m, v)
      BY <1>8, <2>3 DEF ReleaseMarks
    <3>2. Follows(v, v)
      BY <2>2 DEF Follows
    <3> QED
      BY <2>1, <3>1, <3>2
  <2>4. CASE ~Refused(v, "releasing")
    <3> DEFINE u == [v EXCEPT !.status = "releasing"]
    <3>1. Becomes(m, u)
      BY <1>8, <2>4 DEF ReleaseMarks
    <3>2. u \in LeaseRecords /\ u.status = "releasing" /\ u.release = v.release
          /\ u.owner = v.owner
      BY <2>2 DEF LeaseRecords, ActiveStatus
    <3>3. v.status \notin TerminalStatus
      BY <2>4 DEF Refused, TerminalStatus
    <3>4. Follows(v, u)
      BY <2>1, <2>2, <3>2, <3>3 DEF Follows, Owned, ActiveStatus
    <3> QED
      BY <2>1, <3>1, <3>4
  <2> QED
    BY <2>3, <2>4
<1>9. CASE Put(c)
  <2>1. m \in Ids /\ callers[c].cmd \in 1..Len(cmds)
    BY <1>2, <1>9 DEF Put, At, Engaged
  <2>2. v \in LeaseRecords /\ Owned(v) /\ v.queue \in Seq(1..MaxCommands)
    BY <1>1, <2>1 DEF LeaseRecords
  <2>3. callers[c].cmd \in 1..MaxCommands
    <3>1. Len(cmds) \in Nat /\ Len(cmds) <= MaxCommands
      BY LenProperties DEF TypeOK
    <3> QED
      BY <2>1, <3>1, LeaseAssumption
  <2> DEFINE u == [v EXCEPT !.queue = Append(@, callers[c].cmd)]
  <2>4. Append(v.queue, callers[c].cmd) \in Seq(1..MaxCommands)
    BY <2>2, <2>3, AppendProperties
  <2>5. u \in LeaseRecords /\ u.status = v.status /\ u.release = v.release /\ u.owner = v.owner
    BY <2>2, <2>4 DEF LeaseRecords
  <2>6. Becomes(m, u)
    BY <1>9 DEF Put, Becomes
  <2>7. Follows(v, u)
    BY <2>2, <2>5 DEF Follows, Owned
  <2> QED
    BY <2>1, <2>6, <2>7
<1>10. CASE Answered(c) \/ TimesOut(c) \/ CallerTells(c)
  BY <1>10 DEF Answered, TimesOut, CallerTells
<1>11. CASE RecordsTimeout(c)
  <2> DEFINE k == callers[c].cmd
             u == [v EXCEPT !.tab = TabAfter(v, {k}, "timed_out")]
  <2>1. m \in Ids /\ Becomes(m, u)
    BY <1>2, <1>11 DEF RecordsTimeout, At
  <2>2. v \in LeaseRecords /\ Owned(v)
    BY <1>1, <2>1
  <2>3. TabAfter(v, {k}, "timed_out") \in TabStates
    BY <2>2, LeaseUpdates DEF TabStates
  <2>4. u \in LeaseRecords /\ u.status = v.status /\ u.release = v.release /\ u.owner = v.owner
    BY <2>2, <2>3 DEF LeaseRecords
  <2>5. Follows(v, u)
    BY <2>2, <2>4 DEF Follows, Owned
  <2> QED
    BY <2>1, <2>5
<1> QED
  BY <1>3, <1>4, <1>5, <1>6, <1>7, <1>8, <1>9, <1>10, <1>11 DEF Api

\* Every step changes every lease as it may.
LEMMA LeasesStep ==
  ASSUME IInv, [Next]_vars
  PROVE  L' \in [Ids -> LeaseRecords] /\ \A m \in Ids : Follows(L[m], L'[m])
<1>1. TypeOK /\ \A m \in Ids : Owned(L[m])
  BY DEF IInv
<1>2. CASE UNCHANGED L
  <2>1. L' = L /\ L \in [Ids -> LeaseRecords]
    BY <1>1, <1>2 DEF TypeOK
  <2>2. \A m \in Ids : L[m] \in LeaseRecords /\ Owned(L[m])
    BY <1>1, <2>1
  <2>3. \A m \in Ids : Follows(L[m], L[m])
    BY <2>2 DEF Follows
  <2> QED
    BY <2>1, <2>3
<1>3. ASSUME NEW l \in Ids, NEW w, Becomes(l, w), Follows(L[l], w)
      PROVE  L' \in [Ids -> LeaseRecords] /\ \A m \in Ids : Follows(L[m], L'[m])
  BY <1>1, <1>3, BecomesFollows
<1>4. ASSUME NEW l \in Ids, Create(l) \/ Login(l)
      PROVE  \E w : Becomes(l, w) /\ Follows(L[l], w)
  BY <1>1, <1>4, LoginFollows
<1>5. ASSUME NEW l \in Ids, Hold(l)
      PROVE  \E w : Becomes(l, w) /\ Follows(L[l], w)
  <2>1. CASE HoldStarts(l) \/ HoldEntered(l)
    BY <1>1, <2>1, LoginFollows
  <2>2. CASE ~HoldStarts(l) /\ ~HoldEntered(l)
    BY <1>1, <1>5, <2>2, HoldFollows
  <2> QED
    BY <2>1, <2>2
<1>6. ASSUME NEW l \in Ids, OwnerTells(l)
      PROVE  \E w : Becomes(l, w) /\ Follows(L[l], w)
  <2> DEFINE u == [L[l] EXCEPT !.note = "none"]
  <2>1. Becomes(l, u)
    BY <1>6 DEF OwnerTells
  <2>2. L[l] \in LeaseRecords /\ Owned(L[l])
    BY <1>1 DEF TypeOK
  <2>3. u \in LeaseRecords /\ u.status = L[l].status /\ u.release = L[l].release
        /\ u.owner = L[l].owner
    BY <2>2 DEF LeaseRecords, Notes
  <2>4. Follows(L[l], u)
    BY <2>2, <2>3 DEF Follows, Owned
  <2> QED
    BY <2>1, <2>4
<1>7. ASSUME NEW c \in Callers, Api(c)
      PROVE  UNCHANGED L \/ \E l \in Ids : \E w : Becomes(l, w) /\ Follows(L[l], w)
  BY <1>7, ApiFollows
<1>8. CASE UNCHANGED vars
  BY <1>2, <1>8 DEF vars
<1>9. CASE Next
  BY <1>2, <1>3, <1>4, <1>5, <1>6, <1>7, <1>9 DEF Next
<1> QED
  BY <1>8, <1>9

\* A new command is the last one; the others stay as they are.
LEMMA NewCommandAppends ==
  ASSUME TypeOK, NEW l \in Ids, NEW kind \in Kinds, NewCommand(l, kind)
  PROVE  /\ cmds' \in Seq(CommandRecords)
         /\ Len(cmds') = Len(cmds) + 1
         /\ Len(cmds') <= MaxCommands
         /\ \A j \in 1..Len(cmds) : cmds'[j] = cmds[j]
         /\ cmds'[Len(cmds) + 1].lease = l
         /\ cmds'[Len(cmds) + 1].kind = kind
<1> DEFINE e == [lease |-> l, kind |-> kind, cancelled |-> FALSE, done |-> FALSE]
<1>1. e \in CommandRecords
  BY DEF CommandRecords
<1>2. cmds \in Seq(CommandRecords) /\ Len(cmds) \in Nat /\ MaxCommands \in Nat
  BY LenProperties, LeaseAssumption DEF TypeOK
<1>3. cmds' = Append(cmds, e) /\ Len(cmds) < MaxCommands
  BY DEF NewCommand
<1> HIDE DEF e
<1>4. /\ cmds' \in Seq(CommandRecords)
      /\ Len(cmds') = Len(cmds) + 1
      /\ \A j \in 1..Len(cmds) : cmds'[j] = cmds[j]
      /\ cmds'[Len(cmds) + 1] = e
  BY <1>1, <1>2, <1>3, AppendProperties
<1>5. e.lease = l /\ e.kind = kind
  BY DEF e
<1> QED
  BY <1>2, <1>3, <1>4, <1>5

\* The commands stay what they should be, and their number does not shrink.
LEMMA CommandsType ==
  ASSUME TypeOK, [Next]_vars
  PROVE  /\ cmds' \in Seq(CommandRecords)
         /\ Len(cmds') <= MaxCommands
         /\ Len(cmds) \in Nat /\ Len(cmds') \in Nat /\ Len(cmds) <= Len(cmds')
<1>1. cmds \in Seq(CommandRecords) /\ Len(cmds) \in Nat /\ Len(cmds) <= MaxCommands
  BY LenProperties DEF TypeOK
<1>2. CASE Keeps(cmds')
  BY <1>1, <1>2 DEF Keeps
<1>3. ASSUME NEW l \in Ids, NEW kind \in Kinds, NewCommand(l, kind)
      PROVE  cmds' \in Seq(CommandRecords) /\ Len(cmds') = Len(cmds) + 1
             /\ Len(cmds') <= MaxCommands
  BY <1>3, NewCommandAppends
<1>4. "refresh" \in Kinds /\ \A r \in Requests : r \in Kinds
  BY DEF Kinds
<1> QED
  BY <1>1, <1>2, <1>3, <1>4, CommandsStep

LEMMA MadeOne ==
  ASSUME TypeOK, [Next]_vars
  PROVE  Len(cmds') = Len(cmds) \/ Len(cmds') = Len(cmds) + 1
<1>1. Keeps(cmds') => Len(cmds') = Len(cmds)
  BY DEF Keeps
<1>2. "refresh" \in Kinds /\ \A r \in Requests : r \in Kinds
  BY DEF Kinds
<1>3. \A l \in Ids : \A kind \in Kinds : NewCommand(l, kind) => Len(cmds') = Len(cmds) + 1
  BY NewCommandAppends
<1> QED
  BY <1>1, <1>2, <1>3, CommandsStep

\* A request that has a command already makes no second one.
LEMMA OneCommandStep ==
  ASSUME TypeOK, OneCommandPerRequest, [Next]_vars
  PROVE  OneCommandPerRequest'
<1>1. cmds \in Seq(CommandRecords) /\ Len(cmds) \in Nat
  BY LenProperties DEF TypeOK
<1>2. CASE Keeps(cmds')
  BY <1>1, <1>2 DEF Keeps, OneCommandPerRequest, Same, Opens
<1>3. ASSUME NEW l \in Ids, NewCommand(l, "refresh") PROVE OneCommandPerRequest'
  <2>1. /\ Len(cmds') = Len(cmds) + 1
        /\ \A j \in 1..Len(cmds) : cmds'[j] = cmds[j]
        /\ cmds'[Len(cmds) + 1].kind = "refresh"
    BY <1>3, NewCommandAppends DEF Kinds
  <2>2. ASSUME NEW m \in Ids, NEW r \in Requests, NEW k \in Same(m, r)'
        PROVE  k \in Same(m, r)
    BY <1>1, <2>1, <2>2 DEF Same, Opens
  <2> QED
    BY <2>2 DEF OneCommandPerRequest
<1>4. ASSUME NEW l \in Ids, NEW r \in Requests, NewCommand(l, r), Known(l, r) = {}
      PROVE  OneCommandPerRequest'
  <2> DEFINE n == Len(cmds) + 1
  <2>1. /\ Len(cmds') = n
        /\ \A j \in 1..Len(cmds) : cmds'[j] = cmds[j]
        /\ cmds'[n].lease = l /\ cmds'[n].kind = r
    BY <1>4, NewCommandAppends DEF Kinds
  <2>2. ASSUME NEW m \in Ids, NEW q \in Requests, NEW k \in Same(m, q)'
        PROVE  k \in Same(m, q) \/ (k = n /\ m = l /\ q = r)
    BY <1>1, <2>1, <2>2 DEF Same, Opens
  <2>3. Same(l, r) = {}
    BY <1>4 DEF Known
  <2> QED
    BY <2>2, <2>3 DEF OneCommandPerRequest
<1> QED
  BY <1>2, <1>3, <1>4, CommandsStep

\* What an API thread may be after a step
Seated(r) ==
    /\ r \in CallerRecords
    /\ r.pc # "idle" => r.lease \in Ids /\ L'[r.lease].owner # "none"
    /\ r.pc \in {"put", "waiting", "expired"} => r.cmd \in 1..Len(cmds')

\* A step of an API thread leaves that thread, and no other, with what its
\* place in the call needs.
LEMMA ApiSeated ==
  ASSUME IInv, NEW c \in Callers, Api(c)
  PROVE  \E r : Goes(c, r) /\ Seated(r)
<1> DEFINE v == callers[c]
<1>1. [Next]_vars /\ TypeOK
  BY DEF Next, IInv
<1>2. /\ Len(cmds) \in Nat /\ Len(cmds') \in Nat /\ Len(cmds) <= Len(cmds')
      /\ Len(cmds') <= MaxCommands /\ Len(cmds) <= MaxCommands
  BY <1>1, CommandsType DEF TypeOK
<1>3. /\ Leases \in Nat /\ MaxCommands \in Nat
      /\ \A l \in Ids : l \in 0..Leases
      /\ \A k \in 1..Len(cmds') : k \in 0..MaxCommands
      /\ 0 \in 0..Leases /\ 0 \in 0..MaxCommands
  BY <1>2, LeaseAssumption DEF Ids
<1>4. \A l \in Ids : L[l].owner # "none" => L'[l].owner # "none"
  BY <1>1, LeasesStep DEF Follows
<1>5. /\ v \in CallerRecords
      /\ v.pc # "idle" => v.lease \in Ids /\ L'[v.lease].owner # "none"
      /\ v.pc \in {"put", "waiting", "expired"} => v.cmd \in 1..Len(cmds')
  BY <1>1, <1>2, <1>4 DEF IInv, TypeOK, Engaged
<1>6. \A s \in ActiveStatus \cup TerminalStatus : Class(s) \in Notes
  BY DEF Class, Notes
<1>7. \A l \in Ids : L[l].status # "none" => L[l].owner # "none"
  BY DEF IInv, Owned
<1>8. Idle \in CallerRecords /\ Idle.pc = "idle"
  BY <1>3 DEF Idle, CallerRecords, Notes
<1>9. ASSUME NEW l \in 0..Leases, NEW n \in Notes
      PROVE  Seated([Idle EXCEPT !.lease = l, !.note = n])
  BY <1>8 DEF Seated, CallerRecords
<1>10. Seated(Idle)
  BY <1>8 DEF Seated
<1>11. ASSUME NEW l \in Ids, Release(c, l) PROVE \E r : Goes(c, r) /\ Seated(r)
  <2> DEFINE r == [Idle EXCEPT !.pc = "releasing", !.lease = l]
  <2>1. Goes(c, r) /\ L[l].status \in ActiveStatus
    BY <1>11 DEF Release
  <2>2. L'[l].owner # "none"
    BY <1>4, <1>7, <2>1 DEF ActiveStatus
  <2>3. Seated(r)
    BY <1>3, <1>8, <2>2 DEF Seated, CallerRecords
  <2> QED
    BY <2>1, <2>3
<1>12. ASSUME NEW l \in Ids, NEW kind \in Kinds, Holding(l), NewCommand(l, kind),
              NEW n \in Notes
       PROVE  Seated([pc |-> "put", lease |-> l, cmd |-> Len(cmds) + 1, note |-> n])
  <2>1. Len(cmds') = Len(cmds) + 1
    BY <1>1, <1>12, NewCommandAppends
  <2>2. L'[l].owner # "none"
    BY <1>4, <1>7, <1>12 DEF Holding
  <2>3. Len(cmds) + 1 \in 1..Len(cmds')
    BY <1>2, <2>1
  <2> QED
    BY <1>3, <2>2, <2>3 DEF Seated, CallerRecords
<1>13. ASSUME NEW l \in Ids, Refresh(c, l) PROVE \E r : Goes(c, r) /\ Seated(r)
  BY <1>12, <1>13 DEF Refresh, Kinds, Notes
<1>14. ASSUME NEW l \in Ids, NEW r \in Requests, Open(c, l, r)
       PROVE  \E s : Goes(c, s) /\ Seated(s)
  <2>1. Holding(l) /\ r \in Kinds /\ "active" \in Notes
    BY <1>14 DEF Open, Kinds, Notes
  <2>2. ASSUME NEW k \in Known(l, r)
        PROVE  Seated([pc |-> "waiting", lease |-> l, cmd |-> k, note |-> "none"])
    <3>1. k \in 1..Len(cmds')
      BY <1>2, <2>2 DEF Known, Same, Opens
    <3>2. L'[l].owner # "none"
      BY <1>4, <1>7, <2>1 DEF Holding
    <3> QED
      BY <1>3, <3>1, <3>2 DEF Seated, CallerRecords, Notes
  <2>3. CASE NewCommand(l, r) /\ Goes(c, [pc |-> "put", lease |-> l,
                                         cmd |-> Len(cmds) + 1, note |-> "active"])
    BY <1>12, <2>1, <2>3
  <2> QED
    BY <1>14, <2>2, <2>3 DEF Open
<1>15. ASSUME NEW l \in Ids, NEW r \in Requests, UpdateStatus(c, l, r)
       PROVE  \E s : Goes(c, s) /\ Seated(s)
  <2>1. L[l].status \in ActiveStatus \cup TerminalStatus
    BY <1>1, <1>15 DEF UpdateStatus, TypeOK, LeaseRecords
  <2> QED
    BY <1>3, <1>6, <1>9, <1>15, <2>1 DEF UpdateStatus
<1>16. CASE ReleaseDrains(c)
  <2> DEFINE r == [v EXCEPT !.pc = "marking"]
  <2>1. Goes(c, r) /\ v.pc = "releasing"
    BY <1>16 DEF ReleaseDrains, At
  <2>2. r \in CallerRecords /\ r.pc = "marking" /\ r.lease = v.lease
    BY <1>5 DEF CallerRecords
  <2> QED
    BY <1>5, <2>1, <2>2 DEF Seated
<1>17. CASE ReleaseMarks(c)
  <2>1. v.lease \in 0..Leases /\ "active" \in Notes
    BY <1>5 DEF CallerRecords, Notes
  <2>2. Goes(c, Idle) \/ Goes(c, [Idle EXCEPT !.lease = v.lease, !.note = "active"])
    BY <1>17 DEF ReleaseMarks
  <2> QED
    BY <1>9, <1>10, <2>1, <2>2
<1>18. CASE Put(c)
  <2> DEFINE r == [v EXCEPT !.pc = "waiting"]
  <2>1. Goes(c, r) /\ v.pc = "put"
    BY <1>18 DEF Put, At
  <2>2. r \in CallerRecords /\ r.pc = "waiting" /\ r.lease = v.lease /\ r.cmd = v.cmd
    BY <1>5 DEF CallerRecords
  <2> QED
    BY <1>5, <2>1, <2>2 DEF Seated
<1>19. CASE Answered(c)
  BY <1>10, <1>19 DEF Answered
<1>20. CASE TimesOut(c)
  <2> DEFINE r == [v EXCEPT !.pc = "expired"]
  <2>1. (Goes(c, Idle) \/ Goes(c, r)) /\ v.pc = "waiting"
    BY <1>20 DEF TimesOut, At
  <2>2. r \in CallerRecords /\ r.pc = "expired" /\ r.lease = v.lease /\ r.cmd = v.cmd
    BY <1>5 DEF CallerRecords
  <2> QED
    BY <1>5, <1>10, <2>1, <2>2 DEF Seated
<1>21. CASE RecordsTimeout(c)
  <2> DEFINE m == v.lease
  <2>1. v.pc = "expired" /\ Goes(c, [Idle EXCEPT !.lease = m, !.note = Class(L[m].status)])
    BY <1>21 DEF RecordsTimeout, At
  <2>2. m \in Ids /\ L[m].owner # "none"
    BY <2>1 DEF IInv, Engaged
  <2>3. L[m].status \in ActiveStatus \cup TerminalStatus
    BY <1>1, <2>2 DEF IInv, Owned, TypeOK, LeaseRecords
  <2> QED
    BY <1>3, <1>6, <1>9, <2>1, <2>2, <2>3
<1>22. CASE CallerTells(c)
  <2> DEFINE r == [v EXCEPT !.note = "none"]
  <2>1. Goes(c, r)
    BY <1>22 DEF CallerTells, Goes
  <2>2. r \in CallerRecords /\ r.pc = v.pc /\ r.lease = v.lease /\ r.cmd = v.cmd
    BY <1>5 DEF CallerRecords, Notes
  <2> QED
    BY <1>5, <2>1, <2>2 DEF Seated
<1> QED
  BY <1>11, <1>13, <1>14, <1>15, <1>16, <1>17, <1>18, <1>19, <1>20, <1>21, <1>22 DEF Api

\* The API threads stay what they should be.
LEMMA CallersStep ==
  ASSUME IInv, [Next]_vars
  PROVE  callers' \in [Callers -> CallerRecords] /\ \A c \in Callers : Engaged(c)'
<1>1. TypeOK /\ callers \in [Callers -> CallerRecords]
  BY DEF IInv, TypeOK
<1>2. Len(cmds) \in Nat /\ Len(cmds') \in Nat /\ Len(cmds) <= Len(cmds')
  BY <1>1, CommandsType
<1>3. \A c \in Callers : Seated(callers[c])
  <2>1. \A l \in Ids : L[l].owner # "none" => L'[l].owner # "none"
    BY LeasesStep DEF Follows
  <2> QED
    BY <1>1, <1>2, <2>1 DEF IInv, Engaged, Seated
<1>4. ASSUME callers' \in [Callers -> CallerRecords], \A c \in Callers : Seated(callers'[c])
      PROVE  \A c \in Callers : Engaged(c)'
  BY <1>4 DEF Seated, Engaged
<1>5. CASE UNCHANGED callers
  BY <1>1, <1>3, <1>4, <1>5
<1>6. ASSUME NEW c \in Callers, NEW r, Goes(c, r), Seated(r)
      PROVE  callers' \in [Callers -> CallerRecords] /\ \A d \in Callers : Engaged(d)'
  <2>1. callers' = [callers EXCEPT ![c] = r] /\ r \in CallerRecords
    BY <1>6 DEF Goes, Seated
  <2>2. callers' \in [Callers -> CallerRecords] /\ \A d \in Callers : Seated(callers'[d])
    BY <1>1, <1>3, <1>6, <2>1
  <2> QED
    BY <1>4, <2>2
<1>7. ASSUME NEW c \in Callers, Api(c) PROVE \E r : Goes(c, r) /\ Seated(r)
  BY <1>7, ApiSeated
<1>8. ASSUME NEW l \in Ids, Create(l) \/ Login(l) \/ OwnerTells(l) PROVE UNCHANGED callers
  BY <1>8 DEF Create, OwnerTells, Login, LoginStarts, StoppedBetween, LoginFails, GivesUp,
              LoginStopped
<1>9. ASSUME NEW l \in Ids, Hold(l) PROVE UNCHANGED callers
  BY <1>9 DEF Hold, HoldStarts, HoldEntered, SeesRelease, HoldEnds, Take, Begin, Work, Finish,
              WorkInterrupted, TabLost, Leaves, Released
<1>10. CASE UNCHANGED vars
  BY <1>5, <1>10 DEF vars
<1>11. CASE Next
  BY <1>5, <1>6, <1>7, <1>8, <1>9, <1>11 DEF Next
<1> QED
  BY <1>10, <1>11

\* The manager's table names a lease of the account, or none.
LEMMA ActiveStep ==
  ASSUME IInv, [Next]_vars
  PROVE  active' \in 0..Leases
<1>1. active \in 0..Leases /\ 0 \in 0..Leases /\ \A l \in Ids : l \in 0..Leases
  BY LeaseAssumption DEF IInv, TypeOK, Ids
<1>2. ASSUME NEW l \in 0..Leases, NEW n, Heard(l, n) PROVE active' \in 0..Leases
  BY <1>1, <1>2 DEF Heard
<1>3. ASSUME NEW c \in Callers, Api(c) PROVE active' \in 0..Leases
  <2>1. callers[c].lease \in 0..Leases
    BY DEF IInv, TypeOK, CallerRecords
  <2>2. CASE CallerTells(c)
    BY <1>2, <2>1, <2>2 DEF CallerTells
  <2>3. CASE UNCHANGED active
    BY <1>1, <2>3
  <2> QED
    BY <1>3, <2>2, <2>3
       DEF Api, Release, Refresh, Open, UpdateStatus, ReleaseDrains, ReleaseMarks, Put,
           Answered, TimesOut, RecordsTimeout
<1>4. ASSUME NEW l \in Ids, Create(l) \/ OwnerTells(l) PROVE active' \in 0..Leases
  BY <1>1, <1>2, <1>4 DEF Create, OwnerTells
<1>5. ASSUME NEW l \in Ids, Login(l) PROVE active' \in 0..Leases
  BY <1>1, <1>5 DEF Login, LoginStarts, StoppedBetween, LoginFails, GivesUp, LoginStopped
<1>6. ASSUME NEW l \in Ids, Hold(l) PROVE active' \in 0..Leases
  BY <1>1, <1>6 DEF Hold, HoldStarts, HoldEntered, SeesRelease, HoldEnds, Take, Begin, Work,
                    Finish, WorkInterrupted, TabLost, Leaves, Released
<1> QED
  BY <1>1, <1>3, <1>4, <1>5, <1>6 DEF Next, vars

\* The strengthening holds initially and every step keeps it.
LEMMA Invariance == Spec => []IInv
<1>1. Init => IInv
  <2> SUFFICES ASSUME Init PROVE IInv
    OBVIOUS
  <2>1. /\ 0 \in 0..MaxCommands /\ 0 \in 0..MaxTries /\ 0 \in 0..Leases
        /\ MaxCommands \in Nat
    BY LeaseAssumption
  <2>2. Blank \in LeaseRecords /\ Owned(Blank)
    <3>1. Blank \in LeaseRecords
      BY <2>1, EmptySeq DEF Blank, LeaseRecords, TabStates, Notes
    <3>2. Blank.owner = "none" /\ Blank.status = "none" /\ Blank.release = FALSE
      BY DEF Blank
    <3> QED
      BY <3>1, <3>2 DEF Owned
  <2>3. Idle \in CallerRecords /\ Idle.pc = "idle"
    BY <2>1 DEF Idle, CallerRecords, Notes
  <2>4. cmds = << >> /\ cmds \in Seq(CommandRecords) /\ Len(cmds) = 0
    BY EmptySeq DEF Init
  <2>5. L \in [Ids -> LeaseRecords] /\ \A l \in Ids : Owned(L[l])
    BY <2>2 DEF Init
  <2>6. callers \in [Callers -> CallerRecords] /\ \A c \in Callers : Engaged(c)
    BY <2>3 DEF Init, Engaged
  <2>7. OneCommandPerRequest
    BY <2>4 DEF OneCommandPerRequest, Same, Opens
  <2>8. TypeOK
    BY <2>1, <2>4, <2>5, <2>6 DEF TypeOK, Init
  <2> QED
    BY <2>5, <2>6, <2>7, <2>8 DEF IInv
<1>2. IInv /\ [Next]_vars => IInv'
  <2> SUFFICES ASSUME IInv, [Next]_vars PROVE IInv'
    OBVIOUS
  <2>1. TypeOK /\ OneCommandPerRequest
    BY DEF IInv
  <2>2. L' \in [Ids -> LeaseRecords] /\ \A l \in Ids : Owned(L[l])'
    BY LeasesStep DEF Follows
  <2>3. cmds' \in Seq(CommandRecords) /\ Len(cmds') <= MaxCommands
    BY <2>1, CommandsType
  <2>4. callers' \in [Callers -> CallerRecords] /\ \A c \in Callers : Engaged(c)'
    BY CallersStep
  <2>5. TypeOK'
    BY <2>2, <2>3, <2>4, ActiveStep DEF TypeOK
  <2>6. OneCommandPerRequest'
    BY <2>1, OneCommandStep
  <2> QED
    BY <2>2, <2>4, <2>5, <2>6 DEF IInv
<1> QED
  BY <1>1, <1>2, PTL DEF Spec

-----------------------------------------------------------------------------
\* Leases, commands and API threads stay of their types: no lease is tried more
\* often than its login allows, and no thread names a command nobody made.
THEOREM TypeCorrect == Spec => []TypeOK
<1>1. IInv => TypeOK
  BY DEF IInv
<1> QED
  BY <1>1, Invariance, PTL

\* A browser that is held belongs to a lease that counts as active, whoever
\* changed the status last (transition, request_release, hold_browser).
THEOREM HeldIsActiveCorrect == Spec => []HeldIsActive
<1>1. IInv => HeldIsActive
  BY DEF IInv, Owned, HeldIsActive
<1> QED
  BY <1>1, Invariance, PTL

\* However often and by whomever a payment tab is requested under one request
\* id, the lease makes one command for it (request_open_gcash).
THEOREM OneCommandPerRequestCorrect == Spec => []OneCommandPerRequest
<1>1. IInv => OneCommandPerRequest
  BY DEF IInv
<1> QED
  BY <1>1, Invariance, PTL

\* No step undoes a release, makes a lease that is being released available, or
\* moves a lease that is over (transition against the owner's late commands).
THEOREM ReleaseSticksCorrect == Spec => ReleaseSticks
<1>1. IInv /\ [Next]_vars =>
        [\A l \in Ids :
            /\ L[l].release => L'[l].release
            /\ L[l].release /\ L[l].status = "releasing"
                  => L'[l].status \in {"releasing"} \cup TerminalStatus
            /\ L[l].status \in TerminalStatus => L'[l].status = L[l].status]_vars
  BY LeasesStep DEF Follows
<1> QED
  BY <1>1, Invariance, PTL DEF Spec, ReleaseSticks

-----------------------------------------------------------------------------
(* No command is lost.  Where a command is follows it from the thread that     *)
(* asks for it to the queue and to the owner; a command leaves the owner's     *)
(* hands only with an answer.                                                  *)

\* A lease nobody used has an empty queue, and an owner that waits has no command.
Orderly(v) ==
    /\ v.owner = "none" => v.queue = << >>
    /\ v.job # 0 => v.owner \in {"taken", "working", "finishing"}

\* A command that is about to be put into a queue is meant for that lease.
Asked(c) == callers[c].pc = "put" => cmds[callers[c].cmd].lease = callers[c].lease

Tracked ==
    /\ IInv
    /\ \A l \in Ids : Orderly(L[l])
    /\ \A c \in Callers : Asked(c)
    /\ NoCommandLost

\* The lease w has what the lease v had, but for what is answered in s.
Carries(v, w, s) ==
    /\ Orderly(w)
    /\ \A k \in 1..Len(cmds) :
          k \in Queued(v) \/ v.job = k => k \in Queued(w) \/ w.job = k \/ s[k].done

LEMMA QueueMembers ==
  ASSUME NEW q \in Seq(1..MaxCommands)
  PROVE  /\ ToSet(<< >>) = {}
         /\ q # << >> => \A k \in ToSet(q) : k = Head(q) \/ k \in ToSet(Tail(q))
         /\ \A j \in 1..MaxCommands :
               /\ j \in ToSet(Append(q, j))
               /\ \A k \in ToSet(q) : k \in ToSet(Append(q, j))
<1>1. ToSet(<< >>) = {}
  BY DEF ToSet
<1>2. ASSUME q # << >>, NEW k \in ToSet(q) PROVE k = Head(q) \/ k \in ToSet(Tail(q))
  <2>1. PICK i \in 1..Len(q) : k = q[i]
    BY LenProperties DEF ToSet
  <2>2. Len(q) \in Nat
    BY LenProperties
  <2>3. CASE i = 1
    BY <1>2, <2>1, <2>3, HeadTailProperties
  <2>4. CASE i # 1
    <3>1. /\ Tail(q) \in Seq(1..MaxCommands) /\ Len(Tail(q)) = Len(q) - 1
          /\ \A j \in 1..Len(Tail(q)) : Tail(q)[j] = q[j + 1]
      BY <1>2, HeadTailProperties
    <3>2. i - 1 \in 1..Len(Tail(q)) /\ i \in Int
      BY <2>1, <2>2, <2>4, <3>1
    <3>3. Tail(q)[i - 1] = k
      BY <2>1, <3>1, <3>2
    <3>4. DOMAIN Tail(q) = 1..Len(Tail(q))
      BY <3>1, LenProperties
    <3> QED
      BY <3>2, <3>3, <3>4 DEF ToSet
  <2> QED
    BY <2>3, <2>4
<1>3. ASSUME NEW j \in 1..MaxCommands
      PROVE  /\ j \in ToSet(Append(q, j))
             /\ \A k \in ToSet(q) : k \in ToSet(Append(q, j))
  <2>1. /\ Append(q, j) \in Seq(1..MaxCommands)
        /\ Len(Append(q, j)) = Len(q) + 1
        /\ \A i \in 1..Len(q) : Append(q, j)[i] = q[i]
        /\ Append(q, j)[Len(q) + 1] = j
    BY AppendProperties
  <2>2. /\ Len(q) \in Nat /\ DOMAIN q = 1..Len(q)
        /\ DOMAIN Append(q, j) = 1..(Len(q) + 1)
    BY <2>1, LenProperties
  <2>3. Len(q) + 1 \in DOMAIN Append(q, j) /\ \A i \in DOMAIN q : i \in DOMAIN Append(q, j)
    BY <2>2
  <2>4. j \in ToSet(Append(q, j))
    BY <2>1, <2>3 DEF ToSet
  <2>5. \A k \in ToSet(q) : k \in ToSet(Append(q, j))
    BY <2>1, <2>2, <2>3 DEF ToSet
  <2> QED
    BY <2>4, <2>5
<1> QED
  BY <1>1, <1>2, <1>3

\* Neither a transition nor a word to the manager touches the commands.
LEMMA CommandFields ==
  ASSUME NEW v \in LeaseRecords
  PROVE  /\ \A s : Moved(v, s).queue = v.queue /\ Moved(v, s).job = v.job
         /\ Told(v).queue = v.queue /\ Told(v).job = v.job
         /\ TabsClosed(v).queue = v.queue /\ TabsClosed(v).job = v.job
         /\ Emptied(v).queue = << >> /\ Emptied(v).job = v.job
<1> USE DEF LeaseRecords
<1>1. Told(v).queue = v.queue /\ Told(v).job = v.job
  BY DEF Told
<1>2. \A s : Moved(v, s).queue = v.queue /\ Moved(v, s).job = v.job
  BY DEF Moved
<1>3. TabsClosed(v).queue = v.queue /\ TabsClosed(v).job = v.job
  BY DEF TabsClosed, Told
<1>4. Emptied(v).queue = << >> /\ Emptied(v).job = v.job
  BY DEF Emptied
<1> QED
  BY <1>1, <1>2, <1>3, <1>4

LEMMA QuietCarries ==
  ASSUME NEW v, Orderly(v), NEW w, NEW s, w.queue = v.queue, w.job = v.job,
         \/ w.owner = v.owner
         \/ /\ v.owner \notin {"none", "taken", "working", "finishing"}
            /\ w.owner # "none"
         \/ w.owner \in {"taken", "working", "finishing"}
  PROVE  Carries(v, w, s)
BY DEF Carries, Orderly, Queued

LEMMA BecomesCarries ==
  ASSUME IInv, \A m \in Ids : Orderly(L[m]), NEW l \in Ids, NEW w,
         Becomes(l, w), Carries(L[l], w, cmds')
  PROVE  \A m \in Ids : Carries(L[m], L'[m], cmds')
<1>1. L \in [Ids -> LeaseRecords]
  BY DEF IInv, TypeOK
<1>2. L'[l] = w
  BY <1>1 DEF Becomes
<1>3. ASSUME NEW m \in Ids, m # l PROVE Carries(L[m], L'[m], cmds')
  <2>1. L'[m] = L[m]
    BY <1>1, <1>3 DEF Becomes
  <2> QED
    BY <2>1, QuietCarries
<1> QED
  BY <1>2, <1>3

LEMMA SameCarries ==
  ASSUME \A m \in Ids : Orderly(L[m]), UNCHANGED L
  PROVE  \A m \in Ids : Carries(L[m], L'[m], cmds')
BY QuietCarries

\* An answer is given to each command it is given to.
LEMMA FailedAnswers ==
  ASSUME TypeOK
  PROVE  \A K : \A k \in 1..Len(cmds) : k \in K => Failed(K)[k].done
<1> SUFFICES ASSUME NEW K, NEW k \in 1..Len(cmds), k \in K PROVE Failed(K)[k].done
  OBVIOUS
<1>1. cmds[k] \in CommandRecords
  BY DEF TypeOK
<1> QED
  BY <1>1 DEF Failed, CommandRecords

LEMMA DoneAnswers ==
  ASSUME TypeOK
  PROVE  \A k \in 1..Len(cmds) : [cmds EXCEPT ![k].done = TRUE][k].done
<1> SUFFICES ASSUME NEW k \in 1..Len(cmds) PROVE [cmds EXCEPT ![k].done = TRUE][k].done
  OBVIOUS
<1>1. cmds[k] \in CommandRecords /\ cmds \in [1..Len(cmds) -> CommandRecords]
  BY LenProperties DEF TypeOK
<1> QED
  BY <1>1 DEF CommandRecords

\* A command that ends badly is answered.
LEMMA JobFailedCarries ==
  ASSUME Tracked, NEW l \in Ids, JobFailed(l, L[l].job),
         L[l].owner \in {"taken", "working", "finishing"}
  PROVE  \A m \in Ids : Carries(L[m], L'[m], cmds')
<1> DEFINE v == [L[l] EXCEPT !.owner = "hold", !.job = 0, !.current = 0]
           k == L[l].job
<1>1. IInv /\ TypeOK /\ (\A m \in Ids : Orderly(L[m]))
  BY DEF Tracked, IInv
<1>2. v \in LeaseRecords
  <2>1. L[l] \in LeaseRecords /\ 0 \in 0..MaxCommands
    BY <1>1, LeaseAssumption DEF TypeOK
  <2> QED
    BY <2>1 DEF LeaseRecords
<1>3. v.owner = "hold" /\ v.job = 0 /\ v.queue = L[l].queue
  BY <1>1 DEF TypeOK, LeaseRecords
<1>4. cmds' = Failed({k})
  BY DEF JobFailed
<1>5. ASSUME NEW w, w.owner = "hold", w.job = 0, w.queue = L[l].queue
      PROVE  Carries(L[l], w, cmds')
  <2>1. ASSUME NEW j \in 1..Len(cmds), L[l].job = j PROVE cmds'[j].done
    BY <1>1, <1>4, <2>1, FailedAnswers
  <2> QED
    BY <1>5, <2>1 DEF Carries, Orderly, Queued
<1> HIDE DEF v
<1>6. ASSUME Becomes(l, Moved(v, "ready_holding"))
      PROVE  \A m \in Ids : Carries(L[m], L'[m], cmds')
  <2>1. /\ Moved(v, "ready_holding").owner = "hold" /\ Moved(v, "ready_holding").job = 0
        /\ Moved(v, "ready_holding").queue = L[l].queue
    BY <1>2, <1>3, FieldUpdates, CommandFields
  <2> QED
    BY <1>1, <1>5, <1>6, <2>1, BecomesCarries
<1>7. ASSUME NEW s \in {"timed_out", "cancelled", "failed"},
             Becomes(l, Told([v EXCEPT !.tab = TabAfter(v, {k}, s)]))
      PROVE  \A m \in Ids : Carries(L[m], L'[m], cmds')
  <2> DEFINE u == [v EXCEPT !.tab = TabAfter(v, {k}, s)]
  <2>1. TabAfter(v, {k}, s) \in TabStates
    BY <1>2, LeaseUpdates DEF TabStates
  <2>2. /\ u \in LeaseRecords /\ u.owner = "hold" /\ u.job = 0
        /\ u.queue = L[l].queue
    BY <1>2, <1>3, <2>1 DEF LeaseRecords
  <2> HIDE DEF u
  <2>3. Told(u).owner = "hold" /\ Told(u).job = 0 /\ Told(u).queue = L[l].queue
    BY <2>2, FieldUpdates, CommandFields
  <2>4. Becomes(l, Told(u))
    BY <1>7 DEF u
  <2> QED
    BY <1>1, <1>5, <2>3, <2>4, BecomesCarries
<1>8. IF cmds[k].kind = "refresh"
      THEN Becomes(l, Moved(v, "ready_holding"))
      ELSE \E s \in {"timed_out", "cancelled", "failed"} :
              Becomes(l, Told([v EXCEPT !.tab = TabAfter(v, {k}, s)]))
  BY DEF JobFailed, v
<1> QED
  BY <1>6, <1>7, <1>8

\* The owner's steps up to the hold carry what there is.
LEMMA LoginCarries ==
  ASSUME Tracked, NEW l \in Ids,
         Create(l) \/ Login(l) \/ HoldStarts(l) \/ HoldEntered(l) \/ OwnerTells(l)
  PROVE  \A m \in Ids : Carries(L[m], L'[m], cmds')
<1> DEFINE v == L[l]
<1>1. IInv /\ TypeOK /\ Orderly(v) /\ (\A m \in Ids : Orderly(L[m]))
  BY DEF Tracked, IInv
<1>2. v \in LeaseRecords /\ 0 \in 0..MaxTries /\ MaxTries \in Nat /\ v.tries \in 0..MaxTries
  BY <1>1, LeaseAssumption DEF TypeOK, LeaseRecords
<1>3. ASSUME NEW u \in LeaseRecords, u.queue = v.queue, u.job = v.job,
             v.owner \notin {"none", "taken", "working", "finishing"}, u.owner # "none"
      PROVE  Carries(v, u, cmds') /\ \A s : Carries(v, Moved(u, s), cmds')
  <2>1. \A s : /\ Moved(u, s).queue = v.queue /\ Moved(u, s).job = v.job
               /\ Moved(u, s).owner = u.owner
    BY <1>3, FieldUpdates, CommandFields
  <2> QED
    BY <1>1, <1>3, <2>1, QuietCarries
<1>4. CASE Create(l)
  <2> DEFINE u == [Blank EXCEPT !.status = "opening", !.owner = "between"]
  <2>1. Blank \in LeaseRecords /\ Blank.queue = << >> /\ Blank.job = 0
    BY LeaseAssumption, EmptySeq DEF Blank, LeaseRecords, TabStates, Notes
  <2>2. u \in LeaseRecords /\ u.owner = "between" /\ u.queue = << >> /\ u.job = 0
    BY <2>1 DEF LeaseRecords, ActiveStatus
  <2>3. v.owner = "none" /\ Becomes(l, Told(u))
    BY <1>4 DEF Create
  <2> HIDE DEF u
  <2>4. Told(u).owner = "between" /\ Told(u).queue = << >> /\ Told(u).job = 0
    BY <2>2, FieldUpdates, CommandFields
  <2>5. v.queue = << >> /\ v.job = 0
    BY <1>1, <2>3 DEF Orderly
  <2>6. Carries(v, Told(u), cmds')
    BY <2>4, <2>5 DEF Carries, Orderly, Queued
  <2> QED
    BY <1>1, <2>3, <2>6, BecomesCarries
<1>5. CASE LoginStarts(l)
  <2> DEFINE u == [v EXCEPT !.owner = "browser", !.tries = @ + 1]
  <2>1. v.tries + 1 \in 0..MaxTries /\ v.owner = "between" /\ Becomes(l, Moved(u, "opening"))
    BY <1>2, <1>5 DEF LoginStarts, Owner
  <2>2. /\ u \in LeaseRecords /\ u.queue = v.queue /\ u.job = v.job /\ u.owner # "none"
    BY <1>2, <2>1 DEF LeaseRecords
  <2> HIDE DEF u
  <2> QED
    BY <1>1, <1>3, <2>1, <2>2, BecomesCarries
<1>6. CASE StoppedBetween(l) \/ GivesUp(l) \/ LoginStopped(l)
  <2> DEFINE u == [v EXCEPT !.owner = "over"]
  <2>1. /\ v.owner \in {"between", "browser"}
        /\ Becomes(l, u) \/ \E s : Becomes(l, Moved(u, s))
    BY <1>6 DEF StoppedBetween, GivesUp, LoginStopped, Owner
  <2>2. /\ u \in LeaseRecords /\ u.queue = v.queue /\ u.job = v.job /\ u.owner # "none"
    BY <1>2 DEF LeaseRecords
  <2> HIDE DEF u
  <2> QED
    BY <1>1, <1>3, <2>1, <2>2, BecomesCarries
<1>7. CASE LoginFails(l)
  <2> DEFINE u == [v EXCEPT !.owner = "between"]
  <2>1. v.owner = "browser" /\ Becomes(l, u)
    BY <1>7 DEF LoginFails, Owner
  <2>2. /\ u \in LeaseRecords /\ u.queue = v.queue /\ u.job = v.job /\ u.owner # "none"
    BY <1>2 DEF LeaseRecords
  <2> HIDE DEF u
  <2> QED
    BY <1>1, <1>3, <2>1, <2>2, BecomesCarries
<1>8. CASE HoldStarts(l)
  <2> DEFINE u == [v EXCEPT !.owner = "closing", !.tries = 0]
             x == [v EXCEPT !.owner = "entering", !.tries = 0]
  <2>1. v.owner = "browser" /\ (Becomes(l, Moved(u, "releasing")) \/ Becomes(l, x))
    BY <1>8 DEF HoldStarts, Owner
  <2>2. /\ u \in LeaseRecords /\ u.queue = v.queue /\ u.job = v.job /\ u.owner # "none"
        /\ x \in LeaseRecords /\ x.queue = v.queue /\ x.job = v.job /\ x.owner # "none"
    BY <1>2 DEF LeaseRecords
  <2> HIDE DEF u, x
  <2> QED
    BY <1>1, <1>3, <2>1, <2>2, BecomesCarries
<1>9. CASE HoldEntered(l)
  <2> DEFINE u == [v EXCEPT !.owner = "hold"]
  <2>1. v.owner = "entering" /\ Becomes(l, Moved(u, "ready_holding"))
    BY <1>9 DEF HoldEntered, Owner
  <2>2. /\ u \in LeaseRecords /\ u.queue = v.queue /\ u.job = v.job /\ u.owner # "none"
    BY <1>2 DEF LeaseRecords
  <2> HIDE DEF u
  <2> QED
    BY <1>1, <1>3, <2>1, <2>2, BecomesCarries
<1>10. CASE OwnerTells(l)
  <2> DEFINE u == [v EXCEPT !.note = "none"]
  <2>1. Becomes(l, u)
    BY <1>10 DEF OwnerTells
  <2>2. u.queue = v.queue /\ u.job = v.job /\ u.owner = v.owner
    BY <1>2 DEF LeaseRecords
  <2> HIDE DEF u
  <2>3. Carries(v, u, cmds')
    BY <1>1, <2>2, QuietCarries
  <2> QED
    BY <1>1, <2>1, <2>3, BecomesCarries
<1> QED
  BY <1>4, <1>5, <1>6, <1>7, <1>8, <1>9, <1>10 DEF Login

\* So do its steps in the hold, which answer what they let go.
LEMMA HoldCarries ==
  ASSUME Tracked, NEW l \in Ids, Hold(l), ~HoldStarts(l), ~HoldEntered(l)
  PROVE  \A m \in Ids : Carries(L[m], L'[m], cmds')
<1> DEFINE v == L[l]
<1>1. IInv /\ TypeOK /\ Orderly(v) /\ (\A m \in Ids : Orderly(L[m]))
  BY DEF Tracked, IInv
<1>2. v \in LeaseRecords /\ v.queue \in Seq(1..MaxCommands) /\ v.job \in 0..MaxCommands
  BY <1>1 DEF TypeOK, LeaseRecords
<1>3. ASSUME NEW u \in LeaseRecords, u.queue = v.queue, u.job = v.job,
             \/ /\ v.owner \notin {"none", "taken", "working", "finishing"}
                /\ u.owner # "none"
             \/ u.owner \in {"taken", "working", "finishing"}
      PROVE  /\ Carries(v, u, cmds') /\ Carries(v, Told(u), cmds')
             /\ \A s : Carries(v, Moved(u, s), cmds')
  <2>1. /\ \A s : /\ Moved(u, s).queue = v.queue /\ Moved(u, s).job = v.job
                  /\ Moved(u, s).owner = u.owner
        /\ Told(u).queue = v.queue /\ Told(u).job = v.job /\ Told(u).owner = u.owner
    BY <1>3, FieldUpdates, CommandFields
  <2> QED
    BY <1>1, <1>3, <2>1, QuietCarries
<1>4. CASE SeesRelease(l) \/ HoldEnds(l)
  <2>1. PICK pc \in {"leaving", "draining"} :
          \E s : Becomes(l, Moved([v EXCEPT !.owner = pc], s))
    BY <1>4 DEF SeesRelease, HoldEnds
  <2> DEFINE u == [v EXCEPT !.owner = pc]
  <2>2. v.owner = "hold"
    BY <1>4 DEF SeesRelease, HoldEnds, Owner
  <2>3. u \in LeaseRecords /\ u.queue = v.queue /\ u.job = v.job /\ u.owner # "none"
    BY <1>2 DEF LeaseRecords
  <2>4. \E s : Becomes(l, Moved(u, s))
    BY <2>1
  <2> HIDE DEF u
  <2> QED
    BY <1>1, <1>3, <2>2, <2>3, <2>4, BecomesCarries
<1>5. CASE Take(l)
  <2> DEFINE k == Head(v.queue)
             u == [v EXCEPT !.queue = Tail(@), !.job = k, !.owner = "taken"]
  <2>1. v.owner = "hold" /\ v.queue # << >> /\ Becomes(l, u)
    BY <1>5 DEF Take, Owner
  <2>2. u.queue = Tail(v.queue) /\ u.job = k /\ u.owner = "taken"
    BY <1>2 DEF LeaseRecords
  <2>3. v.job = 0
    BY <1>1, <2>1 DEF Orderly
  <2> HIDE DEF u
  <2>4. \A j \in Queued(v) : j = k \/ j \in Queued(u)
    BY <1>2, <2>1, <2>2, QueueMembers DEF Queued
  <2>5. Carries(v, u, cmds')
    BY <2>2, <2>3, <2>4 DEF Carries, Orderly
  <2> QED
    BY <1>1, <2>1, <2>5, BecomesCarries
<1>6. CASE Begin(l)
  <2> DEFINE u == [v EXCEPT !.current = v.job, !.owner = "working"]
  <2>1. /\ v.owner = "taken"
        /\ \/ JobFailed(l, v.job)
           \/ Becomes(l, Moved(u, "refreshing_session"))
           \/ Becomes(l, u)
    BY <1>6 DEF Begin, Owner
  <2>2. /\ u \in LeaseRecords /\ u.queue = v.queue /\ u.job = v.job /\ u.owner = "working"
    BY <1>2 DEF LeaseRecords
  <2> HIDE DEF u
  <2> QED
    BY <1>1, <1>3, <2>1, <2>2, BecomesCarries, JobFailedCarries
<1>7. CASE Work(l)
  <2> DEFINE u == [v EXCEPT !.owner = "finishing"]
  <2>1. v.owner = "working" /\ (JobFailed(l, v.job) \/ Becomes(l, u))
    BY <1>7 DEF Work, Owner
  <2>2. /\ u \in LeaseRecords /\ u.queue = v.queue /\ u.job = v.job /\ u.owner = "finishing"
    BY <1>2 DEF LeaseRecords
  <2> HIDE DEF u
  <2> QED
    BY <1>1, <1>3, <2>1, <2>2, BecomesCarries, JobFailedCarries
<1>8. ASSUME NEW o \in {"hold", "draining"}, NEW w,
             w.owner = o, w.job = 0, w.queue = v.queue,
             cmds' = [cmds EXCEPT ![v.job].done = TRUE], Becomes(l, w)
      PROVE  \A m \in Ids : Carries(L[m], L'[m], cmds')
  <2>1. ASSUME NEW j \in 1..Len(cmds), v.job = j PROVE cmds'[j].done
    BY <1>1, <1>8, <2>1, DoneAnswers
  <2>2. Carries(v, w, cmds')
    BY <1>8, <2>1 DEF Carries, Orderly, Queued
  <2> QED
    BY <1>1, <1>8, <2>2, BecomesCarries
<1>9. ASSUME NEW o \in {"hold", "draining"}
      PROVE  LET x == [v EXCEPT !.owner = o, !.job = 0, !.current = 0]
             IN  /\ x \in LeaseRecords /\ x.owner = o /\ x.job = 0 /\ x.queue = v.queue
                 /\ \A s : /\ Moved(x, s).owner = o /\ Moved(x, s).job = 0
                           /\ Moved(x, s).queue = v.queue
  <2> DEFINE x == [v EXCEPT !.owner = o, !.job = 0, !.current = 0]
  <2>1. 0 \in 0..MaxCommands
    BY LeaseAssumption
  <2>2. x \in LeaseRecords /\ x.owner = o /\ x.job = 0 /\ x.queue = v.queue
    BY <1>2, <2>1 DEF LeaseRecords
  <2> HIDE DEF x
  <2>3. \A s : /\ Moved(x, s).owner = o /\ Moved(x, s).job = 0
               /\ Moved(x, s).queue = v.queue
    BY <2>2, FieldUpdates, CommandFields
  <2> QED
    BY <2>2, <2>3 DEF x
<1>10. CASE Finish(l)
  <2> DEFINE x == [v EXCEPT !.owner = "hold", !.job = 0, !.current = 0]
             y == [x EXCEPT !.tab = TabAfter(x, {v.job}, "ready")]
  <2>1. /\ v.owner = "finishing"
        /\ \/ JobFailed(l, v.job)
           \/ /\ cmds' = [cmds EXCEPT ![v.job].done = TRUE]
              /\ Becomes(l, Moved(x, "ready_holding")) \/ Becomes(l, Told(y))
    BY <1>10 DEF Finish, Owner
  <2>2. /\ x \in LeaseRecords /\ x.owner = "hold" /\ x.job = 0 /\ x.queue = v.queue
        /\ \A s : /\ Moved(x, s).owner = "hold" /\ Moved(x, s).job = 0
                  /\ Moved(x, s).queue = v.queue
    BY <1>9
  <2> HIDE DEF x
  <2>3. /\ y \in LeaseRecords /\ y.owner = "hold" /\ y.job = 0 /\ y.queue = v.queue
    <3>1. TabAfter(x, {v.job}, "ready") \in TabStates
      BY <2>2, LeaseUpdates DEF TabStates
    <3> QED
      BY <2>2, <3>1 DEF LeaseRecords
  <2> HIDE DEF y
  <2>4. Told(y).owner = "hold" /\ Told(y).job = 0 /\ Told(y).queue = v.queue
    BY <2>3, FieldUpdates, CommandFields
  <2> QED
    BY <1>1, <1>8, <2>1, <2>2, <2>4, JobFailedCarries DEF Tracked
<1>11. CASE WorkInterrupted(l)
  <2> DEFINE x == [v EXCEPT !.owner = "draining", !.job = 0, !.current = 0]
  <2>1. /\ cmds' = [cmds EXCEPT ![v.job].done = TRUE]
        /\ \E s : Becomes(l, Moved(x, s))
    BY <1>11 DEF WorkInterrupted
  <2>2. \A s : /\ Moved(x, s).owner = "draining" /\ Moved(x, s).job = 0
               /\ Moved(x, s).queue = v.queue
    BY <1>9
  <2> HIDE DEF x
  <2> QED
    BY <1>8, <2>1, <2>2
<1>12. CASE TabLost(l)
  <2> DEFINE u == [v EXCEPT !.tab = "closed"]
  <2>1. v.owner = "hold" /\ Becomes(l, Told(u))
    BY <1>12 DEF TabLost, Owner
  <2>2. /\ u \in LeaseRecords /\ u.queue = v.queue /\ u.job = v.job /\ u.owner = v.owner
    BY <1>2 DEF LeaseRecords, TabStates
  <2> HIDE DEF u
  <2> QED
    BY <1>1, <1>3, <2>1, <2>2, BecomesCarries
<1>13. CASE Leaves(l)
  <2> DEFINE e == IF v.owner = "draining" THEN Emptied(v) ELSE v
             t == TabsClosed(e)
             w == [t EXCEPT !.owner = IF t.status \in TerminalStatus THEN "over" ELSE "closing"]
  <2>1. /\ v.owner \in {"leaving", "draining"} /\ Becomes(l, w)
        /\ cmds' = IF v.owner = "draining" THEN Failed(Queued(v)) ELSE cmds
    BY <1>13 DEF Leaves
  <2>2. /\ e \in LeaseRecords /\ e.job = v.job
        /\ e.queue = IF v.owner = "draining" THEN << >> ELSE v.queue
    BY <1>2, LeaseUpdates, CommandFields
  <2> HIDE DEF e
  <2>3. t \in LeaseRecords /\ t.job = v.job /\ t.queue = e.queue
    BY <2>2, LeaseUpdates, CommandFields
  <2> HIDE DEF t
  <2>4. w.owner \in {"over", "closing"} /\ w.job = v.job /\ w.queue = e.queue
    BY <2>3 DEF LeaseRecords
  <2> HIDE DEF w
  <2>5. v.job = 0
    BY <1>1, <2>1 DEF Orderly
  <2>6. Carries(v, w, cmds')
    <3>1. CASE v.owner = "draining"
      <4>1. ASSUME NEW j \in 1..Len(cmds), j \in Queued(v) PROVE cmds'[j].done
        BY <1>1, <2>1, <3>1, <4>1, FailedAnswers
      <4> QED
        BY <2>4, <2>5, <4>1 DEF Carries, Orderly
    <3>2. CASE v.owner # "draining"
      BY <2>2, <2>4, <2>5, <3>2 DEF Carries, Orderly, Queued
    <3> QED
      BY <3>1, <3>2
  <2> QED
    BY <1>1, <2>1, <2>6, BecomesCarries
<1>14. CASE Released(l)
  <2> DEFINE u == [v EXCEPT !.owner = "over"]
  <2>1. v.owner = "closing" /\ Becomes(l, Moved(u, "released"))
    BY <1>14 DEF Released, Owner
  <2>2. /\ u \in LeaseRecords /\ u.queue = v.queue /\ u.job = v.job /\ u.owner = "over"
    BY <1>2 DEF LeaseRecords
  <2> HIDE DEF u
  <2> QED
    BY <1>1, <1>3, <2>1, <2>2, BecomesCarries
<1> QED
  BY <1>4, <1>5, <1>6, <1>7, <1>10, <1>11, <1>12, <1>13, <1>14 DEF Hold

\* What an API thread c that becomes r does with the command it has in hand.
Hands(c, r) ==
    /\ Goes(c, r)
    /\ r.pc = "put" => cmds'[r.cmd].lease = r.lease
    /\ callers[c].pc \in {"put", "expired"} =>
          \/ r.pc \in {"put", "expired"} /\ r.cmd = callers[c].cmd
          \/ cmds'[callers[c].cmd].done
          \/ callers[c].cmd \in Queued(L'[cmds[callers[c].cmd].lease])

\* The API threads carry what there is, and a command that is made is in the
\* hands of the thread that made it.
LEMMA ApiCarries ==
  ASSUME Tracked, NEW c \in Callers, Api(c)
  PROVE  /\ \A m \in Ids : Carries(L[m], L'[m], cmds')
         /\ \E r : /\ Hands(c, r)
                   /\ Len(cmds') # Len(cmds) => r.pc = "put" /\ r.cmd = Len(cmds) + 1
<1> DEFINE v == callers[c]
           Kept == \A m \in Ids : Carries(L[m], L'[m], cmds')
           Passed == \E r : /\ Hands(c, r)
                            /\ Len(cmds') # Len(cmds) => r.pc = "put" /\ r.cmd = Len(cmds) + 1
<1>1. /\ IInv /\ TypeOK /\ (\A m \in Ids : Orderly(L[m])) /\ Asked(c)
      /\ v \in CallerRecords /\ Engaged(c)
      /\ L \in [Ids -> LeaseRecords] /\ \A m \in Ids : L[m] \in LeaseRecords
  BY DEF Tracked, IInv, TypeOK
<1>2. Idle.pc = "idle"
  BY DEF Idle
<1>3. UNCHANGED L => Kept
  BY <1>1, SameCarries
<1>4. ASSUME NEW l \in Ids, NEW w, Becomes(l, w),
             w.queue = L[l].queue, w.job = L[l].job, w.owner = L[l].owner
      PROVE  Kept
  <2>1. Carries(L[l], w, cmds')
    BY <1>1, <1>4, QuietCarries
  <2> QED
    BY <1>1, <1>4, <2>1, BecomesCarries
<1>5. ASSUME NEW l \in Ids, Becomes(l, Emptied(L[l])), cmds' = Failed(Queued(L[l]))
      PROVE  Kept
  <2>1. /\ Emptied(L[l]).queue = << >> /\ Emptied(L[l]).job = L[l].job
        /\ Emptied(L[l]).owner = L[l].owner
    BY <1>1, FieldUpdates, CommandFields
  <2>2. ASSUME NEW j \in 1..Len(cmds), j \in Queued(L[l]) PROVE cmds'[j].done
    BY <1>1, <1>5, <2>2, FailedAnswers
  <2>3. Carries(L[l], Emptied(L[l]), cmds')
    BY <1>1, <2>1, <2>2 DEF Carries, Orderly
  <2> QED
    BY <1>1, <1>5, <2>3, BecomesCarries
<1>6. ASSUME NEW r, Goes(c, r), r.pc # "put", v.pc \notin {"put", "expired"},
             Len(cmds') = Len(cmds)
      PROVE  Passed
  BY <1>6 DEF Hands
<1>7. Keeps(cmds') => Len(cmds') = Len(cmds)
  BY DEF Keeps
<1>8. Len(cmds) \in Nat
  BY <1>1, LenProperties DEF TypeOK
<1>9. ASSUME NEW l \in Ids, Release(c, l) PROVE Kept /\ Passed
  <2> DEFINE r == [Idle EXCEPT !.pc = "releasing", !.lease = l]
             w == [L[l] EXCEPT !.release = TRUE]
  <2>1. /\ v.pc = "idle" /\ Becomes(l, w) /\ Goes(c, r)
        /\ cmds' = IF L[l].current # 0 THEN [cmds EXCEPT ![L[l].current].cancelled = TRUE]
                   ELSE cmds
    BY <1>9 DEF Release, At
  <2>2. w.queue = L[l].queue /\ w.job = L[l].job /\ w.owner = L[l].owner
    BY <1>1 DEF LeaseRecords
  <2>3. r.pc = "releasing"
    BY DEF Idle
  <2>4. Keeps(cmds')
    BY <1>1, <2>1, CommandUpdates
  <2> HIDE DEF r, w
  <2> QED
    BY <1>4, <1>6, <1>7, <2>1, <2>2, <2>3, <2>4
<1>10. ASSUME NEW l \in Ids, NEW kind \in Kinds, NEW n, NewCommand(l, kind),
              v.pc = "idle",
              Goes(c, [pc |-> "put", lease |-> l, cmd |-> Len(cmds) + 1, note |-> n])
       PROVE  Passed
  <2>1. cmds'[Len(cmds) + 1].lease = l
    BY <1>1, <1>10, NewCommandAppends
  <2> QED
    BY <1>10, <2>1 DEF Hands
<1>11. ASSUME NEW l \in Ids, Refresh(c, l) PROVE Kept /\ Passed
  <2>1. /\ NewCommand(l, "refresh") /\ v.pc = "idle" /\ UNCHANGED L
        /\ Goes(c, [pc |-> "put", lease |-> l, cmd |-> Len(cmds) + 1, note |-> "none"])
    BY <1>11 DEF Refresh, At
  <2>2. "refresh" \in Kinds
    BY DEF Kinds
  <2> QED
    BY <1>3, <1>10, <2>1, <2>2
<1>12. ASSUME NEW l \in Ids, NEW q \in Requests, Open(c, l, q) PROVE Kept /\ Passed
  <2> DEFINE w == [L[l] EXCEPT !.tab = "opening", !.request = q]
  <2>1. /\ v.pc = "idle"
        /\ \/ /\ UNCHANGED <<L, cmds>>
              /\ \E k : Goes(c, [pc |-> "waiting", lease |-> l, cmd |-> k, note |-> "none"])
           \/ /\ NewCommand(l, q) /\ Becomes(l, w)
              /\ Goes(c, [pc |-> "put", lease |-> l, cmd |-> Len(cmds) + 1, note |-> "active"])
    BY <1>12 DEF Open, At
  <2>2. w.queue = L[l].queue /\ w.job = L[l].job /\ w.owner = L[l].owner
    BY <1>1 DEF LeaseRecords
  <2> HIDE DEF w
  <2>3. q \in Kinds
    BY DEF Kinds
  <2> QED
    BY <1>3, <1>4, <1>6, <1>10, <2>1, <2>2, <2>3
<1>13. ASSUME NEW l \in Ids, NEW q \in Requests, UpdateStatus(c, l, q) PROVE Kept /\ Passed
  <2> DEFINE r == [Idle EXCEPT !.lease = l, !.note = Class(L[l].status)]
             w == [L[l] EXCEPT !.request = q]
  <2>1. v.pc = "idle" /\ Becomes(l, w) /\ Goes(c, r) /\ cmds' = cmds
    BY <1>13 DEF UpdateStatus, At
  <2>2. w.queue = L[l].queue /\ w.job = L[l].job /\ w.owner = L[l].owner
    BY <1>1 DEF LeaseRecords
  <2>3. r.pc = "idle"
    BY DEF Idle
  <2> HIDE DEF r, w
  <2> QED
    BY <1>4, <1>6, <2>1, <2>2, <2>3
<1>14. CASE ReleaseDrains(c)
  <2> DEFINE r == [v EXCEPT !.pc = "marking"]
  <2>1. /\ v.pc = "releasing" /\ Goes(c, r)
        /\ Becomes(v.lease, Emptied(L[v.lease])) /\ cmds' = Failed(Queued(L[v.lease]))
    BY <1>14 DEF ReleaseDrains, At
  <2>2. v.lease \in Ids
    BY <1>1, <2>1 DEF Engaged
  <2>3. r.pc = "marking"
    BY <1>1 DEF CallerRecords
  <2>4. Keeps(cmds')
    BY <1>1, <2>1, CommandUpdates
  <2> HIDE DEF r
  <2> QED
    BY <1>5, <1>6, <1>7, <2>1, <2>2, <2>3, <2>4
<1>15. CASE ReleaseMarks(c)
  <2> DEFINE l == v.lease
             w == [L[l] EXCEPT !.status = "releasing"]
             r == [Idle EXCEPT !.lease = l, !.note = "active"]
  <2>1. /\ v.pc = "marking" /\ cmds' = cmds
        /\ Becomes(l, L[l]) \/ Becomes(l, w)
        /\ Goes(c, Idle) \/ Goes(c, r)
    BY <1>15 DEF ReleaseMarks, At
  <2>2. l \in Ids
    BY <1>1, <2>1 DEF Engaged
  <2>3. w.queue = L[l].queue /\ w.job = L[l].job /\ w.owner = L[l].owner
    BY <1>1, <2>2 DEF LeaseRecords
  <2>4. r.pc = "idle"
    BY DEF Idle
  <2> HIDE DEF r, w
  <2> QED
    BY <1>2, <1>4, <1>6, <2>1, <2>2, <2>3, <2>4
<1>16. CASE Put(c)
  <2> DEFINE l == v.lease
             k == v.cmd
             w == [L[l] EXCEPT !.queue = Append(@, k)]
             r == [v EXCEPT !.pc = "waiting"]
  <2>1. v.pc = "put" /\ L' = [L EXCEPT ![l].queue = Append(@, k)] /\ Goes(c, r) /\ cmds' = cmds
    BY <1>16 DEF Put, At
  <2>2. /\ l \in Ids /\ L[l].owner # "none" /\ k \in 1..Len(cmds) /\ cmds[k].lease = l
        /\ k \in 1..MaxCommands
    <3>1. Len(cmds) <= MaxCommands /\ MaxCommands \in Nat
      BY <1>1, LeaseAssumption DEF TypeOK
    <3>2. k \in 1..Len(cmds)
      BY <1>1, <2>1 DEF Engaged
    <3> QED
      BY <1>1, <1>8, <2>1, <3>1, <3>2 DEF Engaged, Asked
  <2>3. Becomes(l, w)
    BY <1>1, <2>1, <2>2 DEF Becomes
  <2>4. w.queue = Append(L[l].queue, k) /\ w.job = L[l].job /\ w.owner = L[l].owner
    BY <1>1, <2>2 DEF LeaseRecords
  <2>5. r.pc = "waiting"
    BY <1>1 DEF CallerRecords
  <2> HIDE DEF w, r
  <2>6. k \in Queued(w) /\ \A j \in Queued(L[l]) : j \in Queued(w)
    <3>1. L[l].queue \in Seq(1..MaxCommands)
      BY <1>1, <2>2 DEF LeaseRecords
    <3> QED
      BY <2>2, <2>4, <3>1, QueueMembers DEF Queued
  <2>7. Carries(L[l], w, cmds')
    BY <1>1, <2>2, <2>4, <2>6 DEF Carries, Orderly
  <2>8. Kept
    BY <1>1, <2>2, <2>3, <2>7, BecomesCarries
  <2>9. L'[l] = w
    BY <1>1, <2>2, <2>3 DEF Becomes
  <2>10. Passed
    BY <2>1, <2>2, <2>5, <2>6, <2>9 DEF Hands
  <2> QED
    BY <2>8, <2>10
<1>17. CASE Answered(c)
  <2>1. v.pc = "waiting" /\ Goes(c, Idle) /\ UNCHANGED <<L, cmds>>
    BY <1>17 DEF Answered, At
  <2> QED
    BY <1>2, <1>3, <1>6, <2>1
<1>18. CASE TimesOut(c)
  <2> DEFINE r == [v EXCEPT !.pc = "expired"]
  <2>1. /\ v.pc = "waiting" /\ UNCHANGED L /\ (Goes(c, Idle) \/ Goes(c, r))
        /\ cmds' = [cmds EXCEPT ![v.cmd].cancelled = TRUE]
    BY <1>18 DEF TimesOut, At
  <2>2. r.pc = "expired"
    BY <1>1 DEF CallerRecords
  <2>3. Keeps(cmds')
    BY <1>1, <2>1, CommandUpdates
  <2> HIDE DEF r
  <2> QED
    BY <1>2, <1>3, <1>6, <1>7, <2>1, <2>2, <2>3
<1>19. CASE RecordsTimeout(c)
  <2> DEFINE l == v.lease
             w == [L[l] EXCEPT !.tab = TabAfter(L[l], {v.cmd}, "timed_out")]
             r == [Idle EXCEPT !.lease = l, !.note = Class(L[l].status)]
  <2>1. v.pc = "expired" /\ Becomes(l, w) /\ cmds' = Failed({v.cmd}) /\ Goes(c, r)
    BY <1>19 DEF RecordsTimeout, At
  <2>2. l \in Ids /\ v.cmd \in 1..Len(cmds)
    BY <1>1, <2>1 DEF Engaged
  <2>3. w.queue = L[l].queue /\ w.job = L[l].job /\ w.owner = L[l].owner
    BY <1>1, <2>2 DEF LeaseRecords
  <2>4. r.pc = "idle"
    BY DEF Idle
  <2>5. cmds'[v.cmd].done
    BY <1>1, <2>1, <2>2, FailedAnswers
  <2>6. Keeps(cmds')
    BY <1>1, <2>1, CommandUpdates
  <2> HIDE DEF r, w
  <2>7. Kept
    BY <1>4, <2>1, <2>2, <2>3
  <2>8. Passed
    BY <1>7, <2>1, <2>4, <2>5, <2>6 DEF Hands
  <2> QED
    BY <2>7, <2>8
<1>20. CASE CallerTells(c)
  <2> DEFINE r == [v EXCEPT !.note = "none"]
  <2>1. Goes(c, r) /\ UNCHANGED <<L, cmds>>
    BY <1>1, <1>20 DEF CallerTells, Goes
  <2>2. r.pc = v.pc /\ r.cmd = v.cmd /\ r.lease = v.lease
    BY <1>1 DEF CallerRecords
  <2> HIDE DEF r
  <2>3. Passed
    BY <1>1, <2>1, <2>2 DEF Hands, Asked
  <2> QED
    BY <1>3, <2>1, <2>3
<1> QED
  BY <1>9, <1>11, <1>12, <1>13, <1>14, <1>15, <1>16, <1>17, <1>18, <1>19, <1>20 DEF Api

\* An answer is never taken back, and a command stays its lease's.
LEMMA AnswersStay ==
  ASSUME TypeOK, [Next]_vars
  PROVE  \A k \in 1..Len(cmds) :
            cmds'[k].lease = cmds[k].lease /\ (cmds[k].done => cmds'[k].done)
<1> SUFFICES ASSUME NEW k \in 1..Len(cmds)
             PROVE  cmds'[k].lease = cmds[k].lease /\ (cmds[k].done => cmds'[k].done)
  OBVIOUS
<1>1. cmds \in [1..Len(cmds) -> CommandRecords] /\ cmds[k] \in CommandRecords
  BY LenProperties DEF TypeOK
<1>2. \A l \in Ids : \A kind : NewCommand(l, kind) => cmds'[k] = cmds[k]
  <2> SUFFICES ASSUME NEW l \in Ids, NEW kind, NewCommand(l, kind) PROVE cmds'[k] = cmds[k]
    OBVIOUS
  <2>1. cmds \in Seq(CommandRecords) /\ Len(cmds) \in Nat
    BY LenProperties DEF TypeOK
  <2>2. \E e : cmds' = Append(cmds, e)
    BY DEF NewCommand
  <2> QED
    BY <2>1, <2>2
<1>3. Keeps(cmds') => cmds'[k].lease = cmds[k].lease
  BY DEF Keeps
<1>4. cmds'[k].lease = cmds[k].lease
  BY <1>2, <1>3, CommandsStep
<1>5. \/ cmds' = cmds
      \/ \E K : cmds' = Failed(K)
      \/ \E j : cmds' = [cmds EXCEPT ![j].done = TRUE]
      \/ \E j : cmds' = [cmds EXCEPT ![j].cancelled = TRUE]
      \/ \E j : \E b : cmds' = [cmds EXCEPT ![j].cancelled = @ \/ b]
      \/ \E l \in Ids : \E kind : NewCommand(l, kind)
  <2>1. CASE UNCHANGED vars
    BY <2>1 DEF vars
  <2>2. ASSUME NEW l \in Ids, Create(l) \/ OwnerTells(l) \/ Login(l) PROVE cmds' = cmds
    BY <2>2 DEF Create, OwnerTells, Login, LoginStarts, StoppedBetween, LoginFails, GivesUp,
                LoginStopped
  <2>3. ASSUME NEW l \in Ids,
               HoldStarts(l) \/ HoldEntered(l) \/ SeesRelease(l) \/ HoldEnds(l)
                 \/ TabLost(l) \/ Released(l)
        PROVE  cmds' = cmds
    BY <2>3 DEF HoldStarts, HoldEntered, SeesRelease, HoldEnds, TabLost, Released
  <2>4. ASSUME NEW l \in Ids, Take(l)
        PROVE  \E j : \E b : cmds' = [cmds EXCEPT ![j].cancelled = @ \/ b]
    BY <2>4 DEF Take
  <2>5. ASSUME NEW l \in Ids, Begin(l) \/ Work(l) \/ Finish(l) \/ WorkInterrupted(l) \/ Leaves(l)
        PROVE  \/ cmds' = cmds
               \/ \E K : cmds' = Failed(K)
               \/ \E j : cmds' = [cmds EXCEPT ![j].done = TRUE]
    BY <2>5 DEF Begin, Work, Finish, WorkInterrupted, Leaves, JobFailed
  <2>6. ASSUME NEW c \in Callers, NEW l \in Ids, Release(c, l) \/ Refresh(c, l)
        PROVE  \/ cmds' = cmds
               \/ \E j : cmds' = [cmds EXCEPT ![j].cancelled = TRUE]
               \/ \E kind : NewCommand(l, kind)
    BY <2>6 DEF Release, Refresh
  <2>7. ASSUME NEW c \in Callers, NEW l \in Ids, NEW r \in Requests,
               Open(c, l, r) \/ UpdateStatus(c, l, r)
        PROVE  cmds' = cmds \/ \E kind : NewCommand(l, kind)
    BY <2>7 DEF Open, UpdateStatus
  <2>8. ASSUME NEW c \in Callers,
               ReleaseDrains(c) \/ ReleaseMarks(c) \/ Put(c) \/ Answered(c) \/ TimesOut(c)
                 \/ RecordsTimeout(c) \/ CallerTells(c)
        PROVE  \/ cmds' = cmds
               \/ \E K : cmds' = Failed(K)
               \/ \E j : cmds' = [cmds EXCEPT ![j].cancelled = TRUE]
    BY <2>8 DEF ReleaseDrains, ReleaseMarks, Put, Answered, TimesOut, RecordsTimeout, CallerTells
  <2> QED
    BY <2>1, <2>2, <2>3, <2>4, <2>5, <2>6, <2>7, <2>8 DEF Next, Hold, Api
<1>6. ASSUME cmds[k].done PROVE cmds'[k].done
  <2>1. CASE \E K : cmds' = Failed(K)
    BY <1>1, <1>6, <2>1 DEF Failed, CommandRecords
  <2>2. CASE \E j : cmds' = [cmds EXCEPT ![j].done = TRUE]
    BY <1>1, <1>6, <2>2 DEF CommandRecords
  <2>3. CASE \E j : cmds' = [cmds EXCEPT ![j].cancelled = TRUE]
    BY <1>1, <1>6, <2>3 DEF CommandRecords
  <2>4. ASSUME NEW j, NEW b, cmds' = [cmds EXCEPT ![j].cancelled = @ \/ b]
        PROVE  cmds'[k].done
    <3>1. cmds'[k].done = cmds[k].done
      <4>1. CASE j = k
        BY <1>1, <2>4, <4>1 DEF CommandRecords
      <4>2. CASE j # k
        BY <1>1, <2>4, <4>2
      <4> QED
        BY <4>1, <4>2
    <3> QED
      BY <1>6, <3>1
  <2> QED
    BY <1>2, <1>5, <1>6, <2>1, <2>2, <2>3, <2>4
<1> QED
  BY <1>4, <1>6

LEMMA TrackedStep ==
  ASSUME Tracked, [Next]_vars
  PROVE  (\A l \in Ids : Orderly(L'[l])) /\ (\A c \in Callers : Asked(c)') /\ NoCommandLost'
<1>1. /\ IInv /\ TypeOK /\ (\A m \in Ids : Orderly(L[m])) /\ NoCommandLost
      /\ \A c \in Callers : Asked(c) /\ Engaged(c)
  BY DEF Tracked, IInv
<1>2. /\ \A k \in 1..Len(cmds) :
            cmds'[k].lease = cmds[k].lease /\ (cmds[k].done => cmds'[k].done)
      /\ Len(cmds) \in Nat
      /\ \A k \in 1..Len(cmds) : cmds[k].lease \in Ids
  <2>1. Len(cmds) \in Nat /\ \A k \in 1..Len(cmds) : cmds[k] \in CommandRecords
    BY <1>1, LenProperties DEF TypeOK
  <2> QED
    BY <1>1, <2>1, AnswersStay DEF CommandRecords
<1>3. callers \in [Callers -> CallerRecords]
  BY <1>1 DEF TypeOK
\* Nothing is made but by an API thread.
<1>4. ASSUME UNCHANGED callers, Keeps(cmds'), \A m \in Ids : Carries(L[m], L'[m], cmds')
      PROVE  (\A l \in Ids : Orderly(L'[l])) /\ (\A c \in Callers : Asked(c)') /\ NoCommandLost'
  <2>1. \A l \in Ids : Orderly(L'[l])
    BY <1>4 DEF Carries
  <2>2. ASSUME NEW c \in Callers PROVE Asked(c)'
    BY <1>1, <1>2, <1>4 DEF Asked, Engaged
  <2>3. Len(cmds') = Len(cmds)
    BY <1>4 DEF Keeps
  <2>4. ASSUME NEW k \in 1..Len(cmds)
        PROVE  \/ cmds'[k].done
               \/ \E c \in Callers : callers'[c].cmd = k /\ callers'[c].pc \in {"put", "expired"}
               \/ k \in Queued(L'[cmds'[k].lease])
               \/ L'[cmds'[k].lease].job = k
    BY <1>1, <1>2, <1>4, <2>4 DEF NoCommandLost, Carries
  <2> QED
    BY <2>1, <2>2, <2>3, <2>4 DEF NoCommandLost
<1>5. CASE UNCHANGED vars
  <2>1. \A m \in Ids : Carries(L[m], L'[m], cmds')
    BY <1>1, <1>5, SameCarries DEF vars
  <2>2. Keeps(cmds')
    BY <1>1, <1>5, CommandUpdates DEF vars, Keeps
  <2> QED
    BY <1>4, <1>5, <2>1, <2>2 DEF vars
<1>6. ASSUME NEW l \in Ids, Create(l) \/ Login(l) \/ Hold(l) \/ OwnerTells(l)
      PROVE  UNCHANGED callers /\ Keeps(cmds') /\ \A m \in Ids : Carries(L[m], L'[m], cmds')
  <2>1. UNCHANGED callers
    BY <1>6 DEF Create, Login, Hold, OwnerTells, LoginStarts, StoppedBetween, LoginFails,
                GivesUp, LoginStopped, HoldStarts, HoldEntered, SeesRelease, HoldEnds, Take,
                Begin, Work, Finish, WorkInterrupted, TabLost, Leaves, Released
  <2>2. \A m \in Ids : Carries(L[m], L'[m], cmds')
    BY <1>6, LoginCarries, HoldCarries
  <2>3. Keeps(cmds')
    BY <1>1, <1>6, OwnerKeeps
  <2> QED
    BY <2>1, <2>2, <2>3
<1>7. ASSUME NEW c \in Callers, Api(c)
      PROVE  (\A l \in Ids : Orderly(L'[l])) /\ (\A d \in Callers : Asked(d)') /\ NoCommandLost'
  <2>1. \A m \in Ids : Carries(L[m], L'[m], cmds')
    BY <1>7, ApiCarries
  <2>2. PICK r : /\ Hands(c, r)
                 /\ Len(cmds') # Len(cmds) => r.pc = "put" /\ r.cmd = Len(cmds) + 1
    BY <1>7, ApiCarries
  <2>3. /\ callers'[c] = r
        /\ \A d \in Callers \ {c} : callers'[d] = callers[d]
    BY <1>3, <2>2 DEF Hands, Goes
  <2>4. ASSUME NEW d \in Callers PROVE Asked(d)'
    <3>1. CASE d = c
      BY <2>2, <2>3, <3>1 DEF Asked, Hands
    <3>2. CASE d # c
      BY <1>1, <1>2, <2>3, <3>2 DEF Asked, Engaged
    <3> QED
      BY <3>1, <3>2
  <2>5. ASSUME NEW k \in 1..Len(cmds)
        PROVE  \/ cmds'[k].done
               \/ \E d \in Callers : callers'[d].cmd = k /\ callers'[d].pc \in {"put", "expired"}
               \/ k \in Queued(L'[cmds'[k].lease])
               \/ L'[cmds'[k].lease].job = k
    <3>1. CASE \E d \in Callers : callers[d].cmd = k /\ callers[d].pc \in {"put", "expired"}
      <4>1. PICK d \in Callers : callers[d].cmd = k /\ callers[d].pc \in {"put", "expired"}
        BY <3>1
      <4>2. CASE d = c
        BY <1>2, <2>2, <2>3, <4>1, <4>2 DEF Hands
      <4>3. CASE d # c
        BY <2>3, <4>1, <4>3
      <4> QED
        BY <4>2, <4>3
    <3>2. CASE cmds[k].done \/ k \in Queued(L[cmds[k].lease]) \/ L[cmds[k].lease].job = k
      BY <1>2, <2>1, <3>2 DEF Carries
    <3> QED
      BY <1>1, <3>1, <3>2 DEF NoCommandLost
  <2>6. ASSUME NEW k \in 1..Len(cmds'), k \notin 1..Len(cmds)
        PROVE  callers'[c].cmd = k /\ callers'[c].pc = "put"
    <3>1. Len(cmds') = Len(cmds) \/ Len(cmds') = Len(cmds) + 1
      BY <1>1, MadeOne
    <3> QED
      BY <1>2, <2>2, <2>3, <2>6, <3>1
  <2>7. NoCommandLost'
    BY <2>5, <2>6 DEF NoCommandLost
  <2> QED
    BY <2>1, <2>4, <2>7 DEF Carries
<1> QED
  BY <1>4, <1>5, <1>6, <1>7 DEF Next

\* A command for the browser that has no answer is with the thread that asks for
\* it, in the lease's queue or with the owner: no release, time-out or end of the
\* hold lets one go without an answer (_fail_pending_commands, request_release).
THEOREM NoCommandLostCorrect == Spec => []NoCommandLost
<1>1. Init => (\A l \in Ids : Orderly(L[l])) /\ (\A c \in Callers : Asked(c)) /\ NoCommandLost
  <2> SUFFICES ASSUME Init
               PROVE  /\ \A l \in Ids : Orderly(L[l])
                      /\ \A c \in Callers : Asked(c)
                      /\ NoCommandLost
    OBVIOUS
  <2>1. Blank.queue = << >> /\ Blank.job = 0 /\ Idle.pc = "idle"
    BY DEF Blank, Idle
  <2>2. cmds = << >> /\ Len(cmds) = 0
    BY EmptySeq DEF Init
  <2> QED
    BY <2>1, <2>2 DEF Init, Orderly, Asked, NoCommandLost
<1>2. /\ IInv /\ IInv'
      /\ (\A l \in Ids : Orderly(L[l])) /\ (\A c \in Callers : Asked(c)) /\ NoCommandLost
      /\ [Next]_vars
      => (\A l \in Ids : Orderly(L[l]))' /\ (\A c \in Callers : Asked(c))' /\ NoCommandLost'
  BY TrackedStep DEF Tracked
<1> QED
  BY <1>1, <1>2, Invariance, PTL DEF Spec

=============================================================================
