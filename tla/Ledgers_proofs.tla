---------------------------- MODULE Ledgers_proofs ----------------------------
(***************************************************************************)
(* Proofs about five components that share no state: the history of a task *)
(* (TaskHistory), the quality of a rotated domain (DomainQuality), the     *)
(* delivery cards (DeliveryCards), the payment orders (CdkOrders) and the  *)
(* binding of phone numbers (PhoneBinding).  Each is instantiated with     *)
(* constants and variables of its own, and every theorem holds for all     *)
(* constants that meet the component's assumption.                         *)
(***************************************************************************)
EXTENDS Integers, FiniteSets, Sequences, FiniteSetTheorems, TLAPS

CONSTANTS
    ActiveMax, FinishedMax, CheckpointEvery, Tries, PostSaves, TaskStops, MayCrash, MaxLines,
    MaxWriteFaults,
    Registered, MinSamples, Threshold, StreakLimit, MaxDecisions,
    Codes, Stock, Keys, MaxRefetch, MaxCount, Sessions,
    Payers, PayCards, Target, FailureContinue, MaxOrderRequests,
    Binders, Phones, UsePool, Items, Width, MaxAccounts, BindingStops, MaxSkips,
    MaxBindingFaults, MaxPoolRequests

VARIABLES
    live, status, lo, hi, since, stopMode, logRow, inserted, queued, owner, pc, snap, found,
    runnerPhase, tries, writeFaults, outcome, clicked,
    item, trigger, decisions, disallowed, ledger, quality,
    card, account, expired, events, work, answers,
    upstream, cardRow, copy, orderPhase, checks, unsent, inHand, openOrders, unasked, moved,
    orderResult, orderStop, orderSkip, polled, inFlight, orderRequests,
    bindingPhase, place, held, cursor, claimed, terminal, successful, texted, remotePhone,
    confirmed, binding, phonePool, bindingResult, bindingStop, skips, bindingFaults, poolRequests

History == INSTANCE TaskHistory
    WITH StopModes <- TaskStops, MaxFaults <- MaxWriteFaults, row <- logRow,
         pending <- queued, phase <- runnerPhase, faults <- writeFaults

Quality == INSTANCE DomainQuality WITH Accounts <- Registered

Delivery == INSTANCE DeliveryCards WITH Cards <- Codes, Accounts <- Stock

Orders == INSTANCE CdkOrders
    WITH Accounts <- Payers, Cards <- PayCards, MaxRequests <- MaxOrderRequests,
         remote <- upstream, row <- cardRow, extra <- copy, phase <- orderPhase,
         cards <- checks, pending <- unsent, hand <- inHand, orders <- openOrders,
         todo <- unasked, result <- orderResult, stop <- orderStop, skip <- orderSkip,
         targets <- polled, flight <- inFlight, asked <- orderRequests

Phone == INSTANCE PhoneBinding
    WITH Accounts <- Binders, StopModes <- BindingStops, MaxFaults <- MaxBindingFaults,
         MaxRequests <- MaxPoolRequests, phase <- bindingPhase, asked <- texted,
         remote <- remotePhone, pool <- phonePool, result <- bindingResult,
         stop <- bindingStop, faults <- bindingFaults, requests <- poolRequests

-----------------------------------------------------------------------------
(* The history of a task.                                                  *)

\* The task has ended, or its record is gone.
HasEnded == ~live \/ status \in History!Terminal

\* Who writes holds the lock, and has read the row as it is.
LockHeld ==
    \A t \in History!Threads :
       /\ pc[t] = "saving" <=> owner = t
       /\ pc[t] = "saving" => found[t] = logRow

\* A window is empty only before the first line.
Full(w) == w.lo < w.hi \/ (w.lo = 0 /\ w.hi = 0)

WindowsFull ==
    /\ Full(History!Record) /\ Full(logRow) /\ Full(queued)
    /\ \A t \in History!Threads : Full(snap[t])

\* There is a row once one was inserted, and what is about to be written is there.
RowCounted ==
    /\ inserted = IF logRow.status = "none" THEN 0 ELSE 1
    /\ \A t \in History!Threads :
          pc[t] \in {"newer", "ready", "saving"} => snap[t].status # "none"

\* What closes the task in the history is written once it has ended.
ClosedByEnd ==
    /\ logRow.status \in History!HistoryTerminal => HasEnded
    /\ \A t \in History!Threads :
          pc[t] = "saving" /\ snap[t].status \in History!HistoryTerminal => HasEnded

\* Where the runner is; the snapshot of its callback is terminal.
RunnerPlaces ==
    /\ runnerPhase = "task" => pc["runner"] \in {"work", "dead"}
    /\ runnerPhase \in {"callback", "recovery"} =>
          pc["runner"] \in {"ready", "saving", "discard", "compact"}
    /\ runnerPhase \in {"post", "last"} => pc["runner"] \in {"post", "ready", "saving", "over"}
    /\ runnerPhase # "task" => status \in History!Terminal
    /\ runnerPhase \in {"callback", "recovery"} /\ pc["runner"] \in {"ready", "saving"} =>
          snap["runner"].status \in History!Terminal

\* Once its callback is through, the row is terminal, or every try has raised.
CallbackCounts ==
    /\ tries["runner"] <= writeFaults
    /\ \/ runnerPhase = "task"
       \/ runnerPhase = "callback" /\ pc["runner"] \in {"ready", "saving"}
       \/ writeFaults >= Tries
       \/ logRow.status \in History!HistoryTerminal

HistoryInv ==
    /\ History!TypeOK
    /\ LockHeld
    /\ WindowsFull
    /\ RowCounted
    /\ ClosedByEnd
    /\ RunnerPlaces
    /\ CallbackCounts

LEMMA HistoryInit == ASSUME History!WindowsAssumption PROVE History!Init => HistoryInv
<1> SUFFICES ASSUME History!Init PROVE HistoryInv
  OBVIOUS
<1> USE DEF History!Init, History!WindowsAssumption, History!NoSnap, History!NoRow, History!Threads
<1>1. History!TypeOK
  BY DEF History!TypeOK, History!Snapshots, History!Statuses, History!HistoryTerminal, History!Terminal
<1>2. LockHeld
  BY DEF LockHeld
<1>3. WindowsFull
  BY DEF WindowsFull, Full, History!Record
<1>4. RowCounted
  BY DEF RowCounted
<1>5. ClosedByEnd
  BY DEF ClosedByEnd, History!HistoryTerminal, History!Terminal
<1>6. RunnerPlaces
  BY DEF RunnerPlaces
<1>7. CallbackCounts
  BY DEF CallbackCounts
<1> QED
  BY <1>1, <1>2, <1>3, <1>4, <1>5, <1>6, <1>7 DEF HistoryInv

\* Joining two windows loses nothing of the older one's end and length.
LEMMA PreservedWindow ==
  ASSUME NEW old \in History!Snapshots, NEW new \in History!Snapshots, Full(old), Full(new),
         NEW w, w = History!Preserved(old, new)
  PROVE  /\ w \in History!Snapshots /\ Full(w)
         /\ w.status = new.status
         /\ w.hi >= old.hi /\ w.hi - w.lo >= old.hi - old.lo
<1> DEFINE joined == [new EXCEPT !.lo = History!Least(old.lo, new.lo), !.hi = History!Most(old.hi, new.hi)]
           kept == [new EXCEPT !.lo = old.lo, !.hi = old.hi]
<1>1. /\ joined \in History!Snapshots /\ joined.status = new.status
      /\ joined.lo <= old.lo /\ joined.lo <= new.lo /\ joined.lo \in {old.lo, new.lo}
      /\ joined.hi >= old.hi /\ joined.hi >= new.hi /\ joined.hi \in {old.hi, new.hi}
  <2>1. /\ History!Least(old.lo, new.lo) \in {old.lo, new.lo}
        /\ History!Least(old.lo, new.lo) <= old.lo /\ History!Least(old.lo, new.lo) <= new.lo
    BY DEF History!Snapshots, History!Least
  <2>2. /\ History!Most(old.hi, new.hi) \in {old.hi, new.hi}
        /\ History!Most(old.hi, new.hi) >= old.hi /\ History!Most(old.hi, new.hi) >= new.hi
    BY DEF History!Snapshots, History!Most
  <2>3. /\ joined \in History!Snapshots /\ joined.status = new.status
        /\ joined.lo = History!Least(old.lo, new.lo) /\ joined.hi = History!Most(old.hi, new.hi)
    BY <2>1, <2>2 DEF History!Snapshots
  <2> QED
    BY <2>1, <2>2, <2>3
<1>2. /\ kept \in History!Snapshots /\ kept.status = new.status
      /\ kept.lo = old.lo /\ kept.hi = old.hi
  BY DEF History!Snapshots
<1>3. w = IF old.hi - old.lo = 0 THEN new
          ELSE IF new.hi - new.lo = 0 THEN kept
          ELSE IF new.lo <= old.hi /\ old.lo <= new.hi THEN joined
          ELSE IF old.hi >= new.hi \/ old.hi - old.lo >= new.hi - new.lo THEN kept
          ELSE new
  BY DEF History!Preserved
<1>4. /\ old.lo \in Nat /\ old.hi \in Nat /\ new.lo \in Nat /\ new.hi \in Nat
      /\ joined.lo \in Nat /\ joined.hi \in Nat
  BY <1>1 DEF History!Snapshots
<1> HIDE DEF joined, kept
<1> QED
  BY <1>1, <1>2, <1>3, <1>4 DEF Full

\* A write makes one row, which is terminal if what is written is, never reopens a
\* terminal one, and loses neither the end nor the length of its window.
LEMMA CommitWrites ==
  ASSUME History!WindowsAssumption, HistoryInv, NEW t \in History!Threads,
         History!At(t, "saving"), History!Commit(t)
  PROVE  /\ logRow' \in History!Snapshots /\ logRow'.lo <= logRow'.hi /\ Full(logRow')
         /\ inserted' = 1
         /\ logRow'.status \in {logRow.status, snap[t].status}
         /\ logRow.status \in History!HistoryTerminal \/ snap[t].status \in History!HistoryTerminal
              => logRow'.status \in History!HistoryTerminal
         /\ logRow # History!NoRow => /\ logRow'.hi >= logRow.hi
                                      /\ logRow'.hi - logRow'.lo >= logRow.hi - logRow.lo
<1> DEFINE old == logRow
           new == snap[t]
<1>1. old \in History!Snapshots \cup {History!NoRow} /\ Full(old) /\ old.lo <= old.hi
  BY DEF HistoryInv, History!TypeOK, WindowsFull, Full, History!NoRow, History!NoSnap, History!Snapshots
<1>2. new \in History!Snapshots /\ Full(new) /\ new.status # "none"
  BY DEF HistoryInv, History!TypeOK, WindowsFull, RowCounted, History!At, History!NoSnap
<1>3. logRow' = IF old = History!NoRow THEN new ELSE History!Combined(old, new)
  BY DEF HistoryInv, LockHeld, History!At, History!Commit
<1>4. inserted' = 1
  BY <1>1 DEF HistoryInv, LockHeld, RowCounted, History!At, History!Commit, History!NoRow,
     History!NoSnap, History!Snapshots, History!Statuses, History!HistoryTerminal, History!Terminal
<1> HIDE DEF old, new
<1>5. CASE old = History!NoRow
  BY <1>1, <1>2, <1>3, <1>4, <1>5 DEF old, new, Full, History!Snapshots, History!NoRow, History!NoSnap,
     History!HistoryTerminal, History!Terminal
<1>6. CASE old # History!NoRow
  <2>1. old \in History!Snapshots
    BY <1>1, <1>6
  <2>2. CASE old.status \in History!HistoryTerminal /\ new.status \notin History!HistoryTerminal
    <3>1. logRow' = old
      BY <1>3, <1>6, <2>2 DEF History!Combined
    <3> QED
      BY <1>1, <1>2, <1>4, <2>1, <2>2, <3>1 DEF old, new, History!Snapshots
  <2>3. CASE ~(old.status \in History!HistoryTerminal /\ new.status \notin History!HistoryTerminal)
    <3>1. logRow' = History!Preserved(old, new)
      BY <1>3, <1>6, <2>3 DEF History!Combined
    <3>2. /\ logRow' \in History!Snapshots /\ Full(logRow')
          /\ logRow'.status = new.status
          /\ logRow'.hi >= old.hi /\ logRow'.hi - logRow'.lo >= old.hi - old.lo
      BY <1>1, <1>2, <2>1, <3>1, PreservedWindow
    <3>3. logRow'.lo <= logRow'.hi
      BY <3>2 DEF History!Snapshots, Full
    <3> QED
      BY <1>4, <2>3, <3>2, <3>3 DEF old, new
  <2> QED
    BY <2>2, <2>3
<1> QED
  BY <1>5, <1>6 DEF old, new
\* -- GEN
\* A line that is logged is in the window.
LEMMA AppendsToWindow ==
  ASSUME History!WindowsAssumption, HistoryInv, History!AppendLog
  PROVE  lo' < hi' \/ (lo' = lo /\ hi' = hi)
<1>1. lo \in Nat /\ hi \in Nat /\ lo <= hi /\ ActiveMax \in Nat /\ ActiveMax >= 1
  BY DEF HistoryInv, History!TypeOK, History!WindowsAssumption
<1>2. live => hi' = hi + 1 /\ lo' \in {lo, hi + 1 - ActiveMax}
  BY DEF History!AppendLog, History!Most
<1>3. ~live => lo' = lo /\ hi' = hi
  BY DEF History!AppendLog
<1>4. CASE live
  <2>1. hi' = hi + 1 /\ (lo' = lo \/ lo' = hi + 1 - ActiveMax)
    BY <1>2, <1>4
  <2>2. CASE lo' = lo
    BY <1>1, <2>1, <2>2
  <2>3. CASE lo' = hi + 1 - ActiveMax
    BY <1>1, <2>1, <2>3
  <2> QED
    BY <2>1, <2>2, <2>3
<1>5. CASE ~live
  BY <1>3, <1>5
<1> QED
  BY <1>4, <1>5

\* The vocabulary of the steps.
USE DEF History!At, History!Goto, History!store, History!table, History!threads, History!Record,
    History!Most, History!Threads, History!Terminal, History!HistoryTerminal,
    History!Statuses, History!Snapshots, History!NoSnap, History!NoRow,
    History!WindowsAssumption, History!TypeOK

LEMMA WorkerLogsKeeps ==
  ASSUME History!WindowsAssumption, HistoryInv, History!WorkerLogs
  PROVE  HistoryInv'
<1> USE DEF HistoryInv, History!WorkerLogs, History!Log, History!AppendLog
<1>1. History!TypeOK'
  OBVIOUS
<1>2. LockHeld'
  BY DEF LockHeld
<1>3. WindowsFull'
  <2>1. lo' < hi' \/ (lo' = lo /\ hi' = hi)
    BY AppendsToWindow
  <2>2. Full(History!Record)'
    BY <2>1 DEF WindowsFull, Full
  <2> QED
    BY <2>2 DEF WindowsFull, Full
<1>4. RowCounted'
  BY DEF RowCounted
<1>5. ClosedByEnd'
  BY DEF ClosedByEnd, HasEnded
<1>6. RunnerPlaces'
  BY DEF RunnerPlaces
<1>7. CallbackCounts'
  BY DEF CallbackCounts, RunnerPlaces
<1> QED
  BY <1>1, <1>2, <1>3, <1>4, <1>5, <1>6, <1>7

LEMMA ApiLogsKeeps ==
  ASSUME History!WindowsAssumption, HistoryInv, History!ApiLogs
  PROVE  HistoryInv'
<1> USE DEF HistoryInv, History!ApiLogs, History!Log, History!AppendLog
<1>1. History!TypeOK'
  OBVIOUS
<1>2. LockHeld'
  BY DEF LockHeld
<1>3. WindowsFull'
  <2>1. lo' < hi' \/ (lo' = lo /\ hi' = hi)
    BY AppendsToWindow
  <2>2. Full(History!Record)'
    BY <2>1 DEF WindowsFull, Full
  <2> QED
    BY <2>2 DEF WindowsFull, Full
<1>4. RowCounted'
  BY DEF RowCounted
<1>5. ClosedByEnd'
  BY DEF ClosedByEnd, HasEnded
<1>6. RunnerPlaces'
  BY DEF RunnerPlaces
<1>7. CallbackCounts'
  BY DEF CallbackCounts, RunnerPlaces
<1> QED
  BY <1>1, <1>2, <1>3, <1>4, <1>5, <1>6, <1>7

LEMMA CheckpointSnapshotKeeps ==
  ASSUME History!WindowsAssumption, HistoryInv, NEW t \in {"worker", "api"}, History!CheckpointSnapshot(t)
  PROVE  HistoryInv'
<1> USE DEF HistoryInv, History!CheckpointSnapshot, History!Continues
<1>1. History!TypeOK'
  OBVIOUS
<1>2. LockHeld'
  BY DEF LockHeld
<1>3. WindowsFull'
  BY DEF WindowsFull, Full
<1>4. RowCounted'
  BY DEF RowCounted
<1>5. ClosedByEnd'
  BY DEF ClosedByEnd, HasEnded
<1>6. RunnerPlaces'
  BY DEF RunnerPlaces
<1>7. CallbackCounts'
  BY DEF CallbackCounts, RunnerPlaces
<1> QED
  BY <1>1, <1>2, <1>3, <1>4, <1>5, <1>6, <1>7

LEMMA CheckpointQueuedKeeps ==
  ASSUME History!WindowsAssumption, HistoryInv, NEW t \in {"worker", "api"}, History!CheckpointQueued(t)
  PROVE  HistoryInv'
<1> USE DEF HistoryInv, History!CheckpointQueued, History!Continues
<1>1. History!TypeOK'
  OBVIOUS
<1>2. LockHeld'
  BY DEF LockHeld
<1>3. WindowsFull'
  BY DEF WindowsFull, Full
<1>4. RowCounted'
  BY DEF RowCounted
<1>5. ClosedByEnd'
  BY DEF ClosedByEnd, HasEnded
<1>6. RunnerPlaces'
  BY DEF RunnerPlaces
<1>7. CallbackCounts'
  BY DEF CallbackCounts, RunnerPlaces
<1> QED
  BY <1>1, <1>2, <1>3, <1>4, <1>5, <1>6, <1>7

LEMMA AccountResultKeeps ==
  ASSUME History!WindowsAssumption, HistoryInv, History!AccountResult
  PROVE  HistoryInv'
<1> USE DEF HistoryInv, History!AccountResult
<1>1. History!TypeOK'
  OBVIOUS
<1>2. LockHeld'
  BY DEF LockHeld
<1>3. WindowsFull'
  BY DEF WindowsFull, Full
<1>4. RowCounted'
  BY DEF RowCounted
<1>5. ClosedByEnd'
  BY DEF ClosedByEnd, HasEnded
<1>6. RunnerPlaces'
  BY DEF RunnerPlaces
<1>7. CallbackCounts'
  BY DEF CallbackCounts, RunnerPlaces
<1> QED
  BY <1>1, <1>2, <1>3, <1>4, <1>5, <1>6, <1>7

LEMMA SaveBeginsKeeps ==
  ASSUME History!WindowsAssumption, HistoryInv, NEW t \in History!Threads, History!SaveBegins(t)
  PROVE  HistoryInv'
<1> USE DEF HistoryInv, History!SaveBegins, History!Merged
<1>1. History!TypeOK'
  OBVIOUS
<1>2. LockHeld'
  BY DEF LockHeld
<1>3. WindowsFull'
  BY DEF WindowsFull, Full
<1>4. RowCounted'
  BY DEF RowCounted
<1>5. ClosedByEnd'
  BY DEF ClosedByEnd, HasEnded
<1>6. RunnerPlaces'
  BY DEF RunnerPlaces
<1>7. CallbackCounts'
  BY DEF CallbackCounts, RunnerPlaces
<1> QED
  BY <1>1, <1>2, <1>3, <1>4, <1>5, <1>6, <1>7

LEMMA WorkerSavedKeeps ==
  ASSUME History!WindowsAssumption, HistoryInv, History!WorkerSaved
  PROVE  HistoryInv'
<1> USE DEF HistoryInv, History!WorkerSaved, History!Leaves, History!Raises
<1>1. History!TypeOK'
  BY CommitWrites
<1>2. LockHeld'
  BY CommitWrites DEF LockHeld
<1>3. WindowsFull'
  BY CommitWrites DEF WindowsFull, Full
<1>4. RowCounted'
  BY CommitWrites DEF RowCounted
<1>5. ClosedByEnd'
  BY CommitWrites DEF ClosedByEnd, HasEnded
<1>6. RunnerPlaces'
  BY CommitWrites DEF RunnerPlaces
<1>7. CallbackCounts'
  BY CommitWrites DEF CallbackCounts, RunnerPlaces
<1> QED
  BY <1>1, <1>2, <1>3, <1>4, <1>5, <1>6, <1>7

LEMMA WriterTakesKeeps ==
  ASSUME History!WindowsAssumption, HistoryInv, History!WriterTakes
  PROVE  HistoryInv'
<1> USE DEF HistoryInv, History!WriterTakes
<1>1. History!TypeOK'
  OBVIOUS
<1>2. LockHeld'
  BY DEF LockHeld
<1>3. WindowsFull'
  BY DEF WindowsFull, Full
<1>4. RowCounted'
  BY DEF RowCounted
<1>5. ClosedByEnd'
  BY DEF ClosedByEnd, HasEnded
<1>6. RunnerPlaces'
  BY DEF RunnerPlaces
<1>7. CallbackCounts'
  BY DEF CallbackCounts, RunnerPlaces
<1> QED
  BY <1>1, <1>2, <1>3, <1>4, <1>5, <1>6, <1>7

LEMMA WriterFoldsKeeps ==
  ASSUME History!WindowsAssumption, HistoryInv, History!WriterFolds
  PROVE  HistoryInv'
<1> USE DEF HistoryInv, History!WriterFolds
<1>1. History!TypeOK'
  OBVIOUS
<1>2. LockHeld'
  BY DEF LockHeld
<1>3. WindowsFull'
  BY DEF WindowsFull, Full
<1>4. RowCounted'
  BY DEF RowCounted
<1>5. ClosedByEnd'
  BY DEF ClosedByEnd, HasEnded
<1>6. RunnerPlaces'
  BY DEF RunnerPlaces
<1>7. CallbackCounts'
  BY DEF CallbackCounts, RunnerPlaces
<1> QED
  BY <1>1, <1>2, <1>3, <1>4, <1>5, <1>6, <1>7

LEMMA WriterSavedKeeps ==
  ASSUME History!WindowsAssumption, HistoryInv, History!WriterSaved
  PROVE  HistoryInv'
<1> USE DEF HistoryInv, History!WriterSaved, History!Leaves, History!Raises
<1>1. History!TypeOK'
  BY CommitWrites
<1>2. LockHeld'
  BY CommitWrites DEF LockHeld
<1>3. WindowsFull'
  BY CommitWrites DEF WindowsFull, Full
<1>4. RowCounted'
  BY CommitWrites DEF RowCounted
<1>5. ClosedByEnd'
  BY CommitWrites DEF ClosedByEnd, HasEnded
<1>6. RunnerPlaces'
  BY CommitWrites DEF RunnerPlaces
<1>7. CallbackCounts'
  BY CommitWrites DEF CallbackCounts, RunnerPlaces
<1> QED
  BY <1>1, <1>2, <1>3, <1>4, <1>5, <1>6, <1>7

LEMMA WriterRetriesKeeps ==
  ASSUME History!WindowsAssumption, HistoryInv, History!WriterRetries
  PROVE  HistoryInv'
<1> USE DEF HistoryInv, History!WriterRetries, History!Raises
<1>1. History!TypeOK'
  OBVIOUS
<1>2. LockHeld'
  BY DEF LockHeld
<1>3. WindowsFull'
  BY DEF WindowsFull, Full
<1>4. RowCounted'
  BY DEF RowCounted
<1>5. ClosedByEnd'
  BY DEF ClosedByEnd, HasEnded
<1>6. RunnerPlaces'
  BY DEF RunnerPlaces
<1>7. CallbackCounts'
  BY DEF CallbackCounts, RunnerPlaces
<1> QED
  BY <1>1, <1>2, <1>3, <1>4, <1>5, <1>6, <1>7

LEMMA TaskFinishesKeeps ==
  ASSUME History!WindowsAssumption, HistoryInv, History!TaskFinishes
  PROVE  HistoryInv'
<1> USE DEF HistoryInv, History!TaskFinishes, History!Finishes, History!Result
<1>1. History!TypeOK'
  OBVIOUS
<1>2. LockHeld'
  BY DEF LockHeld
<1>3. WindowsFull'
  BY DEF WindowsFull, Full
<1>4. RowCounted'
  BY DEF RowCounted
<1>5. ClosedByEnd'
  BY DEF ClosedByEnd, HasEnded
<1>6. RunnerPlaces'
  BY DEF RunnerPlaces
<1>7. CallbackCounts'
  BY DEF CallbackCounts, RunnerPlaces
<1> QED
  BY <1>1, <1>2, <1>3, <1>4, <1>5, <1>6, <1>7

LEMMA CallbackWritesKeeps ==
  ASSUME History!WindowsAssumption, HistoryInv, History!CallbackWrites
  PROVE  HistoryInv'
<1> USE DEF HistoryInv, History!CallbackWrites, History!Leaves, History!InCallback
<1>1. History!TypeOK'
  BY CommitWrites
<1>2. LockHeld'
  BY CommitWrites DEF LockHeld
<1>3. WindowsFull'
  BY CommitWrites DEF WindowsFull, Full
<1>4. RowCounted'
  BY CommitWrites DEF RowCounted
<1>5. ClosedByEnd'
  BY CommitWrites DEF ClosedByEnd, HasEnded
<1>6. RunnerPlaces'
  BY CommitWrites DEF RunnerPlaces
<1>7. CallbackCounts'
  BY CommitWrites DEF CallbackCounts, RunnerPlaces
<1> QED
  BY <1>1, <1>2, <1>3, <1>4, <1>5, <1>6, <1>7

LEMMA CallbackRaisesKeeps ==
  ASSUME History!WindowsAssumption, HistoryInv, History!CallbackRaises
  PROVE  HistoryInv'
<1> USE DEF HistoryInv, History!CallbackRaises, History!Leaves, History!InCallback, History!Raises
<1>1. History!TypeOK'
  OBVIOUS
<1>2. LockHeld'
  BY DEF LockHeld
<1>3. WindowsFull'
  BY DEF WindowsFull, Full
<1>4. RowCounted'
  BY DEF RowCounted
<1>5. ClosedByEnd'
  BY DEF ClosedByEnd, HasEnded
<1>6. RunnerPlaces'
  BY DEF RunnerPlaces
<1>7. CallbackCounts'
  BY DEF CallbackCounts, RunnerPlaces
<1> QED
  BY <1>1, <1>2, <1>3, <1>4, <1>5, <1>6, <1>7

LEMMA DiscardsKeeps ==
  ASSUME History!WindowsAssumption, HistoryInv, History!Discards
  PROVE  HistoryInv'
<1> USE DEF HistoryInv, History!Discards
<1>1. History!TypeOK'
  OBVIOUS
<1>2. LockHeld'
  BY DEF LockHeld
<1>3. WindowsFull'
  BY DEF WindowsFull, Full
<1>4. RowCounted'
  BY DEF RowCounted
<1>5. ClosedByEnd'
  BY DEF ClosedByEnd, HasEnded
<1>6. RunnerPlaces'
  BY DEF RunnerPlaces
<1>7. CallbackCounts'
  BY DEF CallbackCounts, RunnerPlaces
<1> QED
  BY <1>1, <1>2, <1>3, <1>4, <1>5, <1>6, <1>7

LEMMA CompactsKeeps ==
  ASSUME History!WindowsAssumption, HistoryInv, History!Compacts
  PROVE  HistoryInv'
<1> USE DEF HistoryInv, History!Compacts
<1>1. History!TypeOK'
  OBVIOUS
<1>2. LockHeld'
  BY DEF LockHeld
<1>3. WindowsFull'
  BY DEF WindowsFull, Full
<1>4. RowCounted'
  BY DEF RowCounted
<1>5. ClosedByEnd'
  BY DEF ClosedByEnd, HasEnded
<1>6. RunnerPlaces'
  BY DEF RunnerPlaces
<1>7. CallbackCounts'
  BY DEF CallbackCounts, RunnerPlaces
<1> QED
  BY <1>1, <1>2, <1>3, <1>4, <1>5, <1>6, <1>7

LEMMA PostSaveKeeps ==
  ASSUME History!WindowsAssumption, HistoryInv, History!PostSave
  PROVE  HistoryInv'
<1> USE DEF HistoryInv, History!PostSave
<1>1. History!TypeOK'
  OBVIOUS
<1>2. LockHeld'
  BY DEF LockHeld
<1>3. WindowsFull'
  BY DEF WindowsFull, Full
<1>4. RowCounted'
  BY DEF RowCounted
<1>5. ClosedByEnd'
  BY DEF ClosedByEnd, HasEnded
<1>6. RunnerPlaces'
  BY DEF RunnerPlaces
<1>7. CallbackCounts'
  BY DEF CallbackCounts, RunnerPlaces
<1> QED
  BY <1>1, <1>2, <1>3, <1>4, <1>5, <1>6, <1>7

LEMMA PostSavedKeeps ==
  ASSUME History!WindowsAssumption, HistoryInv, History!PostSaved
  PROVE  HistoryInv'
<1> USE DEF HistoryInv, History!PostSaved, History!Leaves, History!InCallback
<1>1. History!TypeOK'
  BY CommitWrites
<1>2. LockHeld'
  BY CommitWrites DEF LockHeld
<1>3. WindowsFull'
  BY CommitWrites DEF WindowsFull, Full
<1>4. RowCounted'
  BY CommitWrites DEF RowCounted
<1>5. ClosedByEnd'
  BY CommitWrites DEF ClosedByEnd, HasEnded
<1>6. RunnerPlaces'
  BY CommitWrites DEF RunnerPlaces
<1>7. CallbackCounts'
  BY CommitWrites DEF CallbackCounts, RunnerPlaces
<1> QED
  BY <1>1, <1>2, <1>3, <1>4, <1>5, <1>6, <1>7

LEMMA PostRaisesKeeps ==
  ASSUME History!WindowsAssumption, HistoryInv, History!PostRaises
  PROVE  HistoryInv'
<1> USE DEF HistoryInv, History!PostRaises, History!Leaves, History!InCallback, History!Raises, History!AppendLog, History!Finishes, History!Result
<1>1. History!TypeOK'
  OBVIOUS
<1>2. LockHeld'
  BY DEF LockHeld
<1>3. WindowsFull'
  <2>1. lo' < hi' \/ (lo' = lo /\ hi' = hi)
    BY AppendsToWindow
  <2>2. Full(History!Record)'
    BY <2>1 DEF WindowsFull, Full
  <2>3. Full(snap'["runner"])
    BY <2>2 DEF WindowsFull, Full
  <2>4. \A t \in History!Threads : t # "runner" => snap'[t] = snap[t]
    OBVIOUS
  <2> QED
    BY <2>2, <2>3, <2>4 DEF WindowsFull
<1>4. RowCounted'
  BY DEF RowCounted
<1>5. ClosedByEnd'
  BY DEF ClosedByEnd, HasEnded
<1>6. RunnerPlaces'
  BY DEF RunnerPlaces
<1>7. CallbackCounts'
  BY DEF CallbackCounts, RunnerPlaces
<1> QED
  BY <1>1, <1>2, <1>3, <1>4, <1>5, <1>6, <1>7

LEMMA RequestStopKeeps ==
  ASSUME History!WindowsAssumption, HistoryInv, NEW mode \in TaskStops, History!RequestStop(mode)
  PROVE  HistoryInv'
<1> USE DEF HistoryInv, History!RequestStop
<1>1. History!TypeOK'
  OBVIOUS
<1>2. LockHeld'
  BY DEF LockHeld
<1>3. WindowsFull'
  BY DEF WindowsFull, Full
<1>4. RowCounted'
  BY DEF RowCounted
<1>5. ClosedByEnd'
  BY DEF ClosedByEnd, HasEnded
<1>6. RunnerPlaces'
  BY DEF RunnerPlaces
<1>7. CallbackCounts'
  BY DEF CallbackCounts, RunnerPlaces
<1> QED
  BY <1>1, <1>2, <1>3, <1>4, <1>5, <1>6, <1>7

LEMMA ApiSnapshotKeeps ==
  ASSUME History!WindowsAssumption, HistoryInv, History!ApiSnapshot
  PROVE  HistoryInv'
<1> USE DEF HistoryInv, History!ApiSnapshot
<1>1. History!TypeOK'
  OBVIOUS
<1>2. LockHeld'
  BY DEF LockHeld
<1>3. WindowsFull'
  BY DEF WindowsFull, Full
<1>4. RowCounted'
  BY DEF RowCounted
<1>5. ClosedByEnd'
  BY DEF ClosedByEnd, HasEnded
<1>6. RunnerPlaces'
  BY DEF RunnerPlaces
<1>7. CallbackCounts'
  BY DEF CallbackCounts, RunnerPlaces
<1> QED
  BY <1>1, <1>2, <1>3, <1>4, <1>5, <1>6, <1>7

LEMMA ApiSavedKeeps ==
  ASSUME History!WindowsAssumption, HistoryInv, History!ApiSaved
  PROVE  HistoryInv'
<1> USE DEF HistoryInv, History!ApiSaved, History!Leaves, History!Raises
<1>1. History!TypeOK'
  BY CommitWrites
<1>2. LockHeld'
  BY CommitWrites DEF LockHeld
<1>3. WindowsFull'
  BY CommitWrites DEF WindowsFull, Full
<1>4. RowCounted'
  BY CommitWrites DEF RowCounted
<1>5. ClosedByEnd'
  BY CommitWrites DEF ClosedByEnd, HasEnded
<1>6. RunnerPlaces'
  BY CommitWrites DEF RunnerPlaces
<1>7. CallbackCounts'
  BY CommitWrites DEF CallbackCounts, RunnerPlaces
<1> QED
  BY <1>1, <1>2, <1>3, <1>4, <1>5, <1>6, <1>7

LEMMA ApiRepliesKeeps ==
  ASSUME History!WindowsAssumption, HistoryInv, History!ApiReplies
  PROVE  HistoryInv'
<1> USE DEF HistoryInv, History!ApiReplies
<1>1. History!TypeOK'
  OBVIOUS
<1>2. LockHeld'
  BY DEF LockHeld
<1>3. WindowsFull'
  BY DEF WindowsFull, Full
<1>4. RowCounted'
  BY DEF RowCounted
<1>5. ClosedByEnd'
  BY DEF ClosedByEnd, HasEnded
<1>6. RunnerPlaces'
  BY DEF RunnerPlaces
<1>7. CallbackCounts'
  BY DEF CallbackCounts, RunnerPlaces
<1> QED
  BY <1>1, <1>2, <1>3, <1>4, <1>5, <1>6, <1>7

LEMMA CleanupKeeps ==
  ASSUME History!WindowsAssumption, HistoryInv, History!Cleanup
  PROVE  HistoryInv'
<1> USE DEF HistoryInv, History!Cleanup
<1>1. History!TypeOK'
  <2>1. live' \in BOOLEAN
    OBVIOUS
  <2> QED
    BY <2>1
<1>2. LockHeld'
  BY DEF LockHeld
<1>3. WindowsFull'
  BY DEF WindowsFull, Full
<1>4. RowCounted'
  BY DEF RowCounted
<1>5. ClosedByEnd'
  BY DEF ClosedByEnd, HasEnded
<1>6. RunnerPlaces'
  BY DEF RunnerPlaces
<1>7. CallbackCounts'
  BY DEF CallbackCounts, RunnerPlaces
<1> QED
  BY <1>1, <1>2, <1>3, <1>4, <1>5, <1>6, <1>7

LEMMA CrashKeeps ==
  ASSUME History!WindowsAssumption, HistoryInv, History!Crash
  PROVE  HistoryInv'
<1> USE DEF HistoryInv, History!Crash
<1>1. History!TypeOK'
  <2>1. live' \in BOOLEAN
    OBVIOUS
  <2>2. pc' \in [History!Threads -> {"dead"}]
    OBVIOUS
  <2>3. /\ snap' \in [History!Threads -> History!Snapshots \cup {History!NoSnap}]
        /\ found' \in [History!Threads -> History!Snapshots \cup {History!NoRow}]
        /\ tries' \in [History!Threads -> 0..(Tries - 1)]
    OBVIOUS
  <2> QED
    BY <2>1, <2>2, <2>3
<1>2. LockHeld'
  BY DEF LockHeld
<1>3. WindowsFull'
  BY DEF WindowsFull, Full
<1>4. RowCounted'
  BY DEF RowCounted
<1>5. ClosedByEnd'
  BY DEF ClosedByEnd, HasEnded
<1>6. RunnerPlaces'
  BY DEF RunnerPlaces
<1>7. CallbackCounts'
  BY DEF CallbackCounts, RunnerPlaces
<1> QED
  BY <1>1, <1>2, <1>3, <1>4, <1>5, <1>6, <1>7

HIDE DEF History!At, History!Goto, History!store, History!table, History!threads, History!Record,
    History!Most, History!Threads, History!Terminal, History!HistoryTerminal,
    History!Statuses, History!Snapshots, History!NoSnap, History!NoRow,
    History!WindowsAssumption, History!TypeOK

LEMMA HistoryStep ==
  ASSUME History!WindowsAssumption, HistoryInv, [History!Next]_(History!vars)
  PROVE  HistoryInv'
<1>1. CASE UNCHANGED History!vars
  <2> USE <1>1 DEF History!vars, History!store, History!table, History!threads
  <2>1. History!TypeOK'
    BY DEF HistoryInv, History!TypeOK
  <2>2. LockHeld' /\ WindowsFull' /\ RowCounted'
    BY DEF HistoryInv, LockHeld, WindowsFull, RowCounted, Full, History!Record
  <2>3. ClosedByEnd' /\ RunnerPlaces' /\ CallbackCounts'
    BY DEF HistoryInv, ClosedByEnd, HasEnded, RunnerPlaces, CallbackCounts
  <2> QED
    BY <2>1, <2>2, <2>3 DEF HistoryInv
<1>2. /\ {"worker", "api"} \subseteq History!Threads
      /\ "writer" \in History!Threads /\ "runner" \in History!Threads
  BY DEF History!Threads
<1>3. CASE History!Worker
  BY <1>2, <1>3, WorkerLogsKeeps, CheckpointSnapshotKeeps, CheckpointQueuedKeeps, AccountResultKeeps,
     SaveBeginsKeeps, WorkerSavedKeeps DEF History!Worker
<1>4. CASE History!Writer
  BY <1>2, <1>4, WriterTakesKeeps, WriterFoldsKeeps, SaveBeginsKeeps, WriterSavedKeeps,
     WriterRetriesKeeps DEF History!Writer
<1>5. CASE History!Runner
  BY <1>2, <1>5, TaskFinishesKeeps, SaveBeginsKeeps, CallbackWritesKeeps, CallbackRaisesKeeps,
     DiscardsKeeps, CompactsKeeps, PostSaveKeeps, PostSavedKeeps, PostRaisesKeeps DEF History!Runner
<1>6. CASE History!Api
  BY <1>2, <1>6, RequestStopKeeps, ApiLogsKeeps, CheckpointSnapshotKeeps, CheckpointQueuedKeeps,
     ApiSnapshotKeeps, SaveBeginsKeeps, ApiSavedKeeps, ApiRepliesKeeps DEF History!Api
<1> QED
  BY <1>1, <1>3, <1>4, <1>5, <1>6, CleanupKeeps, CrashKeeps DEF History!Next

\* The types: a window is never longer than the store retains.
THEOREM HistoryTypeCorrect ==
  ASSUME History!WindowsAssumption PROVE History!Spec => []History!TypeOK
<1>1. HistoryInv => History!TypeOK
  BY DEF HistoryInv
<1> QED
  BY <1>1, HistoryInit, HistoryStep, PTL DEF History!Spec

\* A task has one row, and an account's result does not close it (_save_task_log).
THEOREM RowFollowsTaskCorrect ==
  ASSUME History!WindowsAssumption PROVE History!Spec => []History!RowFollowsTask
<1>1. HistoryInv => History!RowFollowsTask
  BY DEF HistoryInv, RowCounted, ClosedByEnd, HasEnded, History!RowFollowsTask
<1> QED
  BY <1>1, HistoryInit, HistoryStep, PTL DEF History!Spec

\* A runner that is over has closed the row, unless every try of the callback raised.
THEOREM RowSettlesCorrect ==
  ASSUME History!WindowsAssumption PROVE History!Spec => []History!RowSettles
<1>1. ASSUME HistoryInv, History!WindowsAssumption PROVE History!RowSettles
  <2> SUFFICES ASSUME pc["runner"] = "over", writeFaults < Tries
               PROVE  logRow.status \in History!HistoryTerminal
    BY DEF History!RowSettles, History!At
  <2>1. ~(writeFaults >= Tries)
    BY <1>1 DEF HistoryInv, History!TypeOK, History!WindowsAssumption
  <2>2. runnerPhase # "task"
    BY <1>1 DEF HistoryInv, RunnerPlaces
  <2> QED
    BY <1>1, <2>1, <2>2 DEF HistoryInv, CallbackCounts
<1> QED
  BY <1>1, HistoryInit, HistoryStep, PTL DEF History!Spec

\* The step changes the row only by a write of the thread that holds the lock.
LEMMA RowChanges ==
  ASSUME History!Next
  PROVE  \/ logRow' = logRow
         \/ \E t \in History!Threads : History!At(t, "saving") /\ History!Commit(t)
<1> USE DEF History!table, History!Threads
<1>1. CASE History!Worker
  BY <1>1 DEF History!Worker, History!WorkerLogs, History!Log, History!CheckpointSnapshot,
     History!CheckpointQueued, History!AccountResult, History!SaveBegins, History!WorkerSaved,
     History!Leaves
<1>2. CASE History!Writer
  BY <1>2 DEF History!Writer, History!WriterTakes, History!WriterFolds, History!SaveBegins,
     History!WriterSaved, History!WriterRetries, History!Leaves
<1>3. CASE History!Runner
  BY <1>3 DEF History!Runner, History!TaskFinishes, History!SaveBegins, History!CallbackWrites,
     History!CallbackRaises, History!Discards, History!Compacts, History!PostSave,
     History!PostSaved, History!PostRaises, History!Leaves
<1>4. CASE History!Api
  BY <1>4 DEF History!Api, History!RequestStop, History!ApiLogs, History!Log,
     History!CheckpointSnapshot, History!CheckpointQueued, History!ApiSnapshot,
     History!SaveBegins, History!ApiSaved, History!ApiReplies, History!Leaves
<1> QED
  BY <1>1, <1>2, <1>3, <1>4 DEF History!Next, History!Cleanup, History!Crash

\* A task that has ended has ended for good: its status stays terminal until the
\* record goes, and no record comes back.
LEMMA EndIsFinal ==
  ASSUME HistoryInv, History!Next, HasEnded
  PROVE  HasEnded'
<1> USE DEF HasEnded, History!store, History!Terminal
<1>1. CASE History!Worker
  BY <1>1 DEF History!Worker, History!WorkerLogs, History!Log, History!CheckpointSnapshot,
     History!CheckpointQueued, History!AccountResult, History!SaveBegins, History!WorkerSaved,
     History!Leaves
<1>2. CASE History!Writer
  BY <1>2 DEF History!Writer, History!WriterTakes, History!WriterFolds, History!SaveBegins,
     History!WriterSaved, History!WriterRetries, History!Leaves
<1>3. CASE History!Runner
  BY <1>3 DEF History!Runner, History!TaskFinishes, History!SaveBegins, History!CallbackWrites,
     History!CallbackRaises, History!Discards, History!Compacts, History!PostSave,
     History!PostSaved, History!PostRaises, History!Leaves, History!Finishes, History!Result
<1>4. CASE History!Api
  BY <1>4 DEF History!Api, History!RequestStop, History!ApiLogs, History!Log,
     History!CheckpointSnapshot, History!CheckpointQueued, History!ApiSnapshot,
     History!SaveBegins, History!ApiSaved, History!ApiReplies, History!Leaves
<1> QED
  BY <1>1, <1>2, <1>3, <1>4 DEF History!Next, History!Cleanup, History!Crash

\* What the history shows never goes back (GoesForward), by whatever thread and after
\* a cleanup or a crash.
THEOREM HistoryGoesForwardCorrect ==
  ASSUME History!WindowsAssumption PROVE History!Spec => [][History!GoesForward]_(History!vars)
<1>1. ASSUME HistoryInv, History!WindowsAssumption, History!Next PROVE History!GoesForward
  <2>1. /\ logRow.status \in History!HistoryTerminal => logRow'.status \in History!HistoryTerminal
        /\ logRow # History!NoRow => /\ logRow'.hi >= logRow.hi
                                     /\ logRow'.hi - logRow'.lo >= logRow.hi - logRow.lo
        /\ logRow' = logRow \/ logRow' \in History!Snapshots
    <3>1. CASE logRow' = logRow
      BY <1>1, <3>1 DEF HistoryInv, History!TypeOK, History!Snapshots
    <3>2. CASE \E t \in History!Threads : History!At(t, "saving") /\ History!Commit(t)
      BY <1>1, <3>2, CommitWrites
    <3> QED
      BY <1>1, <3>1, <3>2, RowChanges
  <2>2. HasEnded => HasEnded'
    BY <1>1, EndIsFinal
  <2>3. History!Displayed \in History!HistoryTerminal => HasEnded
    BY <1>1 DEF History!Displayed, History!RuntimeStatus, HasEnded, HistoryInv, ClosedByEnd,
       History!TypeOK, History!HistoryTerminal, History!Terminal
  <2>4. History!Displayed \in History!HistoryTerminal => logRow # History!NoRow /\ logRow.status # "none"
    BY <1>1 DEF History!Displayed, History!RuntimeStatus, HistoryInv, History!TypeOK,
       History!HistoryTerminal, History!Terminal, History!NoRow, History!NoSnap
  <2>5. HasEnded' => History!RuntimeStatus' \in History!Terminal
    BY DEF HasEnded, History!RuntimeStatus, History!Terminal
  <2>6. ASSUME HasEnded', logRow'.status \in History!Statuses
        PROVE  History!Displayed' \in History!HistoryTerminal
    BY <2>5, <2>6 DEF History!Displayed, History!Statuses, History!HistoryTerminal, History!Terminal
  <2>7. logRow.status # "none" => logRow'.status \in History!Statuses
    BY <1>1, <2>1 DEF HistoryInv, History!TypeOK, History!Snapshots, History!NoRow, History!NoSnap
  <2> QED
    BY <2>1, <2>2, <2>3, <2>4, <2>6, <2>7 DEF History!GoesForward
<1> QED
  BY <1>1, HistoryInit, HistoryStep, PTL DEF History!Spec

-----------------------------------------------------------------------------
(* The quality of a domain.                                                *)

LEMMA QualityCounts ==
  /\ \A S : Quality!Cardinality(S) = Cardinality(S)
  /\ \A S : Quality!IsFiniteSet(S) = IsFiniteSet(S)
BY DEF Quality!Cardinality, Cardinality, Quality!IsFiniteSet, IsFiniteSet

\* Neither threshold is passed by the counters, which count the ledger as it is.
WithinThresholds ==
    item = "active" => /\ ~Quality!TooManyRejections(decisions, disallowed)
                       /\ quality.streak < StreakLimit

QualityInv ==
    /\ Quality!TypeOK
    /\ quality = Quality!Recomputed(ledger)
    /\ WithinThresholds

Streak(l) == {a \in Quality!Known(l) :
                 l[a] = "miss" /\ \A b \in Quality!Known(l) : b > a => l[b] # "success"}

LEMMA RecomputedCounts ==
  ASSUME Quality!PolicyAssumption,
         NEW l \in [Registered -> Quality!Outcomes \cup {"unknown"}]
  PROVE  /\ Quality!Recomputed(l) \in [registered : Nat, success : Nat, miss : Nat, neutral : Nat,
                                       pending : Nat, streak : Nat]
         /\ Quality!Recomputed(l).registered = Quality!Cardinality(Quality!Known(l))
         /\ Quality!Recomputed(l).streak = Cardinality(Streak(l))
         /\ IsFiniteSet(Streak(l))
<1>1. IsFiniteSet(Registered)
  BY QualityCounts DEF Quality!PolicyAssumption
<1>3. IsFiniteSet(Streak(l))
  BY <1>1, FS_Subset DEF Streak, Quality!Known
<1>4. Quality!Streak(l) = Cardinality(Streak(l)) /\ Quality!Streak(l) \in Nat
  BY <1>3, QualityCounts, FS_CardinalityType DEF Streak, Quality!Streak
<1>5. Quality!Known(l) = {a \in Registered : l[a] \in Quality!Outcomes}
  BY DEF Quality!Known, Quality!Outcomes
<1> DEFINE number(S) == Quality!Cardinality({a \in Registered : l[a] \in S})
<1>6. \A S : number(S) \in Nat
  <2> TAKE S
  <2>1. IsFiniteSet({a \in Registered : l[a] \in S})
    BY <1>1, FS_Subset
  <2> QED
    BY <2>1, QualityCounts, FS_CardinalityType
<1>7. Quality!Recomputed(l) =
        [registered |-> number(Quality!Outcomes), success |-> number({"success"}),
         miss |-> number({"miss"}), neutral |-> number({"neutral"}),
         pending |-> number({"pending", "awaiting_link"}), streak |-> Quality!Streak(l)]
  BY DEF Quality!Recomputed
<1>8. number(Quality!Outcomes) = Quality!Cardinality(Quality!Known(l))
  BY <1>5
<1> HIDE DEF number
<1> QED
  BY <1>3, <1>4, <1>6, <1>7, <1>8

LEMMA QualityInit == ASSUME Quality!PolicyAssumption PROVE Quality!Init => QualityInv
<1> SUFFICES ASSUME Quality!Init PROVE QualityInv
  OBVIOUS
<1> USE DEF Quality!Init
<1>1. ledger \in [Registered -> Quality!Outcomes \cup {"unknown"}]
  OBVIOUS
<1>2. Quality!Cardinality({}) = 0
  BY QualityCounts, FS_EmptySet
<1>3. ASSUME NEW S, "unknown" \notin S PROVE {a \in Registered : ledger[a] \in S} = {}
  BY <1>3
<1>4. Quality!Streak(ledger) = 0
  <2>1. {a \in Quality!Known(ledger) :
            ledger[a] = "miss" /\ \A b \in Quality!Known(ledger) : b > a => ledger[b] # "success"} = {}
    BY DEF Quality!Known
  <2> QED
    BY <1>2, <2>1 DEF Quality!Streak
<1>5. quality = Quality!Recomputed(ledger)
  <2>1. "unknown" \notin Quality!Outcomes
    BY DEF Quality!Outcomes
  <2> QED
    BY <1>2, <1>3, <1>4, <2>1 DEF Quality!Recomputed
<1>6. Quality!TypeOK
  BY <1>1, <1>5, RecomputedCounts DEF Quality!TypeOK, Quality!PolicyAssumption, Quality!Codes
<1>7. WithinThresholds
  BY DEF WithinThresholds, Quality!TooManyRejections, Quality!PolicyAssumption
<1> QED
  BY <1>5, <1>6, <1>7 DEF QualityInv

\* What is left to show of a step that changes the ledger.
LEMMA LedgerStep ==
  ASSUME Quality!PolicyAssumption, QualityInv,
         ledger' \in [Registered -> Quality!Outcomes \cup {"unknown"}],
         quality' = Quality!Recomputed(ledger'),
         item' \in {"active", "draining", "over"},
         trigger' \in {"none"} \cup Quality!Codes,
         UNCHANGED <<decisions, disallowed>>,
         item' = "active" => item = "active" /\ quality'.streak < StreakLimit
  PROVE  QualityInv'
<1>1. quality' = Quality!Recomputed(ledger)'
  BY DEF Quality!Recomputed, Quality!Known, Quality!Streak
<1>2. Quality!TypeOK'
  BY RecomputedCounts, <1>1 DEF QualityInv, Quality!TypeOK
<1>3. WithinThresholds'
  BY DEF WithinThresholds, QualityInv, Quality!TooManyRejections
<1> QED
  BY <1>1, <1>2, <1>3 DEF QualityInv

LEMMA OutcomeStep ==
  ASSUME Quality!PolicyAssumption, QualityInv, item # "over",
         NEW a \in Registered, NEW new \in Quality!Outcomes, Quality!Outcome(a, new)
  PROVE  QualityInv'
<1>1. ledger' \in [Registered -> Quality!Outcomes \cup {"unknown"}]
  BY DEF Quality!Outcome, QualityInv, Quality!TypeOK
<1>2. quality' = Quality!Recomputed(ledger')
  BY DEF Quality!Outcome
<1>3. quality'.streak \in Nat
  BY <1>1, <1>2, RecomputedCounts
<1>4. /\ item' \in {"active", "draining", "over"}
      /\ trigger' \in {"none"} \cup Quality!Codes
      /\ item' = "active" => item = "active" /\ ~(quality'.streak >= StreakLimit)
  BY DEF Quality!Outcome, Quality!Judged, QualityInv, Quality!TypeOK, Quality!Codes
<1>5. item' = "active" => item = "active" /\ quality'.streak < StreakLimit
  BY <1>3, <1>4 DEF Quality!PolicyAssumption
<1> QED
  BY <1>1, <1>2, <1>4, <1>5, LedgerStep DEF Quality!Outcome

LEMMA QualityStep ==
  ASSUME Quality!PolicyAssumption, QualityInv, [Quality!Next]_(Quality!vars)
  PROVE  QualityInv'
<1>1. CASE UNCHANGED Quality!vars
  BY <1>1 DEF Quality!vars, QualityInv, Quality!TypeOK, WithinThresholds, Quality!TooManyRejections,
     Quality!Recomputed, Quality!Known, Quality!Streak
<1>2. ASSUME NEW refused \in BOOLEAN, Quality!RegistrationResult(refused) PROVE QualityInv'
  <2> USE <1>2 DEF Quality!RegistrationResult
  <2>1. decisions' \in 0..MaxDecisions /\ disallowed' \in 0..decisions'
    BY DEF QualityInv, Quality!TypeOK, Quality!PolicyAssumption
  <2>2. /\ item' \in {"active", "draining", "over"}
        /\ trigger' \in {"none"} \cup Quality!Codes
        /\ item' = "active" => item = "active" /\ ~Quality!TooManyRejections(decisions', disallowed')
    BY DEF Quality!Judged, QualityInv, Quality!TypeOK, Quality!Codes
  <2>3. Quality!TypeOK'
    BY <2>1, <2>2 DEF QualityInv, Quality!TypeOK, Quality!Known
  <2>4. (quality = Quality!Recomputed(ledger))'
    BY DEF QualityInv, Quality!Recomputed, Quality!Known, Quality!Streak
  <2>5. WithinThresholds'
    BY <2>2 DEF WithinThresholds, QualityInv, Quality!TooManyRejections
  <2> QED
    BY <2>3, <2>4, <2>5 DEF QualityInv
<1>3. ASSUME NEW a \in Registered, Quality!RegisteredAccount(a) PROVE QualityInv'
  <2> USE <1>3 DEF Quality!RegisteredAccount
  <2>1. ledger' \in [Registered -> Quality!Outcomes \cup {"unknown"}]
    BY DEF QualityInv, Quality!TypeOK, Quality!Outcomes
  <2>2. Streak(ledger') = Streak(ledger)
    BY DEF Streak, Quality!Known, QualityInv, Quality!TypeOK
  <2>3. quality'.streak = quality.streak
    <3>1. quality.streak = Cardinality(Streak(ledger))
      BY RecomputedCounts DEF QualityInv, Quality!TypeOK
    <3>2. Quality!Recomputed(ledger').streak = Cardinality(Streak(ledger'))
      BY <2>1, RecomputedCounts
    <3> QED
      BY <2>2, <3>1, <3>2
  <2> QED
    BY <2>1, <2>3, LedgerStep DEF QualityInv, Quality!TypeOK, WithinThresholds
<1>4. ASSUME NEW a \in Registered, Quality!EligibilityResult(a) PROVE QualityInv'
  <2>1. PICK state \in {"eligible", "ineligible", "probe_failed", "queued"} :
           Quality!Outcome(a, Quality!EligibilityOutcome(ledger[a], state))
    BY <1>4 DEF Quality!EligibilityResult
  <2>2. Quality!EligibilityOutcome(ledger[a], state) \in Quality!Outcomes
    BY <1>4 DEF Quality!EligibilityResult, Quality!EligibilityOutcome, QualityInv, Quality!TypeOK,
       Quality!Outcomes
  <2> QED
    BY <1>4, <2>1, <2>2, OutcomeStep DEF Quality!EligibilityResult
<1>5. ASSUME NEW a \in Registered, Quality!LinkResult(a) PROVE QualityInv'
  <2>1. PICK state \in {"link_succeeded", "extract_failed", "technical", "pending_auth", "cancelled"} :
           Quality!Outcome(a, Quality!LinkOutcome(ledger[a], state))
    BY <1>5 DEF Quality!LinkResult
  <2>2. Quality!LinkOutcome(ledger[a], state) \in Quality!Outcomes
    BY <1>5 DEF Quality!LinkResult, Quality!LinkOutcome, QualityInv, Quality!TypeOK, Quality!Outcomes
  <2> QED
    BY <1>5, <2>1, <2>2, OutcomeStep DEF Quality!LinkResult
<1>6. CASE Quality!TaskOver
  <2> USE <1>6 DEF Quality!TaskOver
  <2>1. ledger' \in [Registered -> Quality!Outcomes \cup {"unknown"}]
    OBVIOUS
  <2> QED
    BY <2>1, LedgerStep DEF QualityInv, Quality!TypeOK
<1> QED
  BY <1>1, <1>2, <1>3, <1>4, <1>5, <1>6 DEF Quality!Next

\* A domain that is still used has not passed a threshold, whatever the order
\* in which threads report (record_registration_result, record_link_result).
THEOREM PoorDomainsDrainCorrect ==
  ASSUME Quality!PolicyAssumption PROVE Quality!Spec => []Quality!PoorDomainsDrain
<1>1. ASSUME QualityInv PROVE Quality!PoorDomainsDrain
  <2> SUFFICES ASSUME item = "active" PROVE Quality!PoorDomainsDrain
    BY DEF Quality!PoorDomainsDrain
  <2>1. ~(decisions >= MinSamples /\ 100 * disallowed > Threshold * decisions)
    BY <1>1 DEF QualityInv, WithinThresholds, Quality!TooManyRejections
  <2>2. ASSUME NEW S \in SUBSET Quality!Known(ledger),
               \A a \in S : ledger[a] = "miss",
               \A a \in S : \A b \in Quality!Known(ledger) : b > a => ledger[b] # "success"
        PROVE  Quality!Cardinality(S) < StreakLimit
    <3>1. S \subseteq Streak(ledger)
      BY <2>2 DEF Streak
    <3>2. IsFiniteSet(Streak(ledger)) /\ quality.streak = Cardinality(Streak(ledger))
      BY <1>1, RecomputedCounts DEF QualityInv, Quality!TypeOK
    <3>3. IsFiniteSet(S) /\ Cardinality(S) <= Cardinality(Streak(ledger))
      BY <3>1, <3>2, FS_Subset
    <3>4. Cardinality(S) \in Nat /\ Cardinality(Streak(ledger)) \in Nat
      BY <3>2, <3>3, FS_CardinalityType
    <3>5. quality.streak < StreakLimit
      BY <1>1 DEF QualityInv, WithinThresholds
    <3> QED
      BY <3>2, <3>3, <3>4, <3>5, QualityCounts DEF Quality!PolicyAssumption
  <2> QED
    BY <2>1, <2>2 DEF Quality!PoorDomainsDrain
<1> QED
  BY <1>1, QualityInit, QualityStep, PTL DEF Quality!Spec

\* A success of the link is not overwritten by what is reported late.
THEOREM LinkKeptCorrect ==
  ASSUME Quality!PolicyAssumption PROVE Quality!Spec => [][Quality!LinkKept]_(Quality!vars)
<1>1. ASSUME QualityInv, Quality!Next PROVE Quality!LinkKept
  <2> SUFFICES ASSUME NEW a \in Registered, ledger[a] = "success"
               PROVE  ledger'[a] = "success" \/ item' = "over"
    BY DEF Quality!LinkKept
  <2> USE <1>1 DEF QualityInv, Quality!TypeOK
  <2>1. CASE \E refused \in BOOLEAN : Quality!RegistrationResult(refused)
    BY <2>1 DEF Quality!RegistrationResult
  <2>2. ASSUME NEW b \in Registered, Quality!RegisteredAccount(b) PROVE ledger'[a] = "success"
    BY <2>2 DEF Quality!RegisteredAccount
  <2>3. ASSUME NEW b \in Registered, Quality!EligibilityResult(b) PROVE ledger'[a] = "success"
    BY <2>3 DEF Quality!EligibilityResult, Quality!EligibilityOutcome, Quality!Outcome
  <2>4. ASSUME NEW b \in Registered, Quality!LinkResult(b) PROVE ledger'[a] = "success"
    BY <2>4 DEF Quality!LinkResult, Quality!LinkOutcome, Quality!Outcome
  <2>5. CASE Quality!TaskOver
    BY <2>5 DEF Quality!TaskOver
  <2> QED
    BY <2>1, <2>2, <2>3, <2>4, <2>5 DEF Quality!Next
<1> QED
  BY <1>1, QualityInit, QualityStep, PTL DEF Quality!Spec

\* The types of the counters, and that they count the ledger.
THEOREM QualityTypeCorrect ==
  ASSUME Quality!PolicyAssumption PROVE Quality!Spec => []Quality!TypeOK
<1>1. QualityInv => Quality!TypeOK
  BY DEF QualityInv
<1> QED
  BY <1>1, QualityInit, QualityStep, PTL DEF Quality!Spec

-----------------------------------------------------------------------------
(* Delivery cards.                                                         *)

\* The counts of a card and of its answers.
LEMMA CountRange ==
  ASSUME Delivery!StockAssumption
  PROVE  /\ "" \in Keys /\ MaxCount \in Nat /\ MaxCount > 0
         /\ 0 \in 0..MaxCount /\ 1 \in 0..MaxCount
<1>1. MaxCount \in Nat \ {0} /\ "" \in Keys
  BY Zenon DEF Delivery!StockAssumption
<1>2. MaxCount > 0 /\ 0 \in 0..MaxCount /\ 1 \in 0..MaxCount
  <2>1. MaxCount \in Nat \ {0}
    BY <1>1
  <2> QED
    BY <2>1
<1> QED
  BY <1>1, <1>2

LEMMA DeliveryRecords ==
  ASSUME Delivery!TypeOK, work \in [Sessions -> Delivery!WorkRecords], NEW s \in Sessions
  PROVE  /\ work[s].op = "status" =>
               /\ work[s].card \in Codes /\ work[s].want \in {"unused", "disabled"}
               /\ work[s].seen \in Delivery!CardRecords
         /\ work[s].op = "edit" =>
               /\ work[s].account \in Stock /\ work[s].used \in BOOLEAN
               /\ work[s].seen \in Delivery!AccountRecords
         /\ work[s].op = "repair" => work[s].card \in Codes /\ work[s].seen \in Delivery!CardRecords
BY DEF Delivery!WorkRecords

\* A card with an account was delivered, and no account belongs to two cards.
CardsApart ==
    \A c \in Codes :
       /\ card[c].account = Delivery!Nobody => card[c].status # "redeemed"
       /\ card[c].account # Delivery!Nobody =>
             card[c].status \in {"redeemed", "disabled"} /\ card[c].count > 0
       /\ \A d \in Codes \ {c} :
             card[c].account = Delivery!Nobody \/ card[c].account # card[d].account

\* What was recorded or answered is of the account that the card has now.
Recorded == \A e \in events \cup answers : card[e.card].account = e.account

\* An answer to a request with a key is the one event of that request.
RepeatsAgree ==
    /\ \A e \in answers : e.key # "" => e \in events
    /\ \A e, f \in events : e.card = f.card /\ e.key = f.key /\ e.key # "" => e = f

\* What a writer has read still holds as far as its write relies on it.
ReadStands ==
    \A s \in Sessions :
       /\ work[s].op = "status" =>
             /\ work[s].seen.account # Delivery!Nobody =>
                   /\ card[work[s].card].account = work[s].seen.account
                   /\ work[s].seen.status \in {"redeemed", "disabled"}
             /\ work[s].seen.account = Delivery!Nobody =>
                   work[s].seen.status \in {"unused", "disabled"}
             /\ work[s].seen.account = Delivery!Nobody /\ work[s].seen.status = "disabled" =>
                   /\ card[work[s].card].account = Delivery!Nobody
                   /\ card[work[s].card].status = "disabled"
       /\ work[s].op = "repair" =>
             /\ work[s].seen.account # Delivery!Nobody
             /\ card[work[s].card].account = work[s].seen.account
             /\ work[s].seen.status \in {"redeemed", "disabled"}

DeliveryInv ==
    /\ Delivery!TypeOK /\ work \in [Sessions -> Delivery!WorkRecords]
    /\ CardsApart
    /\ Recorded
    /\ RepeatsAgree
    /\ ReadStands

LEMMA DeliveryInit == ASSUME Delivery!StockAssumption PROVE Delivery!Init => DeliveryInv
<1> SUFFICES ASSUME Delivery!Init PROVE DeliveryInv
  OBVIOUS
<1> USE DEF Delivery!Init, Delivery!StockAssumption
<1>1. /\ card \in [Codes -> Delivery!CardRecords]
      /\ account \in [Stock -> Delivery!AccountRecords]
  <2>1. 0 \in 0..MaxCount
    BY CountRange
  <2>2. card \in [Codes -> Delivery!CardRecords]
    BY <2>1 DEF Delivery!CardRecords, Delivery!Statuses
  <2>3. account \in [Stock -> Delivery!AccountRecords]
    BY DEF Delivery!AccountRecords
  <2> QED
    BY <2>2, <2>3
<1>2. /\ work \in [Sessions -> Delivery!WorkRecords]
      /\ \A s \in Sessions : work[s].op = "none"
  BY DEF Delivery!WorkRecords
<1>3. \A c \in Codes : card[c].status = "none" /\ card[c].account = Delivery!Nobody
  OBVIOUS
<1>4. Delivery!TypeOK
  BY <1>1, <1>2, <1>3 DEF Delivery!TypeOK
<1> QED
  BY <1>2, <1>3, <1>4 DEF DeliveryInv, CardsApart, Recorded, RepeatsAgree, ReadStands

\* A redemption, first or repeated, is one transaction.
LEMMA FirstRedeemKeeps ==
  ASSUME Delivery!StockAssumption, DeliveryInv,
         NEW c \in Codes, NEW k \in Keys, NEW a \in Stock, Delivery!FirstRedeem(c, k, a)
  PROVE  DeliveryInv'
<1> DEFINE e == Delivery!Success(c, a, k, 1)
           new == [status |-> "redeemed", account |-> a, count |-> 1]
<1>1. /\ card[c].status = "unused" /\ card' = [card EXCEPT ![c] = new]
      /\ account' = [account EXCEPT ![a].used = TRUE, ![a].marker = c]
      /\ events' = events \cup {e} /\ answers' = answers \cup {e}
      /\ expired' = expired /\ work' = work
      /\ \A d \in Codes : card[d].account # a
  <2>1. a \notin Delivery!Assigned
    BY DEF Delivery!FirstRedeem, Delivery!Candidates
  <2>2. \A d \in Codes : card[d].account # a
    BY <2>1 DEF Delivery!Assigned, Delivery!StockAssumption
  <2> QED
    BY <2>2 DEF Delivery!FirstRedeem, Delivery!Marked
<1>2. /\ e \in Delivery!EventRecords /\ e.card = c /\ e.account = a /\ e.key = k
      /\ new \in Delivery!CardRecords
      /\ new.status = "redeemed" /\ new.account = a /\ new.count = 1
      /\ a # Delivery!Nobody /\ Delivery!Nobody \notin Codes
  <2>1. 1 \in 0..MaxCount /\ a # Delivery!Nobody /\ Delivery!Nobody \notin Codes
    BY CountRange DEF Delivery!StockAssumption
  <2> QED
    BY <2>1 DEF Delivery!Success, Delivery!EventRecords, Delivery!CardRecords, Delivery!Statuses
<1> HIDE DEF e, new
<1>3. /\ card \in [Codes -> Delivery!CardRecords]
      /\ account \in [Stock -> Delivery!AccountRecords]
      /\ events \subseteq Delivery!EventRecords /\ answers \subseteq Delivery!EventRecords
      /\ work \in [Sessions -> Delivery!WorkRecords]
      /\ CardsApart /\ Recorded /\ RepeatsAgree /\ ReadStands
  BY DEF DeliveryInv, Delivery!TypeOK
<1>4. /\ card'[c] = new /\ \A d \in Codes : d # c => card'[d] = card[d]
      /\ card[c].account = Delivery!Nobody
      /\ card' \in [Codes -> Delivery!CardRecords]
  BY <1>1, <1>2, <1>3 DEF CardsApart
<1>5. account' \in [Stock -> Delivery!AccountRecords]
  <2>1. [account[a] EXCEPT !.used = TRUE, !.marker = c] \in Delivery!AccountRecords
    BY <1>3 DEF Delivery!AccountRecords
  <2> QED
    BY <1>1, <1>3, <2>1
<1>6. Delivery!TypeOK'
  BY <1>1, <1>2, <1>3, <1>4, <1>5 DEF DeliveryInv, Delivery!TypeOK
<1>7. CardsApart'
  BY <1>1, <1>2, <1>3, <1>4 DEF CardsApart
<1>8. \A f \in events \cup answers : f.card \in Codes /\ f.card # c
  BY <1>2, <1>3, <1>4 DEF Recorded, Delivery!EventRecords, Delivery!StockAssumption
<1>9. Recorded'
  BY <1>1, <1>2, <1>3, <1>4, <1>8 DEF Recorded
<1>10. RepeatsAgree'
  BY <1>1, <1>2, <1>3, <1>8 DEF RepeatsAgree
<1>11. ReadStands'
  <2>1. ASSUME NEW s \in Sessions, work[s].op \in {"status", "repair"}
        PROVE  work[s].card \in Codes
    BY <1>3, <2>1, DeliveryRecords DEF DeliveryInv
  <2> QED
    BY <1>1, <1>2, <1>3, <1>4, <2>1 DEF ReadStands
<1> QED
  BY <1>1, <1>3, <1>6, <1>7, <1>9, <1>10, <1>11 DEF DeliveryInv

\* A redeemed card that lost its mark gets it back.
LEMMA HealedTyped ==
  ASSUME Delivery!StockAssumption, DeliveryInv, NEW c \in Codes, card[c].status = "redeemed"
  PROVE  /\ Delivery!Healed(c) \in [Stock -> Delivery!AccountRecords]
         /\ card[c].account \in Stock /\ card[c].account # Delivery!Nobody
<1>1. /\ card[c].account \in Stock /\ card[c].account # Delivery!Nobody
      /\ account \in [Stock -> Delivery!AccountRecords]
  BY DEF DeliveryInv, Delivery!TypeOK, CardsApart, Delivery!CardRecords
<1>2. [account[card[c].account] EXCEPT !.used = TRUE, !.marker = c] \in Delivery!AccountRecords
  BY <1>1 DEF Delivery!AccountRecords
<1> QED
  BY <1>1, <1>2 DEF Delivery!Healed, Delivery!Marked

\* A repeated request is given the event of the first one.
LEMMA ReplayKeeps ==
  ASSUME Delivery!StockAssumption, DeliveryInv,
         NEW c \in Codes, NEW k \in Keys, Delivery!Replay(c, k)
  PROVE  DeliveryInv'
<1>1. PICK e \in events :
         /\ k # "" /\ e.card = c /\ e.key = k
         /\ answers' = answers \cup {Delivery!Success(c, card[c].account, k, e.index)}
  BY DEF Delivery!Replay, Delivery!Earlier
<1>2. Delivery!Success(c, card[c].account, k, e.index) = e
  <2>1. e \in Delivery!EventRecords /\ card[e.card].account = e.account
    BY DEF DeliveryInv, Delivery!TypeOK, Recorded
  <2> QED
    BY <1>1, <2>1 DEF Delivery!Success, Delivery!EventRecords
<1>3. /\ UNCHANGED <<card, expired, events, work>> /\ answers' = answers \cup {e}
      /\ account' \in [Stock -> Delivery!AccountRecords]
  BY <1>1, <1>2, HealedTyped DEF Delivery!Replay
<1>4. Delivery!TypeOK' /\ work' \in [Sessions -> Delivery!WorkRecords]
  BY <1>3 DEF DeliveryInv, Delivery!TypeOK
<1> QED
  BY <1>3, <1>4 DEF DeliveryInv, CardsApart, Recorded, RepeatsAgree, ReadStands

\* A new request for a redeemed card is counted.
LEMMA RefetchKeeps ==
  ASSUME Delivery!StockAssumption, DeliveryInv,
         NEW c \in Codes, NEW k \in Keys, Delivery!Refetch(c, k)
  PROVE  DeliveryInv'
<1> DEFINE n == card[c].count + 1
           e == Delivery!Success(c, card[c].account, k, n)
<1>1. /\ card[c].status = "redeemed" /\ Delivery!Earlier(c, k) = {} /\ n <= MaxCount
      /\ card' = [card EXCEPT ![c].count = n] /\ account' = Delivery!Healed(c)
      /\ events' = events \cup {e} /\ answers' = answers \cup {e}
      /\ expired' = expired /\ work' = work
  BY DEF Delivery!Refetch
<1>2. /\ card \in [Codes -> Delivery!CardRecords]
      /\ account' \in [Stock -> Delivery!AccountRecords]
      /\ events \subseteq Delivery!EventRecords /\ answers \subseteq Delivery!EventRecords
      /\ work \in [Sessions -> Delivery!WorkRecords]
      /\ CardsApart /\ Recorded /\ RepeatsAgree /\ ReadStands
      /\ card[c].account \in Stock /\ card[c].account # Delivery!Nobody
  BY <1>1, HealedTyped DEF DeliveryInv, Delivery!TypeOK
<1>3. n \in 0..MaxCount /\ n > 0
  <2>1. card[c].count \in 0..MaxCount /\ MaxCount \in Nat
    BY <1>2 DEF Delivery!CardRecords, Delivery!StockAssumption
  <2> QED
    BY <1>1, <2>1
<1>4. e \in Delivery!EventRecords /\ e.card = c /\ e.account = card[c].account /\ e.key = k
  BY <1>2, <1>3 DEF Delivery!Success, Delivery!EventRecords
<1>5. \A f \in events : k # "" => f.card # c \/ f.key # k
  BY <1>1 DEF Delivery!Earlier
<1> HIDE DEF e, n
<1>6. /\ card' \in [Codes -> Delivery!CardRecords]
      /\ \A d \in Codes : card'[d].account = card[d].account /\ card'[d].status = card[d].status
      /\ \A d \in Codes : card'[d].count > 0 \/ card'[d].count = card[d].count
  <2>1. /\ [card[c] EXCEPT !.count = n] \in Delivery!CardRecords
        /\ [card[c] EXCEPT !.count = n].account = card[c].account
        /\ [card[c] EXCEPT !.count = n].status = card[c].status
        /\ [card[c] EXCEPT !.count = n].count = n
    BY <1>2, <1>3 DEF Delivery!CardRecords
  <2> QED
    BY <1>1, <1>2, <1>3, <2>1
<1>7. \A f \in Delivery!EventRecords : f.card \in Codes
  BY DEF Delivery!EventRecords
<1>8. Delivery!TypeOK'
  BY <1>1, <1>2, <1>4, <1>6 DEF DeliveryInv, Delivery!TypeOK
<1>9. CardsApart'
  BY <1>2, <1>6 DEF CardsApart
<1>10. Recorded'
  BY <1>1, <1>2, <1>4, <1>6, <1>7 DEF Recorded
<1>11. RepeatsAgree'
  BY <1>1, <1>2, <1>4, <1>5 DEF RepeatsAgree
<1>12. ReadStands'
  <2>1. ASSUME NEW s \in Sessions, work[s].op \in {"status", "repair"}
        PROVE  work[s].card \in Codes
    BY <1>2, <2>1, DeliveryRecords DEF DeliveryInv
  <2> QED
    BY <1>1, <1>2, <1>6, <2>1 DEF ReadStands
<1> QED
  BY <1>1, <1>2, <1>8, <1>9, <1>10, <1>11, <1>12 DEF DeliveryInv

\* The steps of nobody's card: a batch, the passing of time, checks elsewhere.
LEMMA CreateBatchKeeps ==
  ASSUME Delivery!StockAssumption, DeliveryInv,
         NEW batch \in SUBSET Codes, Delivery!CreateBatch(batch)
  PROVE  DeliveryInv'
<1>1. /\ card' = [c \in Codes |-> IF c \in batch THEN [card[c] EXCEPT !.status = "unused"]
                                  ELSE card[c]]
      /\ \A c \in batch : card[c].status = "none"
      /\ UNCHANGED <<account, expired, events, work, answers>>
  BY DEF Delivery!CreateBatch
<1>2. /\ card \in [Codes -> Delivery!CardRecords]
      /\ work \in [Sessions -> Delivery!WorkRecords]
      /\ events \subseteq Delivery!EventRecords /\ answers \subseteq Delivery!EventRecords
      /\ CardsApart /\ Recorded /\ RepeatsAgree /\ ReadStands
  BY DEF DeliveryInv, Delivery!TypeOK
<1>3. ASSUME NEW c \in Codes
      PROVE  /\ card'[c] \in Delivery!CardRecords
             /\ card'[c].account = card[c].account /\ card'[c].count = card[c].count
             /\ \/ card'[c].status = card[c].status
                \/ card'[c].status = "unused" /\ card[c].status = "none"
  BY <1>1, <1>2 DEF Delivery!CardRecords, Delivery!Statuses
<1>4. Delivery!TypeOK'
  BY <1>1, <1>3 DEF DeliveryInv, Delivery!TypeOK
<1>5. CardsApart'
  BY <1>2, <1>3 DEF CardsApart
<1>6. \A f \in Delivery!EventRecords : f.card \in Codes
  BY DEF Delivery!EventRecords
<1>7. Recorded'
  BY <1>1, <1>2, <1>3, <1>6 DEF Recorded
<1>8. ReadStands'
  <2>1. ASSUME NEW s \in Sessions, work[s].op \in {"status", "repair"}
        PROVE  work[s].card \in Codes
    BY <1>2, <2>1, DeliveryRecords DEF DeliveryInv
  <2> QED
    BY <1>1, <1>2, <1>3, <2>1 DEF ReadStands
<1> QED
  BY <1>1, <1>2, <1>4, <1>5, <1>7, <1>8 DEF DeliveryInv, RepeatsAgree

LEMMA ElsewhereKeeps ==
  ASSUME Delivery!StockAssumption, DeliveryInv,
         \/ \E c \in Codes : Delivery!Expires(c)
         \/ \E a \in Stock : Delivery!Checked(a)
  PROVE  DeliveryInv'
<1>1. /\ UNCHANGED <<card, events, work, answers>>
      /\ expired' \subseteq Codes
      /\ account' \in [Stock -> Delivery!AccountRecords]
  <2>1. account \in [Stock -> Delivery!AccountRecords] /\ expired \subseteq Codes
    BY DEF DeliveryInv, Delivery!TypeOK
  <2>2. ASSUME NEW a \in Stock
        PROVE  [account[a] EXCEPT !.valid = ~@] \in Delivery!AccountRecords
    BY <2>1 DEF Delivery!AccountRecords
  <2> QED
    BY <2>1, <2>2 DEF Delivery!Expires, Delivery!Checked
<1> QED
  BY <1>1 DEF DeliveryInv, Delivery!TypeOK, CardsApart, Recorded, RepeatsAgree, ReadStands

\* A writer reads, or gives up.
LEMMA ReadsKeeps ==
  ASSUME Delivery!StockAssumption, DeliveryInv, NEW s \in Sessions,
         \/ \E c \in Codes, want \in {"unused", "disabled"} : Delivery!ReadsCard(s, c, want)
         \/ \E c \in Codes : Delivery!ReadsDrift(s, c)
         \/ \E a \in Stock, used \in BOOLEAN : Delivery!ReadsAccount(s, a, used)
         \/ Delivery!Fails(s)
  PROVE  DeliveryInv'
<1>1. /\ card \in [Codes -> Delivery!CardRecords]
      /\ account \in [Stock -> Delivery!AccountRecords]
      /\ work \in [Sessions -> Delivery!WorkRecords]
      /\ CardsApart /\ ReadStands
  BY DEF DeliveryInv, Delivery!TypeOK
<1>2. UNCHANGED <<card, account, expired, events, answers>>
  BY DEF Delivery!ReadsCard, Delivery!ReadsDrift, Delivery!ReadsAccount, Delivery!Fails,
         Delivery!Reads
<1>3. \E w \in Delivery!WorkRecords :
         /\ work' = [work EXCEPT ![s] = w]
         /\ w.op = "status" => /\ w.card \in Codes /\ w.seen = card[w.card]
                               /\ card[w.card].status # "none"
         /\ w.op = "repair" => /\ w.card \in Codes /\ w.seen = card[w.card]
                               /\ card[w.card].account # Delivery!Nobody
  <2>1. CASE \E c \in Codes, want \in {"unused", "disabled"} : Delivery!ReadsCard(s, c, want)
    <3>1. PICK c \in Codes, want \in {"unused", "disabled"} : Delivery!ReadsCard(s, c, want)
      BY <2>1
    <3> DEFINE w == [op |-> "status", card |-> c, want |-> want, seen |-> card[c]]
    <3>2. w \in Delivery!WorkRecords /\ w.op = "status" /\ w.card = c /\ w.seen = card[c]
      BY <1>1 DEF Delivery!WorkRecords
    <3>3. work' = [work EXCEPT ![s] = w] /\ card[c].status # "none"
      BY <3>1 DEF Delivery!ReadsCard, Delivery!Reads
    <3> HIDE DEF w
    <3> QED
      BY <3>2, <3>3
  <2>2. CASE \E c \in Codes : Delivery!ReadsDrift(s, c)
    <3>1. PICK c \in Codes : Delivery!ReadsDrift(s, c)
      BY <2>2
    <3> DEFINE w == [op |-> "repair", card |-> c, seen |-> card[c], was |-> account[card[c].account]]
    <3>2. /\ work' = [work EXCEPT ![s] = w] /\ card[c].account # Delivery!Nobody
      BY <3>1 DEF Delivery!ReadsDrift, Delivery!Reads
    <3>3. card[c].account \in Stock
      BY <1>1, <3>2 DEF Delivery!CardRecords
    <3>4. w \in Delivery!WorkRecords /\ w.op = "repair" /\ w.card = c /\ w.seen = card[c]
      BY <1>1, <3>3 DEF Delivery!WorkRecords
    <3> HIDE DEF w
    <3> QED
      BY <3>2, <3>4
  <2>3. CASE \E a \in Stock, used \in BOOLEAN : Delivery!ReadsAccount(s, a, used)
    <3>1. PICK a \in Stock, used \in BOOLEAN : Delivery!ReadsAccount(s, a, used)
      BY <2>3
    <3> DEFINE w == [op |-> "edit", account |-> a, used |-> used, seen |-> account[a]]
    <3>2. w \in Delivery!WorkRecords /\ w.op = "edit"
      BY <1>1 DEF Delivery!WorkRecords
    <3>3. work' = [work EXCEPT ![s] = w]
      BY <3>1 DEF Delivery!ReadsAccount, Delivery!Reads
    <3> HIDE DEF w
    <3> QED
      BY <3>2, <3>3
  <2>4. CASE Delivery!Fails(s)
    <3> DEFINE w == [op |-> "none"]
    <3>1. w \in Delivery!WorkRecords /\ w.op = "none"
      BY DEF Delivery!WorkRecords
    <3>2. work' = [work EXCEPT ![s] = w]
      BY <2>4 DEF Delivery!Fails, Delivery!Done
    <3> HIDE DEF w
    <3> QED
      BY <3>1, <3>2
  <2> QED
    BY <2>1, <2>2, <2>3, <2>4
<1>4. PICK w \in Delivery!WorkRecords :
         /\ work' = [work EXCEPT ![s] = w]
         /\ w.op = "status" => /\ w.card \in Codes /\ w.seen = card[w.card]
                               /\ card[w.card].status # "none"
         /\ w.op = "repair" => /\ w.card \in Codes /\ w.seen = card[w.card]
                               /\ card[w.card].account # Delivery!Nobody
  BY <1>3
<1>5. /\ work' \in [Sessions -> Delivery!WorkRecords]
      /\ work'[s] = w /\ \A r \in Sessions : r # s => work'[r] = work[r]
  BY <1>1, <1>4
<1>6. ReadStands'
  <2>1. \A c \in Codes : card[c].status \in Delivery!Statuses
    BY <1>1 DEF Delivery!CardRecords
  <2>2. \A c \in Codes : card[c].status # "none" /\ card[c].account = Delivery!Nobody =>
                            card[c].status \in {"unused", "disabled"}
    BY <1>1, <2>1 DEF CardsApart, Delivery!Statuses
  <2> QED
    BY <1>1, <1>2, <1>4, <1>5, <2>2 DEF CardsApart, ReadStands
<1> QED
  BY <1>2, <1>5, <1>6 DEF DeliveryInv, Delivery!TypeOK, CardsApart, Recorded, RepeatsAgree

\* The status that is written fits the card's account, as nobody else wrote one.
LEMMA WritesStatusKeeps ==
  ASSUME Delivery!StockAssumption, Delivery!OneWriter, DeliveryInv, NEW s \in Sessions,
         Delivery!WritesStatus(s)
  PROVE  DeliveryInv'
<1> DEFINE c == work[s].card
           seen == work[s].seen
           wanted == Delivery!Wanted(work[s])
           e == Delivery!Success(c, seen.account, "", 0)
<1>1. /\ card \in [Codes -> Delivery!CardRecords]
      /\ work \in [Sessions -> Delivery!WorkRecords]
      /\ events \subseteq Delivery!EventRecords /\ answers \subseteq Delivery!EventRecords
      /\ CardsApart /\ Recorded /\ RepeatsAgree /\ ReadStands
  BY DEF DeliveryInv, Delivery!TypeOK
<1>2. /\ work[s].op = "status" /\ c \in Codes /\ seen \in Delivery!CardRecords
      /\ work[s].want \in {"unused", "disabled"}
  BY DeliveryRecords DEF DeliveryInv, Delivery!WritesStatus
<1>3. /\ card' = IF wanted = seen.status THEN card ELSE [card EXCEPT ![c].status = wanted]
      /\ events' = IF seen.account = Delivery!Nobody THEN events ELSE events \cup {e}
      /\ work' = [work EXCEPT ![s] = [op |-> "none"]]
      /\ UNCHANGED <<account, expired, answers>>
  BY DEF Delivery!WritesStatus, Delivery!Done
<1>4. wanted = IF work[s].want = "unused" /\ seen.account # Delivery!Nobody
               THEN "redeemed" ELSE work[s].want
  BY DEF Delivery!Wanted
<1>5. seen.account # Delivery!Nobody =>
         /\ e \in Delivery!EventRecords /\ e.card = c /\ e.account = card[c].account /\ e.key = ""
  <2>1. /\ seen.account # Delivery!Nobody => seen.account \in Stock
        /\ 0 \in 0..MaxCount /\ "" \in Keys
    BY <1>2, CountRange DEF Delivery!CardRecords
  <2> QED
    BY <1>1, <1>2, <2>1 DEF ReadStands, Delivery!Success, Delivery!EventRecords
<1>6. /\ work' \in [Sessions -> Delivery!WorkRecords]
      /\ \A r \in Sessions : work'[r].op = "none"
  BY <1>1, <1>3 DEF Delivery!WorkRecords, Delivery!OneWriter
<1>7. /\ \A d \in Codes : /\ card'[d] \in Delivery!CardRecords
                          /\ card'[d].account = card[d].account /\ card'[d].count = card[d].count
                          /\ d # c => card'[d] = card[d]
      /\ card' \in [Codes -> Delivery!CardRecords]
      /\ card'[c].status = card[c].status \/ card'[c].status = wanted
      /\ wanted = seen.status => card' = card
  <2>1. wanted \in Delivery!Statuses
    BY <1>2, <1>4 DEF Delivery!Statuses
  <2> HIDE DEF wanted, c
  <2>2. /\ [card[c] EXCEPT !.status = wanted] \in Delivery!CardRecords
        /\ [card[c] EXCEPT !.status = wanted].account = card[c].account
        /\ [card[c] EXCEPT !.status = wanted].count = card[c].count
        /\ [card[c] EXCEPT !.status = wanted].status = wanted
    BY <1>1, <1>2, <2>1 DEF Delivery!CardRecords
  <2> QED
    BY <1>1, <1>2, <1>3, <2>2
<1>8. CardsApart'
  <2>1. CASE wanted = seen.status
    BY <1>1, <1>7, <2>1 DEF CardsApart
  <2>2. CASE wanted # seen.status
    <3>1. /\ seen.account # Delivery!Nobody => /\ card[c].account = seen.account
                                               /\ wanted \in {"redeemed", "disabled"}
          /\ seen.account = Delivery!Nobody =>
                /\ seen.status \in {"unused", "disabled"}
                /\ seen.status = "disabled" => card[c].account = Delivery!Nobody
      BY <1>1, <1>2, <1>4 DEF ReadStands
    <3>2. /\ card[c].account # Delivery!Nobody => wanted \in {"redeemed", "disabled"}
          /\ card[c].account = Delivery!Nobody => wanted # "redeemed"
      BY <1>2, <1>4, <2>2, <3>1
    <3> HIDE DEF wanted, c, seen
    <3> QED
      BY <1>1, <1>2, <1>7, <3>2 DEF CardsApart
  <2> QED
    BY <2>1, <2>2
<1>9. Delivery!TypeOK'
  <2>1. events' \subseteq Delivery!EventRecords
    BY <1>1, <1>3, <1>5
  <2>2. \A d \in Codes : card'[d].status = "redeemed" =>
                            card'[d].account # Delivery!Nobody /\ card'[d].count > 0
    BY <1>8 DEF CardsApart
  <2> HIDE DEF wanted, c, seen, e
  <2> QED
    BY <1>3, <1>6, <1>7, <2>1, <2>2 DEF DeliveryInv, Delivery!TypeOK
<1>10. \A f \in Delivery!EventRecords : f.card \in Codes
  BY DEF Delivery!EventRecords
<1> HIDE DEF wanted, c, seen, e
<1>11. Recorded'
  BY <1>1, <1>2, <1>3, <1>5, <1>7, <1>10 DEF Recorded
<1>12. RepeatsAgree'
  BY <1>1, <1>3, <1>5 DEF RepeatsAgree
<1>13. ReadStands'
  BY <1>6 DEF ReadStands
<1> QED
  BY <1>6, <1>8, <1>9, <1>11, <1>12, <1>13 DEF DeliveryInv

\* The extra data is written whole: marks may be lost, and no property rests on them.
LEMMA WritesAccountKeeps ==
  ASSUME Delivery!StockAssumption, DeliveryInv, NEW s \in Sessions, Delivery!WritesAccount(s)
  PROVE  DeliveryInv'
<1>1. /\ account \in [Stock -> Delivery!AccountRecords]
      /\ work \in [Sessions -> Delivery!WorkRecords] /\ ReadStands
  BY DEF DeliveryInv, Delivery!TypeOK
<1>2. /\ work[s].op = "edit" /\ work[s].account \in Stock /\ work[s].used \in BOOLEAN
      /\ work[s].seen \in Delivery!AccountRecords
  BY DeliveryRecords DEF DeliveryInv, Delivery!WritesAccount
<1>3. /\ account' = [account EXCEPT ![work[s].account].used = work[s].used,
                                    ![work[s].account].marker = work[s].seen.marker]
      /\ work' = [work EXCEPT ![s] = [op |-> "none"]]
      /\ UNCHANGED <<card, expired, events, answers>>
  BY DEF Delivery!WritesAccount, Delivery!Done
<1>4. account' \in [Stock -> Delivery!AccountRecords]
  <2>1. [account[work[s].account] EXCEPT !.used = work[s].used, !.marker = work[s].seen.marker]
           \in Delivery!AccountRecords
    BY <1>1, <1>2 DEF Delivery!AccountRecords
  <2> QED
    BY <1>1, <1>2, <1>3, <2>1
<1>5. /\ work' \in [Sessions -> Delivery!WorkRecords]
      /\ work'[s].op = "none" /\ \A r \in Sessions : r # s => work'[r] = work[r]
  BY <1>1, <1>3 DEF Delivery!WorkRecords
<1>6. ReadStands'
  BY <1>1, <1>3, <1>5 DEF ReadStands
<1> QED
  BY <1>3, <1>4, <1>5, <1>6 DEF DeliveryInv, Delivery!TypeOK, CardsApart, Recorded, RepeatsAgree

\* A repair gives the mark back, and finds the card delivered already.
LEMMA WritesRepairKeeps ==
  ASSUME Delivery!StockAssumption, DeliveryInv, NEW s \in Sessions, Delivery!WritesRepair(s)
  PROVE  DeliveryInv'
<1> DEFINE c == work[s].card
           a == work[s].seen.account
           e == Delivery!Success(c, a, "", 0)
<1>1. /\ account \in [Stock -> Delivery!AccountRecords]
      /\ events \subseteq Delivery!EventRecords /\ answers \subseteq Delivery!EventRecords
      /\ work \in [Sessions -> Delivery!WorkRecords]
      /\ Recorded /\ RepeatsAgree /\ ReadStands
  BY DEF DeliveryInv, Delivery!TypeOK
<1>2. /\ work[s].op = "repair" /\ c \in Codes /\ work[s].seen \in Delivery!CardRecords
  BY DeliveryRecords DEF DeliveryInv, Delivery!WritesRepair
<1>3. /\ a # Delivery!Nobody /\ card[c].account = a /\ work[s].seen.status # "unused"
      /\ a \in Stock
  BY <1>1, <1>2 DEF ReadStands, Delivery!CardRecords
<1>4. /\ card' = card /\ account' = [account EXCEPT ![a].used = TRUE, ![a].marker = c]
      /\ events' = events \cup {e}
      /\ work' = [work EXCEPT ![s] = [op |-> "none"]]
      /\ UNCHANGED <<expired, answers>>
  BY <1>3 DEF Delivery!WritesRepair, Delivery!Done, Delivery!Marked
<1>5. e \in Delivery!EventRecords /\ e.card = c /\ e.account = a /\ e.key = ""
  <2>1. 0 \in 0..MaxCount /\ "" \in Keys
    BY CountRange
  <2> QED
    BY <1>2, <1>3, <2>1 DEF Delivery!Success, Delivery!EventRecords
<1> HIDE DEF c, a, e
<1>6. account' \in [Stock -> Delivery!AccountRecords]
  <2>1. [account[a] EXCEPT !.used = TRUE, !.marker = c] \in Delivery!AccountRecords
    BY <1>1, <1>2, <1>3 DEF Delivery!AccountRecords
  <2> QED
    BY <1>1, <1>3, <1>4, <2>1
<1>7. /\ work' \in [Sessions -> Delivery!WorkRecords]
      /\ work'[s].op = "none" /\ \A r \in Sessions : r # s => work'[r] = work[r]
  BY <1>1, <1>4 DEF Delivery!WorkRecords
<1>8. ReadStands'
  BY <1>1, <1>4, <1>7 DEF ReadStands
<1>9. Recorded' /\ RepeatsAgree'
  BY <1>1, <1>3, <1>4, <1>5 DEF Recorded, RepeatsAgree
<1> QED
  BY <1>1, <1>4, <1>5, <1>6, <1>7, <1>8, <1>9 DEF DeliveryInv, Delivery!TypeOK, CardsApart

LEMMA DeliveryStep ==
  ASSUME Delivery!StockAssumption, Delivery!OneWriter, DeliveryInv,
         [Delivery!Next]_(Delivery!vars)
  PROVE  DeliveryInv'
<1>1. CASE UNCHANGED Delivery!vars
  BY <1>1 DEF Delivery!vars, DeliveryInv, Delivery!TypeOK, CardsApart, Recorded, RepeatsAgree,
              ReadStands
<1>2. ASSUME NEW c \in Codes, NEW k \in Keys, Delivery!Redeem(c, k) PROVE DeliveryInv'
  BY <1>2, ReplayKeeps, RefetchKeeps, FirstRedeemKeeps DEF Delivery!Redeem
<1>3. ASSUME NEW batch \in SUBSET Codes, Delivery!CreateBatch(batch) PROVE DeliveryInv'
  BY <1>3, CreateBatchKeeps
<1>4. CASE \/ \E c \in Codes : Delivery!Expires(c)
           \/ \E a \in Stock : Delivery!Checked(a)
  BY <1>4, ElsewhereKeeps
<1>5. ASSUME NEW s \in Sessions,
             \/ \E c \in Codes : \/ Delivery!ReadsDrift(s, c)
                                 \/ \E want \in {"unused", "disabled"} :
                                       Delivery!ReadsCard(s, c, want)
             \/ \E a \in Stock, used \in BOOLEAN : Delivery!ReadsAccount(s, a, used)
             \/ Delivery!WritesStatus(s) \/ Delivery!WritesAccount(s)
             \/ Delivery!WritesRepair(s) \/ Delivery!Fails(s)
      PROVE  DeliveryInv'
  BY <1>5, ReadsKeeps, WritesStatusKeeps, WritesAccountKeeps, WritesRepairKeeps
<1> QED
  BY <1>1, <1>2, <1>3, <1>4, <1>5 DEF Delivery!Next

\* The variables of the delivery cards have their types, and a redeemed card has an
\* account and a count (redeem_card, repair_consistency).
THEOREM DeliveryTypeCorrect ==
  ASSUME Delivery!StockAssumption, Delivery!OneWriter
  PROVE  Delivery!Spec => []Delivery!TypeOK
<1>1. DeliveryInv => Delivery!TypeOK
  BY DEF DeliveryInv
<1> QED
  BY <1>1, DeliveryInit, DeliveryStep, PTL DEF Delivery!Spec

\* However many cards, accounts and requests, with one administrator or writer at
\* work at a time: redeem_card never answers a card with a second account, or two
\* cards with one account, and a repeated key is given its first answer.
THEOREM AnswersAgreeCorrect ==
  ASSUME Delivery!StockAssumption, Delivery!OneWriter
  PROVE  Delivery!Spec => []Delivery!AnswersAgree
<1>1. DeliveryInv => Delivery!AnswersAgree
  <2> SUFFICES ASSUME DeliveryInv, NEW x \in answers, NEW y \in answers
               PROVE  /\ x.card = y.card <=> x.account = y.account
                      /\ x.card = y.card /\ x.key = y.key /\ x.key # "" => x = y
    BY DEF Delivery!AnswersAgree
  <2>1. /\ x.card \in Codes /\ y.card \in Codes
        /\ x.account # Delivery!Nobody /\ y.account # Delivery!Nobody
    BY DEF DeliveryInv, Delivery!TypeOK, Delivery!EventRecords, Delivery!StockAssumption
  <2>2. card[x.card].account = x.account /\ card[y.card].account = y.account
    BY DEF DeliveryInv, Recorded
  <2>3. x.card # y.card => x.account # y.account
    BY <2>1, <2>2 DEF DeliveryInv, CardsApart
  <2>4. x.card = y.card /\ x.key = y.key /\ x.key # "" => x = y
    BY DEF DeliveryInv, RepeatsAgree
  <2> QED
    BY <2>2, <2>3, <2>4
<1> QED
  BY <1>1, DeliveryInit, DeliveryStep, PTL DEF Delivery!Spec

\* No account that redeem_card may pick is refused by assert_no_delivery_duplicate:
\* whatever was recorded of an account is recorded of the card that still has it.
THEOREM StockIsDeliverableCorrect ==
  ASSUME Delivery!StockAssumption, Delivery!OneWriter
  PROVE  Delivery!Spec => []Delivery!StockIsDeliverable
<1>1. DeliveryInv => Delivery!StockIsDeliverable
  <2> SUFFICES ASSUME DeliveryInv, NEW c \in Delivery!Unused, NEW a \in Delivery!Candidates
               PROVE  ~Delivery!Duplicate(c, a)
    BY DEF Delivery!StockIsDeliverable
  <2>1. a \in Stock /\ ~account[a].used /\ \A d \in Codes : card[d].account # a
    BY DEF Delivery!Candidates, Delivery!Assigned, Delivery!StockAssumption
  <2>2. \A e \in events : e.account # a
    BY <2>1 DEF DeliveryInv, Delivery!TypeOK, Recorded, Delivery!EventRecords
  <2> QED
    BY <2>1, <2>2 DEF Delivery!Duplicate
<1> QED
  BY <1>1, DeliveryInit, DeliveryStep, PTL DEF Delivery!Spec

-----------------------------------------------------------------------------
(* Payment orders.                                                         *)

LEMMA OrderCounts ==
  /\ \A S : Orders!Cardinality(S) = Cardinality(S)
  /\ \A S : Orders!IsFiniteSet(S) = IsFiniteSet(S)
BY DEF Orders!Cardinality, Cardinality, Orders!IsFiniteSet, IsFiniteSet

\* An account is in one place: it waits, is in hand, or has an order under way; and
\* while it is in one of them its order has not been reported as ended.
InOnePlace ==
    /\ \A a \in Payers :
          /\ a \in unsent => openOrders[a] = Orders!Nobody /\ inHand.account # a
          /\ a \in unsent \/ openOrders[a] # Orders!Nobody \/ inHand.account = a =>
                orderResult[a] \notin Orders!Ends
    /\ orderPhase \in {"sending", "answering"} => openOrders[inHand.account] = Orders!Nobody
    /\ orderPhase = "pausing" => openOrders[inHand.account] # Orders!Nobody

\* Nothing was sent for who waits or is about to be sent for, and nothing was sent twice.
SentOnce ==
    \A a \in Payers :
       /\ a \in unsent \/ (orderPhase = "sending" /\ inHand.account = a) =>
             upstream[a].times = 0 /\ upstream[a].state = "none"
       /\ upstream[a].times <= 1

\* Whatever names an order names one that the service has.
OrdersKnown ==
    /\ \A a \in Payers : openOrders[a] # Orders!Nobody => upstream[a].state # "none"
    /\ inHand.ok => orderPhase # "sending" /\ upstream[inHand.account].state # "none"
    /\ \A c \in PayCards : cardRow[c].order # Orders!Nobody =>
          upstream[cardRow[c].order].state # "none" /\ cardRow[c].status # "available"
    /\ inFlight # Orders!Resting => upstream[inFlight.order].state # "none"

\* Paid accounts and orders under way fit the target, and while an account is in hand
\* they leave room for it.
WindowKept ==
    Target > 0 =>
       /\ Orders!Cardinality(Orders!Paid) + Orders!Cardinality(Orders!Active) <= Target
       /\ orderPhase \in {"sending", "answering"} =>
             Orders!Cardinality(Orders!Paid) + Orders!Cardinality(Orders!Active) < Target

\* Without a stop for failures, who has no result is still somewhere.
Accounted ==
    /\ FailureContinue => \A a \in Payers : orderResult[a] = "none" =>
          a \in unsent \/ openOrders[a] # Orders!Nobody \/ inHand.account = a
    /\ orderPhase \in {"ended", "over"} =>
          unsent = {} /\ \A a \in Payers : openOrders[a] = Orders!Nobody

\* A result that is an end is the end of the account's own order.
ResultsOwn ==
    \A a \in Payers : orderResult[a] \in Orders!Ends => orderResult[a] = upstream[a].state

\* Until the operator asks for something, the poller rests and copies are the runner's.
CopiesOwn ==
    orderRequests = 0 =>
       /\ polled = {} /\ inFlight = Orders!Resting
       /\ \A a \in Payers :
             /\ copy[a].order \in {a, Orders!Nobody}
             /\ copy[a].status = "paid" => orderResult[a] = "paid"
             /\ orderPhase \in {"over", "stopped"} => copy[a].status # "open"

OrdersInv ==
    /\ Orders!TypeOK
    /\ InOnePlace
    /\ SentOnce
    /\ OrdersKnown
    /\ WindowKept
    /\ Accounted
    /\ ResultsOwn
    /\ CopiesOwn

\* With no account joining the paid ones or the orders under way, the window is kept.
LEMMA WindowShrinks ==
  ASSUME Orders!OrderAssumption, Orders!TypeOK, WindowKept,
         \A a \in Payers : orderResult'[a] = "paid" => orderResult[a] = "paid",
         \A a \in Payers : openOrders'[a] # Orders!Nobody => openOrders[a] # Orders!Nobody,
         orderPhase' \in {"sending", "answering"} => orderPhase \in {"sending", "answering"}
  PROVE  WindowKept'
<1> DEFINE P == {a \in Payers : orderResult[a] = "paid"}
           O == {a \in Payers : openOrders[a] # Orders!Nobody}
           P2 == {a \in Payers : orderResult'[a] = "paid"}
           O2 == {a \in Payers : openOrders'[a] # Orders!Nobody}
<1>1. /\ P \subseteq Payers /\ O \subseteq Payers /\ P2 \subseteq P /\ O2 \subseteq O
      /\ IsFiniteSet(Payers)
  BY OrderCounts DEF Orders!OrderAssumption
<1>2. /\ Cardinality(P) \in Nat /\ Cardinality(O) \in Nat
      /\ Cardinality(P2) \in Nat /\ Cardinality(O2) \in Nat
      /\ Cardinality(P2) <= Cardinality(P) /\ Cardinality(O2) <= Cardinality(O)
  <2>1. IsFiniteSet(P) /\ IsFiniteSet(O)
    BY <1>1, FS_Subset
  <2>2. /\ IsFiniteSet(P2) /\ IsFiniteSet(O2)
        /\ Cardinality(P2) <= Cardinality(P) /\ Cardinality(O2) <= Cardinality(O)
    BY <1>1, <2>1, FS_Subset
  <2> QED
    BY <2>1, <2>2, FS_CardinalityType
<1>3. Target > 0 =>
         /\ Cardinality(P) + Cardinality(O) <= Target
         /\ orderPhase \in {"sending", "answering"} => Cardinality(P) + Cardinality(O) < Target
  BY OrderCounts DEF WindowKept, Orders!Paid, Orders!Active
<1>4. Target \in Nat
  BY DEF Orders!OrderAssumption
<1> HIDE DEF P, O
<1>5. Target > 0 =>
         /\ Cardinality(P2) + Cardinality(O2) <= Target
         /\ orderPhase' \in {"sending", "answering"} => Cardinality(P2) + Cardinality(O2) < Target
  <2> HIDE DEF P2, O2
  <2> QED
    BY <1>2, <1>3, <1>4
<1> QED
  BY <1>5, OrderCounts DEF WindowKept, Orders!Paid, Orders!Active

\* What is written to a card's row and to an account's copy.
LEMMA RowsTyped ==
  ASSUME Orders!OrderAssumption, NEW r \in Orders!Rows
  PROVE  /\ \A s \in {"available", "open", "disabled"} \cup Orders!Ends :
               /\ [r EXCEPT !.status = s] \in Orders!Rows
               /\ [r EXCEPT !.status = s].status = s
               /\ [r EXCEPT !.status = s].order = r.order
         /\ \A a \in Payers, s \in Orders!Ends : Orders!Ended(r, a, s) \in Orders!Rows
         /\ \A a \in Payers : Orders!Booked(r, a) \in Orders!Rows
         /\ Orders!Cleared(r) \in Orders!Rows
         /\ Orders!Informed(r) \in Orders!Rows
<1>1. Orders!Cleared(r) \in Orders!Rows
  BY DEF Orders!Cleared, Orders!Rows
<1>2. \A a \in Payers : Orders!Booked(r, a) \in Orders!Rows
  BY DEF Orders!Booked, Orders!Rows
<1>3. \A a \in Payers, s \in Orders!Ends : Orders!Ended(r, a, s) \in Orders!Rows
  BY DEF Orders!Ended, Orders!Rows
<1>4. \A s \in {"available", "open", "disabled"} \cup Orders!Ends :
         /\ [r EXCEPT !.status = s] \in Orders!Rows
         /\ [r EXCEPT !.status = s].status = s
         /\ [r EXCEPT !.status = s].order = r.order
  BY DEF Orders!Rows
<1> QED
  BY <1>1, <1>2, <1>3, <1>4 DEF Orders!Informed

LEMMA CopiesTyped ==
  ASSUME Orders!TypeOK, NEW c \in PayCards
  PROVE  /\ \A s \in {"open", "stopped", "disabled"} \cup Orders!Ends, o \in Payers \cup {Orders!Nobody} :
               Orders!Copy(c, s, o) \in Orders!Copies
         /\ \A r \in Orders!Rows : r.status # "available" =>
               Orders!Synced(c, r) \in [Payers -> Orders!Copies]
<1>1. \A s \in {"open", "stopped", "disabled"} \cup Orders!Ends, o \in Payers \cup {Orders!Nobody} :
         Orders!Copy(c, s, o) \in Orders!Copies
  BY DEF Orders!Copy, Orders!Copies
<1>2. ASSUME NEW r \in Orders!Rows, r.status # "available"
      PROVE  Orders!Synced(c, r) \in [Payers -> Orders!Copies]
  <2>1. /\ r.status \in {"open", "stopped", "disabled"} \cup Orders!Ends
        /\ r.order \in Payers \cup {Orders!Nobody} /\ r.account \in Payers \cup {Orders!Nobody}
    BY <1>2 DEF Orders!Rows
  <2>2. copy \in [Payers -> Orders!Copies]
    BY DEF Orders!TypeOK
  <2>3. Orders!Copy(c, r.status, r.order) \in Orders!Copies
    BY <1>1, <2>1
  <2> QED
    BY <2>1, <2>2, <2>3 DEF Orders!Synced
<1> QED
  BY <1>1, <1>2

\* An answer of the service names an end or an open order.
LEMMA StatesTyped ==
  ASSUME OrdersInv, NEW a \in Payers, upstream[a].state # "none"
  PROVE  upstream[a].state \in {"open"} \cup Orders!Ends
  BY DEF OrdersInv, Orders!TypeOK, Orders!OrdersUpstream

LEMMA ArrivesTyped ==
  ASSUME Orders!OrderAssumption, OrdersInv, NEW c \in PayCards, NEW a \in Payers,
         upstream[a].state # "none", Orders!StatusArrives(c, a)
  PROVE  /\ cardRow' \in [PayCards -> Orders!Rows]
         /\ copy' \in [Payers -> Orders!Copies]
<1> DEFINE r == [cardRow[c] EXCEPT !.status = upstream[a].state]
<1>1. upstream[a].state \in {"open"} \cup Orders!Ends
  BY StatesTyped
<1>2. cardRow \in [PayCards -> Orders!Rows] /\ Orders!TypeOK
  BY DEF OrdersInv, Orders!TypeOK
<1>3. r \in Orders!Rows /\ r.status = upstream[a].state
  BY <1>1, <1>2, RowsTyped
<1>4. cardRow' = [cardRow EXCEPT ![c] = r] /\ copy' = Orders!Synced(c, r)
  BY DEF Orders!StatusArrives
<1>5. r.status # "available"
  BY <1>1, <1>3 DEF Orders!Ends
<1> HIDE DEF r
<1> QED
  BY <1>2, <1>3, <1>4, <1>5, CopiesTyped

USE DEF Orders!runner, Orders!poller, Orders!OrderAssumption, Orders!TypeOK, Orders!Idle,
    Orders!Resting, Orders!Ends, Orders!OrdersUpstream, Orders!Rows, Orders!Copies,
    Orders!Nobody, OrdersInv

LEMMA PrecheckKeeps ==
  ASSUME Orders!OrderAssumption, OrdersInv, NEW c \in PayCards, Orders!Precheck(c)
  PROVE  OrdersInv'
<1> USE DEF Orders!Precheck, Orders!Informed, Orders!Cleared
<1>1. Orders!TypeOK'
  <2>1. cardRow' \in [PayCards -> Orders!Rows]
    <3>1. /\ cardRow \in [PayCards -> Orders!Rows] /\ "failed" \in Orders!Ends
          /\ \/ cardRow' = [cardRow EXCEPT ![c] = Orders!Informed(@)]
             \/ cardRow' = [cardRow EXCEPT ![c].status = "failed"]
             \/ cardRow' = cardRow
      OBVIOUS
    <3> HIDE DEF OrdersInv, Orders!TypeOK, Orders!Precheck, Orders!Rows, Orders!Informed,
                 Orders!Ends
    <3> QED
      BY <3>1, RowsTyped
  <2> HIDE DEF Orders!Rows, Orders!Copies, Orders!OrdersUpstream
  <2> QED
    BY <2>1
<1>2. InOnePlace'
  BY DEF InOnePlace
<1>3. SentOnce'
  BY DEF SentOnce, InOnePlace
<1>4. OrdersKnown'
  BY DEF OrdersKnown
<1>5. WindowKept'
  <2>1. /\ \A b \in Payers : orderResult'[b] = "paid" => orderResult[b] = "paid"
        /\ \A b \in Payers : openOrders'[b] # "nobody" => openOrders[b] # "nobody"
        /\ orderPhase' \in {"sending", "answering"} => orderPhase \in {"sending", "answering"}
    OBVIOUS
  <2> QED
    BY <2>1, WindowShrinks
<1>6. Accounted'
  BY DEF Accounted, InOnePlace, Orders!Active
<1>7. ResultsOwn'
  BY DEF ResultsOwn, SentOnce
<1>8. CopiesOwn'
  BY DEF CopiesOwn, InOnePlace
<1> QED
  BY <1>1, <1>2, <1>3, <1>4, <1>5, <1>6, <1>7, <1>8

LEMMA CheckedKeeps ==
  ASSUME Orders!OrderAssumption, OrdersInv, Orders!Checked
  PROVE  OrdersInv'
<1> USE DEF Orders!Checked
<1>1. Orders!TypeOK'
  OBVIOUS
<1>2. InOnePlace'
  BY DEF InOnePlace
<1>3. SentOnce'
  BY DEF SentOnce, InOnePlace
<1>4. OrdersKnown'
  BY DEF OrdersKnown
<1>5. WindowKept'
  <2>1. /\ \A b \in Payers : orderResult'[b] = "paid" => orderResult[b] = "paid"
        /\ \A b \in Payers : openOrders'[b] # "nobody" => openOrders[b] # "nobody"
        /\ orderPhase' \in {"sending", "answering"} => orderPhase \in {"sending", "answering"}
    OBVIOUS
  <2> QED
    BY <2>1, WindowShrinks
<1>6. Accounted'
  BY DEF Accounted, InOnePlace, Orders!Active
<1>7. ResultsOwn'
  BY DEF ResultsOwn, SentOnce
<1>8. CopiesOwn'
  BY DEF CopiesOwn, InOnePlace
<1> QED
  BY <1>1, <1>2, <1>3, <1>4, <1>5, <1>6, <1>7, <1>8

LEMMA TopKeeps ==
  ASSUME Orders!OrderAssumption, OrdersInv, Orders!Top
  PROVE  OrdersInv'
<1> USE DEF Orders!Top, Orders!Told
<1>1. Orders!TypeOK'
  OBVIOUS
<1>2. InOnePlace'
  BY DEF InOnePlace
<1>3. SentOnce'
  BY DEF SentOnce, InOnePlace
<1>4. OrdersKnown'
  BY DEF OrdersKnown
<1>5. WindowKept'
  <2>1. /\ \A b \in Payers : orderResult'[b] = "paid" => orderResult[b] = "paid"
        /\ \A b \in Payers : openOrders'[b] # "nobody" => openOrders[b] # "nobody"
        /\ orderPhase' \in {"sending", "answering"} => orderPhase \in {"sending", "answering"}
    OBVIOUS
  <2> QED
    BY <2>1, WindowShrinks
<1>6. Accounted'
  BY DEF Accounted, InOnePlace, Orders!Active
<1>7. ResultsOwn'
  BY DEF ResultsOwn, SentOnce
<1>8. CopiesOwn'
  BY DEF CopiesOwn, InOnePlace
<1> QED
  BY <1>1, <1>2, <1>3, <1>4, <1>5, <1>6, <1>7, <1>8

LEMMA PicksKeeps ==
  ASSUME Orders!OrderAssumption, OrdersInv, NEW a \in Payers, NEW c \in PayCards, Orders!Picks(a, c)
  PROVE  OrdersInv'
<1> USE DEF Orders!Picks
<1>1. Orders!TypeOK'
  OBVIOUS
<1>2. InOnePlace'
  BY DEF InOnePlace
<1>3. SentOnce'
  BY DEF SentOnce, InOnePlace
<1>4. OrdersKnown'
  BY DEF OrdersKnown
<1>5. WindowKept'
  <2>1. /\ orderResult' = orderResult /\ openOrders' = openOrders
        /\ Target \in Nat /\ IsFiniteSet(Payers)
        /\ Target > 0 => ~(Cardinality(Orders!Active) >= Target - Cardinality(Orders!Paid))
    BY OrderCounts DEF Orders!WindowFull
  <2>2. Cardinality(Orders!Active) \in Nat /\ Cardinality(Orders!Paid) \in Nat
    BY <2>1, FS_Subset, FS_CardinalityType DEF Orders!Active, Orders!Paid
  <2>3. Target > 0 => Cardinality(Orders!Paid) + Cardinality(Orders!Active) < Target
    BY <2>1, <2>2
  <2>4. Target > 0 =>
           /\ Orders!Cardinality(Orders!Paid) + Orders!Cardinality(Orders!Active) <= Target
           /\ Orders!Cardinality(Orders!Paid) + Orders!Cardinality(Orders!Active) < Target
    BY <2>1, <2>2, <2>3, OrderCounts
  <2> HIDE DEF OrdersInv, Orders!Picks
  <2> QED
    BY <2>1, <2>4 DEF WindowKept, Orders!Paid, Orders!Active
<1>6. Accounted'
  BY DEF Accounted, InOnePlace, Orders!Active
<1>7. ResultsOwn'
  BY DEF ResultsOwn, SentOnce
<1>8. CopiesOwn'
  BY DEF CopiesOwn, InOnePlace
<1> QED
  BY <1>1, <1>2, <1>3, <1>4, <1>5, <1>6, <1>7, <1>8

LEMMA NoCardKeeps ==
  ASSUME Orders!OrderAssumption, OrdersInv, Orders!NoCard
  PROVE  OrdersInv'
<1> USE DEF Orders!NoCard, Orders!PassEnds, Orders!GivenUp, Orders!Told
<1>1. Orders!TypeOK'
  <2>1. /\ orderPhase' \in {"submitting", "ended", "waiting"} /\ moved' = FALSE
        /\ inHand' = inHand /\ inHand = Orders!Idle
        /\ unsent' \subseteq Payers
    OBVIOUS
  <2>2. orderResult' \in [Payers -> {"none", "unsubmitted", "timeout"} \cup Orders!Ends]
    OBVIOUS
  <2> HIDE DEF Orders!Rows, Orders!Copies, Orders!OrdersUpstream
  <2> QED
    BY <2>1, <2>2
<1>2. InOnePlace'
  BY DEF InOnePlace
<1>3. SentOnce'
  BY DEF SentOnce, InOnePlace
<1>4. OrdersKnown'
  BY DEF OrdersKnown
<1>5. WindowKept'
  <2>1. /\ \A b \in Payers : orderResult'[b] = "paid" => orderResult[b] = "paid"
        /\ \A b \in Payers : openOrders'[b] # "nobody" => openOrders[b] # "nobody"
        /\ orderPhase' \in {"sending", "answering"} => orderPhase \in {"sending", "answering"}
    OBVIOUS
  <2> QED
    BY <2>1, WindowShrinks
<1>6. Accounted'
  BY DEF Accounted, InOnePlace, Orders!Active
<1>7. ResultsOwn'
  BY DEF ResultsOwn, SentOnce
<1>8. CopiesOwn'
  BY DEF CopiesOwn, InOnePlace
<1> QED
  BY <1>1, <1>2, <1>3, <1>4, <1>5, <1>6, <1>7, <1>8

LEMMA PassOverKeeps ==
  ASSUME Orders!OrderAssumption, OrdersInv, Orders!PassOver
  PROVE  OrdersInv'
<1> USE DEF Orders!PassOver, Orders!PassEnds, Orders!GivenUp, Orders!Told
<1>1. Orders!TypeOK'
  OBVIOUS
<1>2. InOnePlace'
  BY DEF InOnePlace
<1>3. SentOnce'
  BY DEF SentOnce, InOnePlace
<1>4. OrdersKnown'
  BY DEF OrdersKnown
<1>5. WindowKept'
  <2>1. /\ \A b \in Payers : orderResult'[b] = "paid" => orderResult[b] = "paid"
        /\ \A b \in Payers : openOrders'[b] # "nobody" => openOrders[b] # "nobody"
        /\ orderPhase' \in {"sending", "answering"} => orderPhase \in {"sending", "answering"}
    OBVIOUS
  <2> QED
    BY <2>1, WindowShrinks
<1>6. Accounted'
  BY DEF Accounted, InOnePlace, Orders!Active
<1>7. ResultsOwn'
  BY DEF ResultsOwn, SentOnce
<1>8. CopiesOwn'
  BY DEF CopiesOwn, InOnePlace
<1> QED
  BY <1>1, <1>2, <1>3, <1>4, <1>5, <1>6, <1>7, <1>8

LEMMA PutsBackKeeps ==
  ASSUME Orders!OrderAssumption, OrdersInv, Orders!PutsBack
  PROVE  OrdersInv'
<1> USE DEF Orders!PutsBack, Orders!PassEnds, Orders!Told
<1>1. Orders!TypeOK'
  OBVIOUS
<1>2. InOnePlace'
  BY DEF InOnePlace
<1>3. SentOnce'
  BY DEF SentOnce, InOnePlace
<1>4. OrdersKnown'
  BY DEF OrdersKnown
<1>5. WindowKept'
  <2>1. /\ \A b \in Payers : orderResult'[b] = "paid" => orderResult[b] = "paid"
        /\ \A b \in Payers : openOrders'[b] # "nobody" => openOrders[b] # "nobody"
        /\ orderPhase' \in {"sending", "answering"} => orderPhase \in {"sending", "answering"}
    OBVIOUS
  <2> QED
    BY <2>1, WindowShrinks
<1>6. Accounted'
  BY DEF Accounted, InOnePlace, Orders!Active
<1>7. ResultsOwn'
  BY DEF ResultsOwn, SentOnce
<1>8. CopiesOwn'
  BY DEF CopiesOwn, InOnePlace
<1> QED
  BY <1>1, <1>2, <1>3, <1>4, <1>5, <1>6, <1>7, <1>8

LEMMA NoTokenKeeps ==
  ASSUME Orders!OrderAssumption, OrdersInv, Orders!NoToken
  PROVE  OrdersInv'
<1> USE DEF Orders!NoToken, Orders!Told
<1>1. Orders!TypeOK'
  OBVIOUS
<1>2. InOnePlace'
  BY DEF InOnePlace
<1>3. SentOnce'
  BY DEF SentOnce, InOnePlace
<1>4. OrdersKnown'
  BY DEF OrdersKnown
<1>5. WindowKept'
  <2>1. /\ \A b \in Payers : orderResult'[b] = "paid" => orderResult[b] = "paid"
        /\ \A b \in Payers : openOrders'[b] # "nobody" => openOrders[b] # "nobody"
        /\ orderPhase' \in {"sending", "answering"} => orderPhase \in {"sending", "answering"}
    OBVIOUS
  <2> QED
    BY <2>1, WindowShrinks
<1>6. Accounted'
  BY DEF Accounted, InOnePlace, Orders!Active
<1>7. ResultsOwn'
  BY DEF ResultsOwn, SentOnce
<1>8. CopiesOwn'
  BY DEF CopiesOwn, InOnePlace
<1> QED
  BY <1>1, <1>2, <1>3, <1>4, <1>5, <1>6, <1>7, <1>8

LEMMA SendsKeeps ==
  ASSUME Orders!OrderAssumption, OrdersInv, Orders!Sends
  PROVE  OrdersInv'
<1> USE DEF Orders!Sends
<1>1. Orders!TypeOK'
  <2>1. upstream' \in [Payers -> Orders!OrdersUpstream]
    <3>1. /\ upstream \in [Payers -> Orders!OrdersUpstream] /\ inHand.account \in Payers
          /\ upstream[inHand.account].times = 0
          /\ \/ upstream' = upstream
             \/ upstream' = [upstream EXCEPT ![inHand.account] =
                                [state |-> "open", times |-> upstream[inHand.account].times + 1]]
      BY DEF SentOnce
    <3>2. [state |-> "open", times |-> 0 + 1] \in Orders!OrdersUpstream
      OBVIOUS
    <3> HIDE DEF Orders!OrdersUpstream, OrdersInv, Orders!TypeOK, Orders!Sends
    <3> QED
      BY <3>1, <3>2
  <2>2. inHand' \in [account : Payers, card : PayCards, ok : BOOLEAN]
    <3>1. inHand \in [account : Payers, card : PayCards, ok : BOOLEAN]
      OBVIOUS
    <3>2. \E ok \in BOOLEAN : inHand' = [inHand EXCEPT !.ok = ok]
      OBVIOUS
    <3> HIDE DEF OrdersInv, Orders!TypeOK, Orders!Sends
    <3> QED
      BY <3>1, <3>2
  <2>3. inHand' # Orders!Idle /\ orderPhase' = "answering"
    <3>1. inHand'.account \in Payers /\ orderPhase' = "answering"
      BY <2>2
    <3> QED
      BY <3>1
  <2> HIDE DEF Orders!Rows, Orders!Copies, Orders!OrdersUpstream
  <2> QED
    BY <2>1, <2>2, <2>3
<1>2. InOnePlace'
  BY DEF InOnePlace
<1>3. SentOnce'
  BY DEF SentOnce, InOnePlace
<1>4. OrdersKnown'
  BY DEF OrdersKnown
<1>5. WindowKept'
  <2>1. /\ \A b \in Payers : orderResult'[b] = "paid" => orderResult[b] = "paid"
        /\ \A b \in Payers : openOrders'[b] # "nobody" => openOrders[b] # "nobody"
        /\ orderPhase' \in {"sending", "answering"} => orderPhase \in {"sending", "answering"}
    OBVIOUS
  <2> QED
    BY <2>1, WindowShrinks
<1>6. Accounted'
  BY DEF Accounted, InOnePlace, Orders!Active
<1>7. ResultsOwn'
  BY DEF ResultsOwn, SentOnce
<1>8. CopiesOwn'
  BY DEF CopiesOwn, InOnePlace
<1> QED
  BY <1>1, <1>2, <1>3, <1>4, <1>5, <1>6, <1>7, <1>8

LEMMA BooksKeeps ==
  ASSUME Orders!OrderAssumption, OrdersInv, Orders!Books
  PROVE  OrdersInv'
<1> USE DEF Orders!Books, Orders!Booked, Orders!Copy
<1>1. Orders!TypeOK'
  OBVIOUS
<1>2. InOnePlace'
  BY DEF InOnePlace
<1>3. SentOnce'
  BY DEF SentOnce, InOnePlace
<1>4. OrdersKnown'
  BY DEF OrdersKnown
<1>5. WindowKept'
  <2> DEFINE a == inHand.account
             P == {b \in Payers : orderResult[b] = "paid"}
             O == {b \in Payers : openOrders[b] # "nobody"}
             O2 == {b \in Payers : openOrders'[b] # "nobody"}
  <2>1. /\ a \in Payers /\ openOrders' = [openOrders EXCEPT ![a] = inHand.card]
        /\ orderPhase = "answering" /\ orderPhase' = "pausing"
        /\ orderResult' = orderResult /\ openOrders \in [Payers -> PayCards \cup {"nobody"}]
        /\ Target \in Nat /\ IsFiniteSet(Payers)
    BY OrderCounts
  <2>2. Target > 0 => Cardinality(P) + Cardinality(O) < Target
    BY <2>1, OrderCounts DEF WindowKept, Orders!Paid, Orders!Active
  <2> HIDE DEF OrdersInv, Orders!Books, a
  <2>3. O2 \subseteq O \cup {a} /\ P \subseteq Payers /\ O \subseteq Payers
    BY <2>1
  <2> HIDE DEF P, O, O2
  <2>4. /\ Cardinality(P) \in Nat /\ Cardinality(O) \in Nat /\ Cardinality(O2) \in Nat
        /\ Cardinality(O2) <= Cardinality(O) + 1
    <3>1. IsFiniteSet(P) /\ IsFiniteSet(O)
      BY <2>1, <2>3, FS_Subset
    <3>2. /\ IsFiniteSet(O \cup {a})
          /\ Cardinality(O \cup {a}) \in {Cardinality(O), Cardinality(O) + 1}
      BY <3>1, FS_AddElement
    <3>3. IsFiniteSet(O2) /\ Cardinality(O2) <= Cardinality(O \cup {a})
      BY <2>3, <3>2, FS_Subset
    <3>4. Cardinality(P) \in Nat /\ Cardinality(O) \in Nat /\ Cardinality(O2) \in Nat
      BY <3>1, <3>3, FS_CardinalityType
    <3> QED
      BY <3>2, <3>3, <3>4
  <2>5. Target > 0 => Cardinality(P) + Cardinality(O2) <= Target
    BY <2>1, <2>2, <2>4
  <2> QED
    BY <2>1, <2>5, OrderCounts DEF WindowKept, Orders!Paid, Orders!Active, P, O2
<1>6. Accounted'
  BY DEF Accounted, InOnePlace, Orders!Active
<1>7. ResultsOwn'
  BY DEF ResultsOwn, SentOnce
<1>8. CopiesOwn'
  BY DEF CopiesOwn, InOnePlace
<1> QED
  BY <1>1, <1>2, <1>3, <1>4, <1>5, <1>6, <1>7, <1>8

LEMMA PauseEndsKeeps ==
  ASSUME Orders!OrderAssumption, OrdersInv, Orders!PauseEnds
  PROVE  OrdersInv'
<1> USE DEF Orders!PauseEnds
<1>1. Orders!TypeOK'
  OBVIOUS
<1>2. InOnePlace'
  BY DEF InOnePlace
<1>3. SentOnce'
  BY DEF SentOnce, InOnePlace
<1>4. OrdersKnown'
  BY DEF OrdersKnown
<1>5. WindowKept'
  <2>1. /\ \A b \in Payers : orderResult'[b] = "paid" => orderResult[b] = "paid"
        /\ \A b \in Payers : openOrders'[b] # "nobody" => openOrders[b] # "nobody"
        /\ orderPhase' \in {"sending", "answering"} => orderPhase \in {"sending", "answering"}
    OBVIOUS
  <2> QED
    BY <2>1, WindowShrinks
<1>6. Accounted'
  BY DEF Accounted, InOnePlace, Orders!Active
<1>7. ResultsOwn'
  BY DEF ResultsOwn, SentOnce
<1>8. CopiesOwn'
  BY DEF CopiesOwn, InOnePlace
<1> QED
  BY <1>1, <1>2, <1>3, <1>4, <1>5, <1>6, <1>7, <1>8

LEMMA SubmitFailsKeeps ==
  ASSUME Orders!OrderAssumption, OrdersInv, Orders!SubmitFails
  PROVE  OrdersInv'
<1> USE DEF Orders!SubmitFails, Orders!Told, Orders!Requeued, Orders!Halted
<1>1. Orders!TypeOK'
  OBVIOUS
<1>2. InOnePlace'
  BY DEF InOnePlace
<1>3. SentOnce'
  BY DEF SentOnce, InOnePlace
<1>4. OrdersKnown'
  BY DEF OrdersKnown
<1>5. WindowKept'
  <2>1. /\ \A b \in Payers : orderResult'[b] = "paid" => orderResult[b] = "paid"
        /\ \A b \in Payers : openOrders'[b] # "nobody" => openOrders[b] # "nobody"
        /\ orderPhase' \in {"sending", "answering"} => orderPhase \in {"sending", "answering"}
    OBVIOUS
  <2> QED
    BY <2>1, WindowShrinks
<1>6. Accounted'
  BY DEF Accounted, InOnePlace, Orders!Active
<1>7. ResultsOwn'
  BY DEF ResultsOwn, SentOnce
<1>8. CopiesOwn'
  BY DEF CopiesOwn, InOnePlace
<1> QED
  BY <1>1, <1>2, <1>3, <1>4, <1>5, <1>6, <1>7, <1>8

LEMMA WakesKeeps ==
  ASSUME Orders!OrderAssumption, OrdersInv, Orders!Wakes
  PROVE  OrdersInv'
<1> USE DEF Orders!Wakes
<1>1. Orders!TypeOK'
  <2>1. unasked' \subseteq {a \in Payers : openOrders'[a] # Orders!Nobody}
    BY DEF Orders!Active
  <2> HIDE DEF Orders!Rows, Orders!Copies, Orders!OrdersUpstream
  <2> QED
    BY <2>1
<1>2. InOnePlace'
  BY DEF InOnePlace
<1>3. SentOnce'
  BY DEF SentOnce, InOnePlace
<1>4. OrdersKnown'
  BY DEF OrdersKnown
<1>5. WindowKept'
  <2>1. /\ \A b \in Payers : orderResult'[b] = "paid" => orderResult[b] = "paid"
        /\ \A b \in Payers : openOrders'[b] # "nobody" => openOrders[b] # "nobody"
        /\ orderPhase' \in {"sending", "answering"} => orderPhase \in {"sending", "answering"}
    OBVIOUS
  <2> QED
    BY <2>1, WindowShrinks
<1>6. Accounted'
  BY DEF Accounted, InOnePlace, Orders!Active
<1>7. ResultsOwn'
  BY DEF ResultsOwn, SentOnce
<1>8. CopiesOwn'
  BY DEF CopiesOwn, InOnePlace
<1> QED
  BY <1>1, <1>2, <1>3, <1>4, <1>5, <1>6, <1>7, <1>8

LEMMA OrderPaidKeeps ==
  ASSUME Orders!OrderAssumption, OrdersInv, NEW a \in Payers, Orders!OrderPaid(a)
  PROVE  OrdersInv'
<1> USE DEF Orders!OrderPaid, Orders!Told, Orders!Asked, Orders!Ended, Orders!PaidCopy, Orders!Copy, Orders!Leaves
<1>1. Orders!TypeOK'
  <2>1. cardRow' \in [PayCards -> Orders!Rows]
    <3>1. /\ cardRow \in [PayCards -> Orders!Rows] /\ openOrders[a] \in PayCards
          /\ cardRow' = [cardRow EXCEPT ![openOrders[a]] = Orders!Ended(@, a, "paid")]
          /\ "paid" \in Orders!Ends
      OBVIOUS
    <3> HIDE DEF OrdersInv, Orders!TypeOK, Orders!OrderPaid, Orders!Rows, Orders!Ended, Orders!Ends
    <3> QED
      BY <3>1, RowsTyped
  <2>2. copy' \in [Payers -> Orders!Copies]
    <3>1. /\ copy \in [Payers -> Orders!Copies] /\ openOrders[a] \in PayCards
          /\ copy' \in {copy, [copy EXCEPT ![a] = Orders!Copy(openOrders[a], "paid", a)]}
          /\ "paid" \in Orders!Ends /\ Orders!TypeOK
      OBVIOUS
    <3> HIDE DEF OrdersInv, Orders!TypeOK, Orders!OrderPaid, Orders!Copies, Orders!Copy, Orders!Ends
    <3> QED
      BY <3>1, CopiesTyped
  <2>3. /\ openOrders' \in [Payers -> PayCards \cup {Orders!Nobody}]
        /\ unasked' \subseteq {b \in Payers : openOrders'[b] # Orders!Nobody}
        /\ orderResult' \in [Payers -> {"none", "unsubmitted", "timeout"} \cup Orders!Ends]
        /\ unsent' \subseteq Payers
    OBVIOUS
  <2> HIDE DEF Orders!Rows, Orders!Copies, Orders!OrdersUpstream
  <2> QED
    BY <2>1, <2>2, <2>3
<1>2. InOnePlace'
  BY DEF InOnePlace
<1>3. SentOnce'
  BY DEF SentOnce, InOnePlace
<1>4. OrdersKnown'
  BY DEF OrdersKnown
<1>5. WindowKept'
  <2> DEFINE P == {b \in Payers : orderResult[b] = "paid"}
             O == {b \in Payers : openOrders[b] # "nobody"}
             P2 == {b \in Payers : orderResult'[b] = "paid"}
             O2 == {b \in Payers : openOrders'[b] # "nobody"}
  <2>1. /\ openOrders[a] # "nobody" /\ openOrders'[a] = "nobody" /\ orderResult[a] # "paid"
        /\ \A b \in Payers : b # a => openOrders'[b] = openOrders[b]
        /\ \A b \in Payers : b # a => orderResult'[b] = orderResult[b]
        /\ orderPhase' \notin {"sending", "answering"}
        /\ Target \in Nat /\ IsFiniteSet(Payers)
    BY OrderCounts DEF InOnePlace
  <2>2. Target > 0 => Cardinality(P) + Cardinality(O) <= Target
    BY <2>1, OrderCounts DEF WindowKept, Orders!Paid, Orders!Active
  <2> HIDE DEF OrdersInv, Orders!OrderPaid
  <2>3. /\ P2 \subseteq P \cup {a} /\ O2 = O \ {a} /\ a \in O
        /\ P \subseteq Payers /\ O \subseteq Payers
    BY <2>1
  <2> HIDE DEF P, O, P2, O2
  <2>4. /\ Cardinality(P) \in Nat /\ Cardinality(O) \in Nat
        /\ Cardinality(P2) \in Nat /\ Cardinality(P2) <= Cardinality(P) + 1
        /\ Cardinality(O2) = Cardinality(O) - 1
    <3>1. IsFiniteSet(P) /\ IsFiniteSet(O)
      BY <2>1, <2>3, FS_Subset
    <3>2. /\ IsFiniteSet(P \cup {a})
          /\ Cardinality(P \cup {a}) \in {Cardinality(P), Cardinality(P) + 1}
      BY <3>1, FS_AddElement
    <3>3. IsFiniteSet(P2) /\ Cardinality(P2) <= Cardinality(P \cup {a})
      BY <2>3, <3>2, FS_Subset
    <3>4. Cardinality(P) \in Nat /\ Cardinality(O) \in Nat /\ Cardinality(P2) \in Nat
      BY <3>1, <3>3, FS_CardinalityType
    <3>5. Cardinality(O \ {a}) = Cardinality(O) - 1
      BY <2>3, <3>1, FS_RemoveElement
    <3> QED
      BY <2>3, <3>2, <3>3, <3>4, <3>5
  <2>5. Target > 0 => Cardinality(P2) + Cardinality(O2) <= Target
    BY <2>1, <2>2, <2>4
  <2> QED
    BY <2>1, <2>5, OrderCounts DEF WindowKept, Orders!Paid, Orders!Active, P2, O2
<1>6. Accounted'
  BY DEF Accounted, InOnePlace, Orders!Active
<1>7. ResultsOwn'
  BY DEF ResultsOwn, SentOnce
<1>8. CopiesOwn'
  BY DEF CopiesOwn, InOnePlace
<1> QED
  BY <1>1, <1>2, <1>3, <1>4, <1>5, <1>6, <1>7, <1>8

LEMMA OrderFailedKeeps ==
  ASSUME Orders!OrderAssumption, OrdersInv, NEW a \in Payers, Orders!OrderFailed(a)
  PROVE  OrdersInv'
<1> USE DEF Orders!OrderFailed, Orders!Told, Orders!Asked, Orders!Ended, Orders!Copy, Orders!Leaves
<1>1. Orders!TypeOK'
  <2>1. cardRow' \in [PayCards -> Orders!Rows]
    <3>1. /\ cardRow \in [PayCards -> Orders!Rows] /\ openOrders[a] \in PayCards
          /\ cardRow' = [cardRow EXCEPT ![openOrders[a]] = Orders!Ended(@, a, "failed")]
          /\ "failed" \in Orders!Ends
      OBVIOUS
    <3> HIDE DEF OrdersInv, Orders!TypeOK, Orders!OrderFailed, Orders!Rows, Orders!Ended, Orders!Ends
    <3> QED
      BY <3>1, RowsTyped
  <2>2. copy' \in [Payers -> Orders!Copies]
    <3>1. /\ copy \in [Payers -> Orders!Copies] /\ openOrders[a] \in PayCards
          /\ copy' \in {copy, [copy EXCEPT ![a] = Orders!Copy(openOrders[a], "failed", a)]}
          /\ "failed" \in Orders!Ends /\ Orders!TypeOK
      OBVIOUS
    <3> HIDE DEF OrdersInv, Orders!TypeOK, Orders!OrderFailed, Orders!Copies, Orders!Copy, Orders!Ends
    <3> QED
      BY <3>1, CopiesTyped
  <2>3. /\ openOrders' \in [Payers -> PayCards \cup {Orders!Nobody}]
        /\ unasked' \subseteq {b \in Payers : openOrders'[b] # Orders!Nobody}
        /\ orderResult' \in [Payers -> {"none", "unsubmitted", "timeout"} \cup Orders!Ends]
        /\ unsent' \subseteq Payers
    OBVIOUS
  <2> HIDE DEF Orders!Rows, Orders!Copies, Orders!OrdersUpstream
  <2> QED
    BY <2>1, <2>2, <2>3
<1>2. InOnePlace'
  BY DEF InOnePlace
<1>3. SentOnce'
  BY DEF SentOnce, InOnePlace
<1>4. OrdersKnown'
  BY DEF OrdersKnown
<1>5. WindowKept'
  <2>1. /\ \A b \in Payers : orderResult'[b] = "paid" => orderResult[b] = "paid"
        /\ \A b \in Payers : openOrders'[b] # "nobody" => openOrders[b] # "nobody"
        /\ orderPhase' \in {"sending", "answering"} => orderPhase \in {"sending", "answering"}
    OBVIOUS
  <2> QED
    BY <2>1, WindowShrinks
<1>6. Accounted'
  BY DEF Accounted, InOnePlace, Orders!Active
<1>7. ResultsOwn'
  BY DEF ResultsOwn, SentOnce
<1>8. CopiesOwn'
  BY DEF CopiesOwn, InOnePlace
<1> QED
  BY <1>1, <1>2, <1>3, <1>4, <1>5, <1>6, <1>7, <1>8

LEMMA OrderTimesOutKeeps ==
  ASSUME Orders!OrderAssumption, OrdersInv, NEW a \in Payers, Orders!OrderTimesOut(a)
  PROVE  OrdersInv'
<1> USE DEF Orders!OrderTimesOut, Orders!Told, Orders!Leaves
<1>1. Orders!TypeOK'
  OBVIOUS
<1>2. InOnePlace'
  BY DEF InOnePlace
<1>3. SentOnce'
  BY DEF SentOnce, InOnePlace
<1>4. OrdersKnown'
  BY DEF OrdersKnown
<1>5. WindowKept'
  <2>1. /\ \A b \in Payers : orderResult'[b] = "paid" => orderResult[b] = "paid"
        /\ \A b \in Payers : openOrders'[b] # "nobody" => openOrders[b] # "nobody"
        /\ orderPhase' \in {"sending", "answering"} => orderPhase \in {"sending", "answering"}
    OBVIOUS
  <2> QED
    BY <2>1, WindowShrinks
<1>6. Accounted'
  BY DEF Accounted, InOnePlace, Orders!Active
<1>7. ResultsOwn'
  BY DEF ResultsOwn, SentOnce
<1>8. CopiesOwn'
  BY DEF CopiesOwn, InOnePlace
<1> QED
  BY <1>1, <1>2, <1>3, <1>4, <1>5, <1>6, <1>7, <1>8

LEMMA StillOpenKeeps ==
  ASSUME Orders!OrderAssumption, OrdersInv, NEW a \in Payers, Orders!StillOpen(a)
  PROVE  OrdersInv'
<1> USE DEF Orders!StillOpen
<1>1. Orders!TypeOK'
  OBVIOUS
<1>2. InOnePlace'
  BY DEF InOnePlace
<1>3. SentOnce'
  BY DEF SentOnce, InOnePlace
<1>4. OrdersKnown'
  BY DEF OrdersKnown
<1>5. WindowKept'
  <2>1. /\ \A b \in Payers : orderResult'[b] = "paid" => orderResult[b] = "paid"
        /\ \A b \in Payers : openOrders'[b] # "nobody" => openOrders[b] # "nobody"
        /\ orderPhase' \in {"sending", "answering"} => orderPhase \in {"sending", "answering"}
    OBVIOUS
  <2> QED
    BY <2>1, WindowShrinks
<1>6. Accounted'
  BY DEF Accounted, InOnePlace, Orders!Active
<1>7. ResultsOwn'
  BY DEF ResultsOwn, SentOnce
<1>8. CopiesOwn'
  BY DEF CopiesOwn, InOnePlace
<1> QED
  BY <1>1, <1>2, <1>3, <1>4, <1>5, <1>6, <1>7, <1>8

LEMMA RoundOverKeeps ==
  ASSUME Orders!OrderAssumption, OrdersInv, Orders!RoundOver
  PROVE  OrdersInv'
<1> USE DEF Orders!RoundOver
<1>1. Orders!TypeOK'
  OBVIOUS
<1>2. InOnePlace'
  BY DEF InOnePlace
<1>3. SentOnce'
  BY DEF SentOnce, InOnePlace
<1>4. OrdersKnown'
  BY DEF OrdersKnown
<1>5. WindowKept'
  <2>1. /\ \A b \in Payers : orderResult'[b] = "paid" => orderResult[b] = "paid"
        /\ \A b \in Payers : openOrders'[b] # "nobody" => openOrders[b] # "nobody"
        /\ orderPhase' \in {"sending", "answering"} => orderPhase \in {"sending", "answering"}
    OBVIOUS
  <2> QED
    BY <2>1, WindowShrinks
<1>6. Accounted'
  BY DEF Accounted, InOnePlace, Orders!Active
<1>7. ResultsOwn'
  BY DEF ResultsOwn, SentOnce
<1>8. CopiesOwn'
  BY DEF CopiesOwn, InOnePlace
<1> QED
  BY <1>1, <1>2, <1>3, <1>4, <1>5, <1>6, <1>7, <1>8

LEMMA InterruptedKeeps ==
  ASSUME Orders!OrderAssumption, OrdersInv, Orders!Interrupted
  PROVE  OrdersInv'
<1> USE DEF Orders!Interrupted, Orders!Halted
<1>1. Orders!TypeOK'
  OBVIOUS
<1>2. InOnePlace'
  BY DEF InOnePlace
<1>3. SentOnce'
  BY DEF SentOnce, InOnePlace
<1>4. OrdersKnown'
  BY DEF OrdersKnown
<1>5. WindowKept'
  <2>1. /\ \A b \in Payers : orderResult'[b] = "paid" => orderResult[b] = "paid"
        /\ \A b \in Payers : openOrders'[b] # "nobody" => openOrders[b] # "nobody"
        /\ orderPhase' \in {"sending", "answering"} => orderPhase \in {"sending", "answering"}
    OBVIOUS
  <2> QED
    BY <2>1, WindowShrinks
<1>6. Accounted'
  BY DEF Accounted, InOnePlace, Orders!Active
<1>7. ResultsOwn'
  BY DEF ResultsOwn, SentOnce
<1>8. CopiesOwn'
  BY DEF CopiesOwn, InOnePlace
<1> QED
  BY <1>1, <1>2, <1>3, <1>4, <1>5, <1>6, <1>7, <1>8

LEMMA ClosesKeeps ==
  ASSUME Orders!OrderAssumption, OrdersInv, Orders!Closes
  PROVE  OrdersInv'
<1> USE DEF Orders!Closes, Orders!Stopped
<1>1. Orders!TypeOK'
  <2>1. copy' \in [Payers -> Orders!Copies]
    <3>1. /\ copy \in [Payers -> Orders!Copies]
          /\ copy' = [b \in Payers |-> Orders!Stopped(copy[b])]
      OBVIOUS
    <3> HIDE DEF OrdersInv, Orders!TypeOK, Orders!Closes
    <3>2. \A b \in Payers : Orders!Stopped(copy[b]) \in Orders!Copies
      BY <3>1
    <3> HIDE DEF Orders!Copies, Orders!Stopped
    <3> QED
      BY <3>1, <3>2
  <2>2. /\ polled' \subseteq PayCards /\ orderPhase' \in {"over", "stopped"}
        /\ inHand = Orders!Idle
    OBVIOUS
  <2> HIDE DEF Orders!Rows, Orders!Copies, Orders!OrdersUpstream
  <2> QED
    BY <2>1, <2>2
<1>2. InOnePlace'
  BY DEF InOnePlace
<1>3. SentOnce'
  BY DEF SentOnce, InOnePlace
<1>4. OrdersKnown'
  BY DEF OrdersKnown
<1>5. WindowKept'
  <2>1. /\ \A b \in Payers : orderResult'[b] = "paid" => orderResult[b] = "paid"
        /\ \A b \in Payers : openOrders'[b] # "nobody" => openOrders[b] # "nobody"
        /\ orderPhase' \in {"sending", "answering"} => orderPhase \in {"sending", "answering"}
    OBVIOUS
  <2> QED
    BY <2>1, WindowShrinks
<1>6. Accounted'
  BY DEF Accounted, InOnePlace, Orders!Active
<1>7. ResultsOwn'
  BY DEF ResultsOwn, SentOnce
<1>8. CopiesOwn'
  <2>1. /\ copy \in [Payers -> Orders!Copies] /\ CopiesOwn
        /\ copy' = [b \in Payers |-> Orders!Stopped(copy[b])]
        /\ polled' \subseteq polled
        /\ UNCHANGED <<orderResult, inFlight, orderRequests>>
    OBVIOUS
  <2> HIDE DEF OrdersInv, Orders!TypeOK, Orders!Closes
  <2>2. \A b \in Payers : /\ copy'[b].order = copy[b].order
                          /\ copy'[b].status # "open"
                          /\ copy'[b].status = "paid" => copy[b].status = "paid"
    BY <2>1
  <2> HIDE DEF Orders!Copies, Orders!Stopped
  <2> QED
    BY <2>1, <2>2 DEF CopiesOwn
<1> QED
  BY <1>1, <1>2, <1>3, <1>4, <1>5, <1>6, <1>7, <1>8

LEMMA SettlesKeeps ==
  ASSUME Orders!OrderAssumption, OrdersInv, NEW a \in Payers, Orders!Settles(a)
  PROVE  OrdersInv'
<1> USE DEF Orders!Settles
<1>1. Orders!TypeOK'
  <2>1. upstream' \in [Payers -> Orders!OrdersUpstream]
    <3>1. /\ upstream \in [Payers -> Orders!OrdersUpstream]
          /\ \E end \in {"paid", "failed"} : upstream' = [upstream EXCEPT ![a].state = end]
      OBVIOUS
    <3> HIDE DEF OrdersInv, Orders!TypeOK, Orders!Settles
    <3>2. \A end \in {"paid", "failed"} :
             [upstream[a] EXCEPT !.state = end] \in Orders!OrdersUpstream
      BY <3>1
    <3> HIDE DEF Orders!OrdersUpstream
    <3> QED
      BY <3>1, <3>2
  <2> HIDE DEF Orders!Rows, Orders!Copies, Orders!OrdersUpstream
  <2> QED
    BY <2>1
<1>2. InOnePlace'
  BY DEF InOnePlace
<1>3. SentOnce'
  BY DEF SentOnce, InOnePlace
<1>4. OrdersKnown'
  BY DEF OrdersKnown
<1>5. WindowKept'
  <2>1. /\ \A b \in Payers : orderResult'[b] = "paid" => orderResult[b] = "paid"
        /\ \A b \in Payers : openOrders'[b] # "nobody" => openOrders[b] # "nobody"
        /\ orderPhase' \in {"sending", "answering"} => orderPhase \in {"sending", "answering"}
    OBVIOUS
  <2> QED
    BY <2>1, WindowShrinks
<1>6. Accounted'
  BY DEF Accounted, InOnePlace, Orders!Active
<1>7. ResultsOwn'
  BY DEF ResultsOwn, SentOnce
<1>8. CopiesOwn'
  BY DEF CopiesOwn, InOnePlace
<1> QED
  BY <1>1, <1>2, <1>3, <1>4, <1>5, <1>6, <1>7, <1>8

LEMMA RunnerStopKeeps ==
  ASSUME Orders!OrderAssumption, OrdersInv, NEW mode \in {"after_current", "immediate"}, Orders!RequestStop(mode)
  PROVE  OrdersInv'
<1> USE DEF Orders!RequestStop
<1>1. Orders!TypeOK'
  OBVIOUS
<1>2. InOnePlace'
  BY DEF InOnePlace
<1>3. SentOnce'
  BY DEF SentOnce, InOnePlace
<1>4. OrdersKnown'
  BY DEF OrdersKnown
<1>5. WindowKept'
  BY DEF WindowKept, Orders!Paid, Orders!Active
<1>6. Accounted'
  BY DEF Accounted, InOnePlace, Orders!Active
<1>7. ResultsOwn'
  BY DEF ResultsOwn, SentOnce
<1>8. CopiesOwn'
  BY DEF CopiesOwn, InOnePlace
<1> QED
  BY <1>1, <1>2, <1>3, <1>4, <1>5, <1>6, <1>7, <1>8

LEMMA RequestSkipKeeps ==
  ASSUME Orders!OrderAssumption, OrdersInv, Orders!RequestSkip
  PROVE  OrdersInv'
<1> USE DEF Orders!RequestSkip
<1>1. Orders!TypeOK'
  OBVIOUS
<1>2. InOnePlace'
  BY DEF InOnePlace
<1>3. SentOnce'
  BY DEF SentOnce, InOnePlace
<1>4. OrdersKnown'
  BY DEF OrdersKnown
<1>5. WindowKept'
  BY DEF WindowKept, Orders!Paid, Orders!Active
<1>6. Accounted'
  BY DEF Accounted, InOnePlace, Orders!Active
<1>7. ResultsOwn'
  BY DEF ResultsOwn, SentOnce
<1>8. CopiesOwn'
  BY DEF CopiesOwn, InOnePlace
<1> QED
  BY <1>1, <1>2, <1>3, <1>4, <1>5, <1>6, <1>7, <1>8

LEMMA CardSetKeeps ==
  ASSUME Orders!OrderAssumption, OrdersInv, NEW c \in PayCards, NEW s \in {"available", "disabled", "failed"}, Orders!SetStatus(c, s)
  PROVE  OrdersInv'
<1> USE DEF Orders!SetStatus, Orders!Requests, Orders!Cleared
<1>1. Orders!TypeOK'
  <2>1. cardRow' \in [PayCards -> Orders!Rows]
    <3>1. /\ cardRow \in [PayCards -> Orders!Rows]
          /\ cardRow' = [cardRow EXCEPT ![c] = IF s = "available" THEN Orders!Cleared(@)
                                             ELSE [@ EXCEPT !.status = s]]
          /\ s \in {"available", "open", "disabled"} \cup Orders!Ends
      OBVIOUS
    <3> HIDE DEF OrdersInv, Orders!TypeOK, Orders!SetStatus, Orders!Rows, Orders!Cleared, Orders!Ends
    <3>2. /\ Orders!Cleared(cardRow[c]) \in Orders!Rows
          /\ [cardRow[c] EXCEPT !.status = s] \in Orders!Rows
      BY <3>1, RowsTyped
    <3> QED
      BY <3>1, <3>2
  <2>2. orderRequests' \in 0..MaxOrderRequests
    OBVIOUS
  <2> HIDE DEF Orders!Rows, Orders!Copies, Orders!OrdersUpstream
  <2> QED
    BY <2>1, <2>2
<1>2. InOnePlace'
  BY DEF InOnePlace
<1>3. SentOnce'
  BY DEF SentOnce, InOnePlace
<1>4. OrdersKnown'
  BY DEF OrdersKnown
<1>5. WindowKept'
  BY DEF WindowKept, Orders!Paid, Orders!Active
<1>6. Accounted'
  BY DEF Accounted, InOnePlace, Orders!Active
<1>7. ResultsOwn'
  BY DEF ResultsOwn, SentOnce
<1>8. CopiesOwn'
  BY DEF CopiesOwn, InOnePlace
<1> QED
  BY <1>1, <1>2, <1>3, <1>4, <1>5, <1>6, <1>7, <1>8

LEMMA QueryStatusKeeps ==
  ASSUME Orders!OrderAssumption, OrdersInv, NEW c \in PayCards, Orders!QueryStatus(c)
  PROVE  OrdersInv'
<1> USE DEF Orders!QueryStatus, Orders!Requests, Orders!StatusArrives, Orders!Synced, Orders!Copy
<1>1. Orders!TypeOK'
  <2>1. /\ cardRow' \in [PayCards -> Orders!Rows]
        /\ copy' \in [Payers -> Orders!Copies]
    <3>1. /\ cardRow[c].order \in Payers /\ c \in PayCards /\ upstream[cardRow[c].order].state # "none"
          /\ Orders!StatusArrives(c, cardRow[c].order)
      BY DEF OrdersKnown
    <3> HIDE DEF OrdersInv, Orders!StatusArrives
    <3> QED
      BY <3>1, ArrivesTyped
  <2>2. orderRequests' \in 0..MaxOrderRequests
    OBVIOUS
  <2> HIDE DEF Orders!Rows, Orders!Copies, Orders!OrdersUpstream
  <2> QED
    BY <2>1, <2>2
<1>2. InOnePlace'
  BY DEF InOnePlace
<1>3. SentOnce'
  BY DEF SentOnce, InOnePlace
<1>4. OrdersKnown'
  BY DEF OrdersKnown
<1>5. WindowKept'
  BY DEF WindowKept, Orders!Paid, Orders!Active
<1>6. Accounted'
  BY DEF Accounted, InOnePlace, Orders!Active
<1>7. ResultsOwn'
  BY DEF ResultsOwn, SentOnce
<1>8. CopiesOwn'
  BY DEF CopiesOwn, InOnePlace
<1> QED
  BY <1>1, <1>2, <1>3, <1>4, <1>5, <1>6, <1>7, <1>8

LEMMA StartPollKeeps ==
  ASSUME Orders!OrderAssumption, OrdersInv, NEW c \in PayCards, Orders!StartPoll(c)
  PROVE  OrdersInv'
<1> USE DEF Orders!StartPoll, Orders!Requests, Orders!Synced, Orders!Copy
<1>1. Orders!TypeOK'
  <2>1. copy' \in [Payers -> Orders!Copies]
    <3>1. /\ cardRow[c] \in Orders!Rows
          /\ cardRow[c].status # "available" \/ copy' = copy
          /\ copy' \in {copy, Orders!Synced(c, cardRow[c])} /\ Orders!TypeOK
          /\ copy \in [Payers -> Orders!Copies]
      BY DEF OrdersKnown
    <3> HIDE DEF OrdersInv, Orders!TypeOK, Orders!StartPoll, Orders!Synced, Orders!Rows, Orders!Copies
    <3> QED
      BY <3>1, CopiesTyped
  <2>2. polled' \subseteq PayCards /\ orderRequests' \in 0..MaxOrderRequests
    OBVIOUS
  <2> HIDE DEF Orders!Rows, Orders!Copies, Orders!OrdersUpstream
  <2> QED
    BY <2>1, <2>2
<1>2. InOnePlace'
  BY DEF InOnePlace
<1>3. SentOnce'
  BY DEF SentOnce, InOnePlace
<1>4. OrdersKnown'
  BY DEF OrdersKnown
<1>5. WindowKept'
  BY DEF WindowKept, Orders!Paid, Orders!Active
<1>6. Accounted'
  BY DEF Accounted, InOnePlace, Orders!Active
<1>7. ResultsOwn'
  BY DEF ResultsOwn, SentOnce
<1>8. CopiesOwn'
  BY DEF CopiesOwn, InOnePlace
<1> QED
  BY <1>1, <1>2, <1>3, <1>4, <1>5, <1>6, <1>7, <1>8

LEMMA PollDropsKeeps ==
  ASSUME Orders!OrderAssumption, OrdersInv, NEW c \in PayCards, Orders!PollDrops(c)
  PROVE  OrdersInv'
<1> USE DEF Orders!PollDrops, Orders!PollEnds, Orders!Synced, Orders!Copy
<1>1. Orders!TypeOK'
  <2>1. copy' \in [Payers -> Orders!Copies]
    <3>1. /\ cardRow[c] \in Orders!Rows
          /\ cardRow[c].status # "available" \/ copy' = copy
          /\ copy' \in {copy, Orders!Synced(c, cardRow[c])} /\ Orders!TypeOK
          /\ copy \in [Payers -> Orders!Copies]
      BY DEF OrdersKnown
    <3> HIDE DEF OrdersInv, Orders!TypeOK, Orders!PollDrops, Orders!Synced, Orders!Rows, Orders!Copies
    <3> QED
      BY <3>1, CopiesTyped
  <2>2. polled' \subseteq PayCards
    OBVIOUS
  <2> HIDE DEF Orders!Rows, Orders!Copies, Orders!OrdersUpstream
  <2> QED
    BY <2>1, <2>2
<1>2. InOnePlace'
  BY DEF InOnePlace
<1>3. SentOnce'
  BY DEF SentOnce, InOnePlace
<1>4. OrdersKnown'
  BY DEF OrdersKnown
<1>5. WindowKept'
  BY DEF WindowKept, Orders!Paid, Orders!Active
<1>6. Accounted'
  BY DEF Accounted, InOnePlace, Orders!Active
<1>7. ResultsOwn'
  BY DEF ResultsOwn, SentOnce
<1>8. CopiesOwn'
  BY DEF CopiesOwn, InOnePlace
<1> QED
  BY <1>1, <1>2, <1>3, <1>4, <1>5, <1>6, <1>7, <1>8

LEMMA PollSendsKeeps ==
  ASSUME Orders!OrderAssumption, OrdersInv, NEW c \in PayCards, Orders!PollSends(c)
  PROVE  OrdersInv'
<1> USE DEF Orders!PollSends
<1>1. Orders!TypeOK'
  OBVIOUS
<1>2. InOnePlace'
  BY DEF InOnePlace
<1>3. SentOnce'
  BY DEF SentOnce, InOnePlace
<1>4. OrdersKnown'
  BY DEF OrdersKnown
<1>5. WindowKept'
  BY DEF WindowKept, Orders!Paid, Orders!Active
<1>6. Accounted'
  BY DEF Accounted, InOnePlace, Orders!Active
<1>7. ResultsOwn'
  BY DEF ResultsOwn, SentOnce
<1>8. CopiesOwn'
  BY DEF CopiesOwn, InOnePlace
<1> QED
  BY <1>1, <1>2, <1>3, <1>4, <1>5, <1>6, <1>7, <1>8

LEMMA PollAnsweredKeeps ==
  ASSUME Orders!OrderAssumption, OrdersInv, Orders!PollAnswered
  PROVE  OrdersInv'
<1> USE DEF Orders!PollAnswered, Orders!StatusArrives, Orders!Synced, Orders!Copy
<1>1. Orders!TypeOK'
  <2>1. /\ cardRow' \in [PayCards -> Orders!Rows]
        /\ copy' \in [Payers -> Orders!Copies]
    <3>1. /\ inFlight.order \in Payers /\ inFlight.card \in PayCards /\ upstream[inFlight.order].state # "none"
          /\ Orders!StatusArrives(inFlight.card, inFlight.order)
      BY DEF OrdersKnown
    <3> HIDE DEF OrdersInv, Orders!StatusArrives
    <3> QED
      BY <3>1, ArrivesTyped
  <2>2. polled' \subseteq PayCards /\ inFlight' = Orders!Resting
    OBVIOUS
  <2> HIDE DEF Orders!Rows, Orders!Copies, Orders!OrdersUpstream
  <2> QED
    BY <2>1, <2>2
<1>2. InOnePlace'
  BY DEF InOnePlace
<1>3. SentOnce'
  BY DEF SentOnce, InOnePlace
<1>4. OrdersKnown'
  BY DEF OrdersKnown
<1>5. WindowKept'
  BY DEF WindowKept, Orders!Paid, Orders!Active
<1>6. Accounted'
  BY DEF Accounted, InOnePlace, Orders!Active
<1>7. ResultsOwn'
  BY DEF ResultsOwn, SentOnce
<1>8. CopiesOwn'
  BY DEF CopiesOwn, InOnePlace
<1> QED
  BY <1>1, <1>2, <1>3, <1>4, <1>5, <1>6, <1>7, <1>8

LEMMA PollRaisesKeeps ==
  ASSUME Orders!OrderAssumption, OrdersInv, Orders!PollRaises
  PROVE  OrdersInv'
<1> USE DEF Orders!PollRaises
<1>1. Orders!TypeOK'
  OBVIOUS
<1>2. InOnePlace'
  BY DEF InOnePlace
<1>3. SentOnce'
  BY DEF SentOnce, InOnePlace
<1>4. OrdersKnown'
  BY DEF OrdersKnown
<1>5. WindowKept'
  BY DEF WindowKept, Orders!Paid, Orders!Active
<1>6. Accounted'
  BY DEF Accounted, InOnePlace, Orders!Active
<1>7. ResultsOwn'
  BY DEF ResultsOwn, SentOnce
<1>8. CopiesOwn'
  BY DEF CopiesOwn, InOnePlace
<1> QED
  BY <1>1, <1>2, <1>3, <1>4, <1>5, <1>6, <1>7, <1>8

HIDE DEF Orders!runner, Orders!poller, Orders!OrderAssumption, Orders!TypeOK, Orders!Idle,
    Orders!Resting, Orders!Ends, Orders!OrdersUpstream, Orders!Rows, Orders!Copies,
    Orders!Nobody, OrdersInv

\* The runner, the operator, the poller and the service.
LEMMA OrdersStep ==
  ASSUME Orders!OrderAssumption, OrdersInv, [Orders!Next]_(Orders!vars)
  PROVE  OrdersInv'
<1>1. CASE UNCHANGED Orders!vars
  <2>1. UNCHANGED <<upstream, cardRow, copy, orderPhase, checks, unsent, inHand, openOrders,
                    unasked, moved, orderResult, orderStop, orderSkip, polled, inFlight,
                    orderRequests>>
    BY <1>1 DEF Orders!vars, Orders!runner, Orders!poller
  <2>2. Orders!TypeOK'
    BY <2>1 DEF OrdersInv, Orders!TypeOK
  <2> QED
    BY <2>1, <2>2 DEF OrdersInv, InOnePlace, SentOnce, OrdersKnown, WindowKept, Accounted,
                      ResultsOwn, CopiesOwn, Orders!Paid, Orders!Active
<1>2. CASE Orders!Runner
  <2>1. ASSUME NEW c \in PayCards,
               Orders!Precheck(c) \/ \E a \in Payers : Orders!Picks(a, c)
        PROVE  OrdersInv'
    BY <2>1, PrecheckKeeps, PicksKeeps
  <2>2. CASE \/ Orders!Checked \/ Orders!Top \/ Orders!NoCard \/ Orders!PassOver
             \/ Orders!PutsBack \/ Orders!NoToken \/ Orders!Sends \/ Orders!Books
    BY <2>2, CheckedKeeps, TopKeeps, NoCardKeeps, PassOverKeeps, PutsBackKeeps, NoTokenKeeps,
       SendsKeeps, BooksKeeps
  <2>3. CASE \/ Orders!PauseEnds \/ Orders!SubmitFails \/ Orders!Wakes \/ Orders!RoundOver
             \/ Orders!Interrupted \/ Orders!Closes
    BY <2>3, PauseEndsKeeps, SubmitFailsKeeps, WakesKeeps, RoundOverKeeps, InterruptedKeeps,
       ClosesKeeps
  <2>4. ASSUME NEW a \in Payers,
               \/ Orders!OrderPaid(a) \/ Orders!OrderFailed(a)
               \/ Orders!OrderTimesOut(a) \/ Orders!StillOpen(a)
        PROVE  OrdersInv'
    BY <2>4, OrderPaidKeeps, OrderFailedKeeps, OrderTimesOutKeeps, StillOpenKeeps
  <2> QED
    BY <1>2, <2>1, <2>2, <2>3, <2>4 DEF Orders!Runner
<1>3. CASE Orders!Operator
  BY <1>3, RunnerStopKeeps, RequestSkipKeeps, QueryStatusKeeps, StartPollKeeps, CardSetKeeps
     DEF Orders!Operator
<1>4. CASE Orders!Poller
  BY <1>4, PollAnsweredKeeps, PollRaisesKeeps, PollDropsKeeps, PollSendsKeeps DEF Orders!Poller
<1>5. ASSUME NEW a \in Payers, Orders!Settles(a) PROVE OrdersInv'
  BY <1>5, SettlesKeeps
<1> QED
  BY <1>1, <1>2, <1>3, <1>4, <1>5 DEF Orders!Next

LEMMA OrdersInit == ASSUME Orders!OrderAssumption PROVE Orders!Init => OrdersInv
<1> SUFFICES ASSUME Orders!Init PROVE OrdersInv
  OBVIOUS
<1> USE DEF Orders!Init, Orders!OrderAssumption, Orders!Nobody, Orders!Idle, Orders!Resting
<1>1. /\ upstream \in [Payers -> Orders!OrdersUpstream]
      /\ copy \in [Payers -> Orders!Copies]
  BY DEF Orders!OrdersUpstream, Orders!Copies, Orders!Empty
<1>2. /\ cardRow \in [PayCards -> Orders!Rows]
      /\ \A c \in PayCards : cardRow[c].order = Orders!Nobody
  BY DEF Orders!Rows, Orders!Ends
<1>3. Orders!TypeOK
  <2>1. /\ inHand = Orders!Idle /\ orderPhase = "checking" /\ unasked = {}
        /\ checks \in [PayCards -> {"unchecked", "usable", "refused"}]
        /\ openOrders \in [Payers -> PayCards \cup {Orders!Nobody}]
        /\ orderResult \in [Payers -> {"none", "unsubmitted", "timeout"} \cup Orders!Ends]
        /\ orderRequests \in 0..MaxOrderRequests
    OBVIOUS
  <2>2. /\ unsent \subseteq Payers /\ moved \in BOOLEAN /\ orderSkip \in BOOLEAN
        /\ orderStop \in {"no", "after_current", "immediate"} /\ polled \subseteq PayCards
        /\ inFlight = Orders!Resting
    OBVIOUS
  <2> HIDE DEF Orders!Init
  <2> QED
    BY <1>1, <1>2, <2>1, <2>2 DEF Orders!TypeOK
<1>4. InOnePlace /\ Accounted /\ ResultsOwn
  BY DEF InOnePlace, Accounted, ResultsOwn, Orders!Ends
<1>5. SentOnce
  BY DEF SentOnce
<1>6. OrdersKnown
  BY <1>2 DEF OrdersKnown
<1>7. WindowKept
  <2>1. Orders!Paid = {} /\ Orders!Active = {}
    BY DEF Orders!Paid, Orders!Active
  <2>2. Orders!Cardinality({}) = 0
    BY OrderCounts, FS_EmptySet
  <2>3. Target \in Nat /\ orderPhase = "checking"
    OBVIOUS
  <2> HIDE DEF Orders!Init
  <2> QED
    BY <2>1, <2>2, <2>3 DEF WindowKept
<1>8. CopiesOwn
  BY DEF CopiesOwn, Orders!Empty
<1> QED
  BY <1>3, <1>4, <1>5, <1>6, <1>7, <1>8 DEF OrdersInv

\* The variables of the payment orders have their types: a card's row and an account's
\* copy only take the states that the service and the operator can give them.
THEOREM OrdersTypeCorrect ==
  ASSUME Orders!OrderAssumption PROVE Orders!Spec => []Orders!TypeOK
<1>1. OrdersInv => Orders!TypeOK
  BY DEF OrdersInv
<1> QED
  BY <1>1, OrdersInit, OrdersStep, PTL DEF Orders!Spec

\* However many accounts and cards: _run_baxigpt_cdk_submit places one order for an
\* account at most, whatever answer is lost or stop met, and its window keeps the paid
\* accounts within target_success_count however the orders under way end.
THEOREM OrdersWithinTargetCorrect ==
  ASSUME Orders!OrderAssumption PROVE Orders!Spec => []Orders!OrdersWithinTarget
<1>1. OrdersInv => Orders!OrdersWithinTarget
  BY DEF OrdersInv, SentOnce, WindowKept, Orders!OrdersWithinTarget
<1> QED
  BY <1>1, OrdersInit, OrdersStep, PTL DEF Orders!Spec

\* What the task reports of an account is the end of its own order, although the card's
\* row may name another one by then; without a request of the operator so is its copy.
THEOREM OrdersAreOwnCorrect ==
  ASSUME Orders!OrderAssumption PROVE Orders!Spec => []Orders!OrdersAreOwn
<1>1. OrdersInv => Orders!OrdersAreOwn
  BY DEF OrdersInv, ResultsOwn, CopiesOwn, Orders!OrdersAreOwn
<1> QED
  BY <1>1, OrdersInit, OrdersStep, PTL DEF Orders!Spec

\* A task that was not interrupted ends with a result for every account and no order
\* under way, and stop_task_polling leaves no copy that could be polled again.
THEOREM EndsAreSettledCorrect ==
  ASSUME Orders!OrderAssumption PROVE Orders!Spec => []Orders!EndsAreSettled
<1>1. OrdersInv => Orders!EndsAreSettled
  <2> SUFFICES ASSUME OrdersInv PROVE Orders!EndsAreSettled
    OBVIOUS
  <2>1. Orders!TypeOK /\ Accounted /\ CopiesOwn
    BY DEF OrdersInv
  <2>2. ASSUME orderPhase = "over", FailureContinue, NEW a \in Payers
        PROVE  orderResult[a] # "none" /\ openOrders[a] = Orders!Nobody
    <3>1. inHand = Orders!Idle /\ Orders!Nobody \notin Payers
      BY <2>1, <2>2 DEF Orders!TypeOK, Orders!OrderAssumption
    <3>2. inHand.account # a
      BY <3>1 DEF Orders!Idle
    <3> QED
      BY <2>1, <2>2, <3>2 DEF Accounted
  <2>3. orderPhase \in {"over", "stopped"} /\ orderRequests = 0 =>
           \A a \in Payers : copy[a].status # "open"
    BY <2>1 DEF CopiesOwn
  <2> QED
    BY <2>2, <2>3 DEF Orders!EndsAreSettled
<1> QED
  BY <1>1, OrdersInit, OrdersStep, PTL DEF Orders!Spec

-----------------------------------------------------------------------------
(* The binding of phone numbers.                                           *)

LEMMA PhoneCounts ==
  /\ \A S : Phone!Cardinality(S) = Cardinality(S)
  /\ \A S : Phone!IsFiniteSet(S) = IsFiniteSet(S)
BY DEF Phone!Cardinality, Cardinality, Phone!IsFiniteSet, IsFiniteSet

\* A number in somebody's hands is in nobody else's, and was not used up before.
HeldApart ==
    /\ \A a, b \in Binders : a # b => held[a] = Phone!Nothing \/ held[a] # held[b]
    /\ \A a \in Binders : held[a] \notin terminal \cup successful

\* What OpenAI has bound is the number in the worker's hands, or one that is used up.
Agreed == {"accepted", "completed", "persisted"}

RemoteApart ==
    /\ \A a \in Binders :
          /\ place[a] \in Agreed => remotePhone[a] = held[a]
          /\ remotePhone[a] # Phone!Nothing =>
                \/ place[a] \in Agreed
                \/ place[a] \in Phone!Done /\ remotePhone[a] \in successful
    /\ \A a, b \in Binders :
          a # b => remotePhone[a] = Phone!Nothing \/ remotePhone[a] # remotePhone[b]

\* A number that may be handed out has had no more messages than there were skips.
TextedFew ==
    bindingStop # "now" =>
       \A p \in Phones :
          /\ Phone!Cardinality(texted[p]) <= 1 + skips
          /\ \/ Phone!Cardinality(texted[p]) <= skips
             \/ p \in terminal \cup successful
             \/ \E a \in Binders : held[a] = p /\ place[a] \in {"sent"} \cup Phone!Touched

\* A number of the pool that is in a worker's hands has room for an account.
PoolHasRoom ==
    UsePool =>
       /\ \A p \in Phones : Phone!Cardinality(phonePool[p].emails) <= MaxAccounts
       /\ \A a \in Binders : held[a] \in Phones =>
             Phone!Cardinality(phonePool[held[a]].emails) < MaxAccounts

\* The row of an account says what OpenAI has bound, and the results follow.
BindingsFollow ==
    /\ \A a \in Binders :
          /\ binding[a] # Phone!Nothing => binding[a] = remotePhone[a]
          /\ place[a] = "persisted" => binding[a] = held[a]
          /\ a \in confirmed => /\ place[a] \in {"completed", "persisted"} \cup Phone!Done
                                /\ binding[a] = remotePhone[a] \/ bindingFaults > 0
          /\ bindingResult[a] # Phone!Nothing => place[a] \in {"over", "collected"}
          /\ bindingResult[a] = "bound" =>
                /\ binding[a] # Phone!Nothing
                /\ a \in phonePool[binding[a]].emails \/ bindingFaults > 0
          /\ bindingResult[a] = "failed" /\ a \in confirmed => bindingFaults > 0
    /\ \A p \in Phones : \A a \in phonePool[p].emails \ {Phone!Another} : binding[a] = p

\* Who is over has a result unless there was a stop, and the dispatcher waits for all.
EndsInOrder ==
    /\ bindingPhase = "draining" => bindingStop = "now"
    /\ \A a \in Binders :
          /\ place[a] = "stopped" => bindingStop = "now"
          /\ place[a] \in {"over", "collected"} =>
                bindingResult[a] # Phone!Nothing \/ bindingStop # "none"
          /\ bindingPhase = "over" => place[a] \in Phone!Done \cup {"waiting"}
          /\ bindingPhase = "over" /\ bindingStop = "none" => place[a] = "collected"

PhoneInv ==
    /\ Phone!TypeOK
    /\ HeldApart
    /\ RemoteApart
    /\ TextedFew
    /\ PoolHasRoom
    /\ BindingsFollow
    /\ EndsInOrder

-----------------------------------------------------------------------------
LEMMA PhoneInit == ASSUME Phone!BindingAssumption PROVE Phone!Init => PhoneInv
<1> SUFFICES ASSUME Phone!Init PROVE PhoneInv
  OBVIOUS
<1> USE DEF Phone!Init, Phone!BindingAssumption
<1>1. /\ Phone!Cardinality({}) = 0
      /\ Phone!Cardinality({Phone!Another}) = 1
  BY PhoneCounts, FS_EmptySet, FS_Singleton
<1>2. phonePool \in [Phones -> Phone!Rows]
  BY DEF Phone!Rows, Phone!Verdicts
<1>3. Phone!TypeOK
  BY <1>2 DEF Phone!TypeOK, Phone!Holding, Phone!Touched, Phone!Done, Phone!Rows, Phone!Verdicts
<1>4. HeldApart
  BY DEF HeldApart
<1>5. RemoteApart
  BY DEF RemoteApart, Agreed
<1>6. TextedFew
  BY <1>1 DEF TextedFew
<1>0. \A p \in Phones : phonePool[p].emails \in {{}, {Phone!Another}}
  OBVIOUS
<1>7. PoolHasRoom
  <2>1. \A p \in Phones : Phone!Cardinality(phonePool[p].emails) \in {0, 1}
    BY <1>0, <1>1
  <2>2. \A a \in Binders : held[a] \notin Phones
    OBVIOUS
  <2> HIDE DEF Phone!Init
  <2> QED
    BY <2>1, <2>2 DEF PoolHasRoom
<1>8. BindingsFollow
  <2>1. \A a \in Binders : /\ binding[a] = Phone!Nothing /\ place[a] = "waiting"
                            /\ bindingResult[a] = Phone!Nothing /\ a \notin confirmed
    OBVIOUS
  <2>2. \A p \in Phones : phonePool[p].emails \ {Phone!Another} = {}
    BY <1>0
  <2> HIDE DEF Phone!Init
  <2> QED
    BY <2>1, <2>2 DEF BindingsFollow, Phone!Nothing
<1>9. EndsInOrder
  BY DEF EndsInOrder
<1> QED
  BY <1>3, <1>4, <1>5, <1>6, <1>7, <1>8, <1>9 DEF PhoneInv

\* What a worker is given is free, and in the pool it has room for an account.
LEMMA ChoicesAreFree ==
  ASSUME Phone!BindingAssumption, PhoneInv, NEW c \in Phone!Choices
  PROVE  /\ c.phone \in Phones \ Phone!Excluded
         /\ c.cursor \in 0..Len(Items)
         /\ UsePool => Phone!Cardinality(phonePool[c.phone].emails) < MaxAccounts
<1>1. CASE UsePool
  BY <1>1 DEF Phone!Choices, Phone!Available, PhoneInv, Phone!TypeOK
<1>2. CASE ~UsePool
  <2>1. PICK i \in 1..Len(Items) : c = [phone |-> Items[i], cursor |-> i] /\ Items[i] \notin Phone!Excluded
    <3>1. cursor \in 0..Len(Items) /\ Len(Items) \in Nat
      BY DEF PhoneInv, Phone!TypeOK, Phone!BindingAssumption
    <3> QED
      BY <1>2, <3>1 DEF Phone!Choices
  <2>2. Items[i] \in Phones
    BY DEF Phone!BindingAssumption
  <2> QED
    BY <1>2, <2>1, <2>2
<1> QED
  BY <1>1, <1>2

\* Who gives a number back leaves the others theirs, and only a number that is
\* used up joins the others that are.
LEMMA ReleaseKeeps ==
  ASSUME PhoneInv, Phone!BindingAssumption, NEW a \in Binders, NEW how, place[a] \in Phone!Holding,
         how \in {"terminal", "reusable", "successful"},
         Phone!Released(a, how)
  PROVE  /\ held[a] \in Phones
         /\ held' \in [Binders -> Phones \cup {Phone!Nothing}]
         /\ held'[a] = Phone!Nothing
         /\ \A b \in Binders : b # a => held'[b] = held[b]
         /\ claimed' = {held'[b] : b \in Binders} \ {Phone!Nothing}
         /\ terminal' = IF how = "terminal" THEN terminal \cup {held[a]} ELSE terminal
         /\ successful' = IF how = "successful" THEN successful \cup {held[a]} ELSE successful
         /\ cursor' = cursor
<1>1. held[a] \in Phones /\ held[a] \notin terminal \cup successful
  BY DEF PhoneInv, Phone!TypeOK, HeldApart
<1>2. /\ held' \in [Binders -> Phones \cup {Phone!Nothing}]
      /\ held'[a] = Phone!Nothing
      /\ \A b \in Binders : b # a => held'[b] = held[b]
  BY DEF PhoneInv, Phone!TypeOK, Phone!Released
<1>3. claimed' = {held'[b] : b \in Binders} \ {Phone!Nothing}
  <2>1. claimed' = claimed \ {held[a]} /\ claimed = {held[b] : b \in Binders} \ {Phone!Nothing}
    BY DEF PhoneInv, Phone!TypeOK, Phone!Released
  <2>2. \A b \in Binders : b # a /\ held[b] # Phone!Nothing => held[b] # held[a]
    BY DEF PhoneInv, HeldApart
  <2> QED
    BY <1>1, <1>2, <2>1, <2>2
<1>4. /\ terminal' = IF how = "terminal" THEN terminal \cup {held[a]} ELSE terminal
      /\ successful' = IF how = "successful" THEN successful \cup {held[a]} ELSE successful
      /\ cursor' = cursor
  BY <1>1 DEF Phone!Released
<1> QED
  BY <1>1, <1>2, <1>3, <1>4

\* A worker with a number gives it back and goes to dest: whoever may take the number
\* now finds it as the invariant says.
LEMMA GivesBackApart ==
  ASSUME Phone!BindingAssumption, PhoneInv, NEW a \in Binders, NEW how, NEW dest,
         place[a] \in Phone!Holding, how \in {"terminal", "reusable", "successful"},
         dest \in Phone!Done \cup {"top"},
         Phone!Released(a, how), Phone!Goes(a, dest),
         place[a] \in Agreed => how = "successful" /\ dest \in Phone!Done,
         how = "reusable" => \/ place[a] = "trying"
                             \/ place[a] = "sent" /\ (bindingStop = "now" \/ skips' = skips + 1),
         \/ remotePhone' = remotePhone
         \/ /\ remotePhone' = [remotePhone EXCEPT ![a] = held[a]]
            /\ how = "successful" /\ dest \in Phone!Done /\ place[a] = "marked",
         skips' \in {skips, skips + 1},
         UNCHANGED <<texted, bindingStop>>
  PROVE  /\ HeldApart' /\ RemoteApart' /\ TextedFew'
         /\ place' \in [Binders -> {"waiting", "ready", "top"} \cup Phone!Holding \cup Phone!Done]
         /\ held' \in [Binders -> Phones \cup {Phone!Nothing}]
         /\ \A b \in Binders : held'[b] = Phone!Nothing <=> place'[b] \notin Phone!Holding
         /\ claimed' = {held'[b] : b \in Binders} \ {Phone!Nothing}
         /\ terminal' \subseteq Phones /\ successful' \subseteq Phones
         /\ cursor' = cursor
<1>1. /\ held[a] \in Phones
      /\ held' \in [Binders -> Phones \cup {Phone!Nothing}]
      /\ held'[a] = Phone!Nothing
      /\ \A b \in Binders : b # a => held'[b] = held[b]
      /\ claimed' = {held'[b] : b \in Binders} \ {Phone!Nothing}
      /\ terminal' = IF how = "terminal" THEN terminal \cup {held[a]} ELSE terminal
      /\ successful' = IF how = "successful" THEN successful \cup {held[a]} ELSE successful
      /\ cursor' = cursor
  BY ReleaseKeeps
<1>2. /\ place' \in [Binders -> {"waiting", "ready", "top"} \cup Phone!Holding \cup Phone!Done]
      /\ place'[a] = dest
      /\ \A b \in Binders : b # a => place'[b] = place[b]
  BY DEF PhoneInv, Phone!TypeOK, Phone!Goes
<1>3. /\ Phone!Nothing \notin Phones /\ terminal \subseteq Phones /\ successful \subseteq Phones
      /\ held \in [Binders -> Phones \cup {Phone!Nothing}]
      /\ remotePhone \in [Binders -> Phones \cup {Phone!Nothing}]
      /\ \A b \in Binders : held[b] = Phone!Nothing <=> place[b] \notin Phone!Holding
  BY DEF PhoneInv, Phone!TypeOK, Phone!BindingAssumption
<1>4. HeldApart /\ RemoteApart /\ TextedFew
  BY DEF PhoneInv
<1>5. dest \notin Phone!Holding /\ dest \notin Agreed /\ Agreed \subseteq Phone!Holding
  BY DEF Phone!Holding, Phone!Touched, Phone!Done, Agreed
<1>6. HeldApart'
  BY <1>1, <1>3, <1>4 DEF HeldApart
<1>7. RemoteApart'
  <2>1. CASE remotePhone' = remotePhone
    <3>1. place[a] \notin Agreed => remotePhone[a] = Phone!Nothing
      BY <1>4 DEF RemoteApart, Phone!Holding, Phone!Touched, Phone!Done
    <3>2. place[a] \in Agreed => place'[a] \in Phone!Done /\ remotePhone[a] \in successful'
      BY <1>1, <1>2, <1>4 DEF RemoteApart
    <3>3. place'[a] \notin Agreed
      BY <1>2, <1>5
    <3>4. successful \subseteq successful'
      BY <1>1
    <3> QED
      BY <1>1, <1>2, <1>4, <2>1, <3>1, <3>2, <3>3, <3>4 DEF RemoteApart
  <2>2. CASE /\ remotePhone' = [remotePhone EXCEPT ![a] = held[a]]
             /\ how = "successful" /\ dest \in Phone!Done /\ place[a] = "marked"
    <3>1. remotePhone'[a] = held[a] /\ \A b \in Binders : b # a => remotePhone'[b] = remotePhone[b]
      BY <1>3, <2>2
    <3>2. \A b \in Binders : b # a => remotePhone[b] # held[a]
      BY <1>1, <1>3, <1>4 DEF RemoteApart, HeldApart
    <3>3. \A b \in Binders : /\ place'[b] \in Agreed => remotePhone'[b] = held'[b]
                             /\ remotePhone'[b] # Phone!Nothing =>
                                   \/ place'[b] \in Agreed
                                   \/ place'[b] \in Phone!Done /\ remotePhone'[b] \in successful'
      BY <1>1, <1>2, <1>4, <1>5, <2>2, <3>1 DEF RemoteApart
    <3>4. \A b, c \in Binders :
             b # c => remotePhone'[b] = Phone!Nothing \/ remotePhone'[b] # remotePhone'[c]
      BY <1>4, <3>1, <3>2 DEF RemoteApart
    <3> QED
      BY <3>3, <3>4 DEF RemoteApart
  <2> QED
    BY <2>1, <2>2
<1>8. TextedFew'
  <2> SUFFICES ASSUME bindingStop # "now", NEW p \in Phones
               PROVE  /\ Phone!Cardinality(texted[p]) <= 1 + skips'
                      /\ \/ Phone!Cardinality(texted[p]) <= skips'
                         \/ p \in terminal' \cup successful'
                         \/ \E b \in Binders : held'[b] = p /\ place'[b] \in {"sent"} \cup Phone!Touched
    BY DEF TextedFew
  <2>1. /\ Phone!Cardinality(texted[p]) \in Nat /\ skips \in Nat
    BY PhoneCounts, FS_Subset, FS_CardinalityType
       DEF PhoneInv, Phone!TypeOK, Phone!BindingAssumption
  <2>2. /\ Phone!Cardinality(texted[p]) <= 1 + skips
        /\ \/ Phone!Cardinality(texted[p]) <= skips
           \/ p \in terminal \cup successful
           \/ \E b \in Binders : held[b] = p /\ place[b] \in {"sent"} \cup Phone!Touched
    BY <1>4 DEF TextedFew
  <2>3. CASE p # held[a] \/ how # "reusable" \/ place[a] = "trying"
    <3>1. \/ Phone!Cardinality(texted[p]) <= skips
          \/ p \in terminal' \cup successful'
          \/ \E b \in Binders : held'[b] = p /\ place'[b] \in {"sent"} \cup Phone!Touched
      BY <1>1, <1>2, <1>4, <2>2, <2>3 DEF HeldApart, Phone!Touched
    <3> QED
      BY <2>1, <2>2, <3>1
  <2>4. CASE ~(p # held[a] \/ how # "reusable" \/ place[a] = "trying")
    BY <2>1, <2>2, <2>4
  <2> QED
    BY <2>3, <2>4
<1> QED
  BY <1>1, <1>2, <1>3, <1>5, <1>6, <1>7, <1>8

\* Its result, if it has one, is v; the rows and the counts of the pool stay.
LEMMA GivesBackFollows ==
  ASSUME Phone!BindingAssumption, PhoneInv, NEW a \in Binders, NEW how, NEW dest, NEW v,
         place[a] \in Phone!Holding, how \in {"terminal", "reusable", "successful"},
         dest \in Phone!Done \cup {"top"},
         Phone!Released(a, how), Phone!Goes(a, dest),
         \/ v = Phone!Nothing /\ bindingResult' = bindingResult
         \/ v # Phone!Nothing /\ Phone!Answers(a, v) /\ dest = "over",
         dest # "top" \/ place[a] \notin Agreed,
         dest \in {"over", "collected"} => v # Phone!Nothing,
         dest = "stopped" => bindingStop = "now",
         v # "bound", v = "failed" /\ a \in confirmed => bindingFaults' > 0,
         bindingFaults' \in {bindingFaults, bindingFaults + 1},
         \/ remotePhone' = remotePhone
         \/ remotePhone' = [remotePhone EXCEPT ![a] = held[a]] /\ place[a] = "marked",
         \A p \in Phones : phonePool'[p].emails = phonePool[p].emails,
         UNCHANGED <<bindingPhase, confirmed, binding, bindingStop>>
  PROVE  PoolHasRoom' /\ BindingsFollow' /\ EndsInOrder'
<1>1. /\ held[a] \in Phones
      /\ held'[a] = Phone!Nothing
      /\ \A b \in Binders : b # a => held'[b] = held[b]
  BY ReleaseKeeps
<1>2. /\ place'[a] = dest
      /\ \A b \in Binders : b # a => place'[b] = place[b]
  BY DEF PhoneInv, Phone!TypeOK, Phone!Goes
<1>3. /\ Phone!Nothing \notin Phones
      /\ binding \in [Binders -> Phones \cup {Phone!Nothing}]
      /\ bindingFaults \in Nat
      /\ confirmed \subseteq Binders
  BY DEF PhoneInv, Phone!TypeOK, Phone!BindingAssumption
<1>4. PoolHasRoom /\ BindingsFollow /\ EndsInOrder /\ RemoteApart
  BY DEF PhoneInv
<1>5. /\ v # Phone!Nothing => bindingResult'[a] = v
      /\ v = Phone!Nothing => bindingResult'[a] = bindingResult[a]
      /\ \A b \in Binders : b # a => bindingResult'[b] = bindingResult[b]
  BY DEF PhoneInv, Phone!TypeOK, Phone!Answers
<1>6. bindingResult[a] = Phone!Nothing
  BY <1>4 DEF BindingsFollow, Phone!Holding, Phone!Touched
<1>7. PoolHasRoom'
  BY <1>1, <1>3, <1>4 DEF PoolHasRoom
<1>8. BindingsFollow'
  <2>1. \A b \in Binders : binding[b] # Phone!Nothing => remotePhone'[b] = remotePhone[b]
    BY <1>4 DEF BindingsFollow, RemoteApart, Agreed, Phone!Done, PhoneInv, Phone!TypeOK
  <2>2. a \in confirmed => place[a] \in {"completed", "persisted"} /\ remotePhone' = remotePhone
    BY <1>4 DEF BindingsFollow, Phone!Holding, Phone!Touched, Phone!Done
  <2>3. bindingFaults > 0 => bindingFaults' > 0
    BY <1>3
  <2>4. ASSUME NEW b \in Binders
        PROVE  /\ binding'[b] # Phone!Nothing => binding'[b] = remotePhone'[b]
               /\ place'[b] = "persisted" => binding'[b] = held'[b]
               /\ b \in confirmed' => /\ place'[b] \in {"completed", "persisted"} \cup Phone!Done
                                      /\ binding'[b] = remotePhone'[b] \/ bindingFaults' > 0
               /\ bindingResult'[b] # Phone!Nothing => place'[b] \in {"over", "collected"}
    <3>1. CASE b = a
      BY <1>2, <1>4, <1>5, <1>6, <2>1, <2>2, <2>3, <3>1 DEF BindingsFollow, Phone!Done, Agreed
    <3>2. CASE b # a
      BY <1>1, <1>2, <1>4, <1>5, <2>1, <2>3, <3>2 DEF BindingsFollow, PhoneInv, Phone!TypeOK
    <3> QED
      BY <3>1, <3>2
  <2>5. ASSUME NEW b \in Binders
        PROVE  /\ bindingResult'[b] = "bound" =>
                     /\ binding'[b] # Phone!Nothing
                     /\ b \in phonePool'[binding'[b]].emails \/ bindingFaults' > 0
               /\ bindingResult'[b] = "failed" /\ b \in confirmed' => bindingFaults' > 0
    BY <1>3, <1>4, <1>5, <1>6, <2>3 DEF BindingsFollow, Phone!Nothing
  <2>6. \A p \in Phones : \A b \in phonePool'[p].emails \ {Phone!Another} : binding'[b] = p
    BY <1>4 DEF BindingsFollow
  <2> QED
    BY <2>4, <2>5, <2>6 DEF BindingsFollow
<1>9. EndsInOrder'
  <2>1. bindingPhase # "over"
    BY <1>4 DEF EndsInOrder, Phone!Holding, Phone!Touched, Phone!Done
  <2> QED
    BY <1>2, <1>4, <1>5, <2>1 DEF EndsInOrder
<1> QED
  BY <1>7, <1>8, <1>9

\* A failure changes the status of a number and nothing else.
LEMMA FailureRecorded ==
  ASSUME Phone!BindingAssumption, PhoneInv, NEW p \in Phones,
         NEW statuses \in SUBSET ({"active", "disabled"} \cup Phone!Verdicts),
         Phone!RecordFailure(p, statuses)
  PROVE  /\ phonePool' \in [Phones -> Phone!Rows]
         /\ \A q \in Phones : phonePool'[q].emails = phonePool[q].emails
         /\ bindingFaults' \in {bindingFaults, bindingFaults + 1}
         /\ bindingFaults' \in 0..MaxBindingFaults
<1>1. /\ phonePool \in [Phones -> Phone!Rows]
      /\ bindingFaults \in 0..MaxBindingFaults /\ MaxBindingFaults \in Nat
  BY DEF PhoneInv, Phone!TypeOK, Phone!BindingAssumption
<1>2. CASE \E verdict \in statuses :
              phonePool' = [phonePool EXCEPT ![p].status = verdict] /\ UNCHANGED bindingFaults
  <2>1. PICK verdict \in statuses :
           phonePool' = [phonePool EXCEPT ![p].status = verdict] /\ UNCHANGED bindingFaults
    BY <1>2
  <2>2. [phonePool[p] EXCEPT !.status = verdict] \in Phone!Rows
    BY <1>1 DEF Phone!Rows
  <2>3. [phonePool[p] EXCEPT !.status = verdict].emails = phonePool[p].emails
    BY <1>1 DEF Phone!Rows
  <2> QED
    BY <1>1, <2>1, <2>2, <2>3
<1>3. CASE phonePool' = phonePool /\ bindingFaults' = bindingFaults + 1
           /\ bindingFaults < MaxBindingFaults
  BY <1>1, <1>3
<1> QED
  BY <1>2, <1>3 DEF Phone!RecordFailure

\* The types of what a worker does not give back.
Others ==
    /\ bindingPhase \in {"running", "draining", "over"}
    /\ texted \in [Phones -> SUBSET Binders]
    /\ remotePhone \in [Binders -> Phones \cup {Phone!Nothing}]
    /\ confirmed \subseteq Binders
    /\ binding \in [Binders -> Phones \cup {Phone!Nothing}]
    /\ phonePool \in [Phones -> Phone!Rows]
    /\ bindingResult \in [Binders -> {Phone!Nothing, "bound", "account_phone_bound", "failed",
                                      "skipped", "not_tested", "unknown"}]
    /\ bindingStop \in {"none"} \cup BindingStops
    /\ skips \in 0..MaxSkips /\ bindingFaults \in 0..MaxBindingFaults
    /\ poolRequests \in 0..MaxPoolRequests

LEMMA OthersTyped == PhoneInv => Others
  BY DEF PhoneInv, Phone!TypeOK, Others

LEMMA GivesBackTyped ==
  ASSUME Phone!BindingAssumption, PhoneInv,
         place' \in [Binders -> {"waiting", "ready", "top"} \cup Phone!Holding \cup Phone!Done],
         held' \in [Binders -> Phones \cup {Phone!Nothing}],
         \A b \in Binders : held'[b] = Phone!Nothing <=> place'[b] \notin Phone!Holding,
         claimed' = {held'[b] : b \in Binders} \ {Phone!Nothing},
         terminal' \subseteq Phones, successful' \subseteq Phones, cursor' = cursor,
         Others'
  PROVE  Phone!TypeOK'
  BY DEF PhoneInv, Phone!TypeOK, Others

\* Together: a worker that gives its number back keeps the whole invariant.
LEMMA GivesBackKeeps ==
  ASSUME Phone!BindingAssumption, PhoneInv, NEW a \in Binders, NEW how, NEW dest, NEW v,
         place[a] \in Phone!Holding, how \in {"terminal", "reusable", "successful"},
         dest \in Phone!Done \cup {"top"},
         Phone!Released(a, how), Phone!Goes(a, dest),
         place[a] \in Agreed => how = "successful" /\ dest \in Phone!Done,
         how = "reusable" => \/ place[a] = "trying"
                             \/ place[a] = "sent" /\ (bindingStop = "now" \/ skips' = skips + 1),
         \/ remotePhone' = remotePhone
         \/ /\ remotePhone' = [remotePhone EXCEPT ![a] = held[a]]
            /\ how = "successful" /\ dest \in Phone!Done /\ place[a] = "marked",
         \/ v = Phone!Nothing /\ bindingResult' = bindingResult
         \/ v # Phone!Nothing /\ Phone!Answers(a, v) /\ dest = "over",
         dest \in {"over", "collected"} => v # Phone!Nothing,
         dest = "stopped" => bindingStop = "now",
         v # "bound", v = "failed" /\ a \in confirmed => bindingFaults' > 0,
         skips' \in {skips, skips + 1},
         bindingFaults' \in {bindingFaults, bindingFaults + 1},
         \A p \in Phones : phonePool'[p].emails = phonePool[p].emails,
         UNCHANGED <<bindingPhase, texted, confirmed, binding, bindingStop>>,
         Others'
  PROVE  PhoneInv'
<1>1. /\ HeldApart' /\ RemoteApart' /\ TextedFew'
      /\ place' \in [Binders -> {"waiting", "ready", "top"} \cup Phone!Holding \cup Phone!Done]
      /\ held' \in [Binders -> Phones \cup {Phone!Nothing}]
      /\ \A b \in Binders : held'[b] = Phone!Nothing <=> place'[b] \notin Phone!Holding
      /\ claimed' = {held'[b] : b \in Binders} \ {Phone!Nothing}
      /\ terminal' \subseteq Phones /\ successful' \subseteq Phones
      /\ cursor' = cursor
  BY GivesBackApart
<1>2. dest # "top" \/ place[a] \notin Agreed
  BY DEF Phone!Done
<1>3. PoolHasRoom' /\ BindingsFollow' /\ EndsInOrder'
  <2>1. \/ remotePhone' = remotePhone
        \/ remotePhone' = [remotePhone EXCEPT ![a] = held[a]] /\ place[a] = "marked"
    OBVIOUS
  <2> QED
    BY <1>2, <2>1, GivesBackFollows
<1>4. Phone!TypeOK'
  BY <1>1, GivesBackTyped
<1> QED
  BY <1>1, <1>3, <1>4 DEF PhoneInv

LEMMA AlreadyBoundKeeps ==
  ASSUME Phone!BindingAssumption, PhoneInv, NEW a \in Binders, Phone!AlreadyBound(a)
  PROVE  PhoneInv'
<1> USE DEF Phone!AlreadyBound, Phone!allocation, Phone!openai, Phone!operator, Phone!At
<1>1. /\ place[a] \in Phone!Holding /\ place[a] = "trying"
      /\ held[a] \in Phones /\ skips \in Nat /\ a \notin confirmed
  BY DEF PhoneInv, Phone!TypeOK, Phone!Holding, Phone!Touched, Phone!Done, BindingsFollow
<1>2. /\ phonePool' \in [Phones -> Phone!Rows]
      /\ \A q \in Phones : phonePool'[q].emails = phonePool[q].emails
      /\ bindingFaults' \in {bindingFaults, bindingFaults + 1}
      /\ bindingFaults' \in 0..MaxBindingFaults
  BY DEF PhoneInv, Phone!TypeOK, Phone!BindingAssumption
<1>3. Others'
  BY <1>1, <1>2, OthersTyped DEF Others, Phone!Answers
<1>4. /\ Phone!Released(a, "reusable") /\ Phone!Goes(a, "over")
      /\ remotePhone' = remotePhone
      /\ "account_phone_bound" # Phone!Nothing /\ Phone!Answers(a, "account_phone_bound")
  BY DEF Phone!Nothing
<1>5. /\ "over" \in Phone!Done \cup {"top"} /\ "account_phone_bound" # "bound" /\ "reusable" \in {"terminal", "reusable", "successful"}
      /\ place[a] \in Agreed => "reusable" = "successful" /\ "over" \in Phone!Done
  BY <1>1 DEF Phone!Done, Agreed, Phone!Nothing
<1> QED
  BY <1>1, <1>2, <1>3, <1>4, <1>5, GivesBackKeeps DEF Phone!Done

LEMMA AnswerLostKeeps ==
  ASSUME Phone!BindingAssumption, PhoneInv, NEW a \in Binders, Phone!AnswerLost(a)
  PROVE  PhoneInv'
<1> USE DEF Phone!AnswerLost, Phone!Fails, Phone!allocation, Phone!openai, Phone!operator, Phone!At
<1>1. /\ place[a] \in Phone!Holding /\ place[a] = "marked"
      /\ held[a] \in Phones /\ skips \in Nat /\ a \notin confirmed
  BY DEF PhoneInv, Phone!TypeOK, Phone!Holding, Phone!Touched, Phone!Done, BindingsFollow
<1>2. /\ phonePool' \in [Phones -> Phone!Rows]
      /\ \A q \in Phones : phonePool'[q].emails = phonePool[q].emails
      /\ bindingFaults' \in {bindingFaults, bindingFaults + 1}
      /\ bindingFaults' \in 0..MaxBindingFaults
  <2>1. PICK statuses \in {{phonePool[held[a]].status}, {"active"}} :
                Phone!RecordFailure(held[a], statuses)
    OBVIOUS
  <2>2. statuses \in SUBSET ({"active", "disabled"} \cup Phone!Verdicts)
    BY <1>1 DEF PhoneInv, Phone!TypeOK, Phone!Rows
  <2> QED
    BY <1>1, <2>1, <2>2, FailureRecorded
<1>3. Others'
  BY <1>1, <1>2, OthersTyped DEF Others, Phone!Answers
<1>4. /\ Phone!Released(a, "successful") /\ Phone!Goes(a, "over")
      /\ remotePhone' = [remotePhone EXCEPT ![a] = held[a]] /\ place[a] = "marked"
      /\ "failed" # Phone!Nothing /\ Phone!Answers(a, "failed")
  BY DEF Phone!Nothing
<1>5. /\ "over" \in Phone!Done \cup {"top"} /\ "failed" # "bound" /\ "successful" \in {"terminal", "reusable", "successful"}
      /\ place[a] \in Agreed => "successful" = "successful" /\ "over" \in Phone!Done
  BY <1>1 DEF Phone!Done, Agreed, Phone!Nothing
<1> QED
  BY <1>1, <1>2, <1>3, <1>4, <1>5, GivesBackKeeps DEF Phone!Done

LEMMA NumberFailsKeeps ==
  ASSUME Phone!BindingAssumption, PhoneInv, NEW a \in Binders, Phone!NumberFails(a)
  PROVE  PhoneInv'
<1> USE DEF Phone!NumberFails, Phone!allocation, Phone!openai, Phone!operator, Phone!At
<1>1. /\ place[a] \in Phone!Holding /\ place[a] \in {"trying", "marked"}
      /\ held[a] \in Phones /\ skips \in Nat /\ a \notin confirmed
  BY DEF PhoneInv, Phone!TypeOK, Phone!Holding, Phone!Touched, Phone!Done, BindingsFollow
<1>2. /\ phonePool' \in [Phones -> Phone!Rows]
      /\ \A q \in Phones : phonePool'[q].emails = phonePool[q].emails
      /\ bindingFaults' \in {bindingFaults, bindingFaults + 1}
      /\ bindingFaults' \in 0..MaxBindingFaults
  BY <1>1, FailureRecorded DEF Phone!Verdicts
<1>3. Others'
  BY <1>1, <1>2, OthersTyped DEF Others, Phone!Answers
<1>4. /\ Phone!Released(a, "terminal") /\ Phone!Goes(a, "top")
      /\ remotePhone' = remotePhone
      /\ bindingResult' = bindingResult
  BY DEF Phone!Nothing
<1>5. /\ "top" \in Phone!Done \cup {"top"} /\ Phone!Nothing # "bound" /\ "terminal" \in {"terminal", "reusable", "successful"}
      /\ place[a] \in Agreed => "terminal" = "successful" /\ "top" \in Phone!Done
  BY <1>1 DEF Phone!Done, Agreed, Phone!Nothing
<1> QED
  BY <1>1, <1>2, <1>3, <1>4, <1>5, GivesBackKeeps DEF Phone!Done

LEMMA ResultFailsKeeps ==
  ASSUME Phone!BindingAssumption, PhoneInv, NEW a \in Binders, Phone!ResultFails(a)
  PROVE  PhoneInv'
<1> USE DEF Phone!ResultFails, Phone!allocation, Phone!openai, Phone!operator, Phone!At
<1>1. /\ place[a] \in Phone!Holding /\ place[a] \in {"completed", "persisted"}
      /\ held[a] \in Phones /\ skips \in Nat /\ bindingFaults' > 0
  BY DEF PhoneInv, Phone!TypeOK, Phone!Holding, Phone!Touched, Phone!Done, BindingsFollow,
         Phone!BindingAssumption
<1>2. /\ phonePool' \in [Phones -> Phone!Rows]
      /\ \A q \in Phones : phonePool'[q].emails = phonePool[q].emails
      /\ bindingFaults' \in {bindingFaults, bindingFaults + 1}
      /\ bindingFaults' \in 0..MaxBindingFaults
  BY DEF PhoneInv, Phone!TypeOK, Phone!BindingAssumption
<1>3. Others'
  BY <1>1, <1>2, OthersTyped DEF Others, Phone!Answers
<1>4. /\ Phone!Released(a, "successful") /\ Phone!Goes(a, "over")
      /\ remotePhone' = remotePhone
      /\ "failed" # Phone!Nothing /\ Phone!Answers(a, "failed")
  BY DEF Phone!Nothing
<1>5. /\ "over" \in Phone!Done \cup {"top"} /\ "failed" # "bound" /\ "successful" \in {"terminal", "reusable", "successful"}
      /\ place[a] \in Agreed => "successful" = "successful" /\ "over" \in Phone!Done
  BY <1>1 DEF Phone!Done, Agreed, Phone!Nothing
<1> QED
  BY <1>1, <1>2, <1>3, <1>4, <1>5, GivesBackKeeps DEF Phone!Done

LEMMA AccountFailsKeeps ==
  ASSUME Phone!BindingAssumption, PhoneInv, NEW a \in Binders, Phone!AccountFails(a)
  PROVE  PhoneInv'
<1> USE DEF Phone!AccountFails, Phone!Fails, Phone!allocation, Phone!openai, Phone!operator, Phone!At
<1>1. /\ place[a] \in Phone!Holding /\ place[a] \in {"trying", "marked"}
      /\ held[a] \in Phones /\ skips \in Nat /\ a \notin confirmed
  BY DEF PhoneInv, Phone!TypeOK, Phone!Holding, Phone!Touched, Phone!Done, BindingsFollow
<1>2. /\ phonePool' \in [Phones -> Phone!Rows]
      /\ \A q \in Phones : phonePool'[q].emails = phonePool[q].emails
      /\ bindingFaults' \in {bindingFaults, bindingFaults + 1}
      /\ bindingFaults' \in 0..MaxBindingFaults
  <2>1. PICK statuses \in {{phonePool[held[a]].status}, {"active"}} :
                Phone!RecordFailure(held[a], statuses)
    OBVIOUS
  <2>2. statuses \in SUBSET ({"active", "disabled"} \cup Phone!Verdicts)
    BY <1>1 DEF PhoneInv, Phone!TypeOK, Phone!Rows
  <2> QED
    BY <1>1, <2>1, <2>2, FailureRecorded
<1>3. Others'
  BY <1>1, <1>2, OthersTyped DEF Others, Phone!Answers
<1>4. /\ "over" \in Phone!Done \cup {"top"} /\ "failed" # "bound" /\ "failed" # Phone!Nothing
      /\ place[a] \notin Agreed
  BY <1>1 DEF Phone!Done, Agreed, Phone!Nothing
<1>5. /\ Phone!Goes(a, "over") /\ Phone!Answers(a, "failed") /\ remotePhone' = remotePhone
      /\ \/ Phone!Released(a, "successful")
         \/ place[a] = "trying" /\ Phone!Released(a, "reusable")
  OBVIOUS
<1>6. CASE Phone!Released(a, "successful")
  BY <1>1, <1>2, <1>3, <1>4, <1>5, <1>6, GivesBackKeeps DEF Phone!Done
<1>7. CASE place[a] = "trying" /\ Phone!Released(a, "reusable")
  BY <1>1, <1>2, <1>3, <1>4, <1>5, <1>7, GivesBackKeeps DEF Phone!Done
<1> QED
  BY <1>5, <1>6, <1>7

LEMMA SkipKeeps ==
  ASSUME Phone!BindingAssumption, PhoneInv, NEW a \in Binders, Phone!Skip(a)
  PROVE  PhoneInv'
<1> USE DEF Phone!Skip, Phone!allocation, Phone!openai, Phone!operator, Phone!At
<1>1. /\ skips \in Nat /\ skips' = skips + 1 /\ skips' \in 0..MaxSkips
      /\ bindingFaults' \in {bindingFaults, bindingFaults + 1}
  BY DEF PhoneInv, Phone!TypeOK, Phone!BindingAssumption
<1>2. CASE /\ place[a] = "ready" /\ Phone!Goes(a, "broken")
           /\ UNCHANGED <<held, cursor, claimed, terminal, successful, bindingResult>>
  <2>1. /\ place' \in [Binders -> {"waiting", "ready", "top"} \cup Phone!Holding \cup Phone!Done]
        /\ place'[a] = "broken" /\ \A b \in Binders : b # a => place'[b] = place[b]
        /\ held[a] = Phone!Nothing /\ place[a] = "ready"
    BY <1>2 DEF PhoneInv, Phone!TypeOK, Phone!Goes, Phone!Holding, Phone!Touched, Phone!Done
  <2>2. Phone!TypeOK'
    BY <1>1, <1>2, <2>1 DEF PhoneInv, Phone!TypeOK, Phone!Holding, Phone!Touched, Phone!Done
  <2>3. HeldApart'
    BY <1>2 DEF PhoneInv, HeldApart
  <2>4. RemoteApart'
    BY <1>2, <2>1 DEF PhoneInv, RemoteApart, Agreed, Phone!Done
  <2>5. TextedFew'
    <3> SUFFICES ASSUME bindingStop # "now", NEW p \in Phones
                 PROVE  /\ Phone!Cardinality(texted[p]) <= 1 + skips'
                        /\ Phone!Cardinality(texted[p]) <= skips'
      BY DEF TextedFew
    <3>1. Phone!Cardinality(texted[p]) \in Nat
      BY PhoneCounts, FS_Subset, FS_CardinalityType
         DEF PhoneInv, Phone!TypeOK, Phone!BindingAssumption
    <3>2. Phone!Cardinality(texted[p]) <= 1 + skips
      BY DEF PhoneInv, TextedFew
    <3> QED
      BY <1>1, <3>1, <3>2
  <2>6. PoolHasRoom'
    BY <1>2 DEF PhoneInv, PoolHasRoom
  <2>7. BindingsFollow'
    BY <1>2, <2>1 DEF PhoneInv, BindingsFollow, Phone!Done
  <2>8. EndsInOrder'
    BY <1>2, <2>1 DEF PhoneInv, EndsInOrder, Phone!Done
  <2> QED
    BY <2>2, <2>3, <2>4, <2>5, <2>6, <2>7, <2>8 DEF PhoneInv
<1>3. CASE /\ place[a] \in Phone!Holding \ {"persisted"}
           /\ Phone!Released(a, Phone!AsTouched(a))
           /\ Phone!Goes(a, "over") /\ Phone!Answers(a, "skipped")
  <2>1. PICK how : how = Phone!AsTouched(a)
    OBVIOUS
  <2>2. /\ how \in {"terminal", "reusable", "successful"}
        /\ place[a] \in Agreed => how = "successful"
        /\ how = "reusable" => place[a] \in {"trying", "sent"}
    BY <1>3, <2>1 DEF Phone!AsTouched, Phone!Holding, Phone!Touched, Agreed
  <2>3. /\ "over" \in Phone!Done \cup {"top"} /\ "over" \in Phone!Done
        /\ "skipped" \notin {Phone!Nothing, "bound", "failed"}
    BY DEF Phone!Done, Phone!Nothing
  <2>4. Others'
    BY <1>1, <1>3, OthersTyped DEF Others, Phone!Answers
  <2>5. /\ place[a] \in Phone!Holding /\ Phone!Released(a, how)
        /\ Phone!Goes(a, "over") /\ Phone!Answers(a, "skipped")
        /\ remotePhone' = remotePhone
        /\ \A p \in Phones : phonePool'[p].emails = phonePool[p].emails
        /\ UNCHANGED <<bindingPhase, texted, confirmed, binding, bindingStop>>
    BY <1>3, <2>1
  <2> HIDE DEF Phone!Skip
  <2> QED
    BY <1>1, <2>2, <2>3, <2>4, <2>5, GivesBackKeeps
<1> QED
  BY <1>2, <1>3

LEMMA StoppedKeeps ==
  ASSUME Phone!BindingAssumption, PhoneInv, NEW a \in Binders, Phone!Stopped(a)
  PROVE  PhoneInv'
<1> USE DEF Phone!Stopped, Phone!allocation, Phone!openai, Phone!operator, Phone!At
<1>1. /\ skips \in Nat /\ skips' = skips /\ bindingFaults' = bindingFaults
      /\ bindingStop = "now" /\ bindingStop' = bindingStop
  BY DEF PhoneInv, Phone!TypeOK, Phone!BindingAssumption
<1>2. CASE /\ place[a] \in {"ready", "top"} /\ Phone!Goes(a, "stopped")
           /\ UNCHANGED <<held, cursor, claimed, terminal, successful>>
  <2>1. /\ place' \in [Binders -> {"waiting", "ready", "top"} \cup Phone!Holding \cup Phone!Done]
        /\ place'[a] = "stopped" /\ \A b \in Binders : b # a => place'[b] = place[b]
        /\ held[a] = Phone!Nothing
    BY <1>2 DEF PhoneInv, Phone!TypeOK, Phone!Goes, Phone!Holding, Phone!Touched, Phone!Done
  <2>2. Phone!TypeOK'
    BY <1>1, <1>2, <2>1 DEF PhoneInv, Phone!TypeOK, Phone!Holding, Phone!Touched, Phone!Done
  <2>3. HeldApart'
    BY <1>2 DEF PhoneInv, HeldApart
  <2>4. RemoteApart'
    BY <1>2, <2>1 DEF PhoneInv, RemoteApart, Agreed, Phone!Done
  <2>5. TextedFew'
    BY <1>1 DEF TextedFew
  <2>6. PoolHasRoom'
    BY <1>2 DEF PhoneInv, PoolHasRoom
  <2>7. BindingsFollow'
    BY <1>2, <2>1 DEF PhoneInv, BindingsFollow, Phone!Done
  <2>8. EndsInOrder'
    BY <1>1, <1>2, <2>1 DEF PhoneInv, EndsInOrder, Phone!Done
  <2> QED
    BY <2>2, <2>3, <2>4, <2>5, <2>6, <2>7, <2>8 DEF PhoneInv
<1>3. CASE /\ place[a] \in Phone!Holding \ {"persisted"}
           /\ Phone!Released(a, Phone!AsTouched(a)) /\ Phone!Goes(a, "stopped")
  <2>1. PICK how : how = Phone!AsTouched(a)
    OBVIOUS
  <2>2. /\ how \in {"terminal", "reusable", "successful"}
        /\ place[a] \in Agreed => how = "successful"
        /\ how = "reusable" => place[a] \in {"trying", "sent"}
    BY <1>3, <2>1 DEF Phone!AsTouched, Phone!Holding, Phone!Touched, Agreed
  <2>3. /\ "stopped" \in Phone!Done \cup {"top"} /\ "stopped" \in Phone!Done
        /\ Phone!Nothing \notin {"bound", "failed"}
    BY DEF Phone!Done, Phone!Nothing
  <2>4. Others'
    BY <1>1, OthersTyped DEF Others
  <2>5. /\ place[a] \in Phone!Holding /\ Phone!Released(a, how)
        /\ Phone!Goes(a, "stopped") /\ bindingResult' = bindingResult
        /\ remotePhone' = remotePhone
        /\ \A p \in Phones : phonePool'[p].emails = phonePool[p].emails
        /\ UNCHANGED <<bindingPhase, texted, confirmed, binding, bindingStop>>
    BY <1>3, <2>1
  <2> HIDE DEF Phone!Stopped
  <2> QED
    BY <1>1, <2>2, <2>3, <2>4, <2>5, GivesBackKeeps
<1> QED
  BY <1>2, <1>3

\* The account joins the number's accounts: they are one more at most, and the
\* number had room, and nobody else holds it.
LEMMA BoundKeeps ==
  ASSUME Phone!BindingAssumption, PhoneInv, NEW a \in Binders, Phone!Bound(a)
  PROVE  PhoneInv'
<1> USE DEF Phone!Bound, Phone!allocation, Phone!openai, Phone!operator, Phone!At
<1>1. /\ place[a] = "persisted" /\ place[a] \in Phone!Holding /\ place[a] \in Agreed
      /\ held[a] \in Phones /\ skips \in Nat /\ skips' = skips
      /\ Phone!Nothing \notin Phones
      /\ bindingFaults \in 0..MaxBindingFaults /\ MaxBindingFaults \in Nat
  BY DEF PhoneInv, Phone!TypeOK, Phone!Holding, Phone!Touched, Agreed, Phone!BindingAssumption
<1>2. /\ Phone!Released(a, "successful") /\ Phone!Goes(a, "over") /\ Phone!Answers(a, "bound")
      /\ remotePhone' = remotePhone /\ confirmed' = confirmed /\ binding' = binding
      /\ bindingPhase' = bindingPhase /\ texted' = texted /\ bindingStop' = bindingStop
      /\ poolRequests' = poolRequests
  OBVIOUS
<1>3. /\ bindingFaults' \in {bindingFaults, bindingFaults + 1}
      /\ bindingFaults' \in 0..MaxBindingFaults
      /\ bindingFaults > 0 => bindingFaults' > 0
  BY <1>1
<1> DEFINE emails == phonePool[held[a]].emails \cup {a}
<1>4. /\ phonePool' \in [Phones -> Phone!Rows]
      /\ \A p \in Phones : p # held[a] => phonePool'[p] = phonePool[p]
      /\ \/ phonePool'[held[a]].emails = emails
         \/ phonePool'[held[a]].emails = phonePool[held[a]].emails /\ bindingFaults' > 0
  <2>1. phonePool \in [Phones -> Phone!Rows]
    BY DEF PhoneInv, Phone!TypeOK
  <2>2. CASE Phone!RecordSuccess(held[a], a)
    <3>1. PICK r : /\ phonePool' = [phonePool EXCEPT ![held[a]] = r]
                   /\ r = [emails |-> emails,
                           status |-> IF Phone!Cardinality(emails) >= MaxAccounts
                                      THEN "exhausted" ELSE "active"]
      BY <2>2 DEF Phone!RecordSuccess
    <3>2. r \in Phone!Rows /\ r.emails = emails
      BY <1>1, <2>1, <3>1 DEF Phone!Rows, Phone!Verdicts
    <3> QED
      BY <1>1, <2>1, <3>1, <3>2
  <2>3. CASE phonePool' = phonePool /\ bindingFaults' = bindingFaults + 1
    BY <1>1, <2>1, <2>3
  <2> QED
    BY <2>2, <2>3
<1> HIDE DEF emails
<1> HIDE DEF Phone!Bound
<1>5. /\ HeldApart' /\ RemoteApart' /\ TextedFew'
      /\ place' \in [Binders -> {"waiting", "ready", "top"} \cup Phone!Holding \cup Phone!Done]
      /\ held' \in [Binders -> Phones \cup {Phone!Nothing}]
      /\ \A b \in Binders : held'[b] = Phone!Nothing <=> place'[b] \notin Phone!Holding
      /\ claimed' = {held'[b] : b \in Binders} \ {Phone!Nothing}
      /\ terminal' \subseteq Phones /\ successful' \subseteq Phones
      /\ cursor' = cursor
  <2>1. /\ "over" \in Phone!Done \cup {"top"} /\ "over" \in Phone!Done
        /\ "successful" \in {"terminal", "reusable", "successful"} /\ "successful" # "reusable"
    BY DEF Phone!Done
  <2> QED
    BY <1>1, <1>2, <2>1, GivesBackApart
<1>6. /\ held'[a] = Phone!Nothing
      /\ \A b \in Binders : b # a => held'[b] = held[b] /\ held[b] # held[a]
      /\ place'[a] = "over" /\ bindingResult'[a] = "bound"
      /\ \A b \in Binders : b # a => place'[b] = place[b] /\ bindingResult'[b] = bindingResult[b]
  <2>1. \A b \in Binders : b # a => held[b] # held[a]
    BY <1>1 DEF PhoneInv, HeldApart
  <2> QED
    BY <1>1, <1>2, <2>1, ReleaseKeeps
       DEF PhoneInv, Phone!TypeOK, Phone!Goes, Phone!Answers
<1>7. PoolHasRoom'
  <2> SUFFICES ASSUME UsePool
               PROVE  /\ \A p \in Phones : Phone!Cardinality(phonePool'[p].emails) <= MaxAccounts
                      /\ \A b \in Binders : held'[b] \in Phones =>
                            Phone!Cardinality(phonePool'[held'[b]].emails) < MaxAccounts
    BY DEF PoolHasRoom
  <2>1. /\ \A p \in Phones : Phone!Cardinality(phonePool[p].emails) <= MaxAccounts
        /\ \A b \in Binders : held[b] \in Phones =>
              Phone!Cardinality(phonePool[held[b]].emails) < MaxAccounts
    BY DEF PhoneInv, PoolHasRoom
  <2>2. /\ MaxAccounts \in Nat
        /\ Cardinality(phonePool[held[a]].emails) \in Nat
        /\ Cardinality(emails) <= Cardinality(phonePool[held[a]].emails) + 1
        /\ Cardinality(emails) \in Nat
    <3>1. IsFiniteSet(Binders)
      BY PhoneCounts DEF Phone!BindingAssumption
    <3>2. phonePool[held[a]].emails \subseteq Binders \cup {Phone!Another}
      BY <1>1 DEF PhoneInv, Phone!TypeOK, Phone!Rows
    <3>3. IsFiniteSet(phonePool[held[a]].emails)
      BY <3>1, <3>2, FS_AddElement, FS_Subset
    <3>4. /\ Cardinality(phonePool[held[a]].emails) \in Nat
          /\ Cardinality(phonePool[held[a]].emails \cup {a}) =
                IF a \in phonePool[held[a]].emails THEN Cardinality(phonePool[held[a]].emails)
                ELSE Cardinality(phonePool[held[a]].emails) + 1
      BY <3>3, FS_AddElement, FS_CardinalityType
    <3>5. MaxAccounts \in Nat
      BY DEF Phone!BindingAssumption
    <3> QED
      BY <3>4, <3>5 DEF emails
  <2>3. Phone!Cardinality(phonePool'[held[a]].emails) <= MaxAccounts
    BY <1>1, <1>4, <2>1, <2>2, PhoneCounts
  <2>4. \A p \in Phones : Phone!Cardinality(phonePool'[p].emails) <= MaxAccounts
    BY <1>4, <2>1, <2>3
  <2>5. \A b \in Binders : held'[b] \in Phones =>
            Phone!Cardinality(phonePool'[held'[b]].emails) < MaxAccounts
    BY <1>1, <1>4, <1>6, <2>1
  <2> QED
    BY <2>4, <2>5
<1>8. BindingsFollow'
  <2>1. /\ BindingsFollow /\ binding[a] = held[a]
    BY <1>1 DEF PhoneInv, BindingsFollow
  <2>2. \A p \in Phones : \A b \in phonePool'[p].emails \ {Phone!Another} : binding'[b] = p
    BY <1>2, <1>4, <2>1 DEF BindingsFollow, emails
  <2>3. \A p \in Phones : /\ phonePool[p].emails \subseteq phonePool'[p].emails
    BY <1>4 DEF emails
  <2>4. /\ bindingFaults' > 0 \/ a \in phonePool'[binding'[a]].emails
        /\ binding'[a] # Phone!Nothing
    BY <1>1, <1>2, <1>4, <2>1 DEF emails
  <2>5. binding \in [Binders -> Phones \cup {Phone!Nothing}]
    BY DEF PhoneInv, Phone!TypeOK
  <2>6. ASSUME NEW b \in Binders
        PROVE  /\ binding'[b] # Phone!Nothing => binding'[b] = remotePhone'[b]
               /\ place'[b] = "persisted" => binding'[b] = held'[b]
               /\ b \in confirmed' => /\ place'[b] \in {"completed", "persisted"} \cup Phone!Done
                                      /\ binding'[b] = remotePhone'[b] \/ bindingFaults' > 0
               /\ bindingResult'[b] # Phone!Nothing => place'[b] \in {"over", "collected"}
    BY <1>2, <1>3, <1>6, <2>1 DEF BindingsFollow, Phone!Done
  <2>7. ASSUME NEW b \in Binders
        PROVE  /\ bindingResult'[b] = "bound" =>
                     /\ binding'[b] # Phone!Nothing
                     /\ b \in phonePool'[binding'[b]].emails \/ bindingFaults' > 0
               /\ bindingResult'[b] = "failed" /\ b \in confirmed' => bindingFaults' > 0
    BY <1>2, <1>3, <1>6, <2>1, <2>3, <2>4, <2>5 DEF BindingsFollow
  <2> QED
    BY <2>2, <2>6, <2>7 DEF BindingsFollow
<1>9. EndsInOrder'
  <2>1. EndsInOrder /\ bindingPhase # "over" /\ "bound" # Phone!Nothing
    BY <1>1 DEF PhoneInv, EndsInOrder, Phone!Done, Phone!Nothing
  <2> QED
    BY <1>2, <1>6, <2>1 DEF EndsInOrder
<1>10. Others'
  <2>1. /\ Others /\ skips' \in 0..MaxSkips
    BY <1>1, OthersTyped DEF Others
  <2>2. bindingResult' \in [Binders -> {Phone!Nothing, "bound", "account_phone_bound", "failed",
                                      "skipped", "not_tested", "unknown"}]
    BY <1>2, <2>1 DEF Others, Phone!Answers
  <2> QED
    BY <1>2, <1>3, <1>4, <2>1, <2>2 DEF Others
<1>11. Phone!TypeOK'
  BY <1>5, <1>10, GivesBackTyped
<1> QED
  BY <1>5, <1>7, <1>8, <1>9, <1>11 DEF PhoneInv

\* The steps that give no number back.
USE DEF Phone!At, Phone!Goes, Phone!allocation, Phone!openai, Phone!operator,
    Phone!BindingAssumption, Phone!TypeOK, Phone!Holding, Phone!Touched, Phone!Done,
    Phone!Rows, Phone!Verdicts, Agreed, PhoneInv

LEMMA StartKeeps ==
  ASSUME Phone!BindingAssumption, PhoneInv, NEW a \in Binders, Phone!Start(a)
  PROVE  PhoneInv'
<1> USE DEF Phone!Start
<1>1. Phone!TypeOK'
  BY DEF Phone!TypeOK
<1>2. HeldApart'
  BY DEF HeldApart
<1>3. RemoteApart'
  BY DEF HeldApart, RemoteApart
<1>4. TextedFew'
  BY DEF HeldApart, TextedFew
<1>5. PoolHasRoom'
  BY DEF HeldApart, PoolHasRoom
<1>6. BindingsFollow'
  BY DEF RemoteApart, BindingsFollow
<1>7. EndsInOrder'
  BY DEF BindingsFollow, EndsInOrder
<1> QED
  BY <1>1, <1>2, <1>3, <1>4, <1>5, <1>6, <1>7

LEMMA ClaimKeeps ==
  ASSUME Phone!BindingAssumption, PhoneInv, NEW a \in Binders, Phone!Claim(a)
  PROVE  PhoneInv'
<1>1. CASE Phone!Choices = {}
  <2>1. /\ place[a] = "top" /\ place' = [place EXCEPT ![a] = "over"]
        /\ bindingResult' = [bindingResult EXCEPT ![a] = "not_tested"]
        /\ cursor' \in 0..Len(Items)
        /\ UNCHANGED <<held, claimed, terminal, successful, bindingPhase, texted, remotePhone,
                       confirmed, binding, phonePool, bindingStop, skips, poolRequests,
                       bindingFaults>>
    BY <1>1 DEF Phone!Claim, Phone!Answers
  <2>2. /\ place'[a] = "over" /\ \A b \in Binders : b # a => place'[b] = place[b]
        /\ bindingResult'[a] = "not_tested" /\ "not_tested" # Phone!Nothing
        /\ \A b \in Binders : b # a => bindingResult'[b] = bindingResult[b]
    BY <2>1 DEF Phone!Nothing
  <2> HIDE DEF PhoneInv
  <2>3. Phone!TypeOK'
    BY <2>1 DEF PhoneInv
  <2>4. HeldApart' /\ RemoteApart' /\ TextedFew' /\ PoolHasRoom'
    BY <2>1, <2>2 DEF PhoneInv, HeldApart, RemoteApart, TextedFew, PoolHasRoom
  <2>5. BindingsFollow'
    BY <2>1, <2>2 DEF PhoneInv, BindingsFollow
  <2>6. EndsInOrder'
    BY <2>1, <2>2 DEF PhoneInv, BindingsFollow, EndsInOrder
  <2> QED
    BY <2>3, <2>4, <2>5, <2>6 DEF PhoneInv
<1>2. CASE Phone!Choices # {}
  <2>1. PICK c \in Phone!Choices : /\ held' = [held EXCEPT ![a] = c.phone]
                                  /\ claimed' = claimed \cup {c.phone}
                                  /\ cursor' = c.cursor
    BY <1>2 DEF Phone!Claim
  <2>2. /\ place[a] = "top" /\ place' = [place EXCEPT ![a] = "trying"]
        /\ UNCHANGED <<terminal, successful, bindingPhase, texted, remotePhone,
                       confirmed, binding, phonePool, bindingResult, bindingStop, skips,
                       poolRequests, bindingFaults>>
    BY <1>2 DEF Phone!Claim
  <2>3. /\ c.phone \in Phones /\ c.phone \notin terminal \cup successful \cup claimed
        /\ c.cursor \in 0..Len(Items)
        /\ UsePool => Phone!Cardinality(phonePool[c.phone].emails) < MaxAccounts
    BY <2>1, ChoicesAreFree DEF Phone!Excluded
  <2>4. /\ held'[a] = c.phone /\ held[a] = Phone!Nothing
        /\ \A b \in Binders : b # a => held'[b] = held[b]
        /\ \A b \in Binders : b # a => held[b] # c.phone
        /\ HeldApart /\ c.phone # Phone!Nothing
        /\ place'[a] = "trying" /\ \A b \in Binders : b # a => place'[b] = place[b]
    BY <2>1, <2>2, <2>3
  <2> HIDE DEF PhoneInv
  <2>5. Phone!TypeOK'
    <3>1. claimed' = {held'[b] : b \in Binders} \ {Phone!Nothing}
      BY <2>1, <2>3, <2>4 DEF PhoneInv
    <3>2. /\ held' \in [Binders -> Phones \cup {Phone!Nothing}]
          /\ \A b \in Binders : held'[b] = Phone!Nothing <=> place'[b] \notin Phone!Holding
          /\ place' \in [Binders -> {"waiting", "ready", "top"} \cup Phone!Holding \cup Phone!Done]
      BY <2>1, <2>2, <2>3, <2>4 DEF PhoneInv
    <3> QED
      BY <2>1, <2>2, <2>3, <3>1, <3>2 DEF PhoneInv
  <2>6. HeldApart'
    BY <2>2, <2>3, <2>4 DEF HeldApart
  <2>7. RemoteApart' /\ TextedFew'
    BY <2>2, <2>4 DEF PhoneInv, RemoteApart, TextedFew
  <2>8. PoolHasRoom'
    BY <2>2, <2>3, <2>4 DEF PhoneInv, PoolHasRoom
  <2>9. BindingsFollow'
    BY <2>2, <2>4 DEF PhoneInv, BindingsFollow
  <2>10. EndsInOrder'
    BY <2>2, <2>4 DEF PhoneInv, EndsInOrder
  <2> QED
    BY <2>5, <2>6, <2>7, <2>8, <2>9, <2>10 DEF PhoneInv
<1> QED
  BY <1>1, <1>2

LEMMA ClaimFailsKeeps ==
  ASSUME Phone!BindingAssumption, PhoneInv, NEW a \in Binders, Phone!ClaimFails(a)
  PROVE  PhoneInv'
<1> USE DEF Phone!ClaimFails
<1>1. Phone!TypeOK'
  BY DEF Phone!TypeOK
<1>2. HeldApart'
  BY DEF HeldApart
<1>3. RemoteApart'
  BY DEF HeldApart, RemoteApart
<1>4. TextedFew'
  BY DEF HeldApart, TextedFew
<1>5. PoolHasRoom'
  BY DEF HeldApart, PoolHasRoom
<1>6. BindingsFollow'
  BY DEF RemoteApart, BindingsFollow
<1>7. EndsInOrder'
  BY DEF BindingsFollow, EndsInOrder
<1> QED
  BY <1>1, <1>2, <1>3, <1>4, <1>5, <1>6, <1>7

LEMMA SendKeeps ==
  ASSUME Phone!BindingAssumption, PhoneInv, NEW a \in Binders, Phone!Send(a)
  PROVE  PhoneInv'
<1> USE DEF Phone!Send
<1>1. Phone!TypeOK'
  BY DEF Phone!TypeOK
<1>2. HeldApart'
  BY DEF HeldApart
<1>3. RemoteApart'
  BY DEF HeldApart, RemoteApart
<1>4. TextedFew'
  <2> SUFFICES ASSUME bindingStop # "now", NEW p \in Phones
               PROVE  /\ Phone!Cardinality(texted'[p]) <= 1 + skips
                      /\ \/ Phone!Cardinality(texted'[p]) <= skips
                         \/ p \in terminal \cup successful
                         \/ \E b \in Binders : held[b] = p /\ place'[b] \in {"sent"} \cup Phone!Touched
    <3>1. UNCHANGED <<held, terminal, successful, skips, bindingStop>>
      OBVIOUS
    <3> HIDE DEF PhoneInv, Phone!Send
    <3> QED
      BY <3>1 DEF TextedFew
  <2>1. /\ held[a] \in Phones /\ held[a] \notin terminal \cup successful
        /\ place[a] = "trying" /\ place'[a] = "sent"
        /\ \A b \in Binders : b # a => place'[b] = place[b] /\ held[b] # held[a]
        /\ texted'[held[a]] = texted[held[a]] \cup {a}
        /\ \A q \in Phones : q # held[a] => texted'[q] = texted[q]
    BY DEF HeldApart
  <2>2. TextedFew
    OBVIOUS
  <2>3. CASE p # held[a]
    BY <2>1, <2>2, <2>3 DEF TextedFew
  <2>4. CASE p = held[a]
    <3>1. Phone!Cardinality(texted[p]) <= skips
      BY <2>1, <2>2, <2>4 DEF TextedFew
    <3>2. IsFiniteSet(texted[p])
      BY FS_Subset, PhoneCounts
    <3>3. Cardinality(texted[p] \cup {a}) \in {Cardinality(texted[p]), Cardinality(texted[p]) + 1}
      BY <3>2, FS_AddElement
    <3>4. Cardinality(texted[p]) \in Nat /\ skips \in Nat
      BY <3>2, FS_CardinalityType
    <3>5. Phone!Cardinality(texted'[p]) <= 1 + skips
      BY <2>1, <2>4, <3>1, <3>3, <3>4, PhoneCounts
    <3> QED
      BY <2>1, <2>4, <3>5
  <2> QED
    BY <2>3, <2>4
<1>5. PoolHasRoom'
  BY DEF HeldApart, PoolHasRoom
<1>6. BindingsFollow'
  BY DEF RemoteApart, BindingsFollow
<1>7. EndsInOrder'
  BY DEF BindingsFollow, EndsInOrder
<1> QED
  BY <1>1, <1>2, <1>3, <1>4, <1>5, <1>6, <1>7

LEMMA MarkSentKeeps ==
  ASSUME Phone!BindingAssumption, PhoneInv, NEW a \in Binders, Phone!MarkSent(a)
  PROVE  PhoneInv'
<1> USE DEF Phone!MarkSent
<1>1. Phone!TypeOK'
  BY DEF Phone!TypeOK
<1>2. HeldApart'
  BY DEF HeldApart
<1>3. RemoteApart'
  BY DEF HeldApart, RemoteApart
<1>4. TextedFew'
  BY DEF HeldApart, TextedFew
<1>5. PoolHasRoom'
  BY DEF HeldApart, PoolHasRoom
<1>6. BindingsFollow'
  BY DEF RemoteApart, BindingsFollow
<1>7. EndsInOrder'
  BY DEF BindingsFollow, EndsInOrder
<1> QED
  BY <1>1, <1>2, <1>3, <1>4, <1>5, <1>6, <1>7

LEMMA AcceptedKeeps ==
  ASSUME Phone!BindingAssumption, PhoneInv, NEW a \in Binders, Phone!Accepted(a)
  PROVE  PhoneInv'
<1> USE DEF Phone!Accepted
<1>1. Phone!TypeOK'
  BY DEF Phone!TypeOK
<1>2. HeldApart'
  BY DEF HeldApart
<1>3. RemoteApart'
  BY DEF HeldApart, RemoteApart
<1>4. TextedFew'
  BY DEF HeldApart, TextedFew
<1>5. PoolHasRoom'
  BY DEF HeldApart, PoolHasRoom
<1>6. BindingsFollow'
  BY DEF RemoteApart, BindingsFollow
<1>7. EndsInOrder'
  BY DEF BindingsFollow, EndsInOrder
<1> QED
  BY <1>1, <1>2, <1>3, <1>4, <1>5, <1>6, <1>7

LEMMA ConfirmKeeps ==
  ASSUME Phone!BindingAssumption, PhoneInv, NEW a \in Binders, Phone!Confirm(a)
  PROVE  PhoneInv'
<1> USE DEF Phone!Confirm
<1>1. Phone!TypeOK'
  <2>1. /\ place' \in [Binders -> {"waiting", "ready", "top"} \cup Phone!Holding \cup Phone!Done]
        /\ \A b \in Binders : held[b] = Phone!Nothing <=> place'[b] \notin Phone!Holding
    OBVIOUS
  <2>2. /\ binding' \in [Binders -> Phones \cup {Phone!Nothing}]
        /\ confirmed' \subseteq Binders
    OBVIOUS
  <2>3. bindingFaults' \in 0..MaxBindingFaults
    OBVIOUS
  <2> QED
    BY <2>1, <2>2, <2>3
<1>2. HeldApart'
  BY DEF HeldApart
<1>3. RemoteApart'
  BY DEF HeldApart, RemoteApart
<1>4. TextedFew'
  BY DEF HeldApart, TextedFew
<1>5. PoolHasRoom'
  BY DEF HeldApart, PoolHasRoom
<1>6. BindingsFollow'
  <2>1. /\ place[a] = "accepted" /\ place'[a] = "completed"
        /\ remotePhone' = remotePhone /\ held' = held /\ bindingResult' = bindingResult
        /\ phonePool' = phonePool /\ confirmed' = confirmed \cup {a}
        /\ remotePhone[a] = held[a] /\ held[a] \in Phones /\ Phone!Nothing \notin Phones
        /\ \A b \in Binders : b # a => place'[b] = place[b] /\ binding'[b] = binding[b]
        /\ \/ binding'[a] = held[a] /\ bindingFaults' = bindingFaults
           \/ binding'[a] = binding[a] /\ bindingFaults' > 0
        /\ bindingFaults > 0 => bindingFaults' > 0
        /\ bindingResult[a] = Phone!Nothing
    BY DEF RemoteApart, BindingsFollow
  <2>2. BindingsFollow /\ Phone!Nothing # "bound" /\ Phone!Nothing # "failed"
    BY DEF Phone!Nothing
  <2>3. \A p \in Phones : \A b \in phonePool[p].emails \ {Phone!Another} : binding'[b] = p
    <3>1. \A p \in Phones : a \in phonePool[p].emails \ {Phone!Another} => binding'[a] = p
      BY <2>1, <2>2 DEF BindingsFollow
    <3> QED
      BY <2>1, <2>2, <3>1 DEF BindingsFollow
  <2> HIDE DEF PhoneInv, Phone!Confirm
  <2>4. ASSUME NEW b \in Binders
        PROVE  /\ binding'[b] # Phone!Nothing => binding'[b] = remotePhone[b]
               /\ place'[b] = "persisted" => binding'[b] = held[b]
               /\ b \in confirmed' => /\ place'[b] \in {"completed", "persisted"} \cup Phone!Done
                                      /\ binding'[b] = remotePhone[b] \/ bindingFaults' > 0
               /\ bindingResult[b] # Phone!Nothing => place'[b] \in {"over", "collected"}
    BY <2>1, <2>2 DEF BindingsFollow
  <2>5. ASSUME NEW b \in Binders
        PROVE  /\ bindingResult[b] = "bound" =>
                     /\ binding'[b] # Phone!Nothing
                     /\ b \in phonePool[binding'[b]].emails \/ bindingFaults' > 0
               /\ bindingResult[b] = "failed" /\ b \in confirmed' => bindingFaults' > 0
    BY <2>1, <2>2 DEF BindingsFollow
  <2> QED
    BY <2>1, <2>3, <2>4, <2>5 DEF BindingsFollow
<1>7. EndsInOrder'
  BY DEF BindingsFollow, EndsInOrder
<1> QED
  BY <1>1, <1>2, <1>3, <1>4, <1>5, <1>6, <1>7

LEMMA PersistKeeps ==
  ASSUME Phone!BindingAssumption, PhoneInv, NEW a \in Binders, Phone!Persist(a)
  PROVE  PhoneInv'
<1> USE DEF Phone!Persist
<1>1. Phone!TypeOK'
  BY DEF Phone!TypeOK
<1>2. HeldApart'
  BY DEF HeldApart
<1>3. RemoteApart'
  BY DEF HeldApart, RemoteApart
<1>4. TextedFew'
  BY DEF HeldApart, TextedFew
<1>5. PoolHasRoom'
  BY DEF HeldApart, PoolHasRoom
<1>6. BindingsFollow'
  BY DEF RemoteApart, BindingsFollow
<1>7. EndsInOrder'
  BY DEF BindingsFollow, EndsInOrder
<1> QED
  BY <1>1, <1>2, <1>3, <1>4, <1>5, <1>6, <1>7

LEMMA SubmitKeeps ==
  ASSUME Phone!BindingAssumption, PhoneInv, NEW a \in Binders, Phone!Submit(a)
  PROVE  PhoneInv'
<1> USE DEF Phone!Submit
<1>1. Phone!TypeOK'
  BY DEF Phone!TypeOK
<1>2. HeldApart'
  BY DEF HeldApart
<1>3. RemoteApart'
  BY DEF HeldApart, RemoteApart
<1>4. TextedFew'
  BY DEF HeldApart, TextedFew
<1>5. PoolHasRoom'
  BY DEF HeldApart, PoolHasRoom
<1>6. BindingsFollow'
  BY DEF RemoteApart, BindingsFollow
<1>7. EndsInOrder'
  BY DEF BindingsFollow, EndsInOrder
<1> QED
  BY <1>1, <1>2, <1>3, <1>4, <1>5, <1>6, <1>7

LEMMA CollectKeeps ==
  ASSUME Phone!BindingAssumption, PhoneInv, NEW a \in Binders, Phone!Collect(a)
  PROVE  PhoneInv'
<1> USE DEF Phone!Collect, Phone!Answers
<1>1. Phone!TypeOK'
  <2>1. /\ place' \in [Binders -> {"waiting", "ready", "top"} \cup Phone!Holding \cup Phone!Done]
        /\ \A b \in Binders : held[b] = Phone!Nothing <=> place'[b] \notin Phone!Holding
        /\ bindingPhase' \in {"running", "draining", "over"}
    OBVIOUS
  <2>2. bindingResult' \in [Binders -> {Phone!Nothing, "bound", "account_phone_bound", "failed",
                                        "skipped", "not_tested", "unknown"}]
    OBVIOUS
  <2> QED
    BY <2>1, <2>2
<1>2. HeldApart'
  BY DEF HeldApart
<1>3. RemoteApart'
  BY DEF HeldApart, RemoteApart
<1>4. TextedFew'
  BY DEF HeldApart, TextedFew
<1>5. PoolHasRoom'
  BY DEF HeldApart, PoolHasRoom
<1>6. BindingsFollow'
  BY DEF RemoteApart, BindingsFollow
<1>7. EndsInOrder'
  <2>1. "unknown" # Phone!Nothing
    BY DEF Phone!Nothing
  <2>2. /\ \A b \in Binders : b # a => place'[b] = place[b] /\ bindingResult'[b] = bindingResult[b]
        /\ bindingResult'[a] = bindingResult[a] \/ bindingResult'[a] = "unknown"
        /\ \/ /\ place'[a] = "collected" /\ bindingPhase' = bindingPhase
              /\ place[a] \in {"over", "broken"}
              /\ place[a] = "broken" => bindingResult'[a] = "unknown"
           \/ place'[a] = place[a] /\ place[a] = "stopped" /\ bindingPhase' = "draining"
        /\ bindingPhase = "running" /\ bindingStop' = bindingStop
    OBVIOUS
  <2> HIDE DEF PhoneInv, Phone!Collect
  <2>3. EndsInOrder
    BY DEF PhoneInv
  <2>4. ASSUME NEW b \in Binders
        PROVE  /\ place'[b] = "stopped" => bindingStop' = "now"
               /\ place'[b] \in {"over", "collected"} =>
                     bindingResult'[b] # Phone!Nothing \/ bindingStop' # "none"
    BY <2>1, <2>2, <2>3 DEF EndsInOrder
  <2> QED
    BY <2>2, <2>3, <2>4 DEF EndsInOrder
<1> QED
  BY <1>1, <1>2, <1>3, <1>4, <1>5, <1>6, <1>7

LEMMA StopSeenKeeps ==
  ASSUME Phone!BindingAssumption, PhoneInv, Phone!StopSeen
  PROVE  PhoneInv'
<1> USE DEF Phone!StopSeen
<1>1. Phone!TypeOK'
  BY DEF Phone!TypeOK
<1>2. HeldApart'
  BY DEF HeldApart
<1>3. RemoteApart'
  BY DEF HeldApart, RemoteApart
<1>4. TextedFew'
  BY DEF HeldApart, TextedFew
<1>5. PoolHasRoom'
  BY DEF HeldApart, PoolHasRoom
<1>6. BindingsFollow'
  BY DEF RemoteApart, BindingsFollow
<1>7. EndsInOrder'
  BY DEF BindingsFollow, EndsInOrder
<1> QED
  BY <1>1, <1>2, <1>3, <1>4, <1>5, <1>6, <1>7

LEMMA FinishKeeps ==
  ASSUME Phone!BindingAssumption, PhoneInv, Phone!Finish
  PROVE  PhoneInv'
<1> USE DEF Phone!Finish, Phone!InFlight
<1>1. Phone!TypeOK'
  BY DEF Phone!TypeOK
<1>2. HeldApart'
  BY DEF HeldApart
<1>3. RemoteApart'
  BY DEF HeldApart, RemoteApart
<1>4. TextedFew'
  BY DEF HeldApart, TextedFew
<1>5. PoolHasRoom'
  BY DEF HeldApart, PoolHasRoom
<1>6. BindingsFollow'
  BY DEF RemoteApart, BindingsFollow
<1>7. EndsInOrder'
  BY DEF BindingsFollow, EndsInOrder
<1> QED
  BY <1>1, <1>2, <1>3, <1>4, <1>5, <1>6, <1>7

LEMMA BindingStopKeeps ==
  ASSUME Phone!BindingAssumption, PhoneInv, Phone!RequestStop
  PROVE  PhoneInv'
<1> USE DEF Phone!RequestStop
<1>1. Phone!TypeOK'
  BY DEF Phone!TypeOK
<1>2. HeldApart'
  BY DEF HeldApart
<1>3. RemoteApart'
  BY DEF HeldApart, RemoteApart
<1>4. TextedFew'
  BY DEF HeldApart, TextedFew
<1>5. PoolHasRoom'
  BY DEF HeldApart, PoolHasRoom
<1>6. BindingsFollow'
  BY DEF RemoteApart, BindingsFollow
<1>7. EndsInOrder'
  BY DEF BindingsFollow, EndsInOrder
<1> QED
  BY <1>1, <1>2, <1>3, <1>4, <1>5, <1>6, <1>7

LEMMA SetStatusKeeps ==
  ASSUME Phone!BindingAssumption, PhoneInv, NEW p \in Phones, Phone!SetStatus(p)
  PROVE  PhoneInv'
<1> USE DEF Phone!SetStatus
<1>1. Phone!TypeOK'
  <2>1. phonePool' \in [Phones -> Phone!Rows]
    <3>1. PICK verdict \in {"active", "disabled"} :
                phonePool' = [phonePool EXCEPT ![p].status = verdict]
      OBVIOUS
    <3>2. phonePool \in [Phones -> Phone!Rows]
      OBVIOUS
    <3> HIDE DEF PhoneInv, Phone!TypeOK, Phone!SetStatus
    <3>3. [phonePool[p] EXCEPT !.status = verdict] \in Phone!Rows
      BY <3>2
    <3> HIDE DEF Phone!Rows
    <3> QED
      BY <3>1, <3>2, <3>3
  <2>2. poolRequests' \in 0..MaxPoolRequests
    OBVIOUS
  <2> HIDE DEF Phone!Rows
  <2> QED
    BY <2>1, <2>2
<1>2. HeldApart'
  BY DEF HeldApart
<1>3. RemoteApart'
  BY DEF HeldApart, RemoteApart
<1>4. TextedFew'
  BY DEF HeldApart, TextedFew
<1>5. PoolHasRoom'
  BY DEF HeldApart, PoolHasRoom
<1>6. BindingsFollow'
  BY DEF RemoteApart, BindingsFollow
<1>7. EndsInOrder'
  BY DEF BindingsFollow, EndsInOrder
<1> QED
  BY <1>1, <1>2, <1>3, <1>4, <1>5, <1>6, <1>7

LEMMA RecoverKeeps ==
  ASSUME Phone!BindingAssumption, PhoneInv, NEW p \in Phones, Phone!Recover(p)
  PROVE  PhoneInv'
<1> USE DEF Phone!Recover
<1>1. Phone!TypeOK'
  <2>1. phonePool \in [Phones -> Phone!Rows]
    OBVIOUS
  <2>2. phonePool' \in [Phones -> Phone!Rows]
    <3>1. phonePool' = [phonePool EXCEPT ![p].status = "active"]
      OBVIOUS
    <3> HIDE DEF PhoneInv, Phone!TypeOK, Phone!Recover
    <3>2. [phonePool[p] EXCEPT !.status = "active"] \in Phone!Rows
      BY <2>1
    <3> HIDE DEF Phone!Rows
    <3> QED
      BY <2>1, <3>1, <3>2
  <2> HIDE DEF Phone!Rows
  <2> QED
    BY <2>2
<1>2. HeldApart'
  BY DEF HeldApart
<1>3. RemoteApart'
  BY DEF HeldApart, RemoteApart
<1>4. TextedFew'
  BY DEF HeldApart, TextedFew
<1>5. PoolHasRoom'
  BY DEF HeldApart, PoolHasRoom
<1>6. BindingsFollow'
  BY DEF RemoteApart, BindingsFollow
<1>7. EndsInOrder'
  BY DEF BindingsFollow, EndsInOrder
<1> QED
  BY <1>1, <1>2, <1>3, <1>4, <1>5, <1>6, <1>7

HIDE DEF Phone!At, Phone!Goes, Phone!allocation, Phone!openai, Phone!operator,
    Phone!BindingAssumption, Phone!TypeOK, Phone!Holding, Phone!Touched, Phone!Done,
    Phone!Rows, Phone!Verdicts, Agreed, PhoneInv

\* Every step of the task, of the operator and of the pool's maintenance.
LEMMA PhoneStep ==
  ASSUME Phone!BindingAssumption, PhoneInv, [Phone!Next]_(Phone!vars)
  PROVE  PhoneInv'
<1>1. CASE UNCHANGED Phone!vars
  <2>1. UNCHANGED <<bindingPhase, place, held, cursor, claimed, terminal, successful, texted,
                    remotePhone, confirmed, binding, phonePool, bindingResult, bindingStop, skips,
                    bindingFaults, poolRequests>>
    BY <1>1 DEF Phone!vars, Phone!allocation, Phone!openai, Phone!operator
  <2> QED
    BY <2>1 DEF PhoneInv, Phone!TypeOK, HeldApart, RemoteApart, TextedFew, PoolHasRoom,
                BindingsFollow, EndsInOrder
<1>2. ASSUME NEW a \in Binders, Phone!Worker(a) PROVE PhoneInv'
  BY <1>2, StartKeeps, ClaimKeeps, ClaimFailsKeeps, AlreadyBoundKeeps, SendKeeps, MarkSentKeeps,
     AcceptedKeeps, AnswerLostKeeps, ConfirmKeeps, PersistKeeps, BoundKeeps, NumberFailsKeeps,
     AccountFailsKeeps, ResultFailsKeeps, SkipKeeps, StoppedKeeps DEF Phone!Worker
<1>3. ASSUME NEW a \in Binders, Phone!Submit(a) \/ Phone!Collect(a) PROVE PhoneInv'
  BY <1>3, SubmitKeeps, CollectKeeps
<1>4. CASE Phone!StopSeen \/ Phone!Finish \/ Phone!RequestStop
  BY <1>4, StopSeenKeeps, FinishKeeps, BindingStopKeeps
<1>5. ASSUME NEW p \in Phones, Phone!SetStatus(p) \/ Phone!Recover(p) PROVE PhoneInv'
  BY <1>5, SetStatusKeeps, RecoverKeeps
<1> QED
  BY <1>1, <1>2, <1>3, <1>4, <1>5 DEF Phone!Next

\* The variables of a phone-binding task have their types, and a number is claimed
\* exactly while a worker has it.
THEOREM PhoneTypeCorrect ==
  ASSUME Phone!BindingAssumption PROVE Phone!Spec => []Phone!TypeOK
<1>1. PhoneInv => Phone!TypeOK
  BY DEF PhoneInv
<1> QED
  BY <1>1, PhoneInit, PhoneStep, PTL DEF Phone!Spec

\* However many workers, numbers and accounts: claim_phone_item never hands a number to
\* two workers, OpenAI binds it to one account at most, a number gets a second message
\* only after a skip, and no number of the pool gets more accounts than it may.
THEOREM NumbersBindOnceCorrect ==
  ASSUME Phone!BindingAssumption PROVE Phone!Spec => []Phone!NumbersBindOnce
<1>1. PhoneInv => Phone!NumbersBindOnce
  BY DEF PhoneInv, HeldApart, RemoteApart, TextedFew, PoolHasRoom, Phone!NumbersBindOnce
<1> QED
  BY <1>1, PhoneInit, PhoneStep, PTL DEF Phone!Spec

\* A binding that OpenAI confirmed is on the account's row unless a write failed, the
\* row, the pool's count and the result never make one up, and a task that nobody
\* stopped ends with a result for every account and with no number in anybody's hands.
THEOREM BindingsSettleCorrect ==
  ASSUME Phone!BindingAssumption PROVE Phone!Spec => []Phone!BindingsSettle
<1>1. PhoneInv => Phone!BindingsSettle
  <2> SUFFICES ASSUME PhoneInv PROVE Phone!BindingsSettle
    OBVIOUS
  <2>1. Phone!TypeOK /\ BindingsFollow /\ EndsInOrder
    BY DEF PhoneInv
  <2>2. ASSUME NEW a \in Binders
        PROVE  /\ binding[a] # Phone!Nothing => binding[a] = remotePhone[a]
               /\ a \in confirmed => binding[a] = remotePhone[a] \/ bindingFaults > 0
               /\ bindingResult[a] = "bound" =>
                     /\ binding[a] # Phone!Nothing
                     /\ a \in phonePool[binding[a]].emails \/ bindingFaults > 0
               /\ bindingResult[a] = "failed" /\ a \in confirmed => bindingFaults > 0
               /\ bindingPhase = "over" /\ bindingStop = "none" => bindingResult[a] # Phone!Nothing
    BY <2>1 DEF BindingsFollow, EndsInOrder
  <2>3. bindingPhase = "over" => /\ \A a \in Binders : place[a] \in Phone!Done \cup {"waiting"}
                                 /\ claimed = {}
    BY <2>1 DEF EndsInOrder, Phone!TypeOK, Phone!Holding, Phone!Touched, Phone!Done
  <2>4. \A p \in Phones : \A a \in phonePool[p].emails \ {Phone!Another} : binding[a] = p
    BY <2>1 DEF BindingsFollow
  <2> QED
    BY <2>2, <2>3, <2>4 DEF Phone!BindingsSettle
<1> QED
  BY <1>1, PhoneInit, PhoneStep, PTL DEF Phone!Spec
=============================================================================
