-------------------------- MODULE MCComponents_proofs --------------------------
(***************************************************************************)
(* The theorems of the composition MCComponents.  Its first part is about  *)
(* the exits, for any attempts, tasks, exits and times that meet           *)
(* ExitAssumption.  The rest brings home, component by component, what     *)
(* Ledgers_proofs, EmailChange_proofs and PaypalFollowup_proofs show for   *)
(* all constants: a behaviour of the composition in a scope is a behaviour *)
(* of that component, the scope never changes, and the component's         *)
(* constants meet its assumption.                                          *)
(***************************************************************************)
EXTENDS MCComponents, TLAPS

(* The exits: attempts, their leases and heartbeats.                        *)

\* An attempt has a heartbeat from its first exit on, and while it works the
\* heartbeat is there; before it starts it has no exit.
Tended ==
    \A a \in Attempts :
       /\ heart[a] = "none" <=> using[a] = {}
       /\ phase[a] = "queued" => using[a] = {}
       /\ phase[a] = "working" /\ using[a] # {} => Beats(a)

\* Each exit in use is leased to its user for longer than the heartbeat may
\* still take.
Covered ==
    \A a \in Attempts : \A e \in using[a] :
       phase[a] = "working" => e \in Owned(a) /\ lease[e].left > beat[a] + Lag

\* An exit without time left is free, and a free one has had its rest.
FreeIsRested ==
    \A e \in Exits : /\ lease[e].left = 0 <=> lease[e].state = "free"
                     /\ lease[e].state = "free" => rested[e] = Cooldown

IInv == TypeOK /\ Tended /\ Covered /\ FreeIsRested /\ RestIsExact

-----------------------------------------------------------------------------
\* What the registry writes is a lease.
LEMMA LeaseTypes ==
  /\ Free \in Leases
  /\ \A a \in Attempts : Active(a) \in Leases /\ Resting(a) \in Leases
  /\ \A l \in Leases : l.left > 0 => Renewed(l) \in Leases /\ [l EXCEPT !.left = @ - 1] \in Leases
<1> USE ExitAssumption DEF Leases, Longest
<1>1. Free \in Leases
  BY DEF Free
<1>2. ASSUME NEW a \in Attempts PROVE Active(a) \in Leases /\ Resting(a) \in Leases
  BY <1>1 DEF Active, Resting
<1>3. ASSUME NEW l \in Leases, l.left > 0
      PROVE  Renewed(l) \in Leases /\ [l EXCEPT !.left = @ - 1] \in Leases
  BY <1>3 DEF Renewed
<1> QED
  BY <1>1, <1>2, <1>3

LEMMA InitIInv == Init => IInv
<1> SUFFICES ASSUME Init PROVE IInv
  OBVIOUS
<1> USE ExitAssumption DEF Init
<1>1. TypeOK
  BY LeaseTypes DEF TypeOK
<1>2. Tended
  BY DEF Tended
<1>3. Covered
  BY DEF Covered
<1>4. FreeIsRested
  BY DEF FreeIsRested, Free
<1>5. RestIsExact
  BY DEF RestIsExact, Free
<1> QED
  BY <1>1, <1>2, <1>3, <1>4, <1>5 DEF IInv

-----------------------------------------------------------------------------
(* Each action keeps the invariant. *)

LEMMA StartsKeeps ==
  ASSUME IInv, NEW a \in Attempts, Starts(a)
  PROVE  IInv'
<1> USE DEF IInv, Starts
<1>1. TypeOK'
  BY DEF TypeOK
<1>2. Tended'
  BY DEF Tended, TypeOK, Beats
<1>3. Covered'
  BY DEF Covered, Tended, TypeOK, Owned, Held
<1>4. FreeIsRested'
  BY DEF FreeIsRested
<1>5. RestIsExact'
  BY DEF RestIsExact, TypeOK, Leases
<1> QED
  BY <1>1, <1>2, <1>3, <1>4, <1>5

LEMMA ClaimsKeeps ==
  ASSUME IInv, NEW a \in Attempts, NEW ip \in Addresses, Claims(a, ip)
  PROVE  IInv'
<1> DEFINE x == ExitOf[ip]
<1> USE ExitAssumption DEF IInv
<1>1. /\ x \in Exits
      /\ phase[a] = "working" /\ phase' = phase
      /\ ~Held(x) \/ x \in Owned(a)
      /\ lease' = [lease EXCEPT ![x] = Active(a)]
      /\ using' = [using EXCEPT ![a] = @ \cup {x}]
      /\ heart' = [heart EXCEPT ![a] = IF @ = "none" THEN "waiting" ELSE @]
      /\ UNCHANGED <<beat, rested>>
  BY DEF Claims, Claimable
<1> HIDE DEF x
<1>2. TypeOK'
  BY <1>1, LeaseTypes DEF TypeOK
<1>3. Tended'
  BY <1>1 DEF Tended, TypeOK, Beats
<1>4. Covered'
  <2> SUFFICES ASSUME NEW b \in Attempts, NEW e \in using'[b], phase'[b] = "working"
               PROVE  e \in Owned(b)' /\ lease'[e].left > beat'[b] + Lag
    BY DEF Covered
  <2>1. CASE b = a /\ e = x
    BY <1>1, <2>1 DEF TypeOK, Owned, Held, Active
  <2>2. CASE b = a /\ e # x
    BY <1>1, <2>2 DEF Covered, TypeOK, Owned, Held
  <2>3. CASE b # a
    <3>1. e \in Owned(b) /\ lease[e].left > beat[b] + Lag
      BY <1>1, <2>3 DEF Covered, TypeOK
    <3>2. e # x
      BY <1>1, <2>3, <3>1 DEF Owned, Held
    <3> QED
      BY <1>1, <2>3, <3>1, <3>2 DEF TypeOK, Owned, Held
  <2> QED
    BY <2>1, <2>2, <2>3
<1>5. FreeIsRested'
  BY <1>1 DEF FreeIsRested, TypeOK, Active
<1>6. RestIsExact'
  <2>1. rested[x] = Cooldown
    BY <1>1 DEF FreeIsRested, RestIsExact, Owned, Held, TypeOK, Leases
  <2> QED
    BY <1>1, <2>1 DEF RestIsExact, TypeOK, Active, Leases
<1> QED
  BY <1>2, <1>3, <1>4, <1>5, <1>6

LEMMA ClosesKeeps ==
  ASSUME IInv, NEW a \in Attempts, Closes(a)
  PROVE  IInv'
<1> USE DEF IInv, Closes
<1>1. TypeOK'
  BY DEF TypeOK
<1>2. Tended'
  BY DEF Tended, TypeOK, Beats
<1>3. Covered'
  BY DEF Covered, TypeOK, Owned, Held
<1>4. FreeIsRested'
  BY DEF FreeIsRested
<1>5. RestIsExact'
  BY DEF RestIsExact, TypeOK, Leases
<1> QED
  BY <1>1, <1>2, <1>3, <1>4, <1>5

LEMMA ReleasesKeeps ==
  ASSUME IInv, NEW a \in Attempts, Releases(a)
  PROVE  IInv'
<1> USE ExitAssumption DEF IInv
<1>1. /\ phase[a] = "closing" /\ phase' = [phase EXCEPT ![a] = "over"]
      /\ lease' = [e \in Exits |-> IF e \in Owned(a) THEN Resting(a) ELSE lease[e]]
      /\ rested' = [e \in Exits |-> IF e \in Owned(a) THEN 0 ELSE rested[e]]
      /\ UNCHANGED <<using, heart, beat>>
  BY DEF Releases
<1>2. TypeOK'
  BY <1>1, LeaseTypes DEF TypeOK
<1>3. Tended'
  BY <1>1 DEF Tended, TypeOK, Beats
<1>4. Covered'
  <2> SUFFICES ASSUME NEW b \in Attempts, NEW e \in using'[b], phase'[b] = "working"
               PROVE  e \in Owned(b)' /\ lease'[e].left > beat'[b] + Lag
    BY DEF Covered
  <2>1. b # a /\ e \in Exits /\ e \in Owned(b) /\ lease[e].left > beat[b] + Lag
    BY <1>1 DEF Covered, TypeOK
  <2>2. lease'[e] = lease[e]
    BY <1>1, <2>1 DEF Owned
  <2> QED
    BY <1>1, <2>1, <2>2 DEF Owned, Held
<1>5. FreeIsRested'
  BY <1>1 DEF FreeIsRested, TypeOK, Resting, Free
<1>6. RestIsExact'
  <2> SUFFICES ASSUME NEW e \in Exits
               PROVE  /\ lease'[e].state = "active" =>
                            /\ phase'[lease'[e].owner] \in {"working", "closing"}
                            /\ rested'[e] = Cooldown
                      /\ lease'[e].state = "cooldown" => lease'[e].left + rested'[e] = Cooldown
    BY DEF RestIsExact
  <2>1. CASE e \in Owned(a)
    BY <1>1, <2>1 DEF Resting, Free
  <2>2. CASE e \notin Owned(a)
    <3>1. lease'[e] = lease[e] /\ rested'[e] = rested[e]
      BY <1>1, <2>2
    <3>2. lease[e].state = "active" => lease[e].owner # a
      BY <2>2 DEF Owned, Held, FreeIsRested, TypeOK, Leases
    <3> QED
      BY <1>1, <3>1, <3>2 DEF RestIsExact, TypeOK, Leases
  <2> QED
    BY <2>1, <2>2
<1> QED
  BY <1>2, <1>3, <1>4, <1>5, <1>6

LEMMA WakesKeeps ==
  ASSUME IInv, NEW a \in Attempts, Wakes(a)
  PROVE  IInv'
<1> USE DEF IInv, Wakes
<1>1. TypeOK'
  BY DEF TypeOK
<1>2. Tended'
  BY DEF Tended, TypeOK, Beats
<1>3. Covered'
  BY DEF Covered, Owned, Held
<1>4. FreeIsRested'
  BY DEF FreeIsRested
<1>5. RestIsExact'
  BY DEF RestIsExact
<1> QED
  BY <1>1, <1>2, <1>3, <1>4, <1>5

LEMMA RefreshesKeeps ==
  ASSUME IInv, NEW a \in Attempts, Refreshes(a)
  PROVE  IInv'
<1> USE ExitAssumption DEF IInv
<1>1. /\ heart[a] = "refreshing"
      /\ lease' = [e \in Exits |-> IF e \in Owned(a) THEN Renewed(lease[e]) ELSE lease[e]]
      /\ heart' = [heart EXCEPT ![a] = IF Owned(a) = {} THEN "gone" ELSE "waiting"]
      /\ beat' = [beat EXCEPT ![a] = Interval]
      /\ UNCHANGED <<using, phase, rested>>
  BY DEF Refreshes, Refreshable
<1>2. TypeOK'
  <2>1. \A e \in Exits : lease'[e] \in Leases
    BY <1>1, LeaseTypes DEF TypeOK, Owned, Held
  <2> QED
    BY <1>1, <2>1 DEF TypeOK
<1>3. \A e \in Exits : /\ lease'[e].state = lease[e].state
                       /\ lease'[e].owner = lease[e].owner
                       /\ lease'[e].left = IF e \in Owned(a) THEN TTL ELSE lease[e].left
  BY <1>1 DEF TypeOK, Renewed, Leases
<1>4. Tended'
  <2>1. phase[a] = "working" /\ using[a] # {} => Owned(a) # {}
    BY DEF Covered
  <2> QED
    BY <1>1, <2>1 DEF Tended, TypeOK, Beats
<1>5. Covered'
  <2> SUFFICES ASSUME NEW b \in Attempts, NEW e \in using'[b], phase'[b] = "working"
               PROVE  e \in Owned(b)' /\ lease'[e].left > beat'[b] + Lag
    BY DEF Covered
  <2>1. e \in Exits /\ e \in Owned(b) /\ lease[e].left > beat[b] + Lag
    BY <1>1 DEF Covered, TypeOK
  <2>2. CASE b = a
    BY <1>1, <1>3, <2>1, <2>2 DEF Owned, Held, TypeOK
  <2>3. CASE b # a
    BY <1>1, <1>3, <2>1, <2>3 DEF Owned, Held, TypeOK
  <2> QED
    BY <2>2, <2>3
<1>6. FreeIsRested'
  BY <1>1, <1>3 DEF FreeIsRested, TypeOK, Owned
<1>7. RestIsExact'
  BY <1>1, <1>3 DEF RestIsExact, Owned
<1> QED
  BY <1>2, <1>4, <1>5, <1>6, <1>7

LEMMA HeartStopsKeeps ==
  ASSUME IInv, NEW a \in Attempts, HeartStops(a)
  PROVE  IInv'
<1> USE DEF IInv, HeartStops
<1>1. TypeOK'
  BY DEF TypeOK
<1>2. Tended'
  BY DEF Tended, TypeOK, Beats
<1>3. Covered'
  BY DEF Covered, Owned, Held
<1>4. FreeIsRested'
  BY DEF FreeIsRested
<1>5. RestIsExact'
  BY DEF RestIsExact
<1> QED
  BY <1>1, <1>2, <1>3, <1>4, <1>5

LEMMA TickKeeps ==
  ASSUME IInv, Tick
  PROVE  IInv'
<1> USE ExitAssumption DEF IInv
<1>1. /\ \A a \in Attempts : Beats(a) /\ phase[a] = "working" => beat[a] > -Lag
      /\ lease' = [e \in Exits |-> CASE lease[e].left > 1 -> [lease[e] EXCEPT !.left = @ - 1]
                                     [] OTHER             -> Free]
      /\ beat' = [a \in Attempts |-> IF Beats(a) /\ beat[a] > -Lag THEN beat[a] - 1 ELSE beat[a]]
      /\ rested' = [e \in Exits |-> IF rested[e] < Cooldown THEN rested[e] + 1 ELSE Cooldown]
      /\ UNCHANGED <<using, phase, heart>>
  BY DEF Tick
<1>2. ASSUME NEW e \in Exits
      PROVE  /\ lease[e] \in Leases /\ lease[e].left \in Nat /\ rested[e] \in 0..Cooldown
             /\ lease[e].left > 1 => /\ lease'[e] \in Leases
                                     /\ lease'[e].left = lease[e].left - 1
                                     /\ lease'[e].state = lease[e].state
                                     /\ lease'[e].owner = lease[e].owner
             /\ ~(lease[e].left > 1) => lease'[e] = Free
  <2>1. lease[e] \in Leases /\ lease[e].left \in Nat /\ rested[e] \in 0..Cooldown
    BY DEF TypeOK, Leases, Longest
  <2>2. CASE lease[e].left > 1
    <3>1. lease'[e] = [lease[e] EXCEPT !.left = @ - 1]
      BY <1>1, <2>2
    <3>2. lease'[e] \in Leases
      BY <2>1, <2>2, <3>1, LeaseTypes
    <3>3. /\ lease'[e].left = lease[e].left - 1
          /\ lease'[e].state = lease[e].state
          /\ lease'[e].owner = lease[e].owner
      BY <2>1, <3>1 DEF Leases
    <3> QED
      BY <2>1, <2>2, <3>2, <3>3
  <2>3. CASE ~(lease[e].left > 1)
    BY <1>1, <2>1, <2>3
  <2> QED
    BY <2>1, <2>2, <2>3
<1>3. TypeOK'
  <2>1. lease' \in [Exits -> Leases]
    BY <1>1, <1>2, LeaseTypes
  <2>2. beat' \in [Attempts -> (-Lag)..Interval]
    BY <1>1 DEF TypeOK
  <2>3. rested' \in [Exits -> 0..Cooldown]
    BY <1>1 DEF TypeOK
  <2> QED
    BY <1>1, <2>1, <2>2, <2>3 DEF TypeOK
<1>4. Tended'
  BY <1>1 DEF Tended, Beats
<1>5. Covered'
  <2> SUFFICES ASSUME NEW a \in Attempts, NEW e \in using'[a], phase'[a] = "working"
               PROVE  e \in Owned(a)' /\ lease'[e].left > beat'[a] + Lag
    BY DEF Covered
  <2>1. /\ e \in Exits /\ e \in Owned(a) /\ lease[e].left > beat[a] + Lag
        /\ beat[a] \in (-Lag)..Interval
    BY <1>1 DEF Covered, TypeOK
  <2>2. Beats(a) /\ beat[a] > -Lag
    BY <1>1 DEF Tended
  <2>3. beat'[a] = beat[a] - 1
    BY <1>1, <2>2
  <2> QED
    BY <1>2, <2>1, <2>2, <2>3 DEF Owned, Held
<1>6. FreeIsRested'
  <2> SUFFICES ASSUME NEW e \in Exits
               PROVE  /\ lease'[e].left = 0 <=> lease'[e].state = "free"
                      /\ lease'[e].state = "free" => rested'[e] = Cooldown
    BY DEF FreeIsRested
  <2>1. CASE lease[e].left > 1
    BY <1>2, <2>1 DEF FreeIsRested
  <2>2. CASE ~(lease[e].left > 1)
    <3>1. rested'[e] = IF rested[e] < Cooldown THEN rested[e] + 1 ELSE Cooldown
      BY <1>1
    <3>2. lease[e] \in Leases /\ lease[e].left \in 0..1 /\ rested[e] \in 0..Cooldown
      BY <1>2, <2>2
    <3>3. lease[e].state = "cooldown" => rested[e] + 1 = Cooldown
      BY <3>2 DEF FreeIsRested, RestIsExact
    <3>4. lease[e].state # "cooldown" => rested[e] = Cooldown
      BY <3>2 DEF FreeIsRested, RestIsExact, Leases
    <3> QED
      BY <1>2, <2>2, <3>1, <3>2, <3>3, <3>4 DEF Free
  <2> QED
    BY <2>1, <2>2
<1>7. RestIsExact'
  <2> SUFFICES ASSUME NEW e \in Exits
               PROVE  /\ lease'[e].state = "active" =>
                            /\ phase'[lease'[e].owner] \in {"working", "closing"}
                            /\ rested'[e] = Cooldown
                      /\ lease'[e].state = "cooldown" => lease'[e].left + rested'[e] = Cooldown
    BY DEF RestIsExact
  <2>1. rested'[e] = IF rested[e] < Cooldown THEN rested[e] + 1 ELSE Cooldown
    BY <1>1
  <2>2. CASE lease[e].left > 1
    BY <1>1, <1>2, <2>1, <2>2 DEF RestIsExact
  <2>3. CASE ~(lease[e].left > 1)
    BY <1>2, <2>3 DEF Free
  <2> QED
    BY <2>2, <2>3
<1> QED
  BY <1>3, <1>4, <1>5, <1>6, <1>7

LEMMA NextIInv == IInv /\ [Next]_vars => IInv'
<1> SUFFICES ASSUME IInv, [Next]_vars PROVE IInv'
  OBVIOUS
<1>1. CASE UNCHANGED vars
  BY <1>1 DEF IInv, vars, TypeOK, Tended, Covered, FreeIsRested, RestIsExact, Beats, Owned, Held
<1> QED
  BY <1>1, StartsKeeps, ClaimsKeeps, ClosesKeeps, ReleasesKeeps, WakesKeeps, RefreshesKeeps,
     HeartStopsKeeps, TickKeeps DEF Next

-----------------------------------------------------------------------------
\* What holds in every reachable state of the registry and its attempts.
THEOREM InvariantCorrect == Spec => []IInv
  BY InitIInv, NextIInv, PTL DEF Spec

\* The types: no lease is longer than the settings allow, and a heartbeat is
\* late by Lag at most.
THEOREM TypeCorrect == Spec => []TypeOK
<1>1. IInv => TypeOK
  BY DEF IInv
<1> QED
  BY <1>1, InvariantCorrect, PTL

\* Attempts that work never share an exit, whatever their heartbeats do as long
\* as they come within the lease.
THEOREM ExitsAreExclusiveCorrect == Spec => []ExitsAreExclusive
<1>1. IInv => ExitsAreExclusive
  BY DEF IInv, Covered, ExitsAreExclusive
<1> QED
  BY <1>1, InvariantCorrect, PTL

\* An exit rests for exactly the cool-down, and no lease outlives its attempt.
THEOREM RestIsExactCorrect == Spec => []RestIsExact
<1>1. IInv => RestIsExact
  BY DEF IInv
<1> QED
  BY <1>1, InvariantCorrect, PTL

-----------------------------------------------------------------------------
(* The components proved about elsewhere, with the constants they have here. *)

\* The constants and variables of the first instance of each component ...
First == INSTANCE Ledgers_proofs
    WITH ActiveMax <- 2, FinishedMax <- 1, CheckpointEvery <- 2, Tries <- 3, PostSaves <- TRUE,
         TaskStops <- {}, MayCrash <- TRUE, MaxLines <- 3, MaxWriteFaults <- 1,
         live <- s1, status <- s2, lo <- s3, hi <- s4, since <- s5, stopMode <- s6, logRow <- s7,
         inserted <- s8, queued <- s9, owner <- s10, pc <- s11, snap <- s12, found <- s13,
         runnerPhase <- s14, tries <- s15, writeFaults <- s16, outcome <- s17, clicked <- s18,
         Registered <- 1..4, MinSamples <- 2, Threshold <- 50, StreakLimit <- 2,
         MaxDecisions <- 3,
         item <- s1, trigger <- s2, decisions <- s3, disallowed <- s4, ledger <- s5,
         quality <- s6,
         Codes <- Xs, Stock <- Ys, MaxRefetch <- 1, MaxCount <- 2,
         card <- s1, account <- s2, expired <- s3, events <- s4, work <- s5, answers <- s6,
         Payers <- Ys, PayCards <- {"g1"}, Target <- 0, FailureContinue <- TRUE,
         MaxOrderRequests <- 1,
         upstream <- s1, cardRow <- s2, copy <- s3, orderPhase <- s4, checks <- s5, unsent <- s6,
         inHand <- s7, openOrders <- s8, unasked <- s9, moved <- s10, orderResult <- s11,
         orderStop <- s12, orderSkip <- s13, polled <- s14, inFlight <- s15,
         orderRequests <- s16,
         Binders <- Ys, Phones <- Xs, UsePool <- TRUE, Items <- <<>>, Width <- 2,
         MaxAccounts <- 2, BindingStops <- {"now"}, MaxSkips <- 1, MaxBindingFaults <- 1,
         MaxPoolRequests <- 1,
         bindingPhase <- s1, place <- s2, held <- s3, cursor <- s4, claimed <- s5,
         terminal <- s6, successful <- s7, texted <- s8, remotePhone <- s9, confirmed <- s10,
         binding <- s11, phonePool <- s12, bindingResult <- s13, bindingStop <- s14,
         skips <- s15, bindingFaults <- s16, poolRequests <- s17

\* ... and of the second, where there is one.
Second == INSTANCE Ledgers_proofs
    WITH ActiveMax <- 2, FinishedMax <- 1, CheckpointEvery <- 1, Tries <- 2, PostSaves <- FALSE,
         TaskStops <- {"after_current"}, MayCrash <- FALSE, MaxLines <- 1, MaxWriteFaults <- 1,
         live <- s1, status <- s2, lo <- s3, hi <- s4, since <- s5, stopMode <- s6, logRow <- s7,
         inserted <- s8, queued <- s9, owner <- s10, pc <- s11, snap <- s12, found <- s13,
         runnerPhase <- s14, tries <- s15, writeFaults <- s16, outcome <- s17, clicked <- s18,
         Registered <- 1..4, MinSamples <- 2, Threshold <- 50, StreakLimit <- 2,
         MaxDecisions <- 3,
         item <- s1, trigger <- s2, decisions <- s3, disallowed <- s4, ledger <- s5,
         quality <- s6,
         Codes <- Xs, Stock <- Ys, MaxRefetch <- 1, MaxCount <- 2,
         card <- s1, account <- s2, expired <- s3, events <- s4, work <- s5, answers <- s6,
         Payers <- Ys \cup {"third"}, PayCards <- {"g1"}, Target <- 2, FailureContinue <- TRUE,
         MaxOrderRequests <- 0,
         upstream <- s1, cardRow <- s2, copy <- s3, orderPhase <- s4, checks <- s5, unsent <- s6,
         inHand <- s7, openOrders <- s8, unasked <- s9, moved <- s10, orderResult <- s11,
         orderStop <- s12, orderSkip <- s13, polled <- s14, inFlight <- s15,
         orderRequests <- s16,
         Binders <- Ys \cup {"third"}, Phones <- {"p1", "p2"}, UsePool <- FALSE,
         Items <- <<"p1", "p2", "p1">>, Width <- 2, MaxAccounts <- 2,
         BindingStops <- {"after"}, MaxSkips <- 0, MaxBindingFaults <- 0,
         MaxPoolRequests <- 0,
         bindingPhase <- s1, place <- s2, held <- s3, cursor <- s4, claimed <- s5,
         terminal <- s6, successful <- s7, texted <- s8, remotePhone <- s9, confirmed <- s10,
         binding <- s11, phonePool <- s12, bindingResult <- s13, bindingStop <- s14,
         skips <- s15, bindingFaults <- s16, poolRequests <- s17

\* The change of an e-mail and the PayPal payment.
EmailFacts == INSTANCE EmailChange_proofs
    WITH Targets <- {"m1", "m2"}, Callers <- Xs, Threads <- Ys, MaxRequests <- 6,
         MaxFaults <- 2, MaxCrashes <- 1,
         remote <- s1, email <- s2, rows <- s3, mailbox <- s4, active <- s5, api <- s6,
         run <- s7, asked <- s8, faults <- s9, crashes <- s10

PaypalFacts == INSTANCE PaypalFollowup_proofs
    WITH Continuations <- {"c1"}, MaxRelogins <- 2, MaxCrashes <- 1,
         email <- s1, token <- s2, marker <- s3, pipeline <- s4, upstream <- s5, row <- s6,
         run <- s7, work <- s8, unmarked <- s9, crashes <- s10

-----------------------------------------------------------------------------
(* What the components have in common.                                       *)

\* The component that moves.  For each of them there are three lemmas: ...IsOne,
\* that its two instances, here and in the module of its proofs, are one
\* specification; ...Behaves, that a behaviour of the composition is one of the
\* component, or never is in its scope; ...Holds, what follows of its properties.
Moves(x) == scope = x

-----------------------------------------------------------------------------
(* The history of a task whose process may die.                            *)

LEMMA HistoryIsOne ==
  /\ History!WindowsAssumption <=> First!History!WindowsAssumption
  /\ History!Init <=> First!History!Init
  /\ History!Next <=> First!History!Next
  /\ History!TypeOK <=> First!History!TypeOK
  /\ History!RowFollowsTask <=> First!History!RowFollowsTask
  /\ History!RowSettles <=> First!History!RowSettles
  /\ History!GoesForward <=> First!History!GoesForward
  /\ History!vars = First!History!vars
BY DEF
      History!WindowsAssumption, History!store, History!table, History!threads, History!vars,
      History!Threads, History!Terminal, History!HistoryTerminal, History!Statuses,
      History!Snapshots, History!NoSnap, History!NoRow, History!TypeOK, History!Init,
      History!At, History!Goto, History!Least, History!Most, History!Record, History!Merged,
      History!Preserved, History!Combined, History!SaveBegins, History!Leaves, History!Commit,
      History!Raises, History!AppendLog, History!Log, History!WorkerLogs, History!Continues,
      History!CheckpointSnapshot, History!CheckpointQueued, History!AccountResult,
      History!WorkerSaved, History!Worker, History!WriterTakes, History!WriterFolds,
      History!WriterSaved, History!WriterRetries, History!Writer, History!Result,
      History!Finishes, History!TaskFinishes, History!InCallback, History!CallbackWrites,
      History!CallbackRaises, History!Discards, History!Compacts, History!PostSave,
      History!PostSaved, History!PostRaises, History!Runner, History!RequestStop,
      History!ApiLogs, History!ApiSnapshot, History!ApiSaved, History!ApiReplies, History!Api,
      History!Cleanup, History!Crash, History!Next, History!RuntimeStatus, History!Displayed,
      History!RowFollowsTask, History!RowSettles, History!GoesForward,
      First!History!WindowsAssumption, First!History!store, First!History!table,
      First!History!threads, First!History!vars, First!History!Threads, First!History!Terminal,
      First!History!HistoryTerminal, First!History!Statuses, First!History!Snapshots,
      First!History!NoSnap, First!History!NoRow, First!History!TypeOK, First!History!Init,
      First!History!At, First!History!Goto, First!History!Least, First!History!Most,
      First!History!Record, First!History!Merged, First!History!Preserved,
      First!History!Combined, First!History!SaveBegins, First!History!Leaves,
      First!History!Commit, First!History!Raises, First!History!AppendLog, First!History!Log,
      First!History!WorkerLogs, First!History!Continues, First!History!CheckpointSnapshot,
      First!History!CheckpointQueued, First!History!AccountResult, First!History!WorkerSaved,
      First!History!Worker, First!History!WriterTakes, First!History!WriterFolds,
      First!History!WriterSaved, First!History!WriterRetries, First!History!Writer,
      First!History!Result, First!History!Finishes, First!History!TaskFinishes,
      First!History!InCallback, First!History!CallbackWrites, First!History!CallbackRaises,
      First!History!Discards, First!History!Compacts, First!History!PostSave,
      First!History!PostSaved, First!History!PostRaises, First!History!Runner,
      First!History!RequestStop, First!History!ApiLogs, First!History!ApiSnapshot,
      First!History!ApiSaved, First!History!ApiReplies, First!History!Api,
      First!History!Cleanup, First!History!Crash, First!History!Next,
      First!History!RuntimeStatus, First!History!Displayed, First!History!RowFollowsTask,
      First!History!RowSettles, First!History!GoesForward

LEMMA HistoryBehaves ==
  MCSpec => ([]Moves("history") /\ First!History!Spec) \/ []~Moves("history")
<1>1. MCInit /\ Moves("history") => First!History!Init
  BY HistoryIsOne DEF MCInit, Moves
<1>2. Moves("history") /\ [MCNext]_<<scope, vars, slots>>
        => [First!History!Next]_(First!History!vars) /\ Moves("history")'
  <2>1. ASSUME Moves("history"), MCNext
      PROVE  [First!History!Next]_(First!History!vars) /\ Moves("history")'
    BY <2>1, HistoryIsOne DEF MCNext, Moves
  <2>2. ASSUME Moves("history"), UNCHANGED <<scope, vars, slots>>
      PROVE  First!History!vars' = First!History!vars /\ Moves("history")'
    BY <2>2 DEF Moves, slots,
            First!History!store, First!History!table, First!History!threads, First!History!vars
  <2> QED
    BY <2>1, <2>2
<1>3. ~Moves("history") /\ [MCNext]_<<scope, vars, slots>> => ~Moves("history")'
  BY DEF MCNext, Moves
<1> QED
  BY <1>1, <1>2, <1>3, PTL DEF MCSpec, First!History!Spec

LEMMA HistoryHolds ==
  MCSpec => /\ [](Moves("history") => History!TypeOK)
            /\ [](Moves("history") => History!RowFollowsTask)
            /\ [](Moves("history") => History!RowSettles)
            /\ [][Moves("history") => History!GoesForward]_slots
<1>0. First!History!WindowsAssumption
  BY ComponentsAssumption, HistoryIsOne
<1>1. First!History!Spec => []First!History!TypeOK
  BY <1>0, First!HistoryTypeCorrect
<1>2. First!History!TypeOK => History!TypeOK
  BY HistoryIsOne
<1>3. First!History!Spec => []First!History!RowFollowsTask
  BY <1>0, First!RowFollowsTaskCorrect
<1>4. First!History!RowFollowsTask => History!RowFollowsTask
  BY HistoryIsOne
<1>5. First!History!Spec => []First!History!RowSettles
  BY <1>0, First!RowSettlesCorrect
<1>6. First!History!RowSettles => History!RowSettles
  BY HistoryIsOne
<1>7. First!History!Spec => [][First!History!GoesForward]_(First!History!vars)
  BY <1>0, First!HistoryGoesForwardCorrect
<1>8. Moves("history") /\ [MCNext]_<<scope, vars, slots>>
        /\ [First!History!GoesForward]_(First!History!vars)
        => [Moves("history") => History!GoesForward]_slots
  <2>1. ASSUME Moves("history"), [MCNext]_<<scope, vars, slots>>,
             First!History!vars' = First!History!vars
      PROVE  slots' = slots
    BY <2>1 DEF MCNext, Moves, slots, after6, after10,
            First!History!store, First!History!table, First!History!threads, First!History!vars
  <2> QED
    BY <2>1, HistoryIsOne
<1>9. ~Moves("history") => [Moves("history") => History!GoesForward]_slots
  OBVIOUS
<1> QED
  BY HistoryBehaves, <1>1, <1>2, <1>3, <1>4, <1>5, <1>6, <1>7, <1>8, <1>9, PTL DEF MCSpec

-----------------------------------------------------------------------------
(* The history of a task that is stopped.                                  *)

LEMMA StopsIsOne ==
  /\ Stops!WindowsAssumption <=> Second!History!WindowsAssumption
  /\ Stops!Init <=> Second!History!Init
  /\ Stops!Next <=> Second!History!Next
  /\ Stops!TypeOK <=> Second!History!TypeOK
  /\ Stops!RowFollowsTask <=> Second!History!RowFollowsTask
  /\ Stops!RowSettles <=> Second!History!RowSettles
  /\ Stops!GoesForward <=> Second!History!GoesForward
  /\ Stops!vars = Second!History!vars
BY DEF
      Stops!WindowsAssumption, Stops!store, Stops!table, Stops!threads, Stops!vars,
      Stops!Threads, Stops!Terminal, Stops!HistoryTerminal, Stops!Statuses, Stops!Snapshots,
      Stops!NoSnap, Stops!NoRow, Stops!TypeOK, Stops!Init, Stops!At, Stops!Goto, Stops!Least,
      Stops!Most, Stops!Record, Stops!Merged, Stops!Preserved, Stops!Combined,
      Stops!SaveBegins, Stops!Leaves, Stops!Commit, Stops!Raises, Stops!AppendLog, Stops!Log,
      Stops!WorkerLogs, Stops!Continues, Stops!CheckpointSnapshot, Stops!CheckpointQueued,
      Stops!AccountResult, Stops!WorkerSaved, Stops!Worker, Stops!WriterTakes,
      Stops!WriterFolds, Stops!WriterSaved, Stops!WriterRetries, Stops!Writer, Stops!Result,
      Stops!Finishes, Stops!TaskFinishes, Stops!InCallback, Stops!CallbackWrites,
      Stops!CallbackRaises, Stops!Discards, Stops!Compacts, Stops!PostSave, Stops!PostSaved,
      Stops!PostRaises, Stops!Runner, Stops!RequestStop, Stops!ApiLogs, Stops!ApiSnapshot,
      Stops!ApiSaved, Stops!ApiReplies, Stops!Api, Stops!Cleanup, Stops!Crash, Stops!Next,
      Stops!RuntimeStatus, Stops!Displayed, Stops!RowFollowsTask, Stops!RowSettles,
      Stops!GoesForward, Second!History!WindowsAssumption, Second!History!store,
      Second!History!table, Second!History!threads, Second!History!vars,
      Second!History!Threads, Second!History!Terminal, Second!History!HistoryTerminal,
      Second!History!Statuses, Second!History!Snapshots, Second!History!NoSnap,
      Second!History!NoRow, Second!History!TypeOK, Second!History!Init, Second!History!At,
      Second!History!Goto, Second!History!Least, Second!History!Most, Second!History!Record,
      Second!History!Merged, Second!History!Preserved, Second!History!Combined,
      Second!History!SaveBegins, Second!History!Leaves, Second!History!Commit,
      Second!History!Raises, Second!History!AppendLog, Second!History!Log,
      Second!History!WorkerLogs, Second!History!Continues, Second!History!CheckpointSnapshot,
      Second!History!CheckpointQueued, Second!History!AccountResult,
      Second!History!WorkerSaved, Second!History!Worker, Second!History!WriterTakes,
      Second!History!WriterFolds, Second!History!WriterSaved, Second!History!WriterRetries,
      Second!History!Writer, Second!History!Result, Second!History!Finishes,
      Second!History!TaskFinishes, Second!History!InCallback, Second!History!CallbackWrites,
      Second!History!CallbackRaises, Second!History!Discards, Second!History!Compacts,
      Second!History!PostSave, Second!History!PostSaved, Second!History!PostRaises,
      Second!History!Runner, Second!History!RequestStop, Second!History!ApiLogs,
      Second!History!ApiSnapshot, Second!History!ApiSaved, Second!History!ApiReplies,
      Second!History!Api, Second!History!Cleanup, Second!History!Crash, Second!History!Next,
      Second!History!RuntimeStatus, Second!History!Displayed, Second!History!RowFollowsTask,
      Second!History!RowSettles, Second!History!GoesForward

LEMMA StopsBehaves ==
  MCSpec => ([]Moves("stops") /\ Second!History!Spec) \/ []~Moves("stops")
<1>1. MCInit /\ Moves("stops") => Second!History!Init
  BY StopsIsOne DEF MCInit, Moves
<1>2. Moves("stops") /\ [MCNext]_<<scope, vars, slots>>
        => [Second!History!Next]_(Second!History!vars) /\ Moves("stops")'
  <2>1. ASSUME Moves("stops"), MCNext
      PROVE  [Second!History!Next]_(Second!History!vars) /\ Moves("stops")'
    BY <2>1, StopsIsOne DEF MCNext, Moves
  <2>2. ASSUME Moves("stops"), UNCHANGED <<scope, vars, slots>>
      PROVE  Second!History!vars' = Second!History!vars /\ Moves("stops")'
    BY <2>2 DEF Moves, slots,
            Second!History!store, Second!History!table, Second!History!threads, Second!History!vars
  <2> QED
    BY <2>1, <2>2
<1>3. ~Moves("stops") /\ [MCNext]_<<scope, vars, slots>> => ~Moves("stops")'
  BY DEF MCNext, Moves
<1> QED
  BY <1>1, <1>2, <1>3, PTL DEF MCSpec, Second!History!Spec

LEMMA StopsHolds ==
  MCSpec => /\ [](Moves("stops") => Stops!TypeOK)
            /\ [](Moves("stops") => Stops!RowFollowsTask)
            /\ [](Moves("stops") => Stops!RowSettles)
            /\ [][Moves("stops") => Stops!GoesForward]_slots
<1>0. Second!History!WindowsAssumption
  BY ComponentsAssumption, StopsIsOne
<1>1. Second!History!Spec => []Second!History!TypeOK
  BY <1>0, Second!HistoryTypeCorrect
<1>2. Second!History!TypeOK => Stops!TypeOK
  BY StopsIsOne
<1>3. Second!History!Spec => []Second!History!RowFollowsTask
  BY <1>0, Second!RowFollowsTaskCorrect
<1>4. Second!History!RowFollowsTask => Stops!RowFollowsTask
  BY StopsIsOne
<1>5. Second!History!Spec => []Second!History!RowSettles
  BY <1>0, Second!RowSettlesCorrect
<1>6. Second!History!RowSettles => Stops!RowSettles
  BY StopsIsOne
<1>7. Second!History!Spec => [][Second!History!GoesForward]_(Second!History!vars)
  BY <1>0, Second!HistoryGoesForwardCorrect
<1>8. Moves("stops") /\ [MCNext]_<<scope, vars, slots>>
        /\ [Second!History!GoesForward]_(Second!History!vars)
        => [Moves("stops") => Stops!GoesForward]_slots
  <2>1. ASSUME Moves("stops"), [MCNext]_<<scope, vars, slots>>,
             Second!History!vars' = Second!History!vars
      PROVE  slots' = slots
    BY <2>1 DEF MCNext, Moves, slots, after6, after10,
            Second!History!store, Second!History!table, Second!History!threads, Second!History!vars
  <2> QED
    BY <2>1, StopsIsOne
<1>9. ~Moves("stops") => [Moves("stops") => Stops!GoesForward]_slots
  OBVIOUS
<1> QED
  BY StopsBehaves, <1>1, <1>2, <1>3, <1>4, <1>5, <1>6, <1>7, <1>8, <1>9, PTL DEF MCSpec

-----------------------------------------------------------------------------
(* The quality of a domain.                                                *)

LEMMA QualityIsOne ==
  /\ Quality!PolicyAssumption <=> First!Quality!PolicyAssumption
  /\ Quality!Init <=> First!Quality!Init
  /\ Quality!Next <=> First!Quality!Next
  /\ Quality!TypeOK <=> First!Quality!TypeOK
  /\ Quality!PoorDomainsDrain <=> First!Quality!PoorDomainsDrain
  /\ Quality!LinkKept <=> First!Quality!LinkKept
  /\ Quality!vars = First!Quality!vars
BY DEF
      Quality!PolicyAssumption, Quality!vars, Quality!Codes, Quality!Outcomes, Quality!Known,
      Quality!TypeOK, Quality!Init, Quality!Streak, Quality!Recomputed, Quality!Judged,
      Quality!TooManyRejections, Quality!RegistrationResult, Quality!RegisteredAccount,
      Quality!Outcome, Quality!EligibilityOutcome, Quality!EligibilityResult,
      Quality!LinkOutcome, Quality!LinkResult, Quality!TaskOver, Quality!Next,
      Quality!PoorDomainsDrain, Quality!LinkKept, Quality!Cardinality, Quality!IsFiniteSet,
      First!Quality!PolicyAssumption, First!Quality!vars, First!Quality!Codes,
      First!Quality!Outcomes, First!Quality!Known, First!Quality!TypeOK, First!Quality!Init,
      First!Quality!Streak, First!Quality!Recomputed, First!Quality!Judged,
      First!Quality!TooManyRejections, First!Quality!RegistrationResult,
      First!Quality!RegisteredAccount, First!Quality!Outcome, First!Quality!EligibilityOutcome,
      First!Quality!EligibilityResult, First!Quality!LinkOutcome, First!Quality!LinkResult,
      First!Quality!TaskOver, First!Quality!Next, First!Quality!PoorDomainsDrain,
      First!Quality!LinkKept, First!Quality!Cardinality, First!Quality!IsFiniteSet

LEMMA QualityBehaves ==
  MCSpec => ([]Moves("quality") /\ First!Quality!Spec) \/ []~Moves("quality")
<1>1. MCInit /\ Moves("quality") => First!Quality!Init
  BY QualityIsOne DEF MCInit, Moves
<1>2. Moves("quality") /\ [MCNext]_<<scope, vars, slots>>
        => [First!Quality!Next]_(First!Quality!vars) /\ Moves("quality")'
  <2>1. ASSUME Moves("quality"), MCNext
      PROVE  [First!Quality!Next]_(First!Quality!vars) /\ Moves("quality")'
    BY <2>1, QualityIsOne DEF MCNext, Moves
  <2>2. ASSUME Moves("quality"), UNCHANGED <<scope, vars, slots>>
      PROVE  First!Quality!vars' = First!Quality!vars /\ Moves("quality")'
    BY <2>2 DEF Moves, slots,
            First!Quality!vars
  <2> QED
    BY <2>1, <2>2
<1>3. ~Moves("quality") /\ [MCNext]_<<scope, vars, slots>> => ~Moves("quality")'
  BY DEF MCNext, Moves
<1> QED
  BY <1>1, <1>2, <1>3, PTL DEF MCSpec, First!Quality!Spec

LEMMA QualityHolds ==
  MCSpec => /\ [](Moves("quality") => Quality!TypeOK)
            /\ [](Moves("quality") => Quality!PoorDomainsDrain)
            /\ [][Moves("quality") => Quality!LinkKept]_slots
<1>0. First!Quality!PolicyAssumption
  BY ComponentsAssumption, QualityIsOne
<1>1. First!Quality!Spec => []First!Quality!TypeOK
  BY <1>0, First!QualityTypeCorrect
<1>2. First!Quality!TypeOK => Quality!TypeOK
  BY QualityIsOne
<1>3. First!Quality!Spec => []First!Quality!PoorDomainsDrain
  BY <1>0, First!PoorDomainsDrainCorrect
<1>4. First!Quality!PoorDomainsDrain => Quality!PoorDomainsDrain
  BY QualityIsOne
<1>5. First!Quality!Spec => [][First!Quality!LinkKept]_(First!Quality!vars)
  BY <1>0, First!LinkKeptCorrect
<1>6. Moves("quality") /\ [MCNext]_<<scope, vars, slots>>
        /\ [First!Quality!LinkKept]_(First!Quality!vars)
        => [Moves("quality") => Quality!LinkKept]_slots
  <2>1. ASSUME Moves("quality"), [MCNext]_<<scope, vars, slots>>,
             First!Quality!vars' = First!Quality!vars
      PROVE  slots' = slots
    BY <2>1 DEF MCNext, Moves, slots, after6, after10,
            First!Quality!vars
  <2> QED
    BY <2>1, QualityIsOne
<1>7. ~Moves("quality") => [Moves("quality") => Quality!LinkKept]_slots
  OBVIOUS
<1> QED
  BY QualityBehaves, <1>1, <1>2, <1>3, <1>4, <1>5, <1>6, <1>7, PTL DEF MCSpec

-----------------------------------------------------------------------------
(* The delivery of cards.                                                  *)

LEMMA DeliveryIsOne ==
  /\ Delivery!StockAssumption <=> First!Delivery!StockAssumption
  /\ Delivery!OneWriter <=> First!Delivery!OneWriter
  /\ Delivery!Init <=> First!Delivery!Init
  /\ Delivery!Next <=> First!Delivery!Next
  /\ Delivery!TypeOK <=> First!Delivery!TypeOK
  /\ Delivery!AnswersAgree <=> First!Delivery!AnswersAgree
  /\ Delivery!StockIsDeliverable <=> First!Delivery!StockIsDeliverable
  /\ Delivery!vars = First!Delivery!vars
BY DEF
      Delivery!vars, Delivery!Nobody, Delivery!StockAssumption, Delivery!OneWriter,
      Delivery!Statuses, Delivery!CardRecords, Delivery!AccountRecords, Delivery!EventRecords,
      Delivery!WorkRecords, Delivery!TypeOK, Delivery!Init, Delivery!Assigned,
      Delivery!Candidates, Delivery!Unused, Delivery!Duplicate, Delivery!Marked,
      Delivery!Success, Delivery!FirstRedeem, Delivery!Healed, Delivery!Earlier,
      Delivery!Replay, Delivery!Refetch, Delivery!Redeem, Delivery!CreateBatch,
      Delivery!Expires, Delivery!Checked, Delivery!Reads, Delivery!ReadsCard,
      Delivery!ReadsAccount, Delivery!ReadsDrift, Delivery!Done, Delivery!Wanted,
      Delivery!WritesStatus, Delivery!WritesAccount, Delivery!WritesRepair, Delivery!Fails,
      Delivery!Next, Delivery!AnswersAgree, Delivery!StockIsDeliverable, First!Delivery!vars,
      First!Delivery!Nobody, First!Delivery!StockAssumption, First!Delivery!OneWriter,
      First!Delivery!Statuses, First!Delivery!CardRecords, First!Delivery!AccountRecords,
      First!Delivery!EventRecords, First!Delivery!WorkRecords, First!Delivery!TypeOK,
      First!Delivery!Init, First!Delivery!Assigned, First!Delivery!Candidates,
      First!Delivery!Unused, First!Delivery!Duplicate, First!Delivery!Marked,
      First!Delivery!Success, First!Delivery!FirstRedeem, First!Delivery!Healed,
      First!Delivery!Earlier, First!Delivery!Replay, First!Delivery!Refetch,
      First!Delivery!Redeem, First!Delivery!CreateBatch, First!Delivery!Expires,
      First!Delivery!Checked, First!Delivery!Reads, First!Delivery!ReadsCard,
      First!Delivery!ReadsAccount, First!Delivery!ReadsDrift, First!Delivery!Done,
      First!Delivery!Wanted, First!Delivery!WritesStatus, First!Delivery!WritesAccount,
      First!Delivery!WritesRepair, First!Delivery!Fails, First!Delivery!Next,
      First!Delivery!AnswersAgree, First!Delivery!StockIsDeliverable

LEMMA DeliveryBehaves ==
  MCSpec => ([]Moves("delivery") /\ First!Delivery!Spec) \/ []~Moves("delivery")
<1>1. MCInit /\ Moves("delivery") => First!Delivery!Init
  BY DeliveryIsOne DEF MCInit, Moves
<1>2. Moves("delivery") /\ [MCNext]_<<scope, vars, slots>>
        => [First!Delivery!Next]_(First!Delivery!vars) /\ Moves("delivery")'
  <2>1. ASSUME Moves("delivery"), MCNext
      PROVE  [First!Delivery!Next]_(First!Delivery!vars) /\ Moves("delivery")'
    BY <2>1, DeliveryIsOne DEF MCNext, Moves
  <2>2. ASSUME Moves("delivery"), UNCHANGED <<scope, vars, slots>>
      PROVE  First!Delivery!vars' = First!Delivery!vars /\ Moves("delivery")'
    BY <2>2 DEF Moves, slots,
            First!Delivery!vars
  <2> QED
    BY <2>1, <2>2
<1>3. ~Moves("delivery") /\ [MCNext]_<<scope, vars, slots>> => ~Moves("delivery")'
  BY DEF MCNext, Moves
<1> QED
  BY <1>1, <1>2, <1>3, PTL DEF MCSpec, First!Delivery!Spec

LEMMA DeliveryHolds ==
  MCSpec => /\ [](Moves("delivery") => Delivery!TypeOK)
            /\ [](Moves("delivery") => Delivery!AnswersAgree)
            /\ [](Moves("delivery") => Delivery!StockIsDeliverable)
<1>0. First!Delivery!StockAssumption /\ First!Delivery!OneWriter
  BY ComponentsAssumption, DeliveryIsOne
<1>1. First!Delivery!Spec => []First!Delivery!TypeOK
  BY <1>0, First!DeliveryTypeCorrect
<1>2. First!Delivery!TypeOK => Delivery!TypeOK
  BY DeliveryIsOne
<1>3. First!Delivery!Spec => []First!Delivery!AnswersAgree
  BY <1>0, First!AnswersAgreeCorrect
<1>4. First!Delivery!AnswersAgree => Delivery!AnswersAgree
  BY DeliveryIsOne
<1>5. First!Delivery!Spec => []First!Delivery!StockIsDeliverable
  BY <1>0, First!StockIsDeliverableCorrect
<1>6. First!Delivery!StockIsDeliverable => Delivery!StockIsDeliverable
  BY DeliveryIsOne
<1> QED
  BY DeliveryBehaves, <1>1, <1>2, <1>3, <1>4, <1>5, <1>6, PTL DEF MCSpec

-----------------------------------------------------------------------------
(* The payment of all accounts.                                            *)

LEMMA PaymentIsOne ==
  /\ Payment!OrderAssumption <=> First!Orders!OrderAssumption
  /\ Payment!Init <=> First!Orders!Init
  /\ Payment!Next <=> First!Orders!Next
  /\ Payment!TypeOK <=> First!Orders!TypeOK
  /\ Payment!OrdersWithinTarget <=> First!Orders!OrdersWithinTarget
  /\ Payment!OrdersAreOwn <=> First!Orders!OrdersAreOwn
  /\ Payment!EndsAreSettled <=> First!Orders!EndsAreSettled
  /\ Payment!vars = First!Orders!vars
BY DEF
      Payment!runner, Payment!poller, Payment!vars, Payment!Nobody, Payment!OrderAssumption,
      Payment!Ends, Payment!OrdersUpstream, Payment!Rows, Payment!Copies, Payment!Empty,
      Payment!Idle, Payment!Resting, Payment!TypeOK, Payment!Init, Payment!Cleared,
      Payment!Informed, Payment!Booked, Payment!Ended, Payment!Copy, Payment!Synced,
      Payment!Active, Payment!Paid, Payment!Reached, Payment!WindowFull, Payment!Told,
      Payment!Halted, Payment!GivenUp, Payment!PassEnds, Payment!Precheck, Payment!Checked,
      Payment!Top, Payment!Picks, Payment!NoCard, Payment!PassOver, Payment!PutsBack,
      Payment!NoToken, Payment!Sends, Payment!Books, Payment!PauseEnds, Payment!Requeued,
      Payment!SubmitFails, Payment!Wakes, Payment!Asked, Payment!Leaves, Payment!PaidCopy,
      Payment!OrderPaid, Payment!OrderFailed, Payment!OrderTimesOut, Payment!StillOpen,
      Payment!RoundOver, Payment!Interrupted, Payment!Stopped, Payment!Closes, Payment!Settles,
      Payment!Running, Payment!RequestStop, Payment!RequestSkip, Payment!Requests,
      Payment!SetStatus, Payment!StatusArrives, Payment!QueryStatus, Payment!Muted,
      Payment!StartPoll, Payment!PollEnds, Payment!PollDrops, Payment!PollSends,
      Payment!PollAnswered, Payment!PollRaises, Payment!Runner, Payment!Operator,
      Payment!Poller, Payment!Next, Payment!OrdersWithinTarget, Payment!OrdersAreOwn,
      Payment!EndsAreSettled, Payment!Cardinality, Payment!IsFiniteSet, First!Orders!runner,
      First!Orders!poller, First!Orders!vars, First!Orders!Nobody,
      First!Orders!OrderAssumption, First!Orders!Ends, First!Orders!OrdersUpstream,
      First!Orders!Rows, First!Orders!Copies, First!Orders!Empty, First!Orders!Idle,
      First!Orders!Resting, First!Orders!TypeOK, First!Orders!Init, First!Orders!Cleared,
      First!Orders!Informed, First!Orders!Booked, First!Orders!Ended, First!Orders!Copy,
      First!Orders!Synced, First!Orders!Active, First!Orders!Paid, First!Orders!Reached,
      First!Orders!WindowFull, First!Orders!Told, First!Orders!Halted, First!Orders!GivenUp,
      First!Orders!PassEnds, First!Orders!Precheck, First!Orders!Checked, First!Orders!Top,
      First!Orders!Picks, First!Orders!NoCard, First!Orders!PassOver, First!Orders!PutsBack,
      First!Orders!NoToken, First!Orders!Sends, First!Orders!Books, First!Orders!PauseEnds,
      First!Orders!Requeued, First!Orders!SubmitFails, First!Orders!Wakes, First!Orders!Asked,
      First!Orders!Leaves, First!Orders!PaidCopy, First!Orders!OrderPaid,
      First!Orders!OrderFailed, First!Orders!OrderTimesOut, First!Orders!StillOpen,
      First!Orders!RoundOver, First!Orders!Interrupted, First!Orders!Stopped,
      First!Orders!Closes, First!Orders!Settles, First!Orders!Running,
      First!Orders!RequestStop, First!Orders!RequestSkip, First!Orders!Requests,
      First!Orders!SetStatus, First!Orders!StatusArrives, First!Orders!QueryStatus,
      First!Orders!Muted, First!Orders!StartPoll, First!Orders!PollEnds,
      First!Orders!PollDrops, First!Orders!PollSends, First!Orders!PollAnswered,
      First!Orders!PollRaises, First!Orders!Runner, First!Orders!Operator, First!Orders!Poller,
      First!Orders!Next, First!Orders!OrdersWithinTarget, First!Orders!OrdersAreOwn,
      First!Orders!EndsAreSettled, First!Orders!Cardinality, First!Orders!IsFiniteSet

LEMMA PaymentBehaves ==
  MCSpec => ([]Moves("payment") /\ First!Orders!Spec) \/ []~Moves("payment")
<1>1. MCInit /\ Moves("payment") => First!Orders!Init
  BY PaymentIsOne DEF MCInit, Moves
<1>2. Moves("payment") /\ [MCNext]_<<scope, vars, slots>>
        => [First!Orders!Next]_(First!Orders!vars) /\ Moves("payment")'
  <2>1. ASSUME Moves("payment"), MCNext
      PROVE  [First!Orders!Next]_(First!Orders!vars) /\ Moves("payment")'
    BY <2>1, PaymentIsOne DEF MCNext, Moves
  <2>2. ASSUME Moves("payment"), UNCHANGED <<scope, vars, slots>>
      PROVE  First!Orders!vars' = First!Orders!vars /\ Moves("payment")'
    BY <2>2 DEF Moves, slots,
            First!Orders!runner, First!Orders!poller, First!Orders!vars
  <2> QED
    BY <2>1, <2>2
<1>3. ~Moves("payment") /\ [MCNext]_<<scope, vars, slots>> => ~Moves("payment")'
  BY DEF MCNext, Moves
<1> QED
  BY <1>1, <1>2, <1>3, PTL DEF MCSpec, First!Orders!Spec

LEMMA PaymentHolds ==
  MCSpec => /\ [](Moves("payment") => Payment!TypeOK)
            /\ [](Moves("payment") => Payment!OrdersWithinTarget)
            /\ [](Moves("payment") => Payment!OrdersAreOwn)
            /\ [](Moves("payment") => Payment!EndsAreSettled)
<1>0. First!Orders!OrderAssumption
  BY ComponentsAssumption, PaymentIsOne
<1>1. First!Orders!Spec => []First!Orders!TypeOK
  BY <1>0, First!OrdersTypeCorrect
<1>2. First!Orders!TypeOK => Payment!TypeOK
  BY PaymentIsOne
<1>3. First!Orders!Spec => []First!Orders!OrdersWithinTarget
  BY <1>0, First!OrdersWithinTargetCorrect
<1>4. First!Orders!OrdersWithinTarget => Payment!OrdersWithinTarget
  BY PaymentIsOne
<1>5. First!Orders!Spec => []First!Orders!OrdersAreOwn
  BY <1>0, First!OrdersAreOwnCorrect
<1>6. First!Orders!OrdersAreOwn => Payment!OrdersAreOwn
  BY PaymentIsOne
<1>7. First!Orders!Spec => []First!Orders!EndsAreSettled
  BY <1>0, First!EndsAreSettledCorrect
<1>8. First!Orders!EndsAreSettled => Payment!EndsAreSettled
  BY PaymentIsOne
<1> QED
  BY PaymentBehaves, <1>1, <1>2, <1>3, <1>4, <1>5, <1>6, <1>7, <1>8, PTL DEF MCSpec

-----------------------------------------------------------------------------
(* The payment of some accounts.                                           *)

LEMMA WindowIsOne ==
  /\ Window!OrderAssumption <=> Second!Orders!OrderAssumption
  /\ Window!Init <=> Second!Orders!Init
  /\ Window!Next <=> Second!Orders!Next
  /\ Window!TypeOK <=> Second!Orders!TypeOK
  /\ Window!OrdersWithinTarget <=> Second!Orders!OrdersWithinTarget
  /\ Window!OrdersAreOwn <=> Second!Orders!OrdersAreOwn
  /\ Window!EndsAreSettled <=> Second!Orders!EndsAreSettled
  /\ Window!vars = Second!Orders!vars
BY DEF
      Window!runner, Window!poller, Window!vars, Window!Nobody, Window!OrderAssumption,
      Window!Ends, Window!OrdersUpstream, Window!Rows, Window!Copies, Window!Empty,
      Window!Idle, Window!Resting, Window!TypeOK, Window!Init, Window!Cleared, Window!Informed,
      Window!Booked, Window!Ended, Window!Copy, Window!Synced, Window!Active, Window!Paid,
      Window!Reached, Window!WindowFull, Window!Told, Window!Halted, Window!GivenUp,
      Window!PassEnds, Window!Precheck, Window!Checked, Window!Top, Window!Picks,
      Window!NoCard, Window!PassOver, Window!PutsBack, Window!NoToken, Window!Sends,
      Window!Books, Window!PauseEnds, Window!Requeued, Window!SubmitFails, Window!Wakes,
      Window!Asked, Window!Leaves, Window!PaidCopy, Window!OrderPaid, Window!OrderFailed,
      Window!OrderTimesOut, Window!StillOpen, Window!RoundOver, Window!Interrupted,
      Window!Stopped, Window!Closes, Window!Settles, Window!Running, Window!RequestStop,
      Window!RequestSkip, Window!Requests, Window!SetStatus, Window!StatusArrives,
      Window!QueryStatus, Window!Muted, Window!StartPoll, Window!PollEnds, Window!PollDrops,
      Window!PollSends, Window!PollAnswered, Window!PollRaises, Window!Runner, Window!Operator,
      Window!Poller, Window!Next, Window!OrdersWithinTarget, Window!OrdersAreOwn,
      Window!EndsAreSettled, Window!Cardinality, Window!IsFiniteSet, Second!Orders!runner,
      Second!Orders!poller, Second!Orders!vars, Second!Orders!Nobody,
      Second!Orders!OrderAssumption, Second!Orders!Ends, Second!Orders!OrdersUpstream,
      Second!Orders!Rows, Second!Orders!Copies, Second!Orders!Empty, Second!Orders!Idle,
      Second!Orders!Resting, Second!Orders!TypeOK, Second!Orders!Init, Second!Orders!Cleared,
      Second!Orders!Informed, Second!Orders!Booked, Second!Orders!Ended, Second!Orders!Copy,
      Second!Orders!Synced, Second!Orders!Active, Second!Orders!Paid, Second!Orders!Reached,
      Second!Orders!WindowFull, Second!Orders!Told, Second!Orders!Halted,
      Second!Orders!GivenUp, Second!Orders!PassEnds, Second!Orders!Precheck,
      Second!Orders!Checked, Second!Orders!Top, Second!Orders!Picks, Second!Orders!NoCard,
      Second!Orders!PassOver, Second!Orders!PutsBack, Second!Orders!NoToken,
      Second!Orders!Sends, Second!Orders!Books, Second!Orders!PauseEnds,
      Second!Orders!Requeued, Second!Orders!SubmitFails, Second!Orders!Wakes,
      Second!Orders!Asked, Second!Orders!Leaves, Second!Orders!PaidCopy,
      Second!Orders!OrderPaid, Second!Orders!OrderFailed, Second!Orders!OrderTimesOut,
      Second!Orders!StillOpen, Second!Orders!RoundOver, Second!Orders!Interrupted,
      Second!Orders!Stopped, Second!Orders!Closes, Second!Orders!Settles,
      Second!Orders!Running, Second!Orders!RequestStop, Second!Orders!RequestSkip,
      Second!Orders!Requests, Second!Orders!SetStatus, Second!Orders!StatusArrives,
      Second!Orders!QueryStatus, Second!Orders!Muted, Second!Orders!StartPoll,
      Second!Orders!PollEnds, Second!Orders!PollDrops, Second!Orders!PollSends,
      Second!Orders!PollAnswered, Second!Orders!PollRaises, Second!Orders!Runner,
      Second!Orders!Operator, Second!Orders!Poller, Second!Orders!Next,
      Second!Orders!OrdersWithinTarget, Second!Orders!OrdersAreOwn,
      Second!Orders!EndsAreSettled, Second!Orders!Cardinality, Second!Orders!IsFiniteSet

LEMMA WindowBehaves ==
  MCSpec => ([]Moves("window") /\ Second!Orders!Spec) \/ []~Moves("window")
<1>1. MCInit /\ Moves("window") => Second!Orders!Init
  BY WindowIsOne DEF MCInit, Moves
<1>2. Moves("window") /\ [MCNext]_<<scope, vars, slots>>
        => [Second!Orders!Next]_(Second!Orders!vars) /\ Moves("window")'
  <2>1. ASSUME Moves("window"), MCNext
      PROVE  [Second!Orders!Next]_(Second!Orders!vars) /\ Moves("window")'
    BY <2>1, WindowIsOne DEF MCNext, Moves
  <2>2. ASSUME Moves("window"), UNCHANGED <<scope, vars, slots>>
      PROVE  Second!Orders!vars' = Second!Orders!vars /\ Moves("window")'
    BY <2>2 DEF Moves, slots,
            Second!Orders!runner, Second!Orders!poller, Second!Orders!vars
  <2> QED
    BY <2>1, <2>2
<1>3. ~Moves("window") /\ [MCNext]_<<scope, vars, slots>> => ~Moves("window")'
  BY DEF MCNext, Moves
<1> QED
  BY <1>1, <1>2, <1>3, PTL DEF MCSpec, Second!Orders!Spec

LEMMA WindowHolds ==
  MCSpec => /\ [](Moves("window") => Window!TypeOK)
            /\ [](Moves("window") => Window!OrdersWithinTarget)
            /\ [](Moves("window") => Window!OrdersAreOwn)
            /\ [](Moves("window") => Window!EndsAreSettled)
<1>0. Second!Orders!OrderAssumption
  BY ComponentsAssumption, WindowIsOne
<1>1. Second!Orders!Spec => []Second!Orders!TypeOK
  BY <1>0, Second!OrdersTypeCorrect
<1>2. Second!Orders!TypeOK => Window!TypeOK
  BY WindowIsOne
<1>3. Second!Orders!Spec => []Second!Orders!OrdersWithinTarget
  BY <1>0, Second!OrdersWithinTargetCorrect
<1>4. Second!Orders!OrdersWithinTarget => Window!OrdersWithinTarget
  BY WindowIsOne
<1>5. Second!Orders!Spec => []Second!Orders!OrdersAreOwn
  BY <1>0, Second!OrdersAreOwnCorrect
<1>6. Second!Orders!OrdersAreOwn => Window!OrdersAreOwn
  BY WindowIsOne
<1>7. Second!Orders!Spec => []Second!Orders!EndsAreSettled
  BY <1>0, Second!EndsAreSettledCorrect
<1>8. Second!Orders!EndsAreSettled => Window!EndsAreSettled
  BY WindowIsOne
<1> QED
  BY WindowBehaves, <1>1, <1>2, <1>3, <1>4, <1>5, <1>6, <1>7, <1>8, PTL DEF MCSpec

-----------------------------------------------------------------------------
(* The change of an account's e-mail.                                      *)

LEMMA EmailIsOne ==
  /\ Email!BoundsAssumption <=> EmailFacts!BoundsAssumption
  /\ Email!Init <=> EmailFacts!Init
  /\ Email!Next <=> EmailFacts!Next
  /\ Email!TypeOK <=> EmailFacts!TypeOK
  /\ Email!TargetsAreSafe <=> EmailFacts!TargetsAreSafe
  /\ Email!ChangesEnd <=> EmailFacts!ChangesEnd
  /\ Email!vars = EmailFacts!vars
BY DEF
      Email!vars, Email!Original, Email!BoundsAssumption, Email!Emails, Email!Holding,
      Email!Rows, Email!NoRow, Email!Idle, Email!Asleep, Email!TypeOK, Email!Init,
      Email!Crossed, Email!Taken, Email!Raises, Email!Requests, Email!Goes, Email!Replies,
      Email!Prepare, Email!Insert, Email!Start, Email!Resume, Email!Claims, Email!Claim,
      Email!Launch, Email!Releasable, Email!Release, Email!ReleaseAsked, Email!ReleaseWritten,
      Email!At, Email!To, Email!Error, Email!Fails, Email!Stops, Email!Breaks, Email!Clashes,
      Email!Update, Email!TaskBegins, Email!Resumes, Email!Begins, Email!Asks, Email!Verifies,
      Email!Unknown, Email!Answered, Email!GoesWrong, Email!LoggedIn, Email!Commits,
      Email!Stamps, Email!Finalizes, Email!Persists, Email!Completes, Email!Handles,
      Email!Reconciles, Email!TaskEnds, Email!Interrupted, Email!Restart, Email!Api,
      Email!Runner, Email!Next, Email!ReleasedIsNotUsed, Email!ChangeIsKnown,
      Email!VerifyIsNotReplayed, Email!TargetsAreSafe, Email!DoneIsWhole, Email!RunningIsRun,
      Email!CanGoOn, Email!ChangesEnd, Email!Cardinality, EmailFacts!vars, EmailFacts!Original,
      EmailFacts!BoundsAssumption, EmailFacts!Emails, EmailFacts!Holding, EmailFacts!Rows,
      EmailFacts!NoRow, EmailFacts!Idle, EmailFacts!Asleep, EmailFacts!TypeOK, EmailFacts!Init,
      EmailFacts!Crossed, EmailFacts!Taken, EmailFacts!Raises, EmailFacts!Requests,
      EmailFacts!Goes, EmailFacts!Replies, EmailFacts!Prepare, EmailFacts!Insert,
      EmailFacts!Start, EmailFacts!Resume, EmailFacts!Claims, EmailFacts!Claim,
      EmailFacts!Launch, EmailFacts!Releasable, EmailFacts!Release, EmailFacts!ReleaseAsked,
      EmailFacts!ReleaseWritten, EmailFacts!At, EmailFacts!To, EmailFacts!Error,
      EmailFacts!Fails, EmailFacts!Stops, EmailFacts!Breaks, EmailFacts!Clashes,
      EmailFacts!Update, EmailFacts!TaskBegins, EmailFacts!Resumes, EmailFacts!Begins,
      EmailFacts!Asks, EmailFacts!Verifies, EmailFacts!Unknown, EmailFacts!Answered,
      EmailFacts!GoesWrong, EmailFacts!LoggedIn, EmailFacts!Commits, EmailFacts!Stamps,
      EmailFacts!Finalizes, EmailFacts!Persists, EmailFacts!Completes, EmailFacts!Handles,
      EmailFacts!Reconciles, EmailFacts!TaskEnds, EmailFacts!Interrupted, EmailFacts!Restart,
      EmailFacts!Api, EmailFacts!Runner, EmailFacts!Next, EmailFacts!ReleasedIsNotUsed,
      EmailFacts!ChangeIsKnown, EmailFacts!VerifyIsNotReplayed, EmailFacts!TargetsAreSafe,
      EmailFacts!DoneIsWhole, EmailFacts!RunningIsRun, EmailFacts!CanGoOn,
      EmailFacts!ChangesEnd, EmailFacts!Cardinality

LEMMA EmailBehaves ==
  MCSpec => ([]Moves("email") /\ EmailFacts!Spec) \/ []~Moves("email")
<1>1. MCInit /\ Moves("email") => EmailFacts!Init
  BY EmailIsOne DEF MCInit, Moves
<1>2. Moves("email") /\ [MCNext]_<<scope, vars, slots>>
        => [EmailFacts!Next]_(EmailFacts!vars) /\ Moves("email")'
  <2>1. ASSUME Moves("email"), MCNext
      PROVE  [EmailFacts!Next]_(EmailFacts!vars) /\ Moves("email")'
    BY <2>1, EmailIsOne DEF MCNext, Moves
  <2>2. ASSUME Moves("email"), UNCHANGED <<scope, vars, slots>>
      PROVE  EmailFacts!vars' = EmailFacts!vars /\ Moves("email")'
    BY <2>2 DEF Moves, slots,
            EmailFacts!vars
  <2> QED
    BY <2>1, <2>2
<1>3. ~Moves("email") /\ [MCNext]_<<scope, vars, slots>> => ~Moves("email")'
  BY DEF MCNext, Moves
<1> QED
  BY <1>1, <1>2, <1>3, PTL DEF MCSpec, EmailFacts!Spec

LEMMA EmailHolds ==
  MCSpec => /\ [](Moves("email") => Email!TypeOK)
            /\ [](Moves("email") => Email!TargetsAreSafe)
            /\ [](Moves("email") => Email!ChangesEnd)
<1>0. EmailFacts!BoundsAssumption
  BY ComponentsAssumption, EmailIsOne
<1>1. EmailFacts!Spec => []EmailFacts!TypeOK
  BY <1>0, EmailFacts!TypeCorrect
<1>2. EmailFacts!TypeOK => Email!TypeOK
  BY EmailIsOne
<1>3. EmailFacts!Spec => []EmailFacts!TargetsAreSafe
  BY <1>0, EmailFacts!TargetsAreSafeCorrect
<1>4. EmailFacts!TargetsAreSafe => Email!TargetsAreSafe
  BY EmailIsOne
<1>5. EmailFacts!Spec => []EmailFacts!ChangesEnd
  BY <1>0, EmailFacts!ChangesEndCorrect
<1>6. EmailFacts!ChangesEnd => Email!ChangesEnd
  BY EmailIsOne
<1> QED
  BY EmailBehaves, <1>1, <1>2, <1>3, <1>4, <1>5, <1>6, PTL DEF MCSpec

-----------------------------------------------------------------------------
(* The numbers from the pool.                                              *)

LEMMA PoolIsOne ==
  /\ Pool!BindingAssumption <=> First!Phone!BindingAssumption
  /\ Pool!Init <=> First!Phone!Init
  /\ Pool!Next <=> First!Phone!Next
  /\ Pool!TypeOK <=> First!Phone!TypeOK
  /\ Pool!NumbersBindOnce <=> First!Phone!NumbersBindOnce
  /\ Pool!BindingsSettle <=> First!Phone!BindingsSettle
  /\ Pool!vars = First!Phone!vars
BY DEF
      Pool!allocation, Pool!openai, Pool!operator, Pool!vars, Pool!Nothing, Pool!Another,
      Pool!BindingAssumption, Pool!Done, Pool!Touched, Pool!Holding, Pool!Verdicts, Pool!Rows,
      Pool!TypeOK, Pool!Init, Pool!Available, Pool!RecordSuccess, Pool!RecordFailure,
      Pool!Excluded, Pool!Choices, Pool!Released, Pool!AsTouched, Pool!At, Pool!Goes,
      Pool!Answers, Pool!Start, Pool!Claim, Pool!ClaimFails, Pool!AlreadyBound, Pool!Send,
      Pool!MarkSent, Pool!Accepted, Pool!Confirm, Pool!Persist, Pool!Bound, Pool!NumberFails,
      Pool!Fails, Pool!AccountFails, Pool!AnswerLost, Pool!ResultFails, Pool!Skip,
      Pool!Stopped, Pool!InFlight, Pool!Submit, Pool!Collect, Pool!StopSeen, Pool!Finish,
      Pool!RequestStop, Pool!SetStatus, Pool!Recover, Pool!Worker, Pool!Next,
      Pool!NumbersBindOnce, Pool!BindingsSettle, Pool!Cardinality, Pool!IsFiniteSet,
      First!Phone!allocation, First!Phone!openai, First!Phone!operator, First!Phone!vars,
      First!Phone!Nothing, First!Phone!Another, First!Phone!BindingAssumption,
      First!Phone!Done, First!Phone!Touched, First!Phone!Holding, First!Phone!Verdicts,
      First!Phone!Rows, First!Phone!TypeOK, First!Phone!Init, First!Phone!Available,
      First!Phone!RecordSuccess, First!Phone!RecordFailure, First!Phone!Excluded,
      First!Phone!Choices, First!Phone!Released, First!Phone!AsTouched, First!Phone!At,
      First!Phone!Goes, First!Phone!Answers, First!Phone!Start, First!Phone!Claim,
      First!Phone!ClaimFails, First!Phone!AlreadyBound, First!Phone!Send, First!Phone!MarkSent,
      First!Phone!Accepted, First!Phone!Confirm, First!Phone!Persist, First!Phone!Bound,
      First!Phone!NumberFails, First!Phone!Fails, First!Phone!AccountFails,
      First!Phone!AnswerLost, First!Phone!ResultFails, First!Phone!Skip, First!Phone!Stopped,
      First!Phone!InFlight, First!Phone!Submit, First!Phone!Collect, First!Phone!StopSeen,
      First!Phone!Finish, First!Phone!RequestStop, First!Phone!SetStatus, First!Phone!Recover,
      First!Phone!Worker, First!Phone!Next, First!Phone!NumbersBindOnce,
      First!Phone!BindingsSettle, First!Phone!Cardinality, First!Phone!IsFiniteSet

LEMMA PoolBehaves ==
  MCSpec => ([]Moves("pool") /\ First!Phone!Spec) \/ []~Moves("pool")
<1>1. MCInit /\ Moves("pool") => First!Phone!Init
  BY PoolIsOne DEF MCInit, Moves
<1>2. Moves("pool") /\ [MCNext]_<<scope, vars, slots>>
        => [First!Phone!Next]_(First!Phone!vars) /\ Moves("pool")'
  <2>1. ASSUME Moves("pool"), MCNext
      PROVE  [First!Phone!Next]_(First!Phone!vars) /\ Moves("pool")'
    BY <2>1, PoolIsOne DEF MCNext, Moves
  <2>2. ASSUME Moves("pool"), UNCHANGED <<scope, vars, slots>>
      PROVE  First!Phone!vars' = First!Phone!vars /\ Moves("pool")'
    BY <2>2 DEF Moves, slots,
            First!Phone!allocation, First!Phone!openai, First!Phone!operator, First!Phone!vars
  <2> QED
    BY <2>1, <2>2
<1>3. ~Moves("pool") /\ [MCNext]_<<scope, vars, slots>> => ~Moves("pool")'
  BY DEF MCNext, Moves
<1> QED
  BY <1>1, <1>2, <1>3, PTL DEF MCSpec, First!Phone!Spec

LEMMA PoolHolds ==
  MCSpec => /\ [](Moves("pool") => Pool!TypeOK)
            /\ [](Moves("pool") => Pool!NumbersBindOnce)
            /\ [](Moves("pool") => Pool!BindingsSettle)
<1>0. First!Phone!BindingAssumption
  BY ComponentsAssumption, PoolIsOne
<1>1. First!Phone!Spec => []First!Phone!TypeOK
  BY <1>0, First!PhoneTypeCorrect
<1>2. First!Phone!TypeOK => Pool!TypeOK
  BY PoolIsOne
<1>3. First!Phone!Spec => []First!Phone!NumbersBindOnce
  BY <1>0, First!NumbersBindOnceCorrect
<1>4. First!Phone!NumbersBindOnce => Pool!NumbersBindOnce
  BY PoolIsOne
<1>5. First!Phone!Spec => []First!Phone!BindingsSettle
  BY <1>0, First!BindingsSettleCorrect
<1>6. First!Phone!BindingsSettle => Pool!BindingsSettle
  BY PoolIsOne
<1> QED
  BY PoolBehaves, <1>1, <1>2, <1>3, <1>4, <1>5, <1>6, PTL DEF MCSpec

-----------------------------------------------------------------------------
(* The numbers from a list.                                                *)

LEMMA ListIsOne ==
  /\ List!BindingAssumption <=> Second!Phone!BindingAssumption
  /\ List!Init <=> Second!Phone!Init
  /\ List!Next <=> Second!Phone!Next
  /\ List!TypeOK <=> Second!Phone!TypeOK
  /\ List!NumbersBindOnce <=> Second!Phone!NumbersBindOnce
  /\ List!BindingsSettle <=> Second!Phone!BindingsSettle
  /\ List!vars = Second!Phone!vars
BY DEF
      List!allocation, List!openai, List!operator, List!vars, List!Nothing, List!Another,
      List!BindingAssumption, List!Done, List!Touched, List!Holding, List!Verdicts, List!Rows,
      List!TypeOK, List!Init, List!Available, List!RecordSuccess, List!RecordFailure,
      List!Excluded, List!Choices, List!Released, List!AsTouched, List!At, List!Goes,
      List!Answers, List!Start, List!Claim, List!ClaimFails, List!AlreadyBound, List!Send,
      List!MarkSent, List!Accepted, List!Confirm, List!Persist, List!Bound, List!NumberFails,
      List!Fails, List!AccountFails, List!AnswerLost, List!ResultFails, List!Skip,
      List!Stopped, List!InFlight, List!Submit, List!Collect, List!StopSeen, List!Finish,
      List!RequestStop, List!SetStatus, List!Recover, List!Worker, List!Next,
      List!NumbersBindOnce, List!BindingsSettle, List!Cardinality, List!IsFiniteSet,
      Second!Phone!allocation, Second!Phone!openai, Second!Phone!operator, Second!Phone!vars,
      Second!Phone!Nothing, Second!Phone!Another, Second!Phone!BindingAssumption,
      Second!Phone!Done, Second!Phone!Touched, Second!Phone!Holding, Second!Phone!Verdicts,
      Second!Phone!Rows, Second!Phone!TypeOK, Second!Phone!Init, Second!Phone!Available,
      Second!Phone!RecordSuccess, Second!Phone!RecordFailure, Second!Phone!Excluded,
      Second!Phone!Choices, Second!Phone!Released, Second!Phone!AsTouched, Second!Phone!At,
      Second!Phone!Goes, Second!Phone!Answers, Second!Phone!Start, Second!Phone!Claim,
      Second!Phone!ClaimFails, Second!Phone!AlreadyBound, Second!Phone!Send,
      Second!Phone!MarkSent, Second!Phone!Accepted, Second!Phone!Confirm, Second!Phone!Persist,
      Second!Phone!Bound, Second!Phone!NumberFails, Second!Phone!Fails,
      Second!Phone!AccountFails, Second!Phone!AnswerLost, Second!Phone!ResultFails,
      Second!Phone!Skip, Second!Phone!Stopped, Second!Phone!InFlight, Second!Phone!Submit,
      Second!Phone!Collect, Second!Phone!StopSeen, Second!Phone!Finish,
      Second!Phone!RequestStop, Second!Phone!SetStatus, Second!Phone!Recover,
      Second!Phone!Worker, Second!Phone!Next, Second!Phone!NumbersBindOnce,
      Second!Phone!BindingsSettle, Second!Phone!Cardinality, Second!Phone!IsFiniteSet

LEMMA ListBehaves ==
  MCSpec => ([]Moves("list") /\ Second!Phone!Spec) \/ []~Moves("list")
<1>1. MCInit /\ Moves("list") => Second!Phone!Init
  BY ListIsOne DEF MCInit, Moves
<1>2. Moves("list") /\ [MCNext]_<<scope, vars, slots>>
        => [Second!Phone!Next]_(Second!Phone!vars) /\ Moves("list")'
  <2>1. ASSUME Moves("list"), MCNext
      PROVE  [Second!Phone!Next]_(Second!Phone!vars) /\ Moves("list")'
    BY <2>1, ListIsOne DEF MCNext, Moves
  <2>2. ASSUME Moves("list"), UNCHANGED <<scope, vars, slots>>
      PROVE  Second!Phone!vars' = Second!Phone!vars /\ Moves("list")'
    BY <2>2 DEF Moves, slots,
            Second!Phone!allocation, Second!Phone!openai, Second!Phone!operator, Second!Phone!vars
  <2> QED
    BY <2>1, <2>2
<1>3. ~Moves("list") /\ [MCNext]_<<scope, vars, slots>> => ~Moves("list")'
  BY DEF MCNext, Moves
<1> QED
  BY <1>1, <1>2, <1>3, PTL DEF MCSpec, Second!Phone!Spec

LEMMA ListHolds ==
  MCSpec => /\ [](Moves("list") => List!TypeOK)
            /\ [](Moves("list") => List!NumbersBindOnce)
            /\ [](Moves("list") => List!BindingsSettle)
<1>0. Second!Phone!BindingAssumption
  BY ComponentsAssumption, ListIsOne
<1>1. Second!Phone!Spec => []Second!Phone!TypeOK
  BY <1>0, Second!PhoneTypeCorrect
<1>2. Second!Phone!TypeOK => List!TypeOK
  BY ListIsOne
<1>3. Second!Phone!Spec => []Second!Phone!NumbersBindOnce
  BY <1>0, Second!NumbersBindOnceCorrect
<1>4. Second!Phone!NumbersBindOnce => List!NumbersBindOnce
  BY ListIsOne
<1>5. Second!Phone!Spec => []Second!Phone!BindingsSettle
  BY <1>0, Second!BindingsSettleCorrect
<1>6. Second!Phone!BindingsSettle => List!BindingsSettle
  BY ListIsOne
<1> QED
  BY ListBehaves, <1>1, <1>2, <1>3, <1>4, <1>5, <1>6, PTL DEF MCSpec

-----------------------------------------------------------------------------
(* The PayPal payment of an account.                                       *)

LEMMA PaypalIsOne ==
  /\ Paypal!ReloginAssumption <=> PaypalFacts!ReloginAssumption
  /\ Paypal!Init <=> PaypalFacts!Init
  /\ Paypal!Next <=> PaypalFacts!Next
  /\ Paypal!TypeOK <=> PaypalFacts!TypeOK
  /\ Paypal!PaymentsFollowed <=> PaypalFacts!PaymentsFollowed
  /\ Paypal!GoesForward <=> PaypalFacts!GoesForward
  /\ Paypal!vars = PaypalFacts!vars
BY DEF
      Paypal!ReloginAssumption, Paypal!account, Paypal!copies, Paypal!vars, Paypal!Runs,
      Paypal!Lanes, Paypal!Emails, Paypal!Active, Paypal!Terminal, Paypal!Rows, Paypal!NoRow,
      Paypal!Rest, Paypal!TypeOK, Paypal!Init, Paypal!Tries, Paypal!Marks, Paypal!Stages,
      Paypal!PaymentOf, Paypal!Mirrors, Paypal!At, Paypal!Was, Paypal!Goes, Paypal!Leaves,
      Paypal!AwaitsAuth, Paypal!MayBegin, Paypal!Begun, Paypal!Claimed, Paypal!Submitted,
      Paypal!Begin, Paypal!ExtractFails, Paypal!Saves, Paypal!Enqueued, Paypal!Sends,
      Paypal!SendFails, Paypal!MarksSubmitted, Paypal!StagesSubmitted, Paypal!Ensured,
      Paypal!Ensures, Paypal!Lane, Paypal!Unfinished, Paypal!Recoverable, Paypal!Turns,
      Paypal!Rested, Paypal!Updates, Paypal!Backfills, Paypal!Takes, Paypal!GivesUp,
      Paypal!Serves, Paypal!Expires, Paypal!Asks, Paypal!Told, Paypal!Answers, Paypal!LogsIn,
      Paypal!LoggedIn, Paypal!Refreshes, Paypal!Copies, Paypal!Pays, Paypal!AccountChanges,
      Paypal!ClaimExpires, Paypal!Restarts, Paypal!Runner, Paypal!Worker, Paypal!Next,
      Paypal!InHand, Paypal!RanTwice, Paypal!AnswerLost, Paypal!PaidMeansAuthorized,
      Paypal!ItemsAreFollowed, Paypal!CopiesCatchUp, Paypal!PaymentsFollowed,
      Paypal!GoesForward, PaypalFacts!ReloginAssumption, PaypalFacts!account,
      PaypalFacts!copies, PaypalFacts!vars, PaypalFacts!Runs, PaypalFacts!Lanes,
      PaypalFacts!Emails, PaypalFacts!Active, PaypalFacts!Terminal, PaypalFacts!Rows,
      PaypalFacts!NoRow, PaypalFacts!Rest, PaypalFacts!TypeOK, PaypalFacts!Init,
      PaypalFacts!Tries, PaypalFacts!Marks, PaypalFacts!Stages, PaypalFacts!PaymentOf,
      PaypalFacts!Mirrors, PaypalFacts!At, PaypalFacts!Was, PaypalFacts!Goes,
      PaypalFacts!Leaves, PaypalFacts!AwaitsAuth, PaypalFacts!MayBegin, PaypalFacts!Begun,
      PaypalFacts!Claimed, PaypalFacts!Submitted, PaypalFacts!Begin, PaypalFacts!ExtractFails,
      PaypalFacts!Saves, PaypalFacts!Enqueued, PaypalFacts!Sends, PaypalFacts!SendFails,
      PaypalFacts!MarksSubmitted, PaypalFacts!StagesSubmitted, PaypalFacts!Ensured,
      PaypalFacts!Ensures, PaypalFacts!Lane, PaypalFacts!Unfinished, PaypalFacts!Recoverable,
      PaypalFacts!Turns, PaypalFacts!Rested, PaypalFacts!Updates, PaypalFacts!Backfills,
      PaypalFacts!Takes, PaypalFacts!GivesUp, PaypalFacts!Serves, PaypalFacts!Expires,
      PaypalFacts!Asks, PaypalFacts!Told, PaypalFacts!Answers, PaypalFacts!LogsIn,
      PaypalFacts!LoggedIn, PaypalFacts!Refreshes, PaypalFacts!Copies, PaypalFacts!Pays,
      PaypalFacts!AccountChanges, PaypalFacts!ClaimExpires, PaypalFacts!Restarts,
      PaypalFacts!Runner, PaypalFacts!Worker, PaypalFacts!Next, PaypalFacts!InHand,
      PaypalFacts!RanTwice, PaypalFacts!AnswerLost, PaypalFacts!PaidMeansAuthorized,
      PaypalFacts!ItemsAreFollowed, PaypalFacts!CopiesCatchUp, PaypalFacts!PaymentsFollowed,
      PaypalFacts!GoesForward

LEMMA PaypalBehaves ==
  MCSpec => ([]Moves("paypal") /\ PaypalFacts!Spec) \/ []~Moves("paypal")
<1>1. MCInit /\ Moves("paypal") => PaypalFacts!Init
  BY PaypalIsOne DEF MCInit, Moves
<1>2. Moves("paypal") /\ [MCNext]_<<scope, vars, slots>>
        => [PaypalFacts!Next]_(PaypalFacts!vars) /\ Moves("paypal")'
  <2>1. ASSUME Moves("paypal"), MCNext
      PROVE  [PaypalFacts!Next]_(PaypalFacts!vars) /\ Moves("paypal")'
    BY <2>1, PaypalIsOne DEF MCNext, Moves
  <2>2. ASSUME Moves("paypal"), UNCHANGED <<scope, vars, slots>>
      PROVE  PaypalFacts!vars' = PaypalFacts!vars /\ Moves("paypal")'
    BY <2>2 DEF Moves, slots,
            PaypalFacts!account, PaypalFacts!copies, PaypalFacts!vars
  <2> QED
    BY <2>1, <2>2
<1>3. ~Moves("paypal") /\ [MCNext]_<<scope, vars, slots>> => ~Moves("paypal")'
  BY DEF MCNext, Moves
<1> QED
  BY <1>1, <1>2, <1>3, PTL DEF MCSpec, PaypalFacts!Spec

LEMMA PaypalHolds ==
  MCSpec => /\ [](Moves("paypal") => Paypal!TypeOK)
            /\ [](Moves("paypal") => Paypal!PaymentsFollowed)
            /\ [][Moves("paypal") => Paypal!GoesForward]_slots
<1>0. PaypalFacts!ReloginAssumption
  BY ComponentsAssumption, PaypalIsOne
<1>1. PaypalFacts!Spec => []PaypalFacts!TypeOK
  BY <1>0, PaypalFacts!TypeCorrect
<1>2. PaypalFacts!TypeOK => Paypal!TypeOK
  BY PaypalIsOne
<1>3. PaypalFacts!Spec => []PaypalFacts!PaymentsFollowed
  BY <1>0, PaypalFacts!PaymentsFollowedCorrect
<1>4. PaypalFacts!PaymentsFollowed => Paypal!PaymentsFollowed
  BY PaypalIsOne
<1>5. PaypalFacts!Spec => [][PaypalFacts!GoesForward]_(PaypalFacts!vars)
  BY <1>0, PaypalFacts!GoesForwardCorrect
<1>6. Moves("paypal") /\ [MCNext]_<<scope, vars, slots>>
        /\ [PaypalFacts!GoesForward]_(PaypalFacts!vars)
        => [Moves("paypal") => Paypal!GoesForward]_slots
  <2>1. ASSUME Moves("paypal"), [MCNext]_<<scope, vars, slots>>,
             PaypalFacts!vars' = PaypalFacts!vars
      PROVE  slots' = slots
    BY <2>1 DEF MCNext, Moves, slots, after6, after10,
            PaypalFacts!account, PaypalFacts!copies, PaypalFacts!vars
  <2> QED
    BY <2>1, PaypalIsOne
<1>7. ~Moves("paypal") => [Moves("paypal") => Paypal!GoesForward]_slots
  OBVIOUS
<1> QED
  BY PaypalBehaves, <1>1, <1>2, <1>3, <1>4, <1>5, <1>6, <1>7, PTL DEF MCSpec

-----------------------------------------------------------------------------
(* The properties of the composition.                                        *)

\* A behaviour of the composition is one of the exits, which stutter in the other
\* scopes.
LEMMA ExitsBehave == MCSpec => Spec
<1>1. MCInit => Init
  BY DEF MCInit
<1>2. [MCNext]_<<scope, vars, slots>> => [Next]_vars
  BY DEF MCNext
<1> QED
  BY <1>1, <1>2, PTL DEF MCSpec, Spec

\* A poor domain is drained in whatever order the results of its accounts come.
THEOREM PoorDomainsDrainCorrect == MCSpec => []PoorDomainsDrain
<1>1. (Moves("quality") => Quality!PoorDomainsDrain)
      => PoorDomainsDrain
  BY DEF Moves, PoorDomainsDrain
<1> QED
  BY <1>1, QualityHolds, PTL

\* A redeemed card and its account belong together for ever, a repeated request
\* is answered as the first was, and counted stock can be delivered.
THEOREM DeliveriesAgreeCorrect == MCSpec => []DeliveriesAgree
<1>1. /\ (Moves("delivery") => Delivery!AnswersAgree)
      /\ (Moves("delivery") => Delivery!StockIsDeliverable)
      => DeliveriesAgree
  BY DEF Moves, DeliveriesAgree
<1> QED
  BY <1>1, DeliveryHolds, PTL

\* An account is ordered for once, and no more cards are paid with than were
\* asked for.
THEOREM OrdersWithinTargetCorrect == MCSpec => []OrdersWithinTarget
<1>1. /\ (Moves("payment") => Payment!OrdersWithinTarget)
      /\ (Moves("window") => Window!OrdersWithinTarget)
      => OrdersWithinTarget
  BY DEF Moves, OrdersWithinTarget
<1> QED
  BY <1>1, PaymentHolds, WindowHolds, PTL

\* What a submission task reports and copies of an account is its own order.
THEOREM OrdersAreOwnCorrect == MCSpec => []OrdersAreOwn
<1>1. /\ (Moves("payment") => Payment!OrdersAreOwn)
      /\ (Moves("window") => Window!OrdersAreOwn)
      => OrdersAreOwn
  BY DEF Moves, OrdersAreOwn
<1> QED
  BY <1>1, PaymentHolds, WindowHolds, PTL

\* A submission task that ends has a result for every account, and no copy is
\* left that the poller could take up again.
THEOREM EndsAreSettledCorrect == MCSpec => []EndsAreSettled
<1>1. /\ (Moves("payment") => Payment!EndsAreSettled)
      /\ (Moves("window") => Window!EndsAreSettled)
      => EndsAreSettled
  BY DEF Moves, EndsAreSettled
<1> QED
  BY <1>1, PaymentHolds, WindowHolds, PTL

\* A mailbox that was released is not the address of the account, OpenAI has no
\* address the database does not know of, and the code is not verified twice.
THEOREM TargetsAreSafeCorrect == MCSpec => []TargetsAreSafe
<1>1. (Moves("email") => Email!TargetsAreSafe)
      => TargetsAreSafe
  BY DEF Moves, TargetsAreSafe
<1> QED
  BY <1>1, EmailHolds, PTL

\* A change that is done is whole, and one that stopped or broke can go on.
THEOREM ChangesEndCorrect == MCSpec => []ChangesEnd
<1>1. (Moves("email") => Email!ChangesEnd)
      => ChangesEnd
  BY DEF Moves, ChangesEnd
<1> QED
  BY <1>1, EmailHolds, PTL

\* The row of a task in the history is closed by its end only, and is terminal
\* once the runner is over, unless every try to write raised.
THEOREM RowFollowsTaskCorrect == MCSpec => []RowFollowsTask
<1>1. /\ (Moves("history") => History!RowFollowsTask)
      /\ (Moves("history") => History!RowSettles)
      /\ (Moves("stops") => Stops!RowFollowsTask)
      /\ (Moves("stops") => Stops!RowSettles)
      => RowFollowsTask
  BY DEF Moves, RowFollowsTask
<1> QED
  BY <1>1, HistoryHolds, StopsHolds, PTL

\* Within a task a phone number is for one account at a time and bound no more
\* often than allowed, whatever is lost or interrupted.
THEOREM NumbersBindOnceCorrect == MCSpec => []NumbersBindOnce
<1>1. /\ (Moves("pool") => Pool!NumbersBindOnce)
      /\ (Moves("list") => List!NumbersBindOnce)
      => NumbersBindOnce
  BY DEF Moves, NumbersBindOnce
<1> QED
  BY <1>1, PoolHolds, ListHolds, PTL

\* A binding that OpenAI confirmed is kept, nothing else is, and every account
\* has a result when the task ends.
THEOREM BindingsSettleCorrect == MCSpec => []BindingsSettle
<1>1. /\ (Moves("pool") => Pool!BindingsSettle)
      /\ (Moves("list") => List!BindingsSettle)
      => BindingsSettle
  BY DEF Moves, BindingsSettle
<1> QED
  BY <1>1, PoolHolds, ListHolds, PTL

\* A PayPal payment is followed to its end, and the account tells what became
\* of it.
THEOREM PaymentsFollowedCorrect == MCSpec => []PaymentsFollowed
<1>1. (Moves("paypal") => Paypal!PaymentsFollowed)
      => PaymentsFollowed
  BY DEF Moves, PaymentsFollowed
<1> QED
  BY <1>1, PaypalHolds, PTL

\* Every component keeps its types, while it is the one that moves.
THEOREM TypesOKCorrect == MCSpec => []TypesOK
<1>1. /\ TypeOK
      /\ (Moves("history") => History!TypeOK)
      /\ (Moves("stops") => Stops!TypeOK)
      /\ (Moves("quality") => Quality!TypeOK)
      /\ (Moves("delivery") => Delivery!TypeOK)
      /\ (Moves("payment") => Payment!TypeOK)
      /\ (Moves("window") => Window!TypeOK)
      /\ (Moves("email") => Email!TypeOK)
      /\ (Moves("pool") => Pool!TypeOK)
      /\ (Moves("list") => List!TypeOK)
      /\ (Moves("paypal") => Paypal!TypeOK)
      => TypesOK
  BY DEF Moves, TypesOK
<1> QED
  BY <1>1, ExitsBehave, TypeCorrect, HistoryHolds, StopsHolds, QualityHolds, DeliveryHolds,
     PaymentHolds, WindowHolds, EmailHolds, PoolHolds, ListHolds, PaypalHolds, PTL

\* What is durable never goes back: a terminal row of the history, an extracted
\* link and the followed payment of an account.
THEOREM NothingGoesBackCorrect == MCSpec => NothingGoesBack
<1>1. /\ [Moves("history") => History!GoesForward]_slots
      /\ [Moves("stops") => Stops!GoesForward]_slots
      /\ [Moves("quality") => Quality!LinkKept]_slots
      /\ [Moves("paypal") => Paypal!GoesForward]_slots
      => [/\ scope = "history" => History!GoesForward
          /\ scope = "stops" => Stops!GoesForward
          /\ scope = "quality" => Quality!LinkKept
          /\ scope = "paypal" => Paypal!GoesForward]_slots
  BY DEF Moves
<1> QED
  BY <1>1, HistoryHolds, StopsHolds, QualityHolds, PaypalHolds, PTL DEF NothingGoesBack
=============================================================================
