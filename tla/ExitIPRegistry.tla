----------------------------- MODULE ExitIPRegistry -----------------------------
(***************************************************************************)
(* The exits of the proxies that registrations go through                  *)
(* (RegisterExitIPRegistry).  An attempt leases each exit it is given, a   *)
(* heartbeat thread of the attempt extends the leases while it works, and  *)
(* at its end the exits rest for a while before anyone may use them again. *)
(* The attempts of all tasks share the registry; each task also remembers  *)
(* the exits it was ever given.  Time is counted in ticks, and a lease     *)
(* without time left is one that _prune_locked drops at the next call.     *)
(***************************************************************************)
EXTENDS Integers, FiniteSets

CONSTANTS
    Attempts, Tasks, TaskOf,        \* the attempt i + 1 of a task
    Addresses, Exits, ExitOf,       \* normalize_register_exit_ip
    TTL,            \* active_ttl_seconds
    Interval,       \* heartbeat_interval
    Cooldown,       \* cooldown_seconds
    Lag             \* how late the heartbeat of a working attempt may be

\* The settings give a TTL of at least 900 s and an interval of a third of
\* it, 300 s at most: a heartbeat has 600 s and more to come late.
ASSUME ExitAssumption ==
    /\ TaskOf \in [Attempts -> Tasks]
    /\ ExitOf \in [Addresses -> Exits]
    /\ Interval \in Nat \ {0} /\ Lag \in Nat /\ Cooldown \in Nat /\ TTL \in Nat
    /\ Interval + Lag < TTL

VARIABLES
    lease,      \* _leases
    using,      \* the exits each attempt was given
    phase,      \* where the attempts are
    heart,      \* where their heartbeat threads are
    beat,       \* ticks until the next heartbeat is due; overdue below 0
    rested      \* history: ticks since the exit was given back, up to Cooldown

vars == <<lease, using, phase, heart, beat, rested>>

Longest == IF TTL > Cooldown THEN TTL ELSE Cooldown
Leases  == [owner : Attempts, state : {"active", "cooldown"}, left : 0..Longest]
               \cup [owner : {"nobody"}, state : {"free"}, left : {0}]
Free    == [owner |-> "nobody", state |-> "free", left |-> 0]

TypeOK ==
    /\ lease \in [Exits -> Leases]
    /\ using \in [Attempts -> SUBSET Exits]
    /\ phase \in [Attempts -> {"queued", "working", "closing", "over"}]
    /\ heart \in [Attempts -> {"none", "waiting", "refreshing", "gone"}]
    /\ beat \in [Attempts -> (-Lag)..Interval]
    /\ rested \in [Exits -> 0..Cooldown]

Init ==
    /\ lease = [e \in Exits |-> Free]
    /\ using = [a \in Attempts |-> {}]
    /\ phase = [a \in Attempts |-> "queued"]
    /\ heart = [a \in Attempts |-> "none"]
    /\ beat = [a \in Attempts |-> Interval]
    /\ rested = [e \in Exits |-> Cooldown]

-----------------------------------------------------------------------------
(* The registry. *)

Held(e)  == lease[e].left > 0
Owned(a) == {e \in Exits : Held(e) /\ lease[e].state = "active" /\ lease[e].owner = a}

\* Mutant: who owns an active lease is not looked at.
Claimable_OwnerBlind(a, e) == ~Held(e) \/ lease[e].state = "active"

Claimable(a, e) == ~Held(e) \/ e \in Owned(a)

Active(a)  == [owner |-> a, state |-> "active", left |-> TTL]
Resting(a) == IF Cooldown = 0 THEN Free
              ELSE [owner |-> a, state |-> "cooldown", left |-> Cooldown]

\* Mutant: the state of the lease is not looked at.
Refreshable_Any(a) == {e \in Exits : Held(e) /\ lease[e].owner = a}

Refreshable(a) == Owned(a)

-----------------------------------------------------------------------------
(* The attempts and their heartbeats. *)

Starts(a) ==
    /\ phase[a] = "queued"
    /\ phase' = [phase EXCEPT ![a] = "working"]
    /\ UNCHANGED <<lease, using, heart, beat, rested>>

\* unique_exit_ip_assigned_keys: what a task ever gave to an attempt.
Assigned(t) == UNION {using[a] : a \in {b \in Attempts : TaskOf[b] = t}}

\* The probe of a candidate shows address ip.  A refusal changes nothing,
\* and the attempt goes on to its next candidate.
Claims(a, ip) ==
    LET e == ExitOf[ip] IN
    /\ phase[a] = "working"
    /\ e \notin Assigned(TaskOf[a])
    /\ Claimable(a, e)
    /\ lease' = [lease EXCEPT ![e] = Active(a)]
    /\ using' = [using EXCEPT ![a] = @ \cup {e}]
    /\ heart' = [heart EXCEPT ![a] = IF @ = "none" THEN "waiting" ELSE @]
    /\ UNCHANGED <<phase, beat, rested>>

\* The finally clause sets the stop event and waits a second for the thread.
Closes(a) ==
    /\ phase[a] = "working"
    /\ phase' = [phase EXCEPT ![a] = "closing"]
    /\ UNCHANGED <<lease, using, heart, beat, rested>>

\* The thread may still be there when the second is over.
Releases(a) ==
    /\ phase[a] = "closing"
    /\ phase' = [phase EXCEPT ![a] = "over"]
    /\ lease' = [e \in Exits |-> IF e \in Owned(a) THEN Resting(a) ELSE lease[e]]
    /\ rested' = [e \in Exits |-> IF e \in Owned(a) THEN 0 ELSE rested[e]]
    /\ UNCHANGED <<using, heart, beat>>

\* wait() runs into its timeout: what follows no longer looks at the event.
Wakes(a) ==
    /\ heart[a] = "waiting"
    /\ phase[a] = "working"
    /\ beat[a] <= 0
    /\ heart' = [heart EXCEPT ![a] = "refreshing"]
    /\ UNCHANGED <<lease, using, phase, beat, rested>>

\* Mutant: the time that was left is kept on top.
Renewed_Longer(l) == [l EXCEPT !.left = @ + TTL]

Renewed(l) == [l EXCEPT !.left = TTL]

Refreshes(a) ==
    /\ heart[a] = "refreshing"
    /\ LET mine == Refreshable(a) IN
       /\ lease' = [e \in Exits |-> IF e \in mine THEN Renewed(lease[e]) ELSE lease[e]]
       /\ heart' = [heart EXCEPT ![a] = IF mine = {} THEN "gone" ELSE "waiting"]
       /\ beat' = [beat EXCEPT ![a] = Interval]
    /\ UNCHANGED <<using, phase, rested>>

HeartStops(a) ==
    /\ heart[a] = "waiting"
    /\ phase[a] \in {"closing", "over"}
    /\ heart' = [heart EXCEPT ![a] = "gone"]
    /\ UNCHANGED <<lease, using, phase, beat, rested>>

Beats(a) == heart[a] \in {"waiting", "refreshing"}

\* One tick.  The heartbeat of a working attempt is late by Lag at most.
Tick ==
    /\ \A a \in Attempts : Beats(a) /\ phase[a] = "working" => beat[a] > -Lag
    /\ lease' = [e \in Exits |->
          CASE lease[e].left > 1 -> [lease[e] EXCEPT !.left = @ - 1]
            [] OTHER             -> Free]
    /\ beat' = [a \in Attempts |-> IF Beats(a) /\ beat[a] > -Lag THEN beat[a] - 1 ELSE beat[a]]
    /\ rested' = [e \in Exits |-> IF rested[e] < Cooldown THEN rested[e] + 1 ELSE Cooldown]
    /\ UNCHANGED <<using, phase, heart>>

Next ==
    \/ \E a \in Attempts :
          \/ Starts(a) \/ Closes(a) \/ Releases(a)
          \/ Wakes(a) \/ Refreshes(a) \/ HeartStops(a)
          \/ \E ip \in Addresses : Claims(a, ip)
    \/ Tick

Spec == Init /\ [][Next]_vars

-----------------------------------------------------------------------------
(* Properties. *)

\* No two attempts that work go out through one exit: each exit in use is
\* leased to its user, also while a heartbeat is late (claim, refresh_owner).
ExitsAreExclusive ==
    \A a \in Attempts : phase[a] = "working" => using[a] \subseteq Owned(a)

\* Nothing keeps an exit longer than it should: a lease that is active has
\* an attempt that works and an exit that had its rest, and an exit that was
\* given back rests for exactly the cool-down, also when the heartbeat of its
\* last user was late.
RestIsExact ==
    \A e \in Exits :
       /\ lease[e].state = "active" =>
             phase[lease[e].owner] \in {"working", "closing"} /\ rested[e] = Cooldown
       /\ lease[e].state = "cooldown" => lease[e].left + rested[e] = Cooldown
=============================================================================
