---------------------------- MODULE DomainQuality ----------------------------
(***************************************************************************)
(* The quality of one domain while its child task runs: what               *)
(* RegistrationDomainRotationManager makes of the decisions of the         *)
(* registration, and of the eligibility and link results of the accounts,  *)
(* which post-processing threads report in any order; and when it asks     *)
(* the task to stop after the current account.                             *)
(***************************************************************************)
EXTENDS Naturals, FiniteSets

CONSTANTS
    Accounts,       \* accounts the task may register, numbered in attempt order
    MinSamples,     \* rejection_rate_min_samples
    Threshold,      \* rejection_rate_threshold_percent
    StreakLimit,    \* no_link_streak_threshold
    MaxDecisions    \* bound: decisions of the registration that are reported

PolicyAssumption ==
    /\ Accounts \subseteq Nat /\ IsFiniteSet(Accounts)
    /\ MinSamples \in Nat \ {0}
    /\ Threshold \in 0..100
    /\ StreakLimit \in Nat \ {0}
    /\ MaxDecisions \in Nat

VARIABLES
    item,       \* the item's state
    trigger,    \* the code of its trigger
    decisions,  \* registration_decisions
    disallowed, \* registration_disallowed
    ledger,     \* account_ledgers: the link outcome of each account
    quality     \* the counters kept of the ledger

vars == <<item, trigger, decisions, disallowed, ledger, quality>>

Codes     == {"registration_rejection_rate_exceeded", "no_payment_link_streak_reached"}
Outcomes  == {"pending", "awaiting_link", "success", "miss", "neutral"}
Known(l)  == {a \in Accounts : l[a] # "unknown"}

TypeOK ==
    /\ item \in {"active", "draining", "over"}
    /\ trigger \in {"none"} \cup Codes
    /\ decisions \in 0..MaxDecisions
    /\ disallowed \in 0..decisions
    /\ ledger \in [Accounts -> Outcomes \cup {"unknown"}]
    /\ quality.registered = Cardinality(Known(ledger))
    /\ quality \in [registered : Nat, success : Nat, miss : Nat, neutral : Nat,
                    pending : Nat, streak : Nat]

Init ==
    /\ item = "active"
    /\ trigger = "none"
    /\ decisions = 0
    /\ disallowed = 0
    /\ ledger = [a \in Accounts |-> "unknown"]
    /\ quality = [registered |-> 0, success |-> 0, miss |-> 0, neutral |-> 0,
                  pending |-> 0, streak |-> 0]

\* Misses in attempt order after the last success; other outcomes do not count.
Streak(l) ==
    Cardinality({a \in Known(l) : /\ l[a] = "miss"
                                  /\ \A b \in Known(l) : b > a => l[b] # "success"})

\* _recompute_link_quality_locked
Recomputed(l) ==
    LET number(S) == Cardinality({a \in Accounts : l[a] \in S})
    IN  [registered |-> number(Outcomes),
         success    |-> number({"success"}),
         miss       |-> number({"miss"}),
         neutral    |-> number({"neutral"}),
         pending    |-> number({"pending", "awaiting_link"}),
         streak     |-> Streak(l)]

\* _trigger_quality_stop_locked, when a threshold is reached
Judged(poor, code) ==
    IF poor /\ item = "active"
    THEN item' = "draining" /\ trigger' = code
    ELSE UNCHANGED <<item, trigger>>

\* Mutant: the sample must be larger than the minimum.
TooManyRejections_Later(n, d) == n > MinSamples /\ 100 * d > Threshold * n

TooManyRejections(n, d) == n >= MinSamples /\ 100 * d > Threshold * n

\* record_registration_result
RegistrationResult(refused) ==
    /\ item # "over"
    /\ decisions < MaxDecisions
    /\ decisions' = decisions + 1
    /\ disallowed' = IF refused THEN disallowed + 1 ELSE disallowed
    /\ Judged(TooManyRejections(decisions', disallowed'),
              "registration_rejection_rate_exceeded")
    /\ UNCHANGED <<ledger, quality>>

\* record_registered_account; a second report changes nothing
RegisteredAccount(a) ==
    /\ item # "over"
    /\ ledger' = [ledger EXCEPT ![a] = IF @ = "unknown" THEN "pending" ELSE @]
    /\ quality' = Recomputed(ledger')
    /\ UNCHANGED <<item, trigger, decisions, disallowed>>

\* _after_link_outcome_locked
Outcome(a, new) ==
    /\ ledger' = [ledger EXCEPT ![a] = new]
    /\ quality' = Recomputed(ledger')
    /\ Judged(quality'.streak >= StreakLimit, "no_payment_link_streak_reached")
    /\ UNCHANGED <<decisions, disallowed>>

EligibilityOutcome(old, state) ==
    CASE state = "eligible" -> IF old \in {"pending", "awaiting_link"} THEN "awaiting_link" ELSE old
      [] state = "ineligible" -> IF old = "success" THEN old ELSE "miss"
      [] state = "probe_failed" -> IF old \in {"success", "miss"} THEN old ELSE "neutral"
      [] OTHER -> IF old \in {"success", "miss", "neutral"} THEN old ELSE "pending"

\* record_eligibility_result
EligibilityResult(a) ==
    /\ item # "over"
    /\ ledger[a] # "unknown"
    /\ \E state \in {"eligible", "ineligible", "probe_failed", "queued"} :
          Outcome(a, EligibilityOutcome(ledger[a], state))

\* "technical" is an extract_failed that _technical_link_failure recognises.
LinkOutcome(old, state) ==
    CASE state = "link_succeeded" -> "success"
      [] state = "extract_failed" /\ old # "success" -> "miss"
      [] state = "technical" /\ old # "success" -> "neutral"
      [] state = "pending_auth" /\ old \notin {"success", "miss", "neutral"} -> "pending"
      [] OTHER -> IF old \in {"success", "miss"} THEN old ELSE "neutral"

\* record_link_result
LinkResult(a) ==
    /\ item # "over"
    /\ ledger[a] # "unknown"
    /\ \E state \in {"link_succeeded", "extract_failed", "technical", "pending_auth", "cancelled"} :
          Outcome(a, LinkOutcome(ledger[a], state))

\* handle_task_terminal forgets the ledger; what comes later is ignored.
TaskOver ==
    /\ item # "over"
    /\ item' = "over"
    /\ ledger' = [a \in Accounts |-> "unknown"]
    /\ quality' = Recomputed(ledger')
    /\ UNCHANGED <<trigger, decisions, disallowed>>

Next ==
    \/ \E refused \in BOOLEAN : RegistrationResult(refused)
    \/ \E a \in Accounts :
        RegisteredAccount(a) \/ EligibilityResult(a) \/ LinkResult(a)
    \/ TaskOver

Spec == Init /\ [][Next]_vars

-----------------------------------------------------------------------------
(* Safety. *)

\* A domain that is still active has reached neither threshold: no order of
\* results lets a poor domain slip through ("the tenth consecutive miss
\* triggers a graceful stop", test_registration_domain_rotation.py:153).
PoorDomainsDrain ==
    item = "active" =>
        /\ ~(decisions >= MinSamples /\ 100 * disallowed > Threshold * decisions)
        /\ \A S \in SUBSET Known(ledger) :
              /\ \A a \in S : ledger[a] = "miss"
              /\ \A a \in S : \A b \in Known(ledger) : b > a => ledger[b] # "success"
              => Cardinality(S) < StreakLimit

(* Action properties. *)

\* A link that was extracted is never taken back by a result that comes late.
LinkKept ==
    \A a \in Accounts : ledger[a] = "success" => (ledger'[a] = "success" \/ item' = "over")

LinkSuccessSticks == [][LinkKept]_vars
=============================================================================
