----------------------------- MODULE DeliveryCards -----------------------------
(***************************************************************************)
(* Cards that are redeemed for accounts (services/delivery_cards).  A      *)
(* redemption is one BEGIN IMMEDIATE transaction.  What an administrator   *)
(* does (enabling and disabling cards, marking accounts as used, repairing *)
(* drift), and every other writer of an account's extra data, reads first  *)
(* and writes later in a transaction of its own: a redemption, or another  *)
(* writer, may come in between.  A crash or an error before the commit     *)
(* leaves no trace, and a client that lost the answer asks again with the  *)
(* same key.                                                               *)
(***************************************************************************)
EXTENDS Naturals

CONSTANTS
    Cards, Accounts,
    Keys,           \* request ids, "" for a request without one
    MaxRefetch,     \* max_refetch_count; 0 is no limit
    MaxCount,       \* bound: answers to one card
    Sessions        \* writers at work at the same time

VARIABLES
    card,       \* delivery_cards
    account,    \* accounts
    expired,    \* cards whose expires_at has passed
    events,     \* delivery_card_events with result "success"
    work,       \* what the writers have read and not written yet
    answers     \* history: the accounts that clients were given

vars == <<card, account, expired, events, work, answers>>

Nobody   == "nobody"

\* What the module assumes of its constants.
StockAssumption ==
    /\ Nobody \notin Cards \cup Accounts
    /\ "" \in Keys
    /\ MaxRefetch \in Nat /\ MaxCount \in Nat \ {0}

\* No other writer is at work between the read and the write of one.
OneWriter == \A s, r \in Sessions : s = r

Statuses == {"none", "unused", "redeemed", "disabled"}

CardRecords    == [status : Statuses, account : Accounts \cup {Nobody}, count : 0..MaxCount]
AccountRecords == [valid : BOOLEAN, used : BOOLEAN, marker : Cards \cup {Nobody}]
EventRecords   == [card : Cards, account : Accounts, key : Keys, index : 0..MaxCount]
WorkRecords    ==
    [op : {"none"}]
      \cup [op : {"status"}, card : Cards, want : {"unused", "disabled"}, seen : CardRecords]
      \cup [op : {"edit"}, account : Accounts, used : BOOLEAN, seen : AccountRecords]
      \cup [op : {"repair"}, card : Cards, seen : CardRecords, was : AccountRecords]

TypeOK ==
    /\ card \in [Cards -> CardRecords]
    /\ account \in [Accounts -> AccountRecords]
    /\ expired \subseteq Cards
    /\ events \subseteq EventRecords
    /\ \A s \in Sessions : work[s] \in WorkRecords
    /\ answers \subseteq EventRecords
    /\ \A c \in Cards : card[c].status = "redeemed" => card[c].account # Nobody /\ card[c].count > 0

Init ==
    /\ card = [c \in Cards |-> [status |-> "none", account |-> Nobody, count |-> 0]]
    /\ account \in [Accounts -> [valid : BOOLEAN, used : {FALSE}, marker : {Nobody}]]
    /\ expired = {}
    /\ events = {}
    /\ work = [s \in Sessions |-> [op |-> "none"]]
    /\ answers = {}

-----------------------------------------------------------------------------
(* Stock and duplicates. *)

\* assigned_account_ids: whatever the card's status
Assigned == {card[c].account : c \in Cards} \ {Nobody}

\* The accounts a redemption may pick from, in an order of its own.
Candidates == {a \in Accounts : account[a].valid /\ ~account[a].used /\ a \notin Assigned}

Unused == {c \in Cards : card[c].status = "unused"}

\* assert_no_delivery_duplicate: another card was, or still is, answered
\* with the account.  The API logs of successes repeat the events.
Duplicate(c, a) ==
    \/ account[a].used /\ account[a].marker # c
    \/ \E d \in Cards \ {c} : card[d].account = a /\ card[d].status \in {"redeemed", "disabled"}
    \/ \E e \in events : e.account = a /\ e.card # c

Marked(a, c) == [account EXCEPT ![a].used = TRUE, ![a].marker = c]

Success(c, a, k, i) == [card |-> c, account |-> a, key |-> k, index |-> i]

-----------------------------------------------------------------------------
(* Redemptions: each is one transaction. *)

FirstRedeem(c, k, a) ==
    /\ card[c].status = "unused"
    /\ c \notin expired
    /\ a \in Candidates
    /\ ~Duplicate(c, a)
    /\ card' = [card EXCEPT ![c] = [status |-> "redeemed", account |-> a, count |-> 1]]
    /\ account' = Marked(a, c)
    /\ events' = events \cup {Success(c, a, k, 1)}
    /\ answers' = answers \cup {Success(c, a, k, 1)}
    /\ UNCHANGED <<expired, work>>

\* A redeemed card whose account lost its mark gets it back.
Healed(c) == IF account[card[c].account].used THEN account ELSE Marked(card[c].account, c)

\* _find_success_idempotent_event
Earlier(c, k) == {e \in events : k # "" /\ e.card = c /\ e.key = k}

Replay(c, k) ==
    /\ card[c].status = "redeemed"
    /\ \E e \in Earlier(c, k) :
          answers' = answers \cup {Success(c, card[c].account, k, e.index)}
    /\ account' = Healed(c)
    /\ UNCHANGED <<card, expired, events, work>>

Refetch(c, k) ==
    LET n == card[c].count + 1 IN
    /\ card[c].status = "redeemed"
    /\ Earlier(c, k) = {}
    /\ MaxRefetch = 0 \/ card[c].count < MaxRefetch
    /\ n <= MaxCount
    /\ card' = [card EXCEPT ![c].count = n]
    /\ account' = Healed(c)
    /\ events' = events \cup {Success(c, card[c].account, k, n)}
    /\ answers' = answers \cup {Success(c, card[c].account, k, n)}
    /\ UNCHANGED <<expired, work>>

Redeem(c, k) == Replay(c, k) \/ Refetch(c, k) \/ \E a \in Accounts : FirstRedeem(c, k, a)

-----------------------------------------------------------------------------
(* Batches, and what writers read first and write later. *)

\* create_batch: the cards of a batch appear in one commit.
CreateBatch(batch) ==
    /\ batch # {}
    /\ \A c \in batch : card[c].status = "none"
    /\ card' = [c \in Cards |-> IF c \in batch THEN [card[c] EXCEPT !.status = "unused"] ELSE card[c]]
    /\ UNCHANGED <<account, expired, events, work, answers>>

Expires(c) ==
    /\ expired' = expired \cup {c}
    /\ UNCHANGED <<card, account, events, work, answers>>

\* Validity and subscription change by checks of other components.
Checked(a) ==
    /\ account' = [account EXCEPT ![a].valid = ~@]
    /\ UNCHANGED <<card, expired, events, work, answers>>

Reads(s, what) ==
    /\ work[s].op = "none"
    /\ work' = [work EXCEPT ![s] = what]
    /\ UNCHANGED <<card, account, expired, events, answers>>

ReadsCard(s, c, want) ==
    /\ card[c].status # "none"
    /\ Reads(s, [op |-> "status", card |-> c, want |-> want, seen |-> card[c]])

\* mark-used with either value, or another save of the extra data (used as read)
ReadsAccount(s, a, used) ==
    Reads(s, [op |-> "edit", account |-> a, used |-> used, seen |-> account[a]])

\* repair_consistency finds the mark missing, or an unused card with an account.
ReadsDrift(s, c) ==
    LET a == card[c].account IN
    /\ a # Nobody
    /\ ~account[a].used \/ account[a].marker # c \/ card[c].status = "unused"
    /\ Reads(s, [op |-> "repair", card |-> c, seen |-> card[c], was |-> account[a]])

Done(s) == work' = [work EXCEPT ![s] = [op |-> "none"]]

\* Mutant: an enabled card is a new one.
Wanted_New(w) == w.want

\* A card that was delivered is enabled as a redeemed one.
Wanted(w) == IF w.want = "unused" /\ w.seen.account # Nobody THEN "redeemed" ELSE w.want

\* set_card_status: a status equal to the one read is not written.
WritesStatus(s) ==
    LET w == work[s] IN
    /\ w.op = "status"
    /\ card' = IF Wanted(w) = w.seen.status THEN card
               ELSE [card EXCEPT ![w.card].status = Wanted(w)]
    /\ events' = IF w.seen.account = Nobody THEN events
                 ELSE events \cup {Success(w.card, w.seen.account, "", 0)}
    /\ Done(s)
    /\ UNCHANGED <<account, expired, answers>>

\* extra_json is written as a whole: with the mark as it was read.
WritesAccount(s) ==
    LET w == work[s] IN
    /\ w.op = "edit"
    /\ account' = [account EXCEPT ![w.account].used = w.used, ![w.account].marker = w.seen.marker]
    /\ Done(s)
    /\ UNCHANGED <<card, expired, events, answers>>

WritesRepair(s) ==
    LET w == work[s]
        a == w.seen.account IN
    /\ w.op = "repair"
    /\ card' = IF w.seen.status # "unused" THEN card
               ELSE [card EXCEPT ![w.card].status = "redeemed",
                                 ![w.card].count = IF w.seen.count > 0 THEN @ ELSE 1]
    /\ account' = Marked(a, w.card)
    /\ events' = events \cup {Success(w.card, a, "", 0)}
    /\ Done(s)
    /\ UNCHANGED <<expired, answers>>

\* The request fails or the process dies before its commit.
Fails(s) ==
    /\ work[s].op # "none"
    /\ Done(s)
    /\ UNCHANGED <<card, account, expired, events, answers>>

Next ==
    \/ \E c \in Cards, k \in Keys : Redeem(c, k)
    \/ \E batch \in SUBSET Cards : CreateBatch(batch)
    \/ \E c \in Cards : Expires(c)
    \/ \E a \in Accounts : Checked(a)
    \/ \E s \in Sessions :
          \/ \E c \in Cards : ReadsDrift(s, c) \/ \E want \in {"unused", "disabled"} : ReadsCard(s, c, want)
          \/ \E a \in Accounts, used \in BOOLEAN : ReadsAccount(s, a, used)
          \/ WritesStatus(s) \/ WritesAccount(s) \/ WritesRepair(s) \/ Fails(s)

Spec == Init /\ [][Next]_vars

-----------------------------------------------------------------------------
(* Properties. *)

\* A card is answered with one account for ever and an account belongs to
\* one card, whatever happens to marks and states of the card in between
\* (redeem_card, set_card_status).  A client that repeats a request, because
\* the answer was lost, is given the same account and the same number again
\* (idempotency_key).
AnswersAgree ==
    \A x, y \in answers :
       /\ x.card = y.card <=> x.account = y.account
       /\ x.card = y.card /\ x.key = y.key /\ x.key # "" => x = y

\* Stock that is counted can be delivered: no account that redeem_card may
\* pick meets the duplicate check, which would refuse every card after it.
StockIsDeliverable ==
    \A c \in Unused, a \in Candidates : ~Duplicate(c, a)
=============================================================================
