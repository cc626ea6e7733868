----------------------------- MODULE MCComponents ----------------------------
(***************************************************************************)
(* Instances, for TLC, of components that share no state: the exits of     *)
(* registrations, the history of a task, the quality of a domain, delivery *)
(* cards, payment orders, the change of an account's e-mail, the binding   *)
(* of phone numbers and the PayPal payment of an account.  A behaviour is  *)
(* one of one of them, the scope, chosen at its start; s1 .. s18 stand for *)
(* the variables of whichever it is, and the exits keep their own.         *)
(***************************************************************************)
EXTENDS ExitIPRegistry, TLC

CONSTANTS a1, a2, a3, t1, t2

VARIABLES
    scope,      \* who moves
    s1, s2, s3, s4, s5, s6, s7, s8, s9, s10, s11, s12, s13, s14, s15, s16, s17, s18
                \* its variables, and 0 where it has fewer

\* The runner saves once more after finish, and the process may die ...
History == INSTANCE TaskHistory
    WITH ActiveMax <- 2, FinishedMax <- 1, CheckpointEvery <- 2, Tries <- 3, PostSaves <- TRUE,
         StopModes <- {}, MayCrash <- TRUE, MaxLines <- 3, MaxFaults <- 1,
         live <- s1, status <- s2, lo <- s3, hi <- s4, since <- s5, stopMode <- s6, row <- s7,
         inserted <- s8, pending <- s9, owner <- s10, pc <- s11, snap <- s12, found <- s13,
         phase <- s14, tries <- s15, faults <- s16, outcome <- s17, clicked <- s18

\* ... or an operator asks for a stop, and every line makes a checkpoint.
Stops == INSTANCE TaskHistory
    WITH ActiveMax <- 2, FinishedMax <- 1, CheckpointEvery <- 1, Tries <- 2,
         PostSaves <- FALSE, StopModes <- {"after_current"}, MayCrash <- FALSE, MaxLines <- 1,
         MaxFaults <- 1,
         live <- s1, status <- s2, lo <- s3, hi <- s4, since <- s5, stopMode <- s6, row <- s7,
         inserted <- s8, pending <- s9, owner <- s10, pc <- s11, snap <- s12, found <- s13,
         phase <- s14, tries <- s15, faults <- s16, outcome <- s17, clicked <- s18

Quality == INSTANCE DomainQuality
    WITH Accounts <- 1..4, MinSamples <- 2, Threshold <- 50, StreakLimit <- 2,
         MaxDecisions <- 3,
         item <- s1, trigger <- s2, decisions <- s3, disallowed <- s4, ledger <- s5,
         quality <- s6

\* Two sets whose members may be exchanged for one another.
CONSTANTS Xs, Ys, Keys, Sessions

Delivery == INSTANCE DeliveryCards
    WITH Cards <- Xs, Accounts <- Ys, MaxRefetch <- 1, MaxCount <- 2,
         card <- s1, account <- s2, expired <- s3, events <- s4, work <- s5, answers <- s6

\* All accounts are submitted, and the operator interferes ...
Payment == INSTANCE CdkOrders
    WITH Accounts <- Ys, Cards <- {"g1"}, Target <- 0, FailureContinue <- TRUE,
         MaxRequests <- 1,
         remote <- s1, row <- s2, extra <- s3, phase <- s4, cards <- s5, pending <- s6,
         hand <- s7, orders <- s8, todo <- s9, moved <- s10, result <- s11, stop <- s12,
         skip <- s13, targets <- s14, flight <- s15, asked <- s16

\* ... or two of three are wanted, with every order of their ends, and nobody
\* stops or skips (s12 and s13).
Window == INSTANCE CdkOrders
    WITH Accounts <- Ys \cup {"third"}, Cards <- {"g1"}, Target <- 2, FailureContinue <- TRUE,
         MaxRequests <- 0,
         remote <- s1, row <- s2, extra <- s3, phase <- s4, cards <- s5, pending <- s6,
         hand <- s7, orders <- s8, todo <- s9, moved <- s10, result <- s11, stop <- s12,
         skip <- s13, targets <- s14, flight <- s15, asked <- s16

Email == INSTANCE EmailChange
    WITH Targets <- {"m1", "m2"}, Callers <- Xs, Threads <- Ys, MaxRequests <- 6,
         MaxFaults <- 2, MaxCrashes <- 1,
         remote <- s1, email <- s2, rows <- s3, mailbox <- s4, active <- s5, api <- s6,
         run <- s7, asked <- s8, faults <- s9, crashes <- s10

\* Numbers from the pool, with skips, a stop and an operator at the pool ...
Pool == INSTANCE PhoneBinding
    WITH Accounts <- Ys, Phones <- Xs, UsePool <- TRUE, Items <- <<>>, Width <- 2,
         MaxAccounts <- 2, StopModes <- {"now"}, MaxSkips <- 1, MaxFaults <- 1,
         MaxRequests <- 1,
         phase <- s1, place <- s2, held <- s3, cursor <- s4, claimed <- s5, terminal <- s6,
         successful <- s7, asked <- s8, remote <- s9, confirmed <- s10, binding <- s11,
         pool <- s12, result <- s13, stop <- s14, skips <- s15, faults <- s16, requests <- s17

\* ... or from a list that names one of them twice, with more accounts than workers.
List == INSTANCE PhoneBinding
    WITH Accounts <- Ys \cup {"third"}, Phones <- {"p1", "p2"}, UsePool <- FALSE,
         Items <- <<"p1", "p2", "p1">>, Width <- 2, MaxAccounts <- 2, StopModes <- {"after"},
         MaxSkips <- 0, MaxFaults <- 0, MaxRequests <- 0,
         phase <- s1, place <- s2, held <- s3, cursor <- s4, claimed <- s5, terminal <- s6,
         successful <- s7, asked <- s8, remote <- s9, confirmed <- s10, binding <- s11,
         pool <- s12, result <- s13, stop <- s14, skips <- s15, faults <- s16, requests <- s17

\* The coordinator's run and a continuation; a login may be tried again.
Paypal == INSTANCE PaypalFollowup
    WITH Continuations <- {"c1"}, MaxRelogins <- 2, MaxCrashes <- 1,
         email <- s1, token <- s2, marker <- s3, pipeline <- s4, upstream <- s5, row <- s6,
         run <- s7, work <- s8, unmarked <- s9, crashes <- s10

slots == <<s1, s2, s3, s4, s5, s6, s7, s8, s9, s10, s11, s12, s13, s14, s15, s16, s17, s18>>
after6  == <<s7, s8, s9, s10, s11, s12, s13, s14, s15, s16, s17, s18>>
after10 == <<s11, s12, s13, s14, s15, s16, s17, s18>>

ASSUME ComponentsAssumption ==
    /\ Quality!PolicyAssumption /\ History!WindowsAssumption /\ Stops!WindowsAssumption
    /\ Delivery!StockAssumption /\ Delivery!OneWriter
    /\ Payment!OrderAssumption /\ Window!OrderAssumption
    /\ Paypal!ReloginAssumption /\ Email!BoundsAssumption
    /\ Pool!BindingAssumption /\ List!BindingAssumption

MCTaskOf == (a1 :> t1) @@ (a2 :> t1) @@ (a3 :> t2)
MCExitOf == ("p" :> "e1") @@ ("q" :> "e1") @@ ("r" :> "e2")

Symmetry == Permutations(Xs) \cup Permutations(Ys)

\* Variables the component does not have.
No18 == s18 = 0
No17 == s17 = 0 /\ No18
No11 == s11 = 0 /\ s12 = 0 /\ s13 = 0 /\ s14 = 0 /\ s15 = 0 /\ s16 = 0 /\ No17
No7  == s7 = 0 /\ s8 = 0 /\ s9 = 0 /\ s10 = 0 /\ No11
No1  == s1 = 0 /\ s2 = 0 /\ s3 = 0 /\ s4 = 0 /\ s5 = 0 /\ s6 = 0 /\ No7

MCInit ==
    /\ Init
    /\ \/ scope = "exits"    /\ No1
       \/ scope = "history"  /\ History!Init
       \/ scope = "stops"    /\ Stops!Init
       \/ scope = "quality"  /\ Quality!Init  /\ No7
       \/ scope = "delivery" /\ Delivery!Init /\ No7
       \/ scope = "payment"  /\ Payment!Init  /\ No17
       \/ scope = "window"   /\ Window!Init   /\ No17
       \/ scope = "email"    /\ Email!Init    /\ No11
       \/ scope = "pool"     /\ Pool!Init     /\ No18
       \/ scope = "list"     /\ List!Init     /\ No18
       \/ scope = "paypal"   /\ Paypal!Init   /\ No11

MCNext ==
    /\ UNCHANGED scope
    /\ \/ scope = "exits" /\ Next /\ UNCHANGED slots
       \/ /\ UNCHANGED vars
          /\ \/ scope = "history"  /\ History!Next
             \/ scope = "stops"    /\ Stops!Next
             \/ scope = "quality"  /\ Quality!Next  /\ UNCHANGED after6
             \/ scope = "delivery" /\ Delivery!Next /\ UNCHANGED after6
             \/ scope = "payment"  /\ Payment!Next  /\ UNCHANGED <<s17, s18>>
             \/ scope = "window"   /\ Window!Next   /\ UNCHANGED <<s12, s13, s17, s18>>
             \/ scope = "email"    /\ Email!Next    /\ UNCHANGED after10
             \/ scope = "pool"     /\ Pool!Next     /\ UNCHANGED s18
             \/ scope = "list"     /\ List!Next     /\ UNCHANGED s18
             \/ scope = "paypal"   /\ Paypal!Next   /\ UNCHANGED after10

MCSpec == MCInit /\ [][MCNext]_<<scope, vars, slots>>

\* The type invariants of the components.
TypesOK ==
    /\ TypeOK
    /\ scope = "history"  => History!TypeOK
    /\ scope = "stops"    => Stops!TypeOK
    /\ scope = "quality"  => Quality!TypeOK
    /\ scope = "delivery" => Delivery!TypeOK
    /\ scope = "payment"  => Payment!TypeOK
    /\ scope = "window"   => Window!TypeOK
    /\ scope = "email"    => Email!TypeOK
    /\ scope = "pool"     => Pool!TypeOK
    /\ scope = "list"     => List!TypeOK
    /\ scope = "paypal"   => Paypal!TypeOK

-----------------------------------------------------------------------------
(* The properties of the components, each while it is the one that moves.  *)

\* A poor domain is drained in whatever order results come.
PoorDomainsDrain == scope = "quality" => Quality!PoorDomainsDrain

\* A card and an account belong together for ever, a repeated request is given
\* the same answer, and stock that is counted passes the check for duplicates.
DeliveriesAgree == scope = "delivery" => Delivery!AnswersAgree /\ Delivery!StockIsDeliverable

\* An account is ordered for once, and no more are paid than were asked for.
OrdersWithinTarget ==
    /\ scope = "payment" => Payment!OrdersWithinTarget
    /\ scope = "window" => Window!OrdersWithinTarget

\* What is reported and copied of an account is its own order.
OrdersAreOwn ==
    /\ scope = "payment" => Payment!OrdersAreOwn
    /\ scope = "window" => Window!OrdersAreOwn

\* A submission task that ends has a result for every account, and leaves no
\* copy that could be polled again.
EndsAreSettled ==
    /\ scope = "payment" => Payment!EndsAreSettled
    /\ scope = "window" => Window!EndsAreSettled

\* A task has one row, an account's result never closes it, and it is terminal
\* once the runner is over.
RowFollowsTask ==
    /\ scope = "history" => History!RowFollowsTask /\ History!RowSettles
    /\ scope = "stops" => Stops!RowFollowsTask /\ Stops!RowSettles

\* A mailbox that was given back is not the account's address, OpenAI has no
\* address nobody knows of, and the code is not sent twice.
TargetsAreSafe == scope = "email" => Email!TargetsAreSafe

\* A change that is done is whole, and one that stopped can go on.
ChangesEnd == scope = "email" => Email!ChangesEnd

\* Within a task a number is for one account, whatever is lost or interrupted.
NumbersBindOnce ==
    /\ scope = "pool" => Pool!NumbersBindOnce
    /\ scope = "list" => List!NumbersBindOnce

\* Bindings that OpenAI confirmed are kept, nothing else is, and every account
\* has a result.
BindingsSettle ==
    /\ scope = "pool" => Pool!BindingsSettle
    /\ scope = "list" => List!BindingsSettle

\* A payment is followed to its end, and the account tells what became of it.
PaymentsFollowed == scope = "paypal" => Paypal!PaymentsFollowed

\* What is durable never goes back: the history of a task, an extracted link and
\* the followed payment of an account.
NothingGoesBack ==
    [][/\ scope = "history" => History!GoesForward
       /\ scope = "stops" => Stops!GoesForward
       /\ scope = "quality" => Quality!LinkKept
       /\ scope = "paypal" => Paypal!GoesForward]_slots
=============================================================================
