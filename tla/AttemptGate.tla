----------------------------- MODULE AttemptGate -----------------------------
(***************************************************************************)
(* What RegisterTaskControl promises the dispatchers of the task runners,  *)
(* with the three stop modes, the skips and the verification challenges    *)
(* left out: a gate that closes once and for all, through which attempts   *)
(* are claimed one by one under fresh ids, and the set of attempts that    *)
(* are being worked on.  An attempt that was claimed may be laid down and  *)
(* taken up again, whatever the gate says.                                 *)
(***************************************************************************)
EXTENDS Naturals

CONSTANT AttemptIds

VARIABLES
    open,       \* may another attempt be claimed
    issued,     \* ids claimed so far
    live        \* attempts being worked on

gate == <<open, issued, live>>

Init == open = TRUE /\ issued = {} /\ live = {}

Close == open' = FALSE /\ UNCHANGED <<issued, live>>

Claim(a) ==
    /\ open
    /\ a \notin issued
    /\ issued' = issued \cup {a}
    /\ live' = live \cup {a}
    /\ UNCHANGED open

TakeUp(a) ==
    /\ a \in issued
    /\ live' = live \cup {a}
    /\ UNCHANGED <<open, issued>>

LayDown(a) == live' = live \ {a} /\ UNCHANGED <<open, issued>>

Next ==
    \/ Close
    \/ \E a \in AttemptIds : Claim(a) \/ TakeUp(a) \/ LayDown(a)

Spec == Init /\ [][Next]_gate
=============================================================================
