----------------------------- MODULE Settlement -----------------------------
(***************************************************************************)
(* What a user of the bridge is promised about the payments the ledger     *)
(* chain makes: a payment that was announced is settled at most once, and  *)
(* its receiver is credited with its amount in the very step that settles  *)
(* it; nothing else changes what a receiver was credited with.             *)
(***************************************************************************)
EXTENDS Integers

CONSTANTS
    Payments,
    Receivers,
    receiver(_),  \* whom a payment is for, in Receivers
    amount(_)     \* what it is worth, in Nat

VARIABLES pending, settled, credited

vars == <<pending, settled, credited>>

Init ==
    /\ pending = {}
    /\ settled = {}
    /\ credited = [r \in Receivers |-> 0]

Announce(p) ==
    /\ p \notin pending \cup settled
    /\ pending' = pending \cup {p}
    /\ UNCHANGED <<settled, credited>>

Settle(p) ==
    /\ p \in pending
    /\ pending' = pending \ {p}
    /\ settled' = settled \cup {p}
    /\ credited' = [credited EXCEPT ![receiver(p)] = @ + amount(p)]

Next == \E p \in Payments : Announce(p) \/ Settle(p)

Spec == Init /\ [][Next]_vars

=============================================================================
