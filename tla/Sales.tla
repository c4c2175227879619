------------------------------- MODULE Sales -------------------------------
(***************************************************************************)
(* What selling a licence promises, whoever does the work: a sale is       *)
(* opened for a signed payment, transfers reach consensus, a sale is       *)
(* booked on a transfer of its price that no other sale is booked on, and  *)
(* a licence is issued for a booked sale while the edition lasts.          *)
(*                                                                         *)
(* Purchases implements this specification; Api lets buyers meet it.       *)
(***************************************************************************)
EXTENDS Naturals, FiniteSets

CONSTANTS
    Payments,   \* signed transactions
    Offers,
    OfferOf,    \* the offer a payment was signed for
    PriceOf,    \* payTo, asset and amount of a payment, as one value
    MaxUnits,   \* units an offer may sell
    Sandbox,    \* rehearsals: no money moves
    None

VARIABLES
    opened,     \* payments with a purchases row
    moved,      \* payments whose transaction reached consensus
    claim,      \* the transfer a sale is booked on
    unit        \* the serial of the licence (0: no licence)

sales == <<opened, moved, claim, unit>>

Init ==
    /\ opened = {}
    /\ moved = {}
    /\ claim = [p \in Payments |-> None]
    /\ unit = [p \in Payments |-> 0]

Open(p) ==
    /\ p \notin opened
    /\ opened' = opened \cup {p}
    /\ UNCHANGED <<moved, claim, unit>>

\* Hedera accepts a transaction once.
Move(p) ==
    /\ p \in opened \ (Sandbox \cup moved)
    /\ moved' = moved \cup {p}
    /\ UNCHANGED <<opened, claim, unit>>

\* A transfer that has happened, of this price, and backs no other sale.
Backs(t, p) ==
    /\ t \in moved /\ PriceOf[t] = PriceOf[p]
    /\ \A q \in Payments \ {p} : claim[q] # t

\* A sale may come to be booked on another transfer than before.
Book(p, t) ==
    /\ p \in opened \ Sandbox
    /\ Backs(t, p)
    /\ claim' = [claim EXCEPT ![p] = t]
    /\ UNCHANGED <<opened, moved, unit>>

Siblings(p) == {q \in Payments : /\ OfferOf[q] = OfferOf[p]
                                 /\ (q \in Sandbox) = (p \in Sandbox)
                                 /\ unit[q] # 0}

NextUnit(p) == 1 + Cardinality(Siblings(p))
EditionEnded(p) == p \notin Sandbox /\ NextUnit(p) > MaxUnits[OfferOf[p]]

\* The next serial of the offer, at most the last of the edition.
Issue(p) ==
    /\ p \in opened /\ unit[p] = 0
    /\ p \notin Sandbox => claim[p] # None
    /\ ~EditionEnded(p)
    /\ unit' = [unit EXCEPT ![p] = NextUnit(p)]
    /\ UNCHANGED <<opened, moved, claim>>

Next ==
    \E p \in Payments :
        \/ Open(p) \/ Move(p) \/ Issue(p)
        \/ \E t \in Payments : Book(p, t)

Spec == Init /\ [][Next]_sales

=============================================================================
