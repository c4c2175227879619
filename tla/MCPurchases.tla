---------------------------- MODULE MCPurchases ----------------------------
(* Small instances of Purchases for TLC. *)
EXTENDS Purchases, TLC

CONSTANTS p1, p2, p3, o1, r1, r2

\* Two buyers of the same listing at the same price.
MCOfferOf == p1 :> o1 @@ p2 :> o1
SamePrice == p1 :> "price" @@ p2 :> "price"
OwnPrice  == p1 :> "small" @@ p2 :> "large"
OneUnit   == o1 :> 1
TwoUnits  == o1 :> 2

\* Three buyers, one of them in the sandbox, of an edition of one or two.
ThreeOffers == MCOfferOf @@ p3 :> o1
ThreePrices == SamePrice @@ p3 :> "price"

\* The two buyers and the two request slots are interchangeable.
Slots == Permutations({r1, r2})
Alike == Permutations({p1, p2}) \cup Slots
=============================================================================
