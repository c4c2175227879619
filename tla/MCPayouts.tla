----------------------------- MODULE MCPayouts -----------------------------
(* Small instances of Payouts for TLC. *)
EXTENDS Payouts, TLC

CONSTANTS p1, p2, d1, d2, a1, a2, c1

\* Two shares of one checkout, in two assets: of two designers or of one.
TwoOwners   == p1 :> d1 @@ p2 :> d2
OneOwner    == p1 :> d1 @@ p2 :> d1
TwoAssets   == p1 :> a1 @@ p2 :> a2
OneCheckout == p1 :> c1 @@ p2 :> c1
=============================================================================
