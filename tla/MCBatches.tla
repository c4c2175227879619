----------------------------- MODULE MCBatches -----------------------------
(***************************************************************************)
(* Small instances of Batches: b1 buys two units of the limited offer o1,  *)
(* b2 one of o2 at twice the price, b3 one of o1.  What b1 pays is what b2 *)
(* pays, and a unit of b1 costs what b3 and the single sale s1 do.         *)
(***************************************************************************)
EXTENDS Batches

CONSTANTS b1, b2, b3, s1, k1, k2, k3, k4, o1, o2

MCBatchOf  == [k \in Children |-> IF k \in {k1, k2} THEN b1 ELSE IF k = k3 THEN b2 ELSE b3]
MCPosition == [k \in Children |-> IF k = k2 THEN 1 ELSE 0]
MCOfferOf  == [k \in Children |-> IF k = k3 THEN o2 ELSE o1]
MCAmount   == [t \in Transfers \cup Children |-> IF t \in {b1, b2, k3} THEN 4 ELSE 2]
MCMaxUnits == [o \in Offers |-> 2]

=============================================================================
