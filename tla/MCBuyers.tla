------------------------------ MODULE MCBuyers ------------------------------
(***************************************************************************)
(* Small instances of Buyers: an offer o1 that may be revised to the       *)
(* dearer o2.                                                              *)
(***************************************************************************)
EXTENDS Buyers

CONSTANTS p1, p2, p3, p4, o1, o2

\* p1 and p2 are the page's, p3 and p4 the agent's.
MCOfferOf == [p \in Payments |-> IF p = p4 THEN o2 ELSE o1]
MCKindOf == [o \in Offers |-> "personal"]
MCCents == [o \in Offers |-> IF o = o1 THEN 1 ELSE 2]
MCRevision == [o \in Offers |-> IF o = o1 /\ o2 \in Offers THEN o2 ELSE None]
Two == [o \in Offers |-> 2]

=============================================================================
