-------------------------------- MODULE Api --------------------------------
(***************************************************************************)
(* The download endpoint as a buyer meets it: presentations of signed      *)
(* payments and the answers they get.  The sale itself is the one Sales    *)
(* promises and Purchases implements; here are added the listing, the      *)
(* answers, and what gets lost on the way.                                 *)
(*                                                                         *)
(* All presentations of one payment under way are one: what they do to     *)
(* each other on the server is the matter of Purchases.                    *)
(***************************************************************************)
EXTENDS Naturals, FiniteSets

CONSTANTS
    Payments,   \* signed transactions
    Offers,     \* revisions of licence offers
    KindOf,     \* the licence a revision offers: personal, commercial_unit
    OfferOf,    \* the offer a payment was signed for
    Cents,      \* the price of an offer
    MaxUnits,   \* units an offer may sell
    Revision,   \* the revision that may replace an offer, or None
    None

ASSUME ApiTyping ==
    /\ IsFiniteSet(Payments)
    /\ OfferOf \in [Payments -> Offers]
    /\ Cents \in [Offers -> Nat]
    /\ MaxUnits \in [Offers -> Nat]
    /\ Revision \in [Offers -> Offers \cup {None}]
    /\ None \notin Payments \cup Offers

\* A listing has one active offer of a kind, which is superseded by a later row.
ASSUME Revising ==
    /\ IsFiniteSet(Offers)
    /\ \A o, q \in Offers \ {Revision[x] : x \in Offers} : KindOf[o] = KindOf[q] => o = q
    /\ \E number \in [Offers -> 1 .. Cardinality(Offers)] :
        \A o \in Offers : Revision[o] # None =>
            KindOf[Revision[o]] = KindOf[o] /\ number[o] < number[Revision[o]]

PriceOf == [p \in Payments |-> Cents[OfferOf[p]]]
Sandbox == {}

VARIABLES
    listed,     \* the offers on sale
    files,      \* can the models' files be delivered?
    opened, moved, claim, unit,   \* as in Sales
    delivered,  \* purchases in status delivered
    dead,       \* purchases that failed
    hung,       \* pending purchases with no reason written: no replay takes
                \* them up
    busy,       \* payments presented to a request that has not answered
    wire        \* what the buyer of a payment waits for, or has been answered

S == INSTANCE Sales

store   == <<listed, files>>
server  == <<opened, moved, claim, unit, delivered, dead, hung>>
apiVars == <<store, server, busy, wire>>

\* "stored" is a 409 that carries the whole delivery and no error code.
Answers == {"ok", "stored", "no_file", "unavailable", "rate_limited",
            "sold_out", "stale", "refused", "duplicate"}

ApiTypeOK ==
    /\ listed \subseteq Offers
    /\ files \in BOOLEAN
    /\ opened \subseteq Payments
    /\ moved \subseteq Payments
    /\ claim \in [Payments -> Payments \cup {None}]
    /\ unit \in [Payments -> Nat]
    /\ delivered \subseteq Payments
    /\ dead \subseteq Payments
    /\ hung \subseteq Payments
    /\ busy \subseteq Payments
    /\ wire \in [Payments -> Answers \cup {"none", "asked"}]

ApiInit ==
    /\ listed = {o \in Offers : \A q \in Offers : Revision[q] # o}
    /\ files = TRUE
    /\ S!Init
    /\ delivered = {}
    /\ dead = {}
    /\ hung = {}
    /\ busy = {}
    /\ wire = [p \in Payments |-> "none"]

Used(o) == Cardinality({p \in opened \ dead : OfferOf[p] = o})
IsSoldOut(o) == Used(o) >= MaxUnits[o]

\* The offers of a kind that a request without a payment quotes a price for.
Quotable(k) == {o \in listed : KindOf[o] = k /\ ~IsSoldOut(o)}

-----------------------------------------------------------------------------
(* The buyer's side of the wire.                                           *)

Send(p) ==
    /\ busy' = busy \cup {p}
    /\ wire' = [wire EXCEPT ![p] = "asked"]
    /\ UNCHANGED <<store, server>>

Hear(p, a) ==
    /\ wire[p] = a
    /\ wire' = [wire EXCEPT ![p] = "none"]
    /\ UNCHANGED <<store, server, busy>>

\* fetch or response.json() throws: the request or its answer was lost, or
\* the buyer stopped waiting.  The server goes on.
Miss(p) ==
    /\ wire[p] # "none"
    /\ wire' = [wire EXCEPT ![p] = "none"]
    /\ UNCHANGED <<store, server, busy>>

-----------------------------------------------------------------------------
(* The server's side.                                                      *)

Answer(p, a) ==
    /\ p \in busy
    /\ busy' = busy \ {p}
    /\ wire' = [wire EXCEPT ![p] = IF @ = "asked" THEN a ELSE @]
    /\ UNCHANGED store

RateLimit(p) == Answer(p, "rate_limited") /\ UNCHANGED server

TurnAway(p) ==
    /\ p \notin opened
    /\ \/ OfferOf[p] \notin listed /\ Answer(p, "stale")
       \/ OfferOf[p] \in listed /\ IsSoldOut(OfferOf[p]) /\ Answer(p, "sold_out")
    /\ UNCHANGED server

Take(p) ==
    /\ p \in busy
    /\ OfferOf[p] \in listed /\ ~IsSoldOut(OfferOf[p])
    /\ S!Open(p)
    /\ UNCHANGED <<store, delivered, dead, hung, busy, wire>>

InProgress(p) == p \in opened \ (dead \cup hung) /\ claim[p] = None

FacilitatorUnavailable(p) ==
    /\ InProgress(p)
    /\ Answer(p, "unavailable")
    /\ UNCHANGED server

\* Also a transaction that has landed: a settle repeated before the mirror
\* node shows it is refused as a duplicate.
Refuse(p) ==
    /\ InProgress(p)
    /\ Answer(p, "refused")
    /\ dead' = dead \cup {p}
    /\ UNCHANGED <<opened, moved, claim, unit, delivered, hung>>

Duplicate(p) == p \in dead \cup hung /\ Answer(p, "duplicate") /\ UNCHANGED server

Confirm(p, t) ==
    /\ p \in busy /\ InProgress(p)
    /\ S!Book(p, t)
    /\ UNCHANGED <<store, delivered, dead, hung, busy, wire>>

Allocate(p) ==
    /\ p \in busy
    /\ S!Issue(p)
    /\ UNCHANGED <<store, delivered, dead, hung, busy, wire>>

CapacityOverrun(p) ==
    /\ claim[p] # None /\ unit[p] = 0
    /\ S!EditionEnded(p)
    /\ Answer(p, "sold_out")
    /\ UNCHANGED server

\* A purchase already delivered answers the same delivery, as a conflict.
Deliver(p) ==
    /\ unit[p] # 0 /\ files
    /\ Answer(p, IF p \in delivered THEN "stored" ELSE "ok")
    /\ delivered' = delivered \cup {p}
    /\ UNCHANGED <<opened, moved, claim, unit, dead, hung>>

Undeliverable(p) ==
    /\ unit[p] # 0 /\ ~files
    /\ Answer(p, "no_file")
    /\ UNCHANGED server

\* The Reaper takes up what nobody presents any more: it delivers what the
\* mirror node shows as paid, and asks for no files.
RollForward(p, t) ==
    /\ p \notin busy /\ InProgress(p)
    /\ S!Backs(t, p) /\ ~S!EditionEnded(p)
    /\ claim' = [claim EXCEPT ![p] = t]
    /\ unit' = [unit EXCEPT ![p] = S!NextUnit(p)]
    /\ delivered' = delivered \cup {p}
    /\ UNCHANGED <<store, opened, moved, dead, hung, busy, wire>>

ReapStale(p) ==
    /\ p \in opened \ (busy \cup moved \cup dead) /\ claim[p] = None
    /\ dead' = dead \cup {p}
    /\ UNCHANGED <<store, opened, moved, claim, unit, delivered, hung, busy, wire>>

\* The process dies, or an error nobody rescues ends the request: before the
\* facilitator has answered, the row stays pending.
Die(p) ==
    /\ p \in busy
    /\ busy' = busy \ {p}
    /\ \/ UNCHANGED hung
       \/ InProgress(p) /\ p \notin moved /\ hung' = hung \cup {p}
    /\ UNCHANGED <<store, opened, moved, claim, unit, delivered, dead, wire>>

Land(p) ==
    /\ p \notin dead \cup hung /\ S!Move(p)
    /\ UNCHANGED <<store, delivered, dead, hung, busy, wire>>

\* LicenseOffers::Reviser, in place or as a new revision: what was signed for
\* the old terms no longer matches.
Revise(o) ==
    /\ o \in listed /\ Revision[o] # None
    /\ listed' = (listed \ {o}) \cup {Revision[o]}
    /\ UNCHANGED <<files, server, busy, wire>>

DetachOrReattach == files' = ~files /\ UNCHANGED <<listed, server, busy, wire>>

Respond(p) ==
    \/ TurnAway(p) \/ Refuse(p) \/ Duplicate(p) \/ CapacityOverrun(p)
    \/ Deliver(p) \/ Undeliverable(p)

Advance(p) == Take(p) \/ Allocate(p) \/ \E t \in Payments : Confirm(p, t)

ApiStep ==
    \/ \E p \in Payments :
        \/ Respond(p) \/ Advance(p)
        \/ RateLimit(p) \/ FacilitatorUnavailable(p) \/ Die(p)
        \/ ReapStale(p) \/ Land(p)
        \/ \E t \in Payments : RollForward(p, t)
    \/ \E o \in Offers : Revise(o)
    \/ DetachOrReattach

=============================================================================
