----------------------------- MODULE Purchases -----------------------------
(***************************************************************************)
(* The single-licence x402 rail: GET /api/v1/models/:id/download.          *)
(*                                                                         *)
(* A buyer signs one Hedera transaction (a payment) for one licence offer  *)
(* and presents it, as often as it likes, to API requests that run side by *)
(* side.  A request keeps the Purchase row it read in memory across calls  *)
(* to the facilitator and the mirror node and takes no lock on it; the     *)
(* Reaper sweeps the same rows.  Each action below is one database         *)
(* transaction, or one external call together with the write that follows  *)
(* it, of DownloadsController, Purchase, License or Purchases::Reaper; the *)
(* other actions are Hedera's and the designer's.                          *)
(*                                                                         *)
(* Payments whose request carries a chat intent are modelled in the chat   *)
(* module, the children of a batch in the batch module.                    *)
(***************************************************************************)
EXTENDS Naturals, FiniteSets

CONSTANTS
    Payments,   \* signed transactions; a Purchase is found by its replay_key
    Offers,     \* licence offers
    Requests,   \* slots for API requests in progress at once
    Reaper,     \* the process that runs Purchases::Reaper
    OfferOf,    \* the offer a payment was signed for
    PriceOf,    \* payTo, asset and amount of a payment, as one value
    MaxUnits,   \* units an offer may sell
    Sandbox,    \* the payments sent with X-Sandbox: true
    Overlap,    \* payments that two actors may work on at the same time
    Aged,       \* payments that may still be in flight when a sweep runs
    Relisted,   \* offers whose designer changes the listing
    Detached,   \* offers whose files come and go
    MaxCrashes, \* bound: how often a process may die
    None        \* no transaction id, no purchase

ASSUME Typing ==
    /\ IsFiniteSet(Payments)
    /\ OfferOf \in [Payments -> Offers]
    /\ MaxUnits \in [Offers -> Nat]
    /\ Sandbox \subseteq Payments
    /\ Overlap \subseteq Payments
    /\ Aged \subseteq Payments
    /\ Relisted \subseteq Offers
    /\ Detached \subseteq Offers
    /\ MaxCrashes \in Nat
    /\ None \notin Payments
    /\ Reaper \notin Requests

VARIABLES
    \* the purchases row of a payment
    status, reason, paymentTx, rowId, since,
    \* its licence's serial (0: no licence), its ledger rows, its queued jobs
    serial, booked, enqueued,
    \* a designer's listing and its files
    listing, files,
    \* an actor: where it is, the purchase in its hands and that record's
    \* status and transaction id in memory; the rows a sweep has loaded
    pc, on, mem, tx, sweep,
    \* Hedera: consensus rank of a transaction (0: none), the last rank given,
    \* transactions in flight, the rank up to which the mirror node answers
    consensus, clock, submitted, mirrored,
    crashes

rows   == <<status, reason, paymentTx, rowId, since>>
sales  == <<serial, booked, enqueued>>
studio == <<listing, files>>
actors == <<pc, on, mem, tx, sweep>>
hedera == <<consensus, clock, submitted, mirrored>>
vars   == <<rows, sales, studio, actors, hedera, crashes>>

-----------------------------------------------------------------------------
InFlight == {"pending", "verified"}
Failed   == {"failed_verification", "failed_settlement"}
Statuses == InFlight \cup {"settled", "delivered"} \cup Failed
\* error_reason: blank, a refusal, "reaped_stale" and "no_deliverable_file" are
\* one value, "plain": no code branches on them.
Reasons  == {"plain", "facilitator_unavailable", "capacity_overrun"}
Jobs     == {"cert", "sale", "payout"}  \* CertMint, WebhookFanout, DesignerPayout
Places   == {"idle", "reserve", "replay", "verify", "failing", "settle",
             "await", "await_repeat", "mirror", "record", "booking",
             "license", "allocate", "files", "enqueue"}
Actors   == Requests \cup {Reaper}

\* Purchase::TRANSITIONS
TRANSITIONS ==
    [s \in Statuses |->
        IF s = "pending" THEN {"verified", "failed_verification"}
        ELSE IF s = "verified" THEN {"settled", "failed_settlement"}
        ELSE IF s = "settled" THEN {"delivered"}
        ELSE {}]

TypeOK ==
    /\ status \in [Payments -> Statuses \cup {"none"}]
    /\ reason \in [Payments -> Reasons]
    /\ paymentTx \in [Payments -> Payments \cup {None}]
    /\ rowId \in [Payments -> Nat]
    /\ since \in [Payments -> Nat]
    /\ serial \in [Payments -> Nat]
    /\ booked \subseteq Payments
    /\ enqueued \subseteq Jobs \X Payments
    /\ listing \in [Offers -> {"live", "paused", "replaced"}]
    /\ files \in [Offers -> BOOLEAN]
    /\ pc \in [Actors -> Places]
    /\ on \in [Actors -> Payments \cup {None}]
    /\ \A a \in Actors : pc[a] = "idle" \/ on[a] \in Payments
    /\ mem \in [Actors -> Statuses \cup {"none"}]
    /\ tx \in [Actors -> Payments \cup {None}]
    /\ \A a \in Actors : pc[a] \in {"record", "booking"} => tx[a] \in Payments
    /\ sweep \in [Payments -> InFlight \cup {"none"}]
    /\ consensus \in [Payments -> Nat]
    /\ clock \in Nat
    /\ submitted \subseteq Payments
    /\ mirrored \in Nat
    /\ crashes \in 0 .. MaxCrashes

Init ==
    /\ status = [p \in Payments |-> "none"]
    /\ reason = [p \in Payments |-> "plain"]
    /\ paymentTx = [p \in Payments |-> None]
    /\ rowId = [p \in Payments |-> 0]
    /\ since = [p \in Payments |-> 0]
    /\ serial = [p \in Payments |-> 0]
    /\ booked = {}
    /\ enqueued = {}
    /\ listing = [o \in Offers |-> "live"]
    /\ files = [o \in Offers |-> TRUE]
    /\ pc = [a \in Actors |-> "idle"]
    /\ on = [a \in Actors |-> None]
    /\ mem = [a \in Actors |-> "none"]
    /\ tx = [a \in Actors |-> None]
    /\ sweep = [p \in Payments |-> "none"]
    /\ consensus = [p \in Payments |-> 0]
    /\ clock = 0
    /\ submitted = {}
    /\ mirrored = 0
    /\ crashes = 0

-----------------------------------------------------------------------------
(* Steps shared by the actors.                                             *)

Goto(a, place) == pc' = [pc EXCEPT ![a] = place]

\* An actor lets go of its purchase; `remaining` is what a sweep goes on with.
Release(a, remaining) ==
    /\ Goto(a, "idle")
    /\ on' = [on EXCEPT ![a] = None]
    /\ mem' = [mem EXCEPT ![a] = "none"]
    /\ tx' = [tx EXCEPT ![a] = None]
    /\ sweep' = remaining

\* The request is answered, or the sweep has its result for this row.
Return(a) ==
    Release(a, IF a = Reaper THEN [sweep EXCEPT ![on[a]] = "none"] ELSE sweep)

\* An exception nobody rescues, or the end of the process: the request is
\* gone, and the whole sweep with it.
Abort(a) ==
    Release(a, IF a = Reaper THEN [p \in Payments |-> "none"] ELSE sweep)

SetReason(p, why) == reason' = [reason EXCEPT ![p] = why]

\* As a bug would have it: revenue is booked at delivery, not at settlement.
TransitionToBookedLate(a, new) ==
    /\ new \in TRANSITIONS[mem[a]]
    /\ status' = [status EXCEPT ![on[a]] = new]
    /\ booked' = IF new = "delivered" /\ on[a] \notin Sandbox
                   THEN booked \cup {on[a]} ELSE booked

\* Purchase#transition_to!: the guard reads the record in memory, the update
\* overwrites the row whatever it says by now, and `settled` writes the ledger
\* (LedgerEntry.record_settle!, idempotent) in the same transaction.
TransitionTo(a, new) ==
    /\ new \in TRANSITIONS[mem[a]]
    /\ status' = [status EXCEPT ![on[a]] = new]
    /\ booked' = IF new = "settled" /\ on[a] \notin Sandbox
                   THEN booked \cup {on[a]} ELSE booked

\* The same purchase is in another actor's hands, or waits in a loaded sweep.
Held(p) == (\E a \in Actors : on[a] = p) \/ sweep[p] # "none"
MayTake(p) == p \in Overlap \/ ~Held(p)

\* As a bug would have it: only paid purchases use up the edition.
CapacityUsedPaid(o) ==
    Cardinality({p \in Payments \ Sandbox :
                    OfferOf[p] = o /\ status[p] \in {"settled", "delivered"}})

\* LicenseOffer#capacity_used and #sold_out?
CapacityUsed(o) ==
    Cardinality({p \in Payments \ Sandbox :
                    OfferOf[p] = o /\ status[p] \notin Failed \cup {"none"}})
SoldOut(o) == CapacityUsed(o) >= MaxUnits[o]

\* License.allocate! counts the real and the sandbox licences of an offer apart.
Licensed(p) == {q \in Payments : /\ OfferOf[q] = OfferOf[p]
                                 /\ (q \in Sandbox) = (p \in Sandbox)
                                 /\ serial[q] # 0}
IsNextSerial(n, p) ==
    /\ \A q \in Licensed(p) : serial[q] < n
    /\ n = 1 \/ \E q \in Licensed(p) : serial[q] + 1 = n

\* X402::MirrorReconciler: of the transfers the mirror node shows since the
\* purchase was created, the first that credits the same amount of the same
\* asset to the same account.  It asks for no payer and no transaction id.
Credits(p) == {t \in Payments : /\ since[p] < consensus[t]
                                /\ consensus[t] <= mirrored
                                /\ PriceOf[t] = PriceOf[p]}
MirrorMatch(p, t) ==
    /\ t \in Credits(p)
    /\ \A u \in Credits(p) : consensus[t] <= consensus[u]

-----------------------------------------------------------------------------
(* Requests: DownloadsController#show.                                     *)

\* A request with a signed payment arrives.  A row with its replay_key goes to
\* replay; otherwise the model must be published and the quote must match.
Arrive(r, p) ==
    /\ pc[r] = "idle" /\ MayTake(p)
    /\ \/ status[p] # "none" /\ Goto(r, "replay")
       \/ /\ status[p] = "none" /\ listing[OfferOf[p]] # "paused"
          /\ Goto(r, "reserve")
    /\ on' = [on EXCEPT ![r] = p]
    /\ UNCHANGED <<rows, sales, studio, mem, tx, sweep, hedera, crashes>>

\* #create_purchase under the offer's row lock: refused when the offer was
\* replaced, the listing closed or the units are all reserved.
ReserveRefused(r) ==
    LET p == on[r]  o == OfferOf[on[r]] IN
    /\ pc[r] = "reserve"
    /\ listing[o] # "live" \/ (p \notin Sandbox /\ SoldOut(o))
    /\ Return(r)
    /\ UNCHANGED <<rows, sales, studio, hedera, crashes>>

\* The unique replay_key refuses a second row: the request becomes a replay.
ReserveLostRace(r) ==
    LET p == on[r]  o == OfferOf[on[r]] IN
    /\ pc[r] = "reserve"
    /\ listing[o] = "live" /\ (p \in Sandbox \/ ~SoldOut(o))
    /\ status[p] # "none"
    /\ Goto(r, "replay")
    /\ UNCHANGED <<rows, sales, studio, on, mem, tx, sweep, hedera, crashes>>

Reserve(r) ==
    LET p == on[r]  o == OfferOf[on[r]] IN
    /\ pc[r] = "reserve"
    /\ listing[o] = "live" /\ (p \in Sandbox \/ ~SoldOut(o))
    /\ status[p] = "none"
    /\ status' = [status EXCEPT ![p] = "pending"]
    /\ rowId' = [rowId EXCEPT ![p] =
                    1 + Cardinality({q \in Payments : status[q] # "none"})]
    /\ since' = [since EXCEPT ![p] = clock]
    /\ mem' = [mem EXCEPT ![r] = "pending"]
    /\ Goto(r, "verify")
    /\ UNCHANGED <<reason, paymentTx, sales, studio, on, tx, sweep, hedera, crashes>>

\* As a bug would have it: a paid purchase is a duplicate like any other.
ReplayOutcomePaidIsDuplicate(p) ==
    IF status[p] = "verified"
      THEN IF p \in Sandbox THEN "settle" ELSE "mirror"
    ELSE IF status[p] = "pending" /\ reason[p] = "facilitator_unavailable"
           THEN "verify"
    ELSE "idle"

\* #replay reads the row and branches on what it says.
ReplayOutcome(p) ==
    IF status[p] = "settled" THEN "license"
    ELSE IF status[p] = "verified"
           THEN IF p \in Sandbox THEN "settle" ELSE "mirror"
    ELSE IF status[p] = "pending" /\ reason[p] = "facilitator_unavailable"
           THEN "verify"
    ELSE "idle"

Replay(r) ==
    LET p == on[r] IN
    /\ pc[r] = "replay" /\ ReplayOutcome(p) # "idle"
    /\ mem' = [mem EXCEPT ![r] = status[p]]
    /\ Goto(r, ReplayOutcome(p))
    /\ UNCHANGED <<rows, sales, studio, on, tx, sweep, hedera, crashes>>

\* 409: the stored answer of a delivered purchase, or a dead or busy one.  A
\* delivered purchase whose files are gone is marked and answered with 503.
ReplayAnswered(r) ==
    LET p == on[r] IN
    /\ pc[r] = "replay" /\ ReplayOutcome(p) = "idle"
    /\ IF status[p] = "delivered" /\ p \notin Sandbox /\ ~files[OfferOf[p]]
         THEN SetReason(p, "plain")
         ELSE UNCHANGED reason
    /\ Return(r)
    /\ UNCHANGED <<status, paymentTx, rowId, since, sales, studio, hedera, crashes>>

-----------------------------------------------------------------------------
(* The facilitator's /verify and /settle.                                  *)

VerifyValid(r) ==
    /\ pc[r] = "verify"
    /\ TransitionTo(r, "verified")
    /\ mem' = [mem EXCEPT ![r] = "verified"]
    /\ Goto(r, "settle")
    /\ UNCHANGED <<reason, paymentTx, rowId, since, serial, enqueued, studio,
                   on, tx, sweep, hedera, crashes>>

VerifyInvalid(r) ==
    /\ pc[r] = "verify"
    /\ SetReason(on[r], "plain")
    /\ Goto(r, "failing")
    /\ UNCHANGED <<status, paymentTx, rowId, since, sales, studio, on, mem, tx,
                   sweep, hedera, crashes>>

\* As a bug would have it: a purchase that timed out starts over.
FacilitatorUnavailableStartsOver(r) ==
    /\ pc[r] \in {"verify", "settle", "await", "await_repeat"}
    /\ on[r] \notin Sandbox
    /\ SetReason(on[r], "facilitator_unavailable")
    /\ status' = [status EXCEPT ![on[r]] = "pending"]
    /\ Return(r)
    /\ UNCHANGED <<paymentTx, rowId, since, sales, studio, hedera, crashes>>

\* FacilitatorClient::Unavailable: the purchase stays as it is, marked so that
\* the same payment may be presented again.
FacilitatorUnavailable(r) ==
    /\ pc[r] \in {"verify", "settle", "await", "await_repeat"}
    /\ on[r] \notin Sandbox
    /\ SetReason(on[r], "facilitator_unavailable")
    /\ Return(r)
    /\ UNCHANGED <<status, paymentTx, rowId, since, sales, studio, hedera, crashes>>

\* /settle hands the transaction to Hedera; one that already reached consensus
\* is a duplicate there.
SubmitSettle(r) ==
    LET p == on[r] IN
    /\ pc[r] = "settle" /\ p \notin Sandbox
    /\ IF consensus[p] = 0
         THEN submitted' = submitted \cup {p} /\ Goto(r, "await")
         ELSE UNCHANGED submitted /\ Goto(r, "await_repeat")
    /\ UNCHANGED <<rows, sales, studio, on, mem, tx, sweep, consensus, clock,
                   mirrored, crashes>>

\* success: the transaction is at consensus (for the sandbox, at once).
SettleSucceeded(r) ==
    LET p == on[r] IN
    /\ \/ pc[r] = "settle" /\ p \in Sandbox
       \/ pc[r] \in {"await", "await_repeat"} /\ consensus[p] > 0
    /\ tx' = [tx EXCEPT ![r] = p]
    /\ Goto(r, "record")
    /\ UNCHANGED <<rows, sales, studio, on, mem, sweep, hedera, crashes>>

\* success: false -- refused for good, or a duplicate of a transaction that
\* had reached consensus before this call.
SettleRefused(r) ==
    LET p == on[r] IN
    /\ \/ pc[r] = "settle" /\ p \in Sandbox
       \/ pc[r] = "await" /\ consensus[p] = 0
       \/ pc[r] = "await_repeat"
    /\ submitted' = submitted \ {p}
    /\ SetReason(p, "plain")
    /\ Goto(r, "failing")
    /\ UNCHANGED <<status, paymentTx, rowId, since, sales, studio, on, mem, tx,
                   sweep, consensus, clock, mirrored, crashes>>

\* The transition that follows the reason, in a transaction of its own.
Fail(a) ==
    /\ pc[a] = "failing"
    /\ TransitionTo(a, IF mem[a] = "pending" THEN "failed_verification"
                                             ELSE "failed_settlement")
    /\ Return(a)
    /\ UNCHANGED <<reason, paymentTx, rowId, since, serial, enqueued, studio,
                   hedera, crashes>>

-----------------------------------------------------------------------------
(* From the money to the file.                                             *)

MirrorHit(a) ==
    /\ pc[a] = "mirror"
    /\ \E t \in Payments : /\ MirrorMatch(on[a], t)
                           /\ tx' = [tx EXCEPT ![a] = t]
    /\ Goto(a, "record")
    /\ UNCHANGED <<rows, sales, studio, on, mem, sweep, hedera, crashes>>

\* As a bug would have it: the reconciler's nil is written as the id.
MirrorMissRecorded(r) ==
    /\ pc[r] = "mirror"
    /\ Goto(r, "record")
    /\ UNCHANGED <<rows, sales, studio, on, mem, tx, sweep, hedera, crashes>>

\* nil: nothing matches yet, or the lookup failed; the request settles again.
MirrorMiss(r) ==
    /\ pc[r] = "mirror"
    /\ Goto(r, "settle")
    /\ UNCHANGED <<rows, sales, studio, on, mem, tx, sweep, hedera, crashes>>

\* As a bug would have it: no unique index on the transaction id.
TxTakenNever(a) == FALSE

\* update!(payment_tx_id:) under the unique index on it.
TxTaken(a) == \E q \in Payments \ {on[a]} : paymentTx[q] = tx[a]

RecordTx(a) ==
    /\ pc[a] = "record" /\ ~TxTaken(a)
    /\ paymentTx' = [paymentTx EXCEPT ![on[a]] = tx[a]]
    /\ Goto(a, "booking")
    /\ UNCHANGED <<status, reason, rowId, since, sales, studio, on, mem, tx,
                   sweep, hedera, crashes>>

RecordRefused(a) ==
    /\ pc[a] = "record" /\ TxTaken(a)
    /\ Abort(a)
    /\ UNCHANGED <<rows, sales, studio, hedera, crashes>>

Settle(a) ==
    /\ pc[a] = "booking"
    /\ TransitionTo(a, "settled")
    /\ mem' = [mem EXCEPT ![a] = "settled"]
    /\ Goto(a, IF a = Reaper THEN "allocate" ELSE "license")
    /\ UNCHANGED <<reason, paymentTx, rowId, since, serial, enqueued, studio,
                   on, tx, sweep, hedera, crashes>>

\* A sweep that meets the credit of a purchase still pending raises
\* InvalidTransition, which nothing rescues.
SettleInvalid(a) ==
    /\ pc[a] = "booking" /\ "settled" \notin TRANSITIONS[mem[a]]
    /\ Abort(a)
    /\ UNCHANGED <<rows, sales, studio, hedera, crashes>>

\* #deliver: the licence the row already has, or a new one.
FindLicense(r) ==
    /\ pc[r] = "license"
    /\ Goto(r, IF serial[on[r]] # 0 THEN "files" ELSE "allocate")
    /\ UNCHANGED <<rows, sales, studio, on, mem, tx, sweep, hedera, crashes>>

\* As a bug would have it: one licence too many.
CapReachedLate(p) ==
    /\ p \notin Sandbox
    /\ \/ MaxUnits[OfferOf[p]] = 0
       \/ \E q \in Licensed(p) : serial[q] > MaxUnits[OfferOf[p]]

\* License.allocate! under the offer's row lock.  The cap is checked before
\* the licence is written, so before the unique purchase_id can object.
CapReached(p) ==
    /\ p \notin Sandbox
    /\ \/ MaxUnits[OfferOf[p]] = 0
       \/ \E q \in Licensed(p) : serial[q] >= MaxUnits[OfferOf[p]]

Allocate(a) ==
    LET p == on[a] IN
    /\ pc[a] = "allocate" /\ serial[p] = 0 /\ ~CapReached(p)
    /\ \E n \in 1 .. Cardinality(Payments) :
          IsNextSerial(n, p) /\ serial' = [serial EXCEPT ![p] = n]
    /\ Goto(a, "files")
    /\ UNCHANGED <<rows, booked, enqueued, studio, on, mem, tx, sweep, hedera, crashes>>

AllocateSoldOut(a) ==
    /\ pc[a] = "allocate" /\ CapReached(on[a])
    /\ SetReason(on[a], "capacity_overrun")
    /\ Return(a)
    /\ UNCHANGED <<status, paymentTx, rowId, since, sales, studio, hedera, crashes>>

\* The unique index licenses.purchase_id refuses a second licence.
AllocateRefused(a) ==
    /\ pc[a] = "allocate" /\ serial[on[a]] # 0 /\ ~CapReached(on[a])
    /\ Abort(a)
    /\ UNCHANGED <<rows, sales, studio, hedera, crashes>>

\* #deliverable?: a request checks the files before it delivers, a sweep does
\* not.  An undeliverable purchase stays settled.
CanDeliver(a) ==
    a = Reaper \/ on[a] \in Sandbox \/ files[OfferOf[on[a]]]

Undeliverable(r) ==
    /\ pc[r] = "files" /\ ~CanDeliver(r)
    /\ SetReason(on[r], "plain")
    /\ Return(r)
    /\ UNCHANGED <<status, paymentTx, rowId, since, sales, studio, hedera, crashes>>

Deliver(a) ==
    /\ pc[a] = "files" /\ CanDeliver(a)
    /\ TransitionTo(a, "delivered")
    /\ IF on[a] \in Sandbox
         THEN Return(a)
         ELSE /\ mem' = [mem EXCEPT ![a] = "delivered"]
              /\ Goto(a, "enqueue")
              /\ UNCHANGED <<on, tx, sweep>>
    /\ UNCHANGED <<reason, paymentTx, rowId, since, serial, enqueued, studio,
                   hedera, crashes>>

\* CertMintJob, WebhookFanoutJob and DesignerPayoutJob, one after the other; a
\* sweep enqueues the first only.
Enqueue(a) ==
    /\ pc[a] = "enqueue"
    /\ enqueued' = enqueued \cup
                      ((IF a = Reaper THEN {"cert"} ELSE Jobs) \X {on[a]})
    /\ Return(a)
    /\ UNCHANGED <<rows, serial, booked, studio, hedera, crashes>>

-----------------------------------------------------------------------------
(* Purchases::Reaper, from the rake task or the admin panel.               *)

\* The rows it loads: the older ones of the purchases in flight, or the one an
\* operator reconciles.  It keeps their statuses as loaded.
SweepStart(Chosen) ==
    /\ Chosen # {} /\ \A p \in Chosen : MayTake(p)
    /\ pc[Reaper] = "idle" /\ \A p \in Payments : sweep[p] = "none"
    /\ sweep' = [p \in Payments |-> IF p \in Chosen THEN status[p] ELSE "none"]
    /\ UNCHANGED <<rows, sales, studio, pc, on, mem, tx, hedera, crashes>>

\* As a bug would have it: purchases still pending are no one's concern.
StaleVerified == {p \in Aged \ Sandbox : status[p] = "verified"}

Stale == {p \in Aged \ Sandbox : status[p] \in InFlight}

Reap == \E cutoff \in {rowId[p] : p \in Stale} :
            SweepStart({p \in Stale : rowId[p] <= cutoff})
Reconcile(p) == p \in Stale /\ SweepStart({p})

SweepNext(p) ==
    /\ pc[Reaper] = "idle" /\ sweep[p] # "none"
    /\ \A q \in Payments : sweep[q] # "none" => rowId[p] <= rowId[q]
    /\ Goto(Reaper, "mirror")
    /\ on' = [on EXCEPT ![Reaper] = p]
    /\ mem' = [mem EXCEPT ![Reaper] = sweep[p]]
    /\ UNCHANGED <<rows, sales, studio, tx, sweep, hedera, crashes>>

\* The reconciler said nil and the probe of the mirror node then answered.
ReapStale ==
    /\ pc[Reaper] = "mirror"
    /\ SetReason(on[Reaper], "plain")
    /\ Goto(Reaper, "failing")
    /\ UNCHANGED <<status, paymentTx, rowId, since, sales, studio, on, mem, tx,
                   sweep, hedera, crashes>>

\* Neither answered.
ReapSkipped ==
    /\ pc[Reaper] = "mirror"
    /\ Return(Reaper)
    /\ UNCHANGED <<rows, sales, studio, hedera, crashes>>

-----------------------------------------------------------------------------
(* Hedera, the designer, and failure.                                      *)

Land(t) ==
    /\ t \in submitted
    /\ submitted' = submitted \ {t}
    /\ clock' = clock + 1
    /\ consensus' = [consensus EXCEPT ![t] = clock + 1]
    /\ UNCHANGED <<rows, sales, studio, actors, mirrored, crashes>>

Expire(t) ==
    /\ t \in submitted
    /\ submitted' = submitted \ {t}
    /\ UNCHANGED <<rows, sales, studio, actors, consensus, clock, mirrored, crashes>>

MirrorCatchUp ==
    /\ mirrored < clock
    /\ mirrored' = mirrored + 1
    /\ UNCHANGED <<rows, sales, studio, actors, consensus, clock, submitted, crashes>>

\* Models::Availability pauses and resumes; LicenseOffers::Reviser replaces an
\* offer for good.
ChangeListing(o, new) ==
    /\ listing[o] # "replaced" /\ listing[o] # new
    /\ listing' = [listing EXCEPT ![o] = new]
    /\ UNCHANGED <<rows, sales, files, actors, hedera, crashes>>

DetachFiles(o) ==
    /\ files[o]
    /\ files' = [files EXCEPT ![o] = FALSE]
    /\ UNCHANGED <<rows, sales, listing, actors, hedera, crashes>>

ReattachFiles(o) ==
    /\ ~files[o]
    /\ files' = [files EXCEPT ![o] = TRUE]
    /\ UNCHANGED <<rows, sales, listing, actors, hedera, crashes>>

\* The process dies, or an error the code does not rescue ends the call.  A
\* request that was enqueueing its jobs has enqueued the first few.
Crash(a) ==
    /\ crashes < MaxCrashes /\ crashes' = crashes + 1
    /\ pc[a] # "idle" \/ (a = Reaper /\ \E p \in Payments : sweep[p] # "none")
    /\ \/ UNCHANGED enqueued
       \/ /\ pc[a] = "enqueue" /\ a # Reaper
          /\ \E done \in {{"cert"}, {"cert", "sale"}} :
                enqueued' = enqueued \cup (done \X {on[a]})
    /\ Abort(a)
    /\ UNCHANGED <<rows, serial, booked, studio, hedera>>

-----------------------------------------------------------------------------
RequestStep(r) ==
    \/ ReserveRefused(r) \/ ReserveLostRace(r) \/ Reserve(r)
    \/ Replay(r) \/ ReplayAnswered(r)
    \/ VerifyValid(r) \/ VerifyInvalid(r) \/ FacilitatorUnavailable(r)
    \/ SubmitSettle(r) \/ SettleSucceeded(r) \/ SettleRefused(r)
    \/ MirrorMiss(r) \/ FindLicense(r) \/ Undeliverable(r)

SharedStep(a) ==
    \/ Fail(a) \/ MirrorHit(a) \/ RecordTx(a) \/ RecordRefused(a)
    \/ Settle(a) \/ SettleInvalid(a)
    \/ Allocate(a) \/ AllocateSoldOut(a) \/ AllocateRefused(a)
    \/ Deliver(a) \/ Enqueue(a)

SweepStep ==
    \/ Reap \/ ReapStale \/ ReapSkipped
    \/ \E p \in Payments : Reconcile(p) \/ SweepNext(p)

HederaStep ==
    \/ MirrorCatchUp
    \/ \E t \in Payments : Land(t) \/ Expire(t)

DesignerStep ==
    \/ \E o \in Detached : DetachFiles(o) \/ ReattachFiles(o)
    \/ \E o \in Relisted :
          \E new \in {"live", "paused", "replaced"} : ChangeListing(o, new)

Next ==
    \/ \E r \in Requests : RequestStep(r) \/ \E p \in Payments : Arrive(r, p)
    \/ \E a \in Actors : SharedStep(a) \/ Crash(a)
    \/ SweepStep \/ HederaStep \/ DesignerStep

Spec == Init /\ [][Next]_vars

\* A request in progress and a sweep go on.  Every buyer presents its payment
\* again, and an operator reconciles every purchase in flight; either may keep
\* meeting the other's work or a silent mirror node, but not for ever.
Fairness ==
    /\ \A r \in Requests : WF_vars(RequestStep(r) \/ SharedStep(r))
    /\ \A p \in Payments : SF_vars(\E r \in Requests : Arrive(r, p))
    /\ WF_vars(SharedStep(Reaper) \/ ReapSkipped
                  \/ \E p \in Payments : SweepNext(p))
    /\ SF_vars(MirrorHit(Reaper) \/ ReapStale)
    /\ \A p \in Aged : SF_vars(Reconcile(p))

FairSpec == Spec /\ Fairness

-----------------------------------------------------------------------------
(* What holds however requests, sweeps and crashes interleave.             *)

\* The ledger never counts money twice or money that did not move: however a
\* purchase was booked -- by the facilitator's answer, by a retry or by a sweep
\* that found a credit on the mirror node -- it holds a transfer of its price
\* that reached consensus, and no other purchase holds the same one.
RevenueBacked ==
    \A p \in booked :
        /\ paymentTx[p] # None
        /\ consensus[paymentTx[p]] > 0
        /\ PriceOf[paymentTx[p]] = PriceOf[p]
        /\ \A q \in booked \ {p} : paymentTx[q] # paymentTx[p]

\* No real licence, delivery or queued job without the ledger rows of its sale,
\* although the licence, the status and the jobs are written later, by whoever
\* holds the record, and stale writers overwrite the status.
SalesAreBooked ==
    \A p \in Payments \ Sandbox :
        /\ status[p] \in {"settled", "delivered"} => p \in booked
        /\ serial[p] # 0 => p \in booked
        /\ (status[p] = "delivered" \/ \E j \in Jobs : <<j, p>> \in enqueued)
              => serial[p] # 0

\* Licences of an offer are numbered 1, 2, 3, ... with no number used twice,
\* sandbox licences apart, and never beyond the edition's size -- even when
\* the reservations that should have kept buyers out were released wrongly.
EditionRespected ==
    \A p \in Payments : serial[p] # 0 =>
        /\ p \notin Sandbox => serial[p] <= MaxUnits[OfferOf[p]]
        /\ \A q \in Licensed(p) \ {p} : serial[q] # serial[p]
        /\ serial[p] = 1 \/ \E q \in Licensed(p) : serial[q] + 1 = serial[p]

\* Whatever requests, sweeps, retries and crashes do, all a buyer and a designer
\* see is the sale that Sales specifies: opened once, booked on a transfer of its
\* own, licensed in turn while the edition lasts, and none of it ever undone.
Sale == INSTANCE Sales WITH
            opened <- {p \in Payments : status[p] # "none"},
            moved  <- {p \in Payments : consensus[p] > 0},
            claim  <- [p \in Payments |->
                          IF p \in booked THEN paymentTx[p] ELSE None],
            unit   <- serial
IsASale == Sale!Spec

-----------------------------------------------------------------------------
(* What holds while no two actors work on one purchase at a time.          *)

\* A purchase no two actors work on at once only moves along the table.
LifecycleForward ==
    [][\A p \in Payments \ Overlap :
          status'[p] # status[p] =>
              status[p] = "none" \/ status'[p] \in TRANSITIONS[status[p]]]_status

\* Reservations never exceed the edition, and a paid purchase always has its
\* unit: allocation never meets the cap (License::SoldOut after payment).
UnitsReserved ==
    /\ \A o \in Offers : CapacityUsed(o) <= MaxUnits[o]
    /\ \A p \in Payments : reason[p] # "capacity_overrun"

\* Money that moved ends in a file: settled is retryable until delivered, once
\* the listing's files are there for good.
PaidIsDelivered ==
    \A p \in Payments :
        <>[]files[OfferOf[p]] =>
            ((status[p] = "settled") ~> (status[p] = "delivered"))

\* "Per stale purchase: mirror shows the credit -> rolled forward; no credit ->
\* failed": no purchase holds its unit of the edition for ever.
StaleIsResolved ==
    \A p \in Aged : (status[p] \in InFlight) ~> (status[p] \notin InFlight)

=============================================================================
