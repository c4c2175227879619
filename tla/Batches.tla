------------------------------- MODULE Batches -------------------------------
(***************************************************************************)
(* The batch rail: POST /api/v1/batches, one signed transaction for        *)
(* several licences.                                                       *)
(*                                                                         *)
(* A batch has a row of its own and one purchases row per licence, its     *)
(* children.  Requests move all of them in one database transaction and    *)
(* keep what they have read in memory meanwhile; Purchases::Reaper knows   *)
(* no batches and moves single children, in three transactions each.       *)
(* Transfers of the single-licence rail reach the same treasury.           *)
(***************************************************************************)
EXTENDS Naturals, FiniteSets, FiniteSetsExt

CONSTANTS
    Batches,    \* signed transactions, found by their replay_key
    Singles,    \* transactions signed for one licence of some other offer
    Children,   \* licences bought in a batch
    BatchOf, Position, OfferOf,     \* of a child
    Offers,
    Amount,     \* of a transaction, or a child's share of it, in one asset
    MaxUnits,   \* units an offer may sell
    Requests,   \* slots for API requests in progress at once
    Reaper,     \* the process that runs Purchases::Reaper
    Overlap,    \* batches that two actors may work on at the same time
    Aged,       \* children that may still be in flight when a sweep runs
    Detached,   \* offers whose files come and go
    MaxFaults,  \* bound: deaths of a process and detached files
    None

Transfers == Batches \cup Singles
Kids(b)   == {c \in Children : BatchOf[c] = b}

ASSUME BatchTyping ==
    /\ IsFiniteSet(Children) /\ Batches \cap Singles = {}
    /\ BatchOf \in [Children -> Batches]
    /\ Position \in [Children -> Nat]
    /\ OfferOf \in [Children -> Offers]
    /\ Amount \in [Transfers \cup Children -> Nat \ {0}]
    /\ MaxUnits \in [Offers -> Nat]
    /\ Aged \subseteq Children /\ Overlap \subseteq Batches /\ Detached \subseteq Offers
    /\ MaxFaults \in Nat
    /\ None \notin Transfers /\ Reaper \notin Requests

\* BatchRequirements#distribute gives the children all of the amount signed.
ASSUME BatchShares ==
    \A b \in Batches : Amount[b] = MapThenSumSet(LAMBDA c : Amount[c], Kids(b))

VARIABLES
    batch,      \* purchase_batches: status, payment_tx_id, and whether
                \* error_reason is facilitator_unavailable
    child,      \* purchases: status and payment_tx_id
    since,      \* consensus rank a batch was created at
    booked,     \* children with ledger rows
    serial,     \* of a child's licence (0: no licence)
    enqueued,   \* batches whose jobs were enqueued
    files,      \* offers whose files can be delivered
    pc, on,     \* where an actor is and the batch, or child, in its hands
    seen,       \* status of the batch in a request's memory, of the child in
                \* the Reaper's
    kids,       \* statuses of the children in a request's memory, once loaded
    found,      \* the transfer the Reaper has found
    sweep,      \* statuses of the children a sweep has loaded
    consensus, clock, submitted, mirrored,  \* Hedera, as in Purchases
    faults

tables == <<batch, child, since, booked, serial, enqueued>>
memory == <<pc, on, seen, kids, found, sweep>>
hedera == <<consensus, clock, submitted, mirrored>>
vars   == <<tables, files, memory, hedera, faults>>

InFlight == {"pending", "verified"}
Failed   == {"failed_verification", "failed_settlement"}
STATUSES == InFlight \cup {"settled", "delivered"} \cup Failed
Places   == {"idle", "reserve", "replay", "verify", "mirror", "settle", "await",
             "await_repeat", "deliver", "enqueue", "record", "allocate", "finish"}
Actors   == Requests \cup {Reaper}

TRANSITIONS ==
    [s \in STATUSES |->
        CASE s = "pending"  -> {"verified", "failed_verification"}
          [] s = "verified" -> {"settled", "failed_settlement"}
          [] s = "settled"  -> {"delivered"}
          [] OTHER          -> {}]

RowsTypeOK ==
    /\ batch \in [Batches -> [status : STATUSES \cup {"none"},
                              tx : Transfers \cup {None}, waits : BOOLEAN]]
    /\ child \in [Children -> [status : STATUSES \cup {"none"},
                               tx : Transfers \cup {None}]]
    /\ since \in [Batches -> Nat]
    /\ booked \subseteq Children
    /\ serial \in [Children -> Nat]
    /\ enqueued \subseteq Batches
    /\ files \subseteq Offers

MemoryTypeOK ==
    /\ pc \in [Actors -> Places]
    /\ on \in [Actors -> Batches \cup Children \cup {None}]
    /\ \A r \in Requests : pc[r] # "idle" => on[r] \in Batches
    /\ seen \in [Actors -> STATUSES \cup {"none"}]
    /\ \A r \in Requests : \A c \in DOMAIN kids[r] :
        BatchOf[c] = on[r] /\ kids[r][c] \in STATUSES
    /\ found \in Transfers \cup {None}
    /\ pc[Reaper] \in {"record", "allocate", "finish"} => found # None
    /\ sweep \in [Children -> InFlight \cup {"none"}]

HederaTypeOK ==
    /\ clock \in Nat /\ mirrored \in 0 .. clock
    /\ consensus \in [Transfers -> 0 .. clock]
    /\ submitted \subseteq Batches
    /\ faults \in 0 .. MaxFaults

BatchTypeOK == RowsTypeOK /\ MemoryTypeOK /\ HederaTypeOK

BatchInit ==
    /\ batch = [b \in Batches |-> [status |-> "none", tx |-> None, waits |-> FALSE]]
    /\ child = [c \in Children |-> [status |-> "none", tx |-> None]]
    /\ since = [b \in Batches |-> 0]
    /\ booked = {} /\ enqueued = {}
    /\ serial = [c \in Children |-> 0]
    /\ files = Offers
    /\ pc = [a \in Actors |-> "idle"]
    /\ on = [a \in Actors |-> None]
    /\ seen = [a \in Actors |-> "none"]
    /\ kids = [r \in Requests |-> <<>>]
    /\ found = None
    /\ sweep = [c \in Children |-> "none"]
    /\ consensus = [t \in Transfers |-> 0]
    /\ clock = 0 /\ submitted = {} /\ mirrored = 0
    /\ faults = 0

-----------------------------------------------------------------------------
(* A request, its memory and its transactions.                             *)

Goto(a, place) == pc' = [pc EXCEPT ![a] = place]

LetGo(a) ==
    /\ Goto(a, "idle")
    /\ on' = [on EXCEPT ![a] = None]
    /\ seen' = [seen EXCEPT ![a] = "none"]

\* As a bug would have it: the records stay loaded for the next request.
ReturnStillLoaded(r) == LetGo(r) /\ UNCHANGED <<kids, found, sweep>>

\* The request is answered, or an exception nobody rescues ends it.
Return(r) ==
    /\ LetGo(r)
    /\ kids' = [kids EXCEPT ![r] = <<>>]
    /\ UNCHANGED <<found, sweep>>

\* batch.purchases: read when a request first needs them, and kept.
Loaded(r) ==
    IF DOMAIN kids[r] # {} THEN kids[r]
    ELSE [c \in Kids(on[r]) |-> child[c].status]

\* The request and the records in its memory after its batch became `new`.
Proceed(r, new, place) ==
    /\ Goto(r, place)
    /\ seen' = [seen EXCEPT ![r] = new]
    /\ kids' = [kids EXCEPT ![r] = [c \in Kids(on[r]) |-> new]]
    /\ UNCHANGED <<on, found, sweep>>

\* Every child's transition_to! looks at the record in memory.
MayMove(r, new) == \A c \in Kids(on[r]) : new \in TRANSITIONS[Loaded(r)[c]]

\* As a bug would have it: children that were failed meanwhile stay failed.
MoveAllUnfailed(b, new, tx) ==
    /\ batch' = [batch EXCEPT ![b].status = new,
                              ![b].tx = IF tx = None THEN @ ELSE tx]
    /\ child' = [c \in Children |->
        IF BatchOf[c] # b \/ child[c].status \in Failed THEN child[c]
        ELSE [status |-> new, tx |-> IF tx = None THEN child[c].tx ELSE tx]]

\* One transaction for the batch and its children, whatever the rows say by now.
MoveAll(b, new, tx) ==
    /\ batch' = [batch EXCEPT ![b].status = new,
                              ![b].tx = IF tx = None THEN @ ELSE tx]
    /\ child' = [c \in Children |->
        IF BatchOf[c] # b THEN child[c]
        ELSE [status |-> new, tx |-> IF tx = None THEN child[c].tx ELSE tx]]

Held(b) ==
    \/ \E r \in Requests : on[r] = b
    \/ on[Reaper] \in Kids(b)
    \/ \E c \in Kids(b) : sweep[c] # "none"
MayTake(b) == b \in Overlap \/ ~Held(b)

Reserved(o) ==
    Cardinality({c \in Children :
        OfferOf[c] = o /\ child[c].status \notin Failed \cup {"none"}})
Wanted(b, o) == Cardinality({c \in Kids(b) : OfferOf[c] = o})

\* As a bug would have it: every offer in the batch needs room for one.
SoldOutIgnoringQuantity(b) ==
    \E o \in Offers : Wanted(b, o) > 0 /\ Reserved(o) + 1 > MaxUnits[o]

\* offers.tally: a batch may want several units of one offer.
SoldOut(b) == \E o \in Offers : Wanted(b, o) > 0 /\ Reserved(o) + Wanted(b, o) > MaxUnits[o]

\* X402::MirrorReconciler, for an amount, since a consensus rank.
Credits(amount, from) ==
    {t \in Transfers : /\ from < consensus[t] /\ consensus[t] <= mirrored
                       /\ Amount[t] = amount}
FirstOf(credits) == CHOOSE t \in credits : \A u \in credits : consensus[t] <= consensus[u]

-----------------------------------------------------------------------------
(* Requests: BatchesController#create.                                     *)

Arrive(r, b) ==
    /\ pc[r] = "idle" /\ MayTake(b)
    /\ Goto(r, IF batch[b].status = "none" THEN "reserve" ELSE "replay")
    /\ on' = [on EXCEPT ![r] = b]
    /\ UNCHANGED <<tables, files, seen, kids, found, sweep, hedera, faults>>

\* reserve, under the locks of all its offers: one of them is sold out, was
\* revised, or its listing is off.
ReserveRefused(r) ==
    /\ pc[r] = "reserve"
    /\ Return(r)
    /\ UNCHANGED <<tables, files, hedera, faults>>

ReserveLostRace(r) ==
    /\ pc[r] = "reserve" /\ batch[on[r]].status # "none"
    /\ Goto(r, "replay")
    /\ UNCHANGED <<tables, files, on, seen, kids, found, sweep, hedera, faults>>

Reserve(r) ==
    /\ pc[r] = "reserve" /\ ~SoldOut(on[r]) /\ batch[on[r]].status = "none"
    /\ MoveAll(on[r], "pending", None)
    /\ since' = [since EXCEPT ![on[r]] = clock]
    /\ seen' = [seen EXCEPT ![r] = "pending"]
    /\ Goto(r, "verify")
    /\ UNCHANGED <<booked, serial, enqueued, files, on, kids, found, sweep, hedera, faults>>

\* As a bug would have it: what is settled is answered as already bought.
ReplayOutcomeSettledIsDone(b) ==
    CASE batch[b].status = "verified" -> "mirror"
      [] batch[b].status = "pending" /\ batch[b].waits -> "verify"
      [] OTHER -> "idle"

ReplayOutcome(b) ==
    CASE batch[b].status = "settled"  -> "deliver"
      [] batch[b].status = "verified" -> "mirror"
      [] batch[b].status = "pending" /\ batch[b].waits -> "verify"
      [] OTHER -> "idle"

Replay(r) ==
    /\ pc[r] = "replay" /\ ReplayOutcome(on[r]) # "idle"
    /\ seen' = [seen EXCEPT ![r] = batch[on[r]].status]
    /\ Goto(r, ReplayOutcome(on[r]))
    /\ UNCHANGED <<tables, files, on, kids, found, sweep, hedera, faults>>

\* A delivered batch whose files are gone has its error_reason overwritten.
ReplayAnswered(r) ==
    /\ pc[r] = "replay" /\ ReplayOutcome(on[r]) = "idle"
    /\ batch' = [batch EXCEPT ![on[r]].waits =
        @ /\ ~(/\ batch[on[r]].status = "delivered"
               /\ \E c \in Kids(on[r]) : OfferOf[c] \notin files)]
    /\ Return(r)
    /\ UNCHANGED <<child, since, booked, serial, enqueued, files, hedera, faults>>

VerifyValid(r) ==
    /\ pc[r] = "verify" /\ MayMove(r, "verified")
    /\ MoveAll(on[r], "verified", None)
    /\ Proceed(r, "verified", "settle")
    /\ UNCHANGED <<since, booked, serial, enqueued, files, hedera, faults>>

\* As a bug would have it: the children fail, the batch is left as it is.
FailBatchKeptOpen(r, new) ==
    /\ MayMove(r, new)
    /\ child' = [c \in Children |->
        IF BatchOf[c] = on[r] THEN [child[c] EXCEPT !.status = new] ELSE child[c]]
    /\ batch' = [batch EXCEPT ![on[r]].waits = FALSE]

\* fail_batch
FailBatch(r, new) ==
    /\ MayMove(r, new)
    /\ child' = [c \in Children |->
        IF BatchOf[c] = on[r] THEN [child[c] EXCEPT !.status = new] ELSE child[c]]
    /\ batch' = [batch EXCEPT ![on[r]].status = new, ![on[r]].waits = FALSE]

VerifyInvalid(r) ==
    /\ pc[r] = "verify"
    /\ FailBatch(r, "failed_verification")
    /\ Return(r)
    /\ UNCHANGED <<since, booked, serial, enqueued, files, hedera, faults>>

FacilitatorUnavailable(r) ==
    /\ pc[r] \in {"verify", "settle", "await", "await_repeat"}
    /\ batch' = [batch EXCEPT ![on[r]].waits = TRUE]
    /\ Return(r)
    /\ UNCHANGED <<child, since, booked, serial, enqueued, files, hedera, faults>>

SubmitSettle(r) ==
    /\ pc[r] = "settle"
    /\ IF consensus[on[r]] = 0
       THEN submitted' = submitted \cup {on[r]} /\ Goto(r, "await")
       ELSE UNCHANGED submitted /\ Goto(r, "await_repeat")
    /\ UNCHANGED <<tables, files, on, seen, kids, found, sweep, consensus, clock,
                   mirrored, faults>>

SettleRefused(r) ==
    /\ \/ pc[r] = "await" /\ consensus[on[r]] = 0
       \/ pc[r] = "await_repeat"
    /\ submitted' = submitted \ {on[r]}
    /\ FailBatch(r, "failed_settlement")
    /\ Return(r)
    /\ UNCHANGED <<since, booked, serial, enqueued, files, consensus, clock,
                   mirrored, faults>>

\* As a bug would have it: no unique index on the batches' transaction id.
SettleSuccessTwice(r, tx) ==
    /\ MayMove(r, "settled")
    /\ MoveAll(on[r], "settled", tx)
    /\ booked' = booked \cup Kids(on[r])
    /\ Proceed(r, "settled", "deliver")
    /\ UNCHANGED <<since, serial, enqueued, files, hedera, faults>>

TxTaken(b, tx) == \E d \in Batches \ {b} : batch[d].tx = tx

\* settle_success: the transitions write the ledger.
SettleSuccess(r, tx) ==
    /\ MayMove(r, "settled") /\ ~TxTaken(on[r], tx)
    /\ MoveAll(on[r], "settled", tx)
    /\ booked' = booked \cup Kids(on[r])
    /\ Proceed(r, "settled", "deliver")
    /\ UNCHANGED <<since, serial, enqueued, files, hedera, faults>>

SettleSucceeded(r) ==
    /\ pc[r] \in {"await", "await_repeat"} /\ consensus[on[r]] > 0
    /\ SettleSuccess(r, on[r])

BatchCredits(r) == Credits(Amount[on[r]], since[on[r]])

MirrorHit(r) ==
    /\ pc[r] = "mirror" /\ BatchCredits(r) # {}
    /\ SettleSuccess(r, FirstOf(BatchCredits(r)))

\* nil: nothing matches yet, or the lookup failed.
MirrorMiss(r) ==
    /\ pc[r] = "mirror"
    /\ Goto(r, "settle")
    /\ UNCHANGED <<tables, files, on, seen, kids, found, sweep, hedera, faults>>

\* InvalidTransition or RecordNotUnique rolls the transaction back.
Rejected(r) ==
    \/ pc[r] = "verify" /\ ~(MayMove(r, "verified") /\ MayMove(r, "failed_verification"))
    \/ pc[r] \in {"await", "await_repeat"} /\ ~MayMove(r, "failed_settlement")
    \/ /\ pc[r] \in {"await", "await_repeat"} /\ consensus[on[r]] > 0
       /\ ~MayMove(r, "settled") \/ TxTaken(on[r], on[r])
    \/ /\ pc[r] = "mirror" /\ BatchCredits(r) # {}
       /\ ~MayMove(r, "settled") \/ TxTaken(on[r], FirstOf(BatchCredits(r)))

RollBack(r) ==
    /\ Rejected(r)
    /\ Return(r)
    /\ UNCHANGED <<tables, files, hedera, faults>>

-----------------------------------------------------------------------------
(* #deliver                                                                *)

Deliverable(r) == \A c \in Kids(on[r]) : OfferOf[c] \in files

Undeliverable(r) ==
    /\ pc[r] = "deliver" /\ ~Deliverable(r)
    /\ batch' = [batch EXCEPT ![on[r]].waits = FALSE]
    /\ Return(r)
    /\ UNCHANGED <<child, since, booked, serial, enqueued, files, hedera, faults>>

LastSerial(o) == Max({0} \cup {serial[c] : c \in {d \in Children : OfferOf[d] = o}})

\* The children in their order: a licence there is, or the next of the offer.
Allotted(b) ==
    [c \in Kids(b) |->
        IF serial[c] # 0 THEN serial[c]
        ELSE LastSerial(OfferOf[c]) +
                Cardinality({d \in Kids(b) : /\ OfferOf[d] = OfferOf[c]
                                             /\ serial[d] = 0
                                             /\ Position[d] <= Position[c]})]

Fits(b) == \A c \in Kids(b) : serial[c] = 0 => Allotted(b)[c] <= MaxUnits[OfferOf[c]]

CanFinish(r) ==
    \A c \in Kids(on[r]) : Loaded(r)[c] = "delivered" \/ "delivered" \in TRANSITIONS[Loaded(r)[c]]

\* All licences and all transitions in one transaction.
Deliver(r) ==
    LET b == on[r] IN
    /\ pc[r] = "deliver" /\ Deliverable(r) /\ CanFinish(r) /\ Fits(b)
    /\ serial' = [c \in Children |-> IF BatchOf[c] = b THEN Allotted(b)[c] ELSE serial[c]]
    /\ child' = [c \in Children |->
        IF BatchOf[c] = b /\ Loaded(r)[c] # "delivered"
        THEN [child[c] EXCEPT !.status = "delivered"] ELSE child[c]]
    /\ batch' = [batch EXCEPT ![b].status = "delivered"]
    /\ Proceed(r, "delivered", "enqueue")
    /\ UNCHANGED <<since, booked, enqueued, files, hedera, faults>>

\* License::SoldOut or InvalidTransition: a 500, and the batch stays settled.
DeliverRolledBack(r) ==
    /\ pc[r] = "deliver" /\ Deliverable(r) /\ ~(CanFinish(r) /\ Fits(on[r]))
    /\ Return(r)
    /\ UNCHANGED <<tables, files, hedera, faults>>

\* The certificates', the webhooks' and the payout job, after the transaction.
Enqueue(r) ==
    /\ pc[r] = "enqueue"
    /\ enqueued' = enqueued \cup {on[r]}
    /\ Return(r)
    /\ UNCHANGED <<batch, child, since, booked, serial, files, hedera, faults>>

-----------------------------------------------------------------------------
(* Purchases::Reaper.                                                      *)

Stale == {c \in Aged : child[c].status \in InFlight}

\* A sweep loads all of them, an operator one.
Load(chosen) ==
    /\ chosen # {} /\ \A c \in chosen : MayTake(BatchOf[c])
    /\ pc[Reaper] = "idle" /\ \A c \in Children : sweep[c] = "none"
    /\ sweep' = [c \in Children |-> IF c \in chosen THEN child[c].status ELSE "none"]
    /\ UNCHANGED <<tables, files, pc, on, seen, kids, found, hedera, faults>>

\* order(:id): the children of a batch have consecutive ids.
SweepNext(c) ==
    /\ pc[Reaper] = "idle" /\ sweep[c] # "none"
    /\ \A d \in Children :
        sweep[d] # "none" /\ BatchOf[d] = BatchOf[c] => Position[c] <= Position[d]
    /\ Goto(Reaper, "mirror")
    /\ on' = [on EXCEPT ![Reaper] = c]
    /\ seen' = [seen EXCEPT ![Reaper] = sweep[c]]
    /\ UNCHANGED <<tables, files, kids, found, sweep, hedera, faults>>

\* Done with this child, or, after an exception, with all of them.
NextOne(remaining) ==
    /\ LetGo(Reaper)
    /\ found' = None
    /\ sweep' = remaining
    /\ UNCHANGED kids

Others == [sweep EXCEPT ![on[Reaper]] = "none"]
Nobody == [c \in Children |-> "none"]

\* The mirror node is asked for the child's share of the amount.
SharePaid(c) == Credits(Amount[c], since[BatchOf[c]])

\* A credit of that amount: its id is written first, then the transition.
RollForward ==
    LET c == on[Reaper]  t == FirstOf(SharePaid(on[Reaper])) IN
    /\ pc[Reaper] = "mirror" /\ SharePaid(c) # {}
    /\ child' = [child EXCEPT ![c].tx = t]
    /\ found' = t
    /\ Goto(Reaper, "record")
    /\ UNCHANGED <<batch, since, booked, serial, enqueued, files, on, seen, kids,
                   sweep, hedera, faults>>

\* A child still pending raises, which ends the sweep.
RecordSale ==
    LET c == on[Reaper] IN
    /\ pc[Reaper] = "record"
    /\ IF seen[Reaper] = "verified"
       THEN /\ child' = [child EXCEPT ![c].status = "settled"]
            /\ booked' = booked \cup {c}
            /\ seen' = [seen EXCEPT ![Reaper] = "settled"]
            /\ Goto(Reaper, "allocate")
            /\ UNCHANGED <<on, kids, found, sweep>>
       ELSE NextOne(Nobody) /\ UNCHANGED <<child, booked>>
    /\ UNCHANGED <<batch, since, serial, enqueued, files, hedera, faults>>

Allocate ==
    LET c == on[Reaper]  n == LastSerial(OfferOf[on[Reaper]]) + 1 IN
    /\ pc[Reaper] = "allocate"
    /\ IF n > MaxUnits[OfferOf[c]]
       THEN NextOne(Others) /\ UNCHANGED serial
       ELSE IF serial[c] # 0
       THEN NextOne(Nobody) /\ UNCHANGED serial
       ELSE /\ serial' = [serial EXCEPT ![c] = n]
            /\ Goto(Reaper, "finish")
            /\ UNCHANGED <<on, seen, kids, found, sweep>>
    /\ UNCHANGED <<batch, child, since, booked, enqueued, files, hedera, faults>>

\* The child is delivered and its certificate's job enqueued.
Finish ==
    /\ pc[Reaper] = "finish"
    /\ child' = [child EXCEPT ![on[Reaper]].status = "delivered"]
    /\ NextOne(Others)
    /\ UNCHANGED <<batch, since, booked, serial, enqueued, files, hedera, faults>>

\* nil, or a lookup that failed, and the mirror node answers the probe.
ReapStale ==
    LET c == on[Reaper] IN
    /\ pc[Reaper] = "mirror"
    /\ child' = [child EXCEPT ![c].status =
        IF seen[Reaper] = "pending" THEN "failed_verification" ELSE "failed_settlement"]
    /\ NextOne(Others)
    /\ UNCHANGED <<batch, since, booked, serial, enqueued, files, hedera, faults>>

\* Neither answers.
ReapSkipped ==
    /\ pc[Reaper] = "mirror"
    /\ NextOne(Others)
    /\ UNCHANGED <<tables, files, hedera, faults>>

-----------------------------------------------------------------------------
(* Hedera, the designers, and failure.                                     *)

Reach(t) ==
    /\ clock' = clock + 1
    /\ consensus' = [consensus EXCEPT ![t] = clock + 1]
    /\ UNCHANGED <<tables, files, memory, mirrored, faults>>

Land(b) ==
    /\ b \in submitted
    /\ submitted' = submitted \ {b}
    /\ Reach(b)

\* Somebody buys one licence on the other rail.
SingleSale(s) == consensus[s] = 0 /\ Reach(s) /\ UNCHANGED submitted

Expire(b) ==
    /\ b \in submitted
    /\ submitted' = submitted \ {b}
    /\ UNCHANGED <<tables, files, memory, consensus, clock, mirrored, faults>>

MirrorCatchUp ==
    /\ mirrored < clock
    /\ mirrored' = mirrored + 1
    /\ UNCHANGED <<tables, files, memory, consensus, clock, submitted, faults>>

Fault == faults < MaxFaults /\ faults' = faults + 1

Detach(o) ==
    /\ Fault /\ o \in files
    /\ files' = files \ {o}
    /\ UNCHANGED <<tables, memory, hedera>>

Reattach(o) ==
    /\ o \notin files
    /\ files' = files \cup {o}
    /\ UNCHANGED <<tables, memory, hedera, faults>>

Crash(a) ==
    /\ Fault /\ pc[a] # "idle"
    /\ IF a = Reaper THEN NextOne(Nobody) ELSE Return(a)
    /\ UNCHANGED <<tables, files, hedera>>

RequestStep(r) ==
    \/ ReserveRefused(r) \/ ReserveLostRace(r) \/ Reserve(r)
    \/ Replay(r) \/ ReplayAnswered(r)
    \/ VerifyValid(r) \/ VerifyInvalid(r) \/ FacilitatorUnavailable(r)
    \/ SubmitSettle(r) \/ SettleRefused(r) \/ SettleSucceeded(r)
    \/ MirrorHit(r) \/ MirrorMiss(r) \/ RollBack(r)
    \/ Undeliverable(r) \/ Deliver(r) \/ DeliverRolledBack(r) \/ Enqueue(r)

ReaperStep ==
    \/ RollForward \/ RecordSale \/ Allocate \/ Finish \/ ReapStale \/ ReapSkipped
    \/ \E c \in Children : SweepNext(c)

Next ==
    \/ \E r \in Requests : RequestStep(r) \/ \E b \in Batches : Arrive(r, b)
    \/ ReaperStep \/ Load(Stale) \/ \E c \in Stale : Load({c})
    \/ \E a \in Actors : Crash(a)
    \/ MirrorCatchUp
    \/ \E b \in Batches : Land(b) \/ Expire(b)
    \/ \E s \in Singles : SingleSale(s)
    \/ \E o \in Detached : Detach(o) \/ Reattach(o)

Spec == BatchInit /\ [][Next]_vars

Left == {b \in Batches : Kids(b) \cap Aged = {}}  \* by the Reaper alone

\* A request that has begun goes on, and a buyer whose batch the Reaper does not
\* meet presents it again and again.
Fairness ==
    /\ \A r \in Requests : WF_vars(RequestStep(r))
    /\ \A b \in Left : SF_vars(\E r \in Requests : Arrive(r, b))

FairSpec == Spec /\ Fairness

-----------------------------------------------------------------------------
SharesFate(b) ==
    /\ \A c \in Kids(b) : child[c] = [status |-> batch[b].status, tx |-> batch[b].tx]
    /\ Kids(b) \subseteq booked \/ Kids(b) \cap booked = {}
    /\ \A c, d \in Kids(b) : serial[c] # 0 => serial[d] # 0

\* The children of a batch share its fate: the rows agree, it is booked and
\* licensed as a whole or not at all, whichever requests meet over it, give up
\* or are overtaken.
OneFate == \A b \in Left : SharesFate(b)

\* The shares booked for a batch are one transfer of their sum that reached
\* consensus, and no two batches are booked on the same.
BatchBacked ==
    \A b \in Left : Kids(b) \cap booked # {} =>
        /\ consensus[batch[b].tx] > 0
        /\ Amount[batch[b].tx] = MapThenSumSet(LAMBDA c : Amount[c], Kids(b) \cap booked)
        /\ \A d \in Batches \ {b} : batch[d].tx # batch[b].tx

\* A paid batch always has its units, and delivery never meets the cap, as long
\* as one actor at a time works on a batch.
PaidFits ==
    Overlap = {} => \A b \in Left : batch[b].status = "settled" => Fits(b)

\* "The batch settled as one payment and stays replayable as one": money that
\* moved ends in licences, once the files of all its models are there for good.
PaidBatchDelivered ==
    \A b \in Left \ Overlap :
        <>[](\A c \in Kids(b) : OfferOf[c] \in files) =>
            (batch[b].status = "settled" ~> batch[b].status = "delivered")

=============================================================================
