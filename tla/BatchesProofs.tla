--------------------------- MODULE BatchesProofs ---------------------------
(***************************************************************************)
(* What Batches keeps for any number of batches, children, requests and    *)
(* crashes, whether or not requests overlap on a batch.                    *)
(***************************************************************************)
EXTENDS Batches, NatFacts, TLAPS

\* The greatest of a bounded set of natural numbers.
LEMMA MaxNat ==
    ASSUME NEW T \in SUBSET Nat, T # {}, NEW n \in Nat, \A x \in T : x <= n
    PROVE  Max(T) \in T /\ \A y \in T : y <= Max(T)
    BY GreatestNat DEF Max

-----------------------------------------------------------------------------
(* The shape of a state: its types, and what they rest on.                 *)

\* No licence is numbered beyond its edition.
SerialsBounded == \A c \in Children : serial[c] <= MaxUnits[OfferOf[c]]

\* The Reaper has children only that may be in flight when it sweeps.
ReaperAway ==
    /\ pc[Reaper] # "idle" => on[Reaper] \in Aged
    /\ \A c \in Children : sweep[c] # "none" => c \in Aged

\* A request remembers all children of its batch or none, and those it goes on
\* to deliver it has itself settled.
Memory ==
    /\ DOMAIN kids = Requests
    /\ \A r \in Requests :
        /\ DOMAIN kids[r] \in {{}, Kids(on[r])}
        /\ pc[r] \in {"idle", "reserve", "replay"} => DOMAIN kids[r] = {}
        /\ pc[r] = "deliver" => \A c \in DOMAIN kids[r] : kids[r][c] = "settled"

RowsOK  == RowsTypeOK /\ SerialsBounded
MindsOK == MemoryTypeOK /\ ReaperAway /\ Memory
Shape   == RowsOK /\ MindsOK /\ HederaTypeOK

\* The rows of the two tables.
BatchRows == [status : STATUSES \cup {"none"}, tx : Transfers \cup {None}, waits : BOOLEAN]
ChildRows == [status : STATUSES \cup {"none"}, tx : Transfers \cup {None}]

LEMMA BatchRow ==
    ASSUME NEW x \in BatchRows
    PROVE  /\ \A s \in STATUSES : [x EXCEPT !.status = s] \in BatchRows
           /\ \A t \in Transfers \cup {None} : [x EXCEPT !.tx = t] \in BatchRows
           /\ \A w \in BOOLEAN : [x EXCEPT !.waits = w] \in BatchRows
    BY DEF BatchRows

LEMMA ChildRow ==
    ASSUME NEW x \in ChildRows
    PROVE  /\ \A s \in STATUSES : [x EXCEPT !.status = s] \in ChildRows
           /\ \A t \in Transfers \cup {None} : [x EXCEPT !.tx = t] \in ChildRows
    BY DEF ChildRows

\* What RowsOK says of the tables, row by row.
LEMMA RowsTyped ==
    RowsOK <=> /\ batch \in [Batches -> BatchRows] /\ child \in [Children -> ChildRows]
               /\ since \in [Batches -> Nat] /\ booked \subseteq Children
               /\ serial \in [Children -> Nat] /\ SerialsBounded
               /\ enqueued \subseteq Batches /\ files \subseteq Offers
    BY DEF RowsOK, RowsTypeOK, BatchRows, ChildRows

LEMMA RowsTypedNext ==
    ASSUME batch' \in [Batches -> BatchRows], child' \in [Children -> ChildRows],
           since' \in [Batches -> Nat], booked' \subseteq Children,
           serial' \in [Children -> Nat], SerialsBounded',
           enqueued' \subseteq Batches, files' \subseteq Offers
    PROVE  RowsOK'
    BY DEF RowsOK, RowsTypeOK, BatchRows, ChildRows

\* One column of one row is written.
LEMMA BatchWrite ==
    ASSUME RowsOK, NEW b \in Batches,
           \/ \E s \in STATUSES : batch' = [batch EXCEPT ![b].status = s]
           \/ \E w \in BOOLEAN : batch' = [batch EXCEPT ![b].waits = w]
    PROVE  batch' \in [Batches -> BatchRows]
<1>1. batch \in [Batches -> BatchRows]
    BY RowsTyped
<1>2. PICK x \in BatchRows : batch' = [batch EXCEPT ![b] = x]
    BY <1>1, BatchRow
<1>3. QED
    BY ONLY <1>1, <1>2

LEMMA ChildWrite ==
    ASSUME RowsOK, NEW c \in Children,
           \/ \E s \in STATUSES : child' = [child EXCEPT ![c].status = s]
           \/ \E t \in Transfers : child' = [child EXCEPT ![c].tx = t]
    PROVE  child' \in [Children -> ChildRows]
<1>1. child \in [Children -> ChildRows]
    BY RowsTyped
<1>2. PICK x \in ChildRows : child' = [child EXCEPT ![c] = x]
    BY <1>1, ChildRow
<1>3. QED
    BY ONLY <1>1, <1>2

LEMMA RowsKept == RowsOK /\ UNCHANGED <<tables, files>> => RowsOK'
    BY DEF RowsOK, RowsTypeOK, SerialsBounded, tables

LEMMA MindsKept == MindsOK /\ UNCHANGED memory => MindsOK'
    BY DEF MindsOK, MemoryTypeOK, ReaperAway, Memory, memory

LEMMA HederaKept == HederaTypeOK /\ UNCHANGED <<hedera, faults>> => HederaTypeOK'
    BY DEF HederaTypeOK, hedera

LEMMA ShapeInit == BatchInit => Shape
    BY BatchTyping
       DEF BatchInit, Shape, RowsOK, MindsOK, RowsTypeOK, MemoryTypeOK,
           HederaTypeOK, SerialsBounded, ReaperAway, Memory,
           STATUSES, InFlight, Failed, Places, Actors, Transfers, Kids

LEMMA FirstOfType ==
    ASSUME HederaTypeOK, NEW amount, NEW from, Credits(amount, from) # {}
    PROVE  FirstOf(Credits(amount, from)) \in Credits(amount, from)
<1> DEFINE T == {consensus[t] : t \in Credits(amount, from)}
<1>1. T \in SUBSET Nat /\ T # {}
    BY DEF Credits, HederaTypeOK
<1>2. PICK x \in T : \A y \in T : x <= y
    BY <1>1, LeastNat
<1>3. QED
    BY <1>2 DEF FirstOf

LEMMA LastSerialType ==
    ASSUME RowsOK, NEW o \in Offers
    PROVE  LastSerial(o) \in Nat
<1> DEFINE T == {0} \cup {serial[c] : c \in {d \in Children : OfferOf[d] = o}}
<1>1. T \in SUBSET Nat /\ T # {} /\ \A x \in T : x <= MaxUnits[o]
    BY BatchTyping DEF RowsOK, RowsTypeOK, SerialsBounded
<1>2. MaxUnits[o] \in Nat
    BY BatchTyping
<1>3. Max(T) \in T
    BY <1>1, <1>2, MaxNat
<1>4. QED
    BY <1>1, <1>3 DEF LastSerial

LEMMA AllottedType ==
    ASSUME RowsOK, NEW b \in Batches, NEW c \in Kids(b)
    PROVE  Allotted(b)[c] \in Nat \ {0}
<1>1. c \in Children /\ OfferOf[c] \in Offers /\ serial[c] \in Nat
    BY BatchTyping DEF Kids, RowsOK, RowsTypeOK
<1>2. CASE serial[c] # 0
    BY <1>1, <1>2 DEF Allotted
<1>3. CASE serial[c] = 0
    <2> DEFINE D == {d \in Kids(b) : /\ OfferOf[d] = OfferOf[c]
                                     /\ serial[d] = 0
                                     /\ Position[d] <= Position[c]}
    <2>1. c \in D
        BY <1>1, <1>3, BatchTyping
    <2>2. IsFiniteSet(D)
        BY BatchTyping, FS_Subset DEF Kids
    <2>3. Cardinality(D) \in Nat \ {0}
        BY <2>1, <2>2, FS_CardinalityType, FS_EmptySet
    <2>4. LastSerial(OfferOf[c]) \in Nat
        BY <1>1, LastSerialType
    <2>5. Allotted(b)[c] = LastSerial(OfferOf[c]) + Cardinality(D)
        BY <1>3 DEF Allotted
    <2>6. QED
        BY <2>3, <2>4, <2>5
<1>4. QED
    BY <1>2, <1>3

\* A request goes on, or ends, and forgets.
LEMMA MindsGoto ==
    ASSUME MindsOK, NEW r \in Requests, pc[r] # "idle",
           NEW p \in Places \ {"idle", "reserve", "deliver"},
           p = "replay" => pc[r] = "reserve",
           Goto(r, p), UNCHANGED <<on, seen, kids, found, sweep>>
    PROVE  MindsOK'
    BY BatchTyping
       DEF MindsOK, MemoryTypeOK, ReaperAway, Memory, Actors, Goto, Places

LEMMA MindsReturn ==
    ASSUME MindsOK, NEW r \in Requests, Return(r)
    PROVE  MindsOK'
    BY BatchTyping
       DEF MindsOK, MemoryTypeOK, ReaperAway, Memory, Actors, LetGo, Goto, Places, Return

LEMMA MindsProceed ==
    ASSUME MindsOK, NEW r \in Requests, pc[r] # "idle",
           NEW s \in STATUSES, NEW p \in Places \ {"idle", "reserve", "replay"},
           p = "deliver" => s = "settled",
           Proceed(r, s, p)
    PROVE  MindsOK'
<1> USE BatchTyping DEF MindsOK, MemoryTypeOK, Actors, Places, Proceed, Goto
<1>1. pc'[r] = p /\ on' = on /\ kids'[r] = [c \in Kids(on[r]) |-> s]
    BY DEF Memory
<1>2. DOMAIN kids' = Requests /\ DOMAIN kids'[r] = Kids(on[r])
    BY <1>1 DEF Memory
<1>3. \A c \in Kids(on[r]) : kids'[r][c] = s
    BY <1>1
<1>4. \A q \in Requests \ {r} : kids'[q] = kids[q] /\ pc'[q] = pc[q]
    BY DEF Memory
<1>5. Memory'
    BY <1>1, <1>2, <1>3, <1>4 DEF Memory
<1>6. ReaperAway'
    BY <1>1 DEF ReaperAway
<1>7. \A q \in Requests : \A c \in DOMAIN kids'[q] :
          BatchOf[c] = on'[q] /\ kids'[q][c] \in STATUSES
    BY <1>1, <1>2, <1>3, <1>4 DEF Kids
<1>8. QED
    BY <1>1, <1>4, <1>5, <1>6, <1>7

LEMMA RowsMoveAll ==
    ASSUME RowsOK, NEW b \in Batches, NEW s \in STATUSES,
           NEW tx \in Transfers \cup {None}, MoveAll(b, s, tx),
           since' \in [Batches -> Nat], booked' \subseteq Children,
           UNCHANGED <<serial, enqueued, files>>
    PROVE  RowsOK'
<1>1. batch \in [Batches -> BatchRows] /\ child \in [Children -> ChildRows]
    BY RowsTyped
<1>2. batch' \in [Batches -> BatchRows]
    <2> DEFINE t == IF tx = None THEN batch[b].tx ELSE tx
               x == [batch[b] EXCEPT !.status = s]
               y == [x EXCEPT !.tx = t]
    <2>1. t \in Transfers \cup {None}
        BY ONLY <1>1, tx \in Transfers \cup {None}, b \in Batches DEF BatchRows
    <2>2. x \in BatchRows
        BY ONLY <1>1, BatchRow, b \in Batches, s \in STATUSES
    <2>3. y \in BatchRows
        <3> HIDE DEF x, t
        <3>1. QED
            BY ONLY <2>1, <2>2, BatchRow DEF y
    <2>4. batch' = [batch EXCEPT ![b] = y]
        BY ONLY <1>1, b \in Batches, MoveAll(b, s, tx) DEF MoveAll, BatchRows
    <2> HIDE DEF y
    <2>5. QED
        BY ONLY <1>1, <2>3, <2>4
<1>3. child' \in [Children -> ChildRows]
    <2>1. ASSUME NEW c \in Children
          PROVE  child'[c] \in ChildRows
        <3>1. child[c] \in ChildRows
            BY ONLY <1>1, c \in Children
        <3>2. child'[c] = IF BatchOf[c] # b THEN child[c]
                  ELSE [status |-> s, tx |-> IF tx = None THEN child[c].tx ELSE tx]
            BY ONLY c \in Children, MoveAll(b, s, tx) DEF MoveAll
        <3>3. QED
            BY ONLY <3>1, <3>2, s \in STATUSES, tx \in Transfers \cup {None}
               DEF ChildRows
    <2>2. child' = [c \in Children |-> child'[c]]
        BY ONLY MoveAll(b, s, tx) DEF MoveAll
    <2>3. QED
        BY ONLY <2>1, <2>2
<1>4. SerialsBounded'
    BY RowsTyped DEF SerialsBounded
<1>5. QED
    BY <1>2, <1>3, <1>4, RowsTyped, RowsTypedNext

LEMMA RowsFailBatch ==
    ASSUME RowsOK, NEW r \in Requests, on[r] \in Batches, NEW s \in STATUSES,
           FailBatch(r, s), UNCHANGED <<since, booked, serial, enqueued, files>>
    PROVE  RowsOK'
<1> DEFINE b == on[r]
<1>1. batch \in [Batches -> BatchRows] /\ child \in [Children -> ChildRows]
    BY RowsTyped
<1>2. batch' \in [Batches -> BatchRows]
    <2> DEFINE x == [batch[b] EXCEPT !.status = s]
               y == [x EXCEPT !.waits = FALSE]
    <2>1. x \in BatchRows
        BY ONLY <1>1, BatchRow, b \in Batches, s \in STATUSES
    <2>2. y \in BatchRows
        <3> HIDE DEF x
        <3>1. QED
            BY ONLY <2>1, BatchRow DEF y
    <2>3. batch' = [batch EXCEPT ![b] = y]
        BY ONLY <1>1, b \in Batches, FailBatch(r, s) DEF FailBatch, BatchRows
    <2> HIDE DEF y
    <2>4. QED
        BY ONLY <1>1, <2>2, <2>3
<1>3. child' \in [Children -> ChildRows]
    BY ONLY <1>1, ChildRow, s \in STATUSES, FailBatch(r, s) DEF FailBatch
<1>4. SerialsBounded'
    BY RowsTyped DEF SerialsBounded
<1>5. QED
    BY <1>2, <1>3, <1>4, RowsTyped, RowsTypedNext

LEMMA ShapeSettleSuccess ==
    ASSUME Shape, NEW r \in Requests, pc[r] # "idle", NEW tx \in Transfers,
           SettleSuccess(r, tx)
    PROVE  Shape'
<1>1. on[r] \in Batches /\ "settled" \in STATUSES /\ "deliver" \in Places
    BY DEF Shape, MindsOK, MemoryTypeOK, STATUSES, Places
<1>2. since' \in [Batches -> Nat] /\ booked' \subseteq Children
    BY DEF Shape, RowsOK, RowsTypeOK, SettleSuccess, Kids
<1>3. RowsOK'
    BY <1>1, <1>2, RowsMoveAll DEF Shape, SettleSuccess
<1>4. MindsOK'
    BY <1>1, MindsProceed DEF Shape, SettleSuccess
<1>5. QED
    BY <1>3, <1>4, HederaKept DEF Shape, SettleSuccess

LEMMA ShapeDeliver ==
    ASSUME Shape, NEW r \in Requests, Deliver(r)
    PROVE  Shape'
<1> DEFINE b == on[r]
<1>1. b \in Batches /\ "delivered" \in STATUSES /\ "enqueue" \in Places
    BY DEF Shape, MindsOK, MemoryTypeOK, STATUSES, Places, Deliver
<1>2. \A c \in Kids(b) : Allotted(b)[c] \in Nat
    BY <1>1, AllottedType DEF Shape
<1>3. \A c \in Children :
          /\ serial'[c] = IF BatchOf[c] = b THEN Allotted(b)[c] ELSE serial[c]
          /\ serial'[c] \in Nat /\ serial'[c] <= MaxUnits[OfferOf[c]]
    BY <1>2 DEF Deliver, Fits, Kids, Allotted, Shape, RowsOK, RowsTypeOK,
        SerialsBounded
<1>4. serial' \in [Children -> Nat] /\ SerialsBounded'
    BY <1>3 DEF Deliver, SerialsBounded
<1>5. RowsOK'
    <2>1. RowsOK
        BY DEF Shape
    <2>2. batch' \in [Batches -> BatchRows]
        <3>1. batch' = [batch EXCEPT ![b].status = "delivered"]
            BY DEF Deliver
        <3>2. QED
            BY ONLY <1>1, <2>1, <3>1, BatchWrite
    <2>3. child' \in [Children -> ChildRows]
        <3>1. child \in [Children -> ChildRows]
            BY ONLY <2>1, RowsTyped
        <3>2. child' = [c \in Children |->
                  IF BatchOf[c] = b /\ Loaded(r)[c] # "delivered"
                  THEN [child[c] EXCEPT !.status = "delivered"] ELSE child[c]]
            BY DEF Deliver
        <3>3. QED
            BY ONLY <1>1, <3>1, <3>2, ChildRow
    <2>4. UNCHANGED <<since, booked, enqueued, files>>
        BY DEF Deliver
    <2>5. QED
        BY ONLY <1>4, <2>1, <2>2, <2>3, <2>4, RowsTyped, RowsTypedNext
<1>6. MindsOK'
    BY <1>1, MindsProceed DEF Shape, Deliver
<1>7. QED
    BY <1>5, <1>6, HederaKept DEF Shape, Deliver

LEMMA ShapeRequest ==
    ASSUME Shape, NEW r \in Requests, RequestStep(r)
    PROVE  Shape'
<1> USE DEF Shape
<1>1. pc[r] # "idle" /\ on[r] \in Batches
    BY DEF MindsOK, MemoryTypeOK, RequestStep, ReserveRefused, ReserveLostRace,
        Reserve, Replay, ReplayAnswered, VerifyValid, VerifyInvalid,
        FacilitatorUnavailable, SubmitSettle, SettleRefused, SettleSucceeded,
        MirrorHit, MirrorMiss, RollBack, Rejected, Undeliverable, Deliver,
        DeliverRolledBack, Enqueue
<1>2. {"pending", "verified", "failed_verification", "failed_settlement"} \subseteq STATUSES
    BY DEF STATUSES, InFlight, Failed
<1>3. CASE ReserveRefused(r) \/ DeliverRolledBack(r) \/ RollBack(r)
    BY <1>3, MindsReturn, RowsKept, HederaKept
       DEF ReserveRefused, DeliverRolledBack, RollBack
<1>4. CASE ReserveLostRace(r) \/ MirrorMiss(r)
    BY <1>1, <1>4, MindsGoto, RowsKept, HederaKept
       DEF ReserveLostRace, MirrorMiss, Places
<1>5. CASE SubmitSettle(r)
    <2>1. MindsOK'
        BY <1>1, <1>5, MindsGoto DEF SubmitSettle, Places
    <2>2. HederaTypeOK'
        BY <1>1, <1>5 DEF SubmitSettle, HederaTypeOK
    <2>3. QED
        BY <1>5, <2>1, <2>2, RowsKept DEF SubmitSettle
<1>6. CASE Reserve(r)
    <2>1. RowsOK'
        <3>1. since' \in [Batches -> Nat] /\ booked' \subseteq Children
            BY <1>6 DEF Reserve, RowsOK, RowsTypeOK, HederaTypeOK
        <3>2. QED
            BY <1>1, <1>2, <1>6, <3>1, RowsMoveAll DEF Reserve
    <2>2. MindsOK'
        BY <1>1, <1>2, <1>6, BatchTyping
           DEF Reserve, Goto, MindsOK, MemoryTypeOK, ReaperAway, Memory, Actors,
               Places
    <2>3. QED
        BY <1>6, <2>1, <2>2, HederaKept DEF Reserve
<1>7. CASE Replay(r)
    <2>1. batch[on[r]].status \in STATUSES \cup {"none"}
        BY <1>1 DEF RowsOK, RowsTypeOK
    <2>2. ReplayOutcome(on[r]) \in {"deliver", "mirror", "verify"}
        BY <1>7 DEF Replay, ReplayOutcome
    <2>3. MindsOK'
        BY <1>1, <1>7, <2>1, <2>2, BatchTyping
           DEF Replay, Goto, MindsOK, MemoryTypeOK, ReaperAway, Memory, Actors,
               Places
    <2>4. QED
        BY <1>7, <2>3, RowsKept, HederaKept DEF Replay
<1>8. CASE ReplayAnswered(r) \/ FacilitatorUnavailable(r) \/ Undeliverable(r)
    <2>1. PICK w \in BOOLEAN : batch' = [batch EXCEPT ![on[r]].waits = w]
        <3>1. CASE ReplayAnswered(r)
            <4> DEFINE w == batch[on[r]].waits /\
                    ~(/\ batch[on[r]].status = "delivered"
                      /\ \E c \in Kids(on[r]) : OfferOf[c] \notin files)
            <4>1. batch' = [batch EXCEPT ![on[r]].waits = w]
                BY <1>1, <3>1 DEF ReplayAnswered, RowsOK, RowsTypeOK
            <4>2. w \in BOOLEAN
                OBVIOUS
            <4>3. QED
                BY <4>1, <4>2
        <3>2. CASE FacilitatorUnavailable(r) \/ Undeliverable(r)
            BY <3>2 DEF FacilitatorUnavailable, Undeliverable
        <3>3. QED
            BY <1>8, <3>1, <3>2
    <2>2. RowsOK'
        <3>1. UNCHANGED <<child, since, booked, serial, enqueued, files>>
            BY ONLY <1>8 DEF ReplayAnswered, FacilitatorUnavailable, Undeliverable
        <3>2. batch' \in [Batches -> BatchRows]
            BY ONLY RowsOK, <1>1, <2>1, BatchWrite
        <3>3. SerialsBounded'
            BY ONLY RowsOK, <3>1, RowsTyped DEF SerialsBounded
        <3>4. QED
            BY ONLY RowsOK, <3>1, <3>2, <3>3, RowsTyped, RowsTypedNext
    <2>3. QED
        BY <1>8, <2>2, MindsReturn, HederaKept
           DEF ReplayAnswered, FacilitatorUnavailable, Undeliverable
<1>9. CASE VerifyValid(r)
    <2>1. RowsOK'
        BY <1>1, <1>2, <1>9, RowsMoveAll DEF VerifyValid, RowsOK, RowsTypeOK
    <2>2. MindsOK'
        BY <1>1, <1>2, <1>9, MindsProceed DEF VerifyValid, Places
    <2>3. QED
        BY <1>9, <2>1, <2>2, HederaKept DEF VerifyValid
<1>10. CASE VerifyInvalid(r)
    BY <1>1, <1>2, <1>10, RowsFailBatch, MindsReturn, HederaKept DEF VerifyInvalid
<1>11. CASE SettleRefused(r)
    <2>1. HederaTypeOK'
        BY <1>11 DEF SettleRefused, HederaTypeOK
    <2>2. QED
        BY <1>1, <1>2, <1>11, <2>1, RowsFailBatch, MindsReturn DEF SettleRefused
<1>12. CASE SettleSucceeded(r)
    BY <1>1, <1>12, ShapeSettleSuccess DEF SettleSucceeded, Transfers
<1>13. CASE MirrorHit(r)
    <2>1. FirstOf(BatchCredits(r)) \in Transfers
        BY <1>13, FirstOfType DEF MirrorHit, BatchCredits, Credits
    <2>2. QED
        BY <1>1, <1>13, <2>1, ShapeSettleSuccess DEF MirrorHit
<1>14. CASE Deliver(r)
    BY <1>14, ShapeDeliver
<1>15. CASE Enqueue(r)
    <2>1. RowsOK'
        BY <1>1, <1>15 DEF Enqueue, RowsOK, RowsTypeOK, SerialsBounded
    <2>2. QED
        BY <1>15, <2>1, MindsReturn, HederaKept DEF Enqueue
<1>16. QED
    BY <1>3, <1>4, <1>5, <1>6, <1>7, <1>8, <1>9, <1>10, <1>11, <1>12, <1>13,
       <1>14, <1>15 DEF RequestStep

LEMMA MindsNextOne ==
    ASSUME MindsOK, NEW rest, rest \in {Others, Nobody}, NextOne(rest)
    PROVE  MindsOK'
<1> USE BatchTyping
<1>1. /\ rest \in [Children -> InFlight \cup {"none"}]
      /\ \A d \in Children : rest[d] # "none" => d \in Aged
    BY DEF Others, Nobody, MindsOK, MemoryTypeOK, ReaperAway
<1>2. sweep' = rest /\ found' = None /\ kids' = kids /\ LetGo(Reaper)
    BY DEF NextOne
<1>3. \A r \in Requests : pc'[r] = pc[r] /\ on'[r] = on[r]
    BY <1>2 DEF LetGo, Goto, MindsOK, MemoryTypeOK, Actors
<1>4. pc'[Reaper] = "idle"
    BY <1>2 DEF LetGo, Goto, MindsOK, MemoryTypeOK, Actors
<1>5. ReaperAway' /\ Memory'
    <2>1. ReaperAway'
        BY <1>1, <1>2, <1>4 DEF ReaperAway
    <2>2. Memory'
        BY <1>2, <1>3 DEF MindsOK, Memory
    <2>3. QED
        BY <2>1, <2>2
<1>6. MemoryTypeOK'
    BY <1>1, <1>2, <1>3, <1>4
       DEF LetGo, Goto, MindsOK, MemoryTypeOK, Actors, Places
<1>7. QED
    BY <1>5, <1>6 DEF MindsOK

LEMMA ShapeReaper ==
    ASSUME Shape, ReaperStep
    PROVE  Shape'
<1> USE BatchTyping DEF Shape
<1> DEFINE c == on[Reaper]
<1>1. CASE \E d \in Children : SweepNext(d)
    BY <1>1, RowsKept, HederaKept
       DEF SweepNext, Goto, MindsOK, MemoryTypeOK, ReaperAway, Memory, Actors,
           Places, STATUSES, InFlight
<1>2. pc[Reaper] # "idle" => c \in Children /\ OfferOf[c] \in Offers
    BY DEF MindsOK, ReaperAway
<1>3. CASE RollForward
    <2>1. FirstOf(SharePaid(c)) \in Transfers
        BY <1>3, FirstOfType DEF RollForward, SharePaid, Credits
    <2>2. RowsOK'
        <3>1. c \in Children
                  /\ \E t \in Transfers : child' = [child EXCEPT ![c].tx = t]
            BY <1>2, <1>3, <2>1 DEF RollForward
        <3>2. child' \in [Children -> ChildRows]
            BY ONLY RowsOK, <3>1, ChildWrite
        <3>3. UNCHANGED <<batch, since, booked, serial, enqueued, files>>
            BY ONLY <1>3 DEF RollForward
        <3>4. SerialsBounded'
            BY ONLY RowsOK, <3>3, RowsTyped DEF SerialsBounded
        <3>5. QED
            BY ONLY RowsOK, <3>2, <3>3, <3>4, RowsTyped, RowsTypedNext
    <2>3. MindsOK'
        BY <1>3, <2>1
           DEF RollForward, Goto, MindsOK, MemoryTypeOK, ReaperAway, Memory,
               Actors, Places
    <2>4. QED
        BY <1>3, <2>2, <2>3, HederaKept DEF RollForward
<1>4. CASE RecordSale
    <2>1. CASE seen[Reaper] = "verified"
        <3>1. "settled" \in STATUSES /\ "allocate" \in Places
            BY DEF STATUSES, Places
        <3>2. /\ pc[Reaper] = "record"
              /\ child' = [child EXCEPT ![c].status = "settled"]
              /\ booked' = booked \cup {c}
              /\ seen' = [seen EXCEPT ![Reaper] = "settled"]
              /\ pc' = [pc EXCEPT ![Reaper] = "allocate"]
              /\ UNCHANGED <<on, kids, found, sweep>>
              /\ UNCHANGED <<batch, since, serial, enqueued, files, hedera, faults>>
            BY <1>4, <2>1 DEF RecordSale, Goto
        <3>3. RowsOK'
            <4>1. child' \in [Children -> ChildRows]
                BY ONLY RowsOK, <1>2, <3>1, <3>2, ChildWrite
            <4>2. booked' \subseteq Children
                BY ONLY RowsOK, <1>2, <3>2, RowsTyped
            <4>3. SerialsBounded'
                BY ONLY RowsOK, <3>2, RowsTyped DEF SerialsBounded
            <4>4. QED
                BY ONLY RowsOK, <3>2, <4>1, <4>2, <4>3, RowsTyped, RowsTypedNext
        <3>4. MindsOK'
            <4>1. MemoryTypeOK'
                BY <3>1, <3>2 DEF MindsOK, MemoryTypeOK, Actors
            <4>2. ReaperAway' /\ Memory'
                BY <3>2 DEF MindsOK, ReaperAway, Memory
            <4>3. QED
                BY <4>1, <4>2 DEF MindsOK
        <3>5. QED
            BY <3>2, <3>3, <3>4, HederaKept
    <2>2. CASE seen[Reaper] # "verified"
        BY MindsNextOne, <1>4, <2>2, RowsKept, HederaKept DEF RecordSale, tables
    <2>3. QED
        BY <2>1, <2>2
<1>5. CASE Allocate
    <2>1. pc[Reaper] = "allocate" /\ c \in Children /\ OfferOf[c] \in Offers
        BY <1>2, <1>5 DEF Allocate
    <2>2. LastSerial(OfferOf[c]) \in Nat
        BY <2>1, LastSerialType
    <2>3. CASE UNCHANGED serial /\ \E rest \in {Others, Nobody} : NextOne(rest)
        BY MindsNextOne, <1>5, <2>3, RowsKept, HederaKept DEF Allocate, tables
    <2>4. CASE /\ LastSerial(OfferOf[c]) + 1 <= MaxUnits[OfferOf[c]]
               /\ serial' = [serial EXCEPT ![c] = LastSerial(OfferOf[c]) + 1]
               /\ Goto(Reaper, "finish")
               /\ UNCHANGED <<on, seen, kids, found, sweep>>
        <3>1. RowsOK'
            BY <1>5, <2>1, <2>2, <2>4 DEF Allocate, RowsOK, RowsTypeOK, SerialsBounded
        <3>2. MindsOK'
            BY <2>1, <2>4
               DEF Goto, MindsOK, MemoryTypeOK, ReaperAway, Memory, Actors, Places
        <3>3. QED
            BY <1>5, <3>1, <3>2, HederaKept DEF Allocate
    <2>5. QED
        BY <1>5, <2>1, <2>2, <2>3, <2>4 DEF Allocate
<1>6. CASE Finish \/ ReapStale
    <2>1. PICK s \in STATUSES : child' = [child EXCEPT ![c].status = s]
        BY <1>6 DEF Finish, ReapStale, STATUSES, Failed
    <2>2. c \in Children /\ UNCHANGED <<batch, since, booked, serial, enqueued, files>>
        BY <1>2, <1>6 DEF Finish, ReapStale
    <2>3. RowsOK'
        <3>1. child' \in [Children -> ChildRows]
            BY ONLY RowsOK, <2>1, <2>2, ChildWrite
        <3>2. SerialsBounded'
            BY ONLY RowsOK, <2>2, RowsTyped DEF SerialsBounded
        <3>3. QED
            BY ONLY RowsOK, <2>2, <3>1, <3>2, RowsTyped, RowsTypedNext
    <2>4. QED
        BY MindsNextOne, <1>6, <2>3, HederaKept DEF Finish, ReapStale
<1>7. CASE ReapSkipped
    BY MindsNextOne, <1>7, RowsKept, HederaKept DEF ReapSkipped
<1>8. QED
    BY <1>1, <1>3, <1>4, <1>5, <1>6, <1>7 DEF ReaperStep

LEMMA ShapeShared ==
    ASSUME Shape,
           \/ \E r \in Requests, b \in Batches : Arrive(r, b)
           \/ Load(Stale) \/ \E c \in Stale : Load({c})
           \/ \E a \in Actors : Crash(a)
    PROVE  Shape'
<1> USE BatchTyping DEF Shape
<1>1. ASSUME NEW r \in Requests, NEW b \in Batches, Arrive(r, b)
      PROVE  Shape'
    <2> DEFINE place == IF batch[b].status = "none" THEN "reserve" ELSE "replay"
    <2>1. /\ pc' = [pc EXCEPT ![r] = place] /\ on' = [on EXCEPT ![r] = b]
          /\ pc[r] = "idle" /\ UNCHANGED <<seen, kids, found, sweep>>
        BY ONLY <1>1 DEF Arrive, Goto
    <2>2. place \in {"reserve", "replay"} /\ place \in Places
        BY DEF Places
    <2> HIDE DEF place
    <2>3. /\ r \in Actors /\ r # Reaper /\ pc \in [Actors -> Places]
          /\ on \in [Actors -> Batches \cup Children \cup {None}]
        BY BatchTyping DEF MindsOK, MemoryTypeOK, Actors
    <2>4. /\ pc'[r] = place /\ on'[r] = b
          /\ \A e \in Actors \ {r} : pc'[e] = pc[e] /\ on'[e] = on[e]
        BY ONLY <2>1, <2>3
    <2>5. DOMAIN kids[r] = {}
        BY ONLY MindsOK, <2>1, r \in Requests DEF MindsOK, Memory
    <2>6. pc' \in [Actors -> Places] /\ on' \in [Actors -> Batches \cup Children \cup {None}]
        BY ONLY <2>1, <2>2, <2>3, b \in Batches
    <2>7. Reaper \in Actors /\ \A q \in Requests : q \in Actors
        BY DEF Actors
    <2>8. ReaperAway'
        BY ONLY MindsOK, <2>1, <2>3, <2>4, <2>7 DEF MindsOK, ReaperAway
    <2>9. Memory'
        <3>1. \A q \in Requests \ {r} : pc'[q] = pc[q] /\ on'[q] = on[q] /\ kids'[q] = kids[q]
            BY ONLY <2>1, <2>4, <2>7
        <3>2. pc'[r] # "deliver" /\ DOMAIN kids'[r] = {}
            BY ONLY <2>1, <2>2, <2>4, <2>5
        <3>3. QED
            BY ONLY MindsOK, <2>1, <3>1, <3>2 DEF MindsOK, Memory
    <2>10. MemoryTypeOK'
        <3>1. \A q \in Requests : pc'[q] # "idle" => on'[q] \in Batches
            BY ONLY MindsOK, <2>4, <2>7, b \in Batches DEF MindsOK, MemoryTypeOK
        <3>2. \A q \in Requests : \A c \in DOMAIN kids'[q] :
                  BatchOf[c] = on'[q] /\ kids'[q][c] \in STATUSES
            BY ONLY MindsOK, <2>1, <2>4, <2>5, <2>7 DEF MindsOK, MemoryTypeOK
        <3>3. pc'[Reaper] = pc[Reaper]
            BY ONLY <2>3, <2>4, <2>7
        <3>4. QED
            BY ONLY MindsOK, <2>1, <2>6, <3>1, <3>2, <3>3 DEF MindsOK, MemoryTypeOK
    <2>11. MindsOK'
        BY ONLY <2>8, <2>9, <2>10 DEF MindsOK
    <2>12. QED
        BY <1>1, <2>11, RowsKept, HederaKept DEF Arrive
<1>2. ASSUME NEW chosen \in SUBSET Stale, Load(chosen)
      PROVE  Shape'
    <2>1. /\ sweep' = [c \in Children |-> IF c \in chosen THEN child[c].status ELSE "none"]
          /\ UNCHANGED <<pc, on, seen, kids, found>>
        BY ONLY <1>2 DEF Load
    <2>2. \A c \in Children : c \in chosen => c \in Aged /\ child[c].status \in InFlight
        BY ONLY chosen \in SUBSET Stale DEF Stale
    <2>3. sweep' \in [Children -> InFlight \cup {"none"}]
        BY ONLY <2>1, <2>2
    <2>4. \A c \in Children : sweep'[c] # "none" => c \in Aged
        BY ONLY <2>1, <2>2
    <2>5. MindsOK'
        BY ONLY MindsOK, <2>1, <2>3, <2>4 DEF MindsOK, MemoryTypeOK, ReaperAway, Memory
    <2>6. QED
        BY <1>2, <2>5, RowsKept, HederaKept DEF Load
<1>3. ASSUME NEW a \in Actors, Crash(a)
      PROVE  Shape'
    <2>1. HederaTypeOK'
        BY <1>3 DEF Crash, Fault, HederaTypeOK, hedera
    <2>2. MindsOK'
        <3>1. CASE a = Reaper
            BY <1>3, <3>1, MindsNextOne DEF Crash
        <3>2. CASE a # Reaper
            BY <1>3, <3>2, MindsReturn DEF Crash, Actors
        <3>3. QED
            BY <3>1, <3>2
    <2>3. QED
        BY <1>3, <2>1, <2>2, RowsKept DEF Crash
<1>4. QED
    BY <1>1, <1>2, <1>3

LEMMA ShapeWorld ==
    ASSUME Shape,
           \/ MirrorCatchUp
           \/ \E b \in Batches : Land(b) \/ Expire(b)
           \/ \E s \in Singles : SingleSale(s)
           \/ \E o \in Offers : Detach(o) \/ Reattach(o)
    PROVE  Shape'
<1> USE DEF Shape
<1>1. CASE MirrorCatchUp \/ \E b \in Batches : Expire(b)
    BY <1>1, RowsKept, MindsKept DEF MirrorCatchUp, Expire, HederaTypeOK
<1>2. ASSUME NEW t \in Transfers, Reach(t), submitted' \subseteq submitted
      PROVE  Shape'
    <2>1. HederaTypeOK'
        BY <1>2 DEF Reach, HederaTypeOK
    <2>2. QED
        BY <1>2, <2>1, RowsKept, MindsKept DEF Reach
<1>3. CASE \E b \in Batches : Land(b)
    BY <1>2, <1>3 DEF Land, Transfers
<1>4. CASE \E s \in Singles : SingleSale(s)
    BY <1>2, <1>4 DEF SingleSale, Transfers
<1>5. CASE \E o \in Offers : Detach(o) \/ Reattach(o)
    <2>1. RowsOK'
        BY <1>5 DEF Detach, Reattach, RowsOK, RowsTypeOK, SerialsBounded, tables
    <2>2. HederaTypeOK'
        BY <1>5, BatchTyping DEF Detach, Reattach, Fault, HederaTypeOK, hedera
    <2>3. QED
        BY <1>5, <2>1, <2>2, MindsKept DEF Detach, Reattach
<1>6. QED
    BY <1>1, <1>3, <1>4, <1>5

LEMMA ShapeNext == Shape /\ [Next]_vars => Shape'
<1> SUFFICES ASSUME Shape, [Next]_vars
             PROVE  Shape'
    OBVIOUS
<1>1. CASE Next
    BY <1>1, BatchTyping, ShapeRequest, ShapeReaper, ShapeShared, ShapeWorld DEF Next
<1>2. CASE UNCHANGED vars
    BY <1>2, RowsKept, MindsKept, HederaKept DEF vars, Shape
<1>3. QED
    BY <1>1, <1>2

LEMMA ShapeAlways == Spec => []Shape
    BY ShapeInit, ShapeNext, PTL DEF Spec

\* The tables, the memories and Hedera's ledger are well typed in every state.
THEOREM BatchTypeCorrect == Spec => []BatchTypeOK
<1>1. Shape => BatchTypeOK
    BY DEF Shape, RowsOK, MindsOK, BatchTypeOK
<1>2. QED
    BY <1>1, ShapeAlways, PTL

-----------------------------------------------------------------------------
(* One fate.  The Reaper writes none of the rows of a batch in Left, every *)
(* request writes all of them in one transaction, and what deliver finds   *)
(* in its memory is not older than its batch's settling.                   *)

\* Nothing is written that OneFate looks at.
Untouched ==
    \A b \in Left :
        /\ batch'[b].status = batch[b].status /\ batch'[b].tx = batch[b].tx
        /\ \A c \in Kids(b) :
            child'[c] = child[c] /\ (c \in booked' <=> c \in booked) /\ serial'[c] = serial[c]

LEMMA FateUntouched == OneFate /\ Untouched => OneFate'
    BY DEF OneFate, SharesFate, Untouched, Kids

LEMMA FateMoveAll ==
    ASSUME Shape, OneFate, NEW b \in Batches, NEW s, NEW tx, MoveAll(b, s, tx),
           booked' \in {booked, booked \cup Kids(b)}, UNCHANGED serial
    PROVE  OneFate'
<1> USE DEF Shape, RowsOK, RowsTypeOK, Kids
<1>1. \A d \in Batches \ {b} : batch'[d] = batch[d]
    BY DEF MoveAll
<1>2. batch'[b].status = s /\ batch'[b].tx = IF tx = None THEN batch[b].tx ELSE tx
    BY DEF MoveAll
<1>3. \A c \in Children : child'[c] =
          IF BatchOf[c] # b THEN child[c]
          ELSE [status |-> s, tx |-> IF tx = None THEN child[c].tx ELSE tx]
    BY DEF MoveAll
<1>4. \A c \in Kids(b) : c \in booked' \/ (booked' = booked)
    OBVIOUS
<1>5. ASSUME NEW d \in Left, d # b
      PROVE  SharesFate(d)'
    <2>1. SharesFate(d) /\ d \in Batches /\ batch'[d] = batch[d]
        BY <1>1, <1>5 DEF OneFate, Left
    <2>2. \A c \in Kids(d) : child'[c] = child[c] /\ (c \in booked' <=> c \in booked)
        BY <1>3, <1>5
    <2>3. QED
        BY <2>1, <2>2 DEF SharesFate
<1>6. ASSUME b \in Left
      PROVE  SharesFate(b)'
    <2>1. SharesFate(b)
        BY <1>6 DEF OneFate
    <2>2. \A c \in Kids(b) : child'[c] = [status |-> s, tx |-> batch'[b].tx]
        <3>1. \A c \in Kids(b) : child[c].tx = batch[b].tx
            BY <2>1 DEF SharesFate
        <3>2. \A c \in Kids(b) :
                  child'[c] = [status |-> s, tx |-> IF tx = None THEN child[c].tx ELSE tx]
            BY <1>3
        <3>3. ASSUME NEW c \in Kids(b)
              PROVE  (IF tx = None THEN child[c].tx ELSE tx) = batch'[b].tx
            BY <1>2, <3>1
        <3>4. QED
            BY <3>2, <3>3
    <2>3. Kids(b) \subseteq booked' \/ Kids(b) \cap booked' = {}
        BY <2>1 DEF SharesFate
    <2>4. QED
        BY <1>2, <2>1, <2>2, <2>3 DEF SharesFate
<1>7. QED
    BY <1>5, <1>6 DEF OneFate, Left

LEMMA FateFailBatch ==
    ASSUME Shape, OneFate, NEW r \in Requests, on[r] \in Batches,
           NEW s \in STATUSES, FailBatch(r, s), UNCHANGED <<booked, serial>>
    PROVE  OneFate'
<1> USE DEF Shape, RowsOK, RowsTypeOK, Kids
<1> DEFINE b == on[r]
<1>1. \A d \in Batches : /\ batch'[d].tx = batch[d].tx
                          /\ batch'[d].status = IF d = b THEN s ELSE batch[d].status
    BY DEF FailBatch
<1>2. \A c \in Children : child'[c] =
          IF BatchOf[c] = b THEN [status |-> s, tx |-> child[c].tx] ELSE child[c]
    BY DEF FailBatch
<1>3. ASSUME NEW d \in Left
      PROVE  SharesFate(d)'
    <2>1. SharesFate(d) /\ d \in Batches
        BY DEF OneFate, Left
    <2>2. \A c \in Kids(d) :
              child'[c] = [status |-> batch'[d].status, tx |-> batch'[d].tx]
        <3>1. \A c \in Kids(d) : c \in Children /\ BatchOf[c] = d
            OBVIOUS
        <3>2. \A c \in Kids(d) : child[c] = [status |-> batch[d].status, tx |-> batch[d].tx]
            BY <2>1 DEF SharesFate
        <3>3. \A c \in Kids(d) : child[c].tx = batch[d].tx
            BY <3>2
        <3>4. CASE d = b
            BY <1>1, <1>2, <2>1, <3>1, <3>3, <3>4
        <3>5. CASE d # b
            BY <1>1, <1>2, <2>1, <3>1, <3>2, <3>5
        <3>6. QED
            BY <3>4, <3>5
    <2>3. QED
        BY <2>1, <2>2 DEF SharesFate
<1>4. QED
    BY <1>3 DEF OneFate, Left

\* A child is delivered unless the request remembers it as delivered: then it
\* has loaded the children within this very transaction.
LEMMA FateDeliver ==
    ASSUME Shape, OneFate, NEW r \in Requests, Deliver(r)
    PROVE  OneFate'
<1> DEFINE b == on[r]
<1>1. b \in Batches
    BY DEF Shape, MindsOK, MemoryTypeOK, Deliver
<1>2. \A c \in Kids(b) : Allotted(b)[c] # 0
    BY <1>1, AllottedType DEF Shape
<1>3. \A c \in Kids(b) : Loaded(r)[c] # "delivered" \/ child[c].status = "delivered"
    BY DEF Loaded, Deliver, Shape, MindsOK, Memory
<1>4. /\ batch'[b].tx = batch[b].tx /\ batch'[b].status = "delivered"
      /\ \A d \in Batches \ {b} : batch'[d] = batch[d]
    BY <1>1 DEF Deliver, Shape, RowsOK, RowsTypeOK
<1>5. \A c \in Kids(b) : child'[c] = [status |-> "delivered", tx |-> child[c].tx]
    <2> TAKE c \in Kids(b)
    <2>1. c \in Children /\ BatchOf[c] = b
        BY DEF Kids
    <2>2. child[c] = [status |-> child[c].status, tx |-> child[c].tx]
        BY <2>1 DEF Shape, RowsOK, RowsTypeOK
    <2>3. child'[c] = IF Loaded(r)[c] # "delivered"
                      THEN [child[c] EXCEPT !.status = "delivered"] ELSE child[c]
        BY <2>1 DEF Deliver
    <2>4. QED
        BY <1>3, <2>2, <2>3
<1>6. \A c \in Children : serial'[c] = IF BatchOf[c] = b THEN Allotted(b)[c] ELSE serial[c]
    BY DEF Deliver
<1>7. \A c \in Children : BatchOf[c] # b => child'[c] = child[c]
    BY DEF Deliver
<1>8. booked' = booked
    BY DEF Deliver
<1>9. ASSUME NEW d \in Left
      PROVE  SharesFate(d)'
    <2>1. SharesFate(d) /\ d \in Batches
        BY DEF OneFate, Left
    <2>2. \A c \in Kids(d) : c \in Children /\ BatchOf[c] = d
        BY DEF Kids
    <2>3. \A c \in Kids(d) :
              child'[c] = [status |-> batch'[d].status, tx |-> batch'[d].tx]
        <3>1. CASE d = b
            BY <1>4, <1>5, <2>1, <3>1 DEF SharesFate
        <3>2. CASE d # b
            BY <1>4, <1>7, <2>1, <2>2, <3>2 DEF SharesFate
        <3>3. QED
            BY <3>1, <3>2
    <2>4. \A c, e \in Kids(d) : serial'[c] # 0 => serial'[e] # 0
        BY <1>2, <1>6, <2>1, <2>2 DEF SharesFate
    <2>5. QED
        BY <1>8, <2>1, <2>3, <2>4 DEF SharesFate
<1>10. QED
    BY <1>9 DEF OneFate, Left

LEMMA FateReaper ==
    ASSUME Shape, OneFate, ReaperStep
    PROVE  OneFate'
<1> USE DEF Shape
<1>1. CASE \E d \in Children : SweepNext(d)
    BY <1>1, FateUntouched DEF SweepNext, tables, Untouched
<1>2. CASE ReapSkipped
    BY <1>2, FateUntouched DEF ReapSkipped, tables, Untouched
<1>3. CASE RollForward \/ RecordSale \/ Allocate \/ Finish \/ ReapStale
    <2>1. on[Reaper] \in Aged
        BY <1>3 DEF RollForward, RecordSale, Allocate, Finish, ReapStale, MindsOK,
            ReaperAway
    <2>2. \A c \in Children \ {on[Reaper]} :
              child'[c] = child[c] /\ (c \in booked' <=> c \in booked) /\ serial'[c] = serial[c]
        BY <1>3 DEF RollForward, RecordSale, Allocate, Finish, ReapStale, RowsOK,
            RowsTypeOK
    <2>3. batch' = batch
        BY <1>3 DEF RollForward, RecordSale, Allocate, Finish, ReapStale
    <2>4. Untouched
        BY <2>1, <2>2, <2>3 DEF Untouched, Left, Kids
    <2>5. QED
        BY <2>4, FateUntouched
<1>4. QED
    BY <1>1, <1>2, <1>3 DEF ReaperStep

LEMMA FateRequest ==
    ASSUME Shape, OneFate, NEW r \in Requests, RequestStep(r)
    PROVE  OneFate'
<1>1. pc[r] # "idle" => on[r] \in Batches
    BY DEF Shape, MindsOK, MemoryTypeOK
<1>2. CASE /\ UNCHANGED <<child, booked, serial>>
           /\ \A b \in Batches :
                batch'[b].status = batch[b].status /\ batch'[b].tx = batch[b].tx
    BY <1>2, FateUntouched DEF Untouched, Left
<1>3. CASE ReserveRefused(r) \/ ReserveLostRace(r) \/ Replay(r) \/ SubmitSettle(r)
           \/ MirrorMiss(r) \/ RollBack(r) \/ DeliverRolledBack(r) \/ Enqueue(r)
    BY <1>2, <1>3 DEF ReserveRefused, ReserveLostRace, Replay, SubmitSettle,
        MirrorMiss, RollBack, DeliverRolledBack, Enqueue, tables
<1>4. CASE ReplayAnswered(r) \/ FacilitatorUnavailable(r) \/ Undeliverable(r)
    <2>1. \A b \in Batches :
              batch'[b].status = batch[b].status /\ batch'[b].tx = batch[b].tx
        BY <1>4 DEF ReplayAnswered, FacilitatorUnavailable, Undeliverable, Shape,
            RowsOK, RowsTypeOK
    <2>2. QED
        BY <1>2, <1>4, <2>1
           DEF ReplayAnswered, FacilitatorUnavailable, Undeliverable
<1>5. CASE Reserve(r) \/ VerifyValid(r)
    BY <1>1, <1>5, FateMoveAll DEF Reserve, VerifyValid
<1>6. CASE VerifyInvalid(r) \/ SettleRefused(r)
    BY <1>1, <1>6, FateFailBatch DEF VerifyInvalid, SettleRefused, STATUSES, Failed
<1>7. CASE SettleSucceeded(r) \/ MirrorHit(r)
    BY <1>1, <1>7, FateMoveAll DEF SettleSucceeded, MirrorHit, SettleSuccess
<1>8. CASE Deliver(r)
    BY <1>8, FateDeliver
<1>9. QED
    BY <1>3, <1>4, <1>5, <1>6, <1>7, <1>8 DEF RequestStep

LEMMA FateNext == Shape /\ OneFate /\ [Next]_vars => OneFate'
<1> SUFFICES ASSUME Shape, OneFate, [Next]_vars
             PROVE  OneFate'
    OBVIOUS
<1>1. CASE \E r \in Requests : RequestStep(r)
    BY <1>1, FateRequest
<1>2. CASE ReaperStep
    BY <1>2, FateReaper
<1>3. CASE UNCHANGED tables
    BY <1>3, FateUntouched DEF tables, Untouched
<1>4. QED
    BY <1>1, <1>2, <1>3
       DEF Next, Arrive, Load, Crash, MirrorCatchUp, Land, Expire, SingleSale,
           Reach, Detach, Reattach, vars

LEMMA FateInit == BatchInit => OneFate
    BY BatchTyping DEF BatchInit, OneFate, SharesFate, Left, Kids

\* A batch that is left to the requests is one thing: its rows agree, and it is
\* booked and licensed as a whole or not at all.
THEOREM BatchHasOneFate == Spec => []OneFate
    BY FateInit, FateNext, ShapeAlways, PTL DEF Spec

-----------------------------------------------------------------------------
(* The money.  A batch gets its transaction id only from SettleSuccess,    *)
(* which takes none that another batch has.                                *)

TxBacked ==
    \A b \in Batches : batch[b].tx # None =>
        /\ consensus[batch[b].tx] > 0
        /\ Amount[batch[b].tx] = Amount[b]
        /\ \A d \in Batches \ {b} : batch[d].tx # batch[b].tx

BookedHasTx == \A b \in Left : Kids(b) \cap booked # {} => batch[b].tx # None

MoneyInv == TxBacked /\ BookedHasTx

\* No batch gets a transaction id, and no child of a batch in Left is booked.
LEMMA MoneyKept ==
    ASSUME Shape, MoneyInv,
           \A b \in Batches : batch'[b].tx = batch[b].tx,
           \A c \in Children : BatchOf[c] \in Left => (c \in booked' <=> c \in booked),
           \A t \in Transfers : consensus[t] > 0 => consensus'[t] > 0
    PROVE  MoneyInv'
<1>1. \A b \in Batches : batch[b].tx # None => batch[b].tx \in Transfers
    BY DEF Shape, RowsOK, RowsTypeOK
<1>2. TxBacked'
    BY <1>1 DEF MoneyInv, TxBacked
<1>3. BookedHasTx'
    BY DEF MoneyInv, BookedHasTx, Left, Kids
<1>4. QED
    BY <1>2, <1>3 DEF MoneyInv

LEMMA MoneySettleSuccess ==
    ASSUME Shape, MoneyInv, NEW r \in Requests, on[r] \in Batches,
           NEW tx \in Transfers, consensus[tx] > 0, Amount[tx] = Amount[on[r]],
           SettleSuccess(r, tx)
    PROVE  MoneyInv'
<1> DEFINE b == on[r]
<1>1. /\ batch'[b].tx = tx
      /\ \A d \in Batches \ {b} : batch'[d] = batch[d] /\ batch[d].tx # tx
    <2>1. batch \in [Batches -> BatchRows] /\ tx # None
        BY RowsTyped, BatchTyping DEF Shape
    <2>2. batch' = [batch EXCEPT ![b].status = "settled",
                                ![b].tx = IF tx = None THEN @ ELSE tx]
        BY DEF SettleSuccess, MoveAll
    <2>3. \A d \in Batches \ {b} : batch[d].tx # tx
        BY DEF SettleSuccess, TxTaken
    <2>4. QED
        BY ONLY <2>1, <2>2, <2>3, b \in Batches DEF BatchRows
<1>2. consensus' = consensus /\ booked' = booked \cup Kids(b)
    BY DEF SettleSuccess, hedera
<1>3. tx # None
    BY BatchTyping
<1>4. TxBacked'
    BY <1>1, <1>2, <1>3 DEF MoneyInv, TxBacked
<1>5. BookedHasTx'
    <2> SUFFICES ASSUME NEW d \in Left, Kids(d) \cap booked' # {}
                 PROVE  batch'[d].tx # None
        BY DEF BookedHasTx
    <2>1. CASE d = b
        BY <1>1, <1>3, <2>1
    <2>2. CASE d # b
        BY <1>1, <1>2, <2>2 DEF MoneyInv, BookedHasTx, Left, Kids
    <2>3. QED
        BY <2>1, <2>2
<1>6. QED
    BY <1>4, <1>5 DEF MoneyInv

LEMMA MoneyRequest ==
    ASSUME Shape, MoneyInv, NEW r \in Requests, RequestStep(r)
    PROVE  MoneyInv'
<1>1. pc[r] # "idle" => on[r] \in Batches
    BY DEF Shape, MindsOK, MemoryTypeOK
<1>2. CASE SettleSucceeded(r)
    BY <1>1, <1>2, MoneySettleSuccess DEF SettleSucceeded, Transfers
<1>3. CASE MirrorHit(r)
    <2> DEFINE t == FirstOf(BatchCredits(r))
    <2>1. t \in BatchCredits(r)
        BY <1>3, FirstOfType DEF MirrorHit, BatchCredits, Shape
    <2>2. t \in Transfers /\ since[on[r]] < consensus[t] /\ Amount[t] = Amount[on[r]]
        BY <2>1 DEF BatchCredits, Credits
    <2>3. on[r] \in Batches /\ consensus[t] > 0
        BY <1>1, <1>3, <2>2 DEF MirrorHit, Shape, RowsOK, RowsTypeOK, HederaTypeOK
    <2>4. QED
        BY <1>3, <2>2, <2>3, MoneySettleSuccess DEF MirrorHit
<1>4. CASE ~SettleSucceeded(r) /\ ~MirrorHit(r)
    <2>1. \A b \in Batches : batch'[b].tx = batch[b].tx
        <3> DEFINE d == on[r]
        <3>1. batch \in [Batches -> BatchRows]
            BY RowsTyped DEF Shape
        <3>2. CASE Reserve(r) \/ VerifyValid(r)
            <4>1. PICK s : batch' = [batch EXCEPT ![d].status = s,
                                                 ![d].tx = IF None = None THEN @ ELSE None]
                BY ONLY <3>2 DEF Reserve, VerifyValid, MoveAll
            <4>2. QED
                BY ONLY <3>1, <4>1 DEF BatchRows
        <3>3. CASE VerifyInvalid(r) \/ SettleRefused(r)
            <4>1. PICK s : batch' = [batch EXCEPT ![d].status = s, ![d].waits = FALSE]
                BY ONLY <3>3 DEF VerifyInvalid, SettleRefused, FailBatch
            <4>2. QED
                BY ONLY <3>1, <4>1 DEF BatchRows
        <3>4. CASE ReplayAnswered(r)
            BY ONLY <3>1, <3>4 DEF ReplayAnswered, BatchRows
        <3>5. CASE FacilitatorUnavailable(r) \/ Undeliverable(r)
            <4>1. PICK w : batch' = [batch EXCEPT ![d].waits = w]
                BY ONLY <3>5 DEF FacilitatorUnavailable, Undeliverable
            <4>2. QED
                BY ONLY <3>1, <4>1 DEF BatchRows
        <3>6. CASE Deliver(r)
            <4>1. batch' = [batch EXCEPT ![d].status = "delivered"]
                BY ONLY <3>6 DEF Deliver
            <4>2. QED
                BY ONLY <3>1, <4>1 DEF BatchRows
        <3>7. CASE UNCHANGED batch
            BY ONLY <3>7
        <3>8. QED
            BY <1>4, <3>2, <3>3, <3>4, <3>5, <3>6, <3>7
               DEF RequestStep, ReserveRefused, ReserveLostRace, Replay, SubmitSettle,
                   MirrorMiss, RollBack, DeliverRolledBack, Enqueue, tables
    <2>2. booked' = booked /\ consensus' = consensus
        BY <1>4 DEF RequestStep, ReserveRefused, ReserveLostRace, Reserve, Replay,
            ReplayAnswered, VerifyValid, VerifyInvalid, FacilitatorUnavailable,
            SubmitSettle, SettleRefused, MirrorMiss, RollBack, Undeliverable,
            Deliver, DeliverRolledBack, Enqueue, tables, hedera
    <2>3. QED
        BY <2>1, <2>2, MoneyKept
<1>5. QED
    BY <1>2, <1>3, <1>4

LEMMA MoneyNext == Shape /\ MoneyInv /\ [Next]_vars => MoneyInv'
<1> SUFFICES ASSUME Shape, MoneyInv, [Next]_vars
             PROVE  MoneyInv'
    OBVIOUS
<1>1. CASE \E r \in Requests : RequestStep(r)
    BY <1>1, MoneyRequest
<1>2. CASE ReaperStep
    <2>1. batch' = batch /\ consensus' = consensus
        BY <1>2 DEF ReaperStep, SweepNext, RollForward, RecordSale, Allocate,
            Finish, ReapStale, ReapSkipped, tables, hedera
    <2>2. \/ booked' = booked
          \/ booked' = booked \cup {on[Reaper]} /\ on[Reaper] \in Aged
        <3>1. CASE RecordSale
            BY <3>1 DEF RecordSale, Shape, MindsOK, ReaperAway
        <3>2. CASE ~RecordSale
            BY <1>2, <3>2 DEF ReaperStep, SweepNext, RollForward, Allocate,
                Finish, ReapStale, ReapSkipped, tables
        <3>3. QED
            BY <3>1, <3>2
    <2>3. \A c \in Children : BatchOf[c] \in Left => (c \in booked' <=> c \in booked)
        BY <2>2 DEF Left, Kids
    <2>4. QED
        BY <2>1, <2>3, MoneyKept
<1>3. CASE /\ UNCHANGED tables
           /\ \A t \in Transfers : consensus[t] > 0 => consensus'[t] > 0
    BY <1>3, MoneyKept DEF tables
<1>4. ASSUME NEW t \in Transfers, Reach(t)
      PROVE  \A u \in Transfers : consensus[u] > 0 => consensus'[u] > 0
    BY <1>4 DEF Reach, Shape, HederaTypeOK
<1>5. CASE \/ \E b \in Batches : Land(b)
           \/ \E s \in Singles : SingleSale(s)
    BY <1>3, <1>4, <1>5 DEF Land, SingleSale, Reach, Transfers
<1>6. QED
    BY <1>1, <1>2, <1>3, <1>5
       DEF Next, Arrive, Load, Crash, MirrorCatchUp, Expire, Detach, Reattach,
           vars, hedera

\* What a batch is booked on is one transfer that happened, of the sum of what
\* its children cost, and no other batch is booked on it.
THEOREM BatchIsBacked == Spec => []BatchBacked
<1>1. BatchInit => MoneyInv
    BY DEF BatchInit, MoneyInv, TxBacked, BookedHasTx
<1>2. OneFate /\ MoneyInv => BatchBacked
    <2> SUFFICES ASSUME OneFate, MoneyInv, NEW b \in Left, Kids(b) \cap booked # {}
                 PROVE  /\ consensus[batch[b].tx] > 0
                        /\ Amount[batch[b].tx] =
                               MapThenSumSet(LAMBDA c : Amount[c], Kids(b) \cap booked)
                        /\ \A d \in Batches \ {b} : batch[d].tx # batch[b].tx
        BY DEF BatchBacked
    <2>1. b \in Batches /\ batch[b].tx # None
        BY DEF MoneyInv, BookedHasTx, Left
    <2>2. Kids(b) \cap booked = Kids(b)
        BY DEF OneFate, SharesFate
    <2>3. Amount[b] = MapThenSumSet(LAMBDA c : Amount[c], Kids(b))
        BY <2>1, BatchShares
    <2>4. QED
        BY <2>1, <2>2, <2>3 DEF MoneyInv, TxBacked
<1>3. QED
    BY <1>1, <1>2, MoneyNext, ShapeAlways, BatchHasOneFate, PTL DEF Spec

-----------------------------------------------------------------------------
(* Room.  A serial is never greater than the number of licences there are, *)
(* and while one actor at a time works on a batch, what it remembers of    *)
(* the rows is what they say: then nothing comes into use except by a      *)
(* reservation that asked for room, and whatever is licensed is in use.    *)

Licensed(o) == {c \in Children : OfferOf[c] = o /\ serial[c] # 0}
InUse(o)    == {c \in Children : OfferOf[c] = o /\ child[c].status \notin Failed \cup {"none"}}

Counted == \A c \in Children : serial[c] <= Cardinality(Licensed(OfferOf[c]))

ByReaper(c) == pc[Reaper] # "idle" /\ on[Reaper] = c

\* A batch is in the hands of one request, or its children in the Reaper's.
Apart ==
    /\ \A r, q \in Requests : on[r] = on[q] /\ on[r] \in Batches => r = q
    /\ \A r \in Requests, c \in Children : on[r] = BatchOf[c] => sweep[c] = "none"
    /\ pc[Reaper] # "idle" => sweep[on[Reaper]] # "none"

\* What they remember is true.
Remembered ==
    /\ \A r \in Requests : \A c \in DOMAIN kids[r] : kids[r][c] = child[c].status
    /\ \A c \in Children : sweep[c] # "none" /\ ~ByReaper(c) => sweep[c] = child[c].status
    /\ \A c \in Children : ByReaper(c) =>
        IF pc[Reaper] \in {"mirror", "record"}
        THEN child[c].status = seen[Reaper] /\ seen[Reaper] \in InFlight
        ELSE child[c].status = "settled"

Rows ==
    /\ \A c \in Children : batch[BatchOf[c]].status = "none" <=> child[c].status = "none"
    /\ \A c \in Children : serial[c] # 0 => child[c].status \in {"settled", "delivered"}

Roomy == \A o \in Offers : Cardinality(InUse(o)) <= MaxUnits[o]

\* Beyond the reservation there is a batch.
Begun ==
    \A r \in Requests : pc[r] \notin {"idle", "reserve"} => batch[on[r]].status # "none"

Quiet == Apart /\ Remembered /\ Begun /\ Rows /\ Roomy

LEMMA LastSerialGreatest ==
    ASSUME RowsOK, NEW o \in Offers
    PROVE  /\ LastSerial(o) \in Nat
           /\ \A c \in Children : OfferOf[c] = o => serial[c] <= LastSerial(o)
           /\ \/ LastSerial(o) = 0
              \/ \E c \in Children : OfferOf[c] = o /\ serial[c] = LastSerial(o)
<1> DEFINE T == {0} \cup {serial[c] : c \in {d \in Children : OfferOf[d] = o}}
<1>1. T \in SUBSET Nat /\ T # {} /\ \A x \in T : x <= MaxUnits[o]
    BY BatchTyping DEF RowsOK, RowsTypeOK, SerialsBounded
<1>2. MaxUnits[o] \in Nat
    BY BatchTyping
<1>3. Max(T) \in T /\ \A x \in T : x <= Max(T)
    BY <1>1, <1>2, MaxNat
<1>4. LastSerial(o) = Max(T)
    BY DEF LastSerial
<1>5. QED
    BY <1>1, <1>3, <1>4

\* The children of b that get their serial with c, up to c itself.
UpTo(b, c) == {d \in Kids(b) : /\ OfferOf[d] = OfferOf[c]
                               /\ serial[d] = 0
                               /\ Position[d] <= Position[c]}

\* The serial that a child is to get is counted already, with those before it.
LEMMA AllottedCounted ==
    ASSUME RowsOK, Counted, NEW b \in Batches, NEW c \in Kids(b), serial[c] = 0
    PROVE  Allotted(b)[c] <= Cardinality(Licensed(OfferOf[c]) \cup UpTo(b, c))
<1> DEFINE o == OfferOf[c]
<1>1. c \in Children /\ o \in Offers
    BY BatchTyping DEF Kids
<1>2. IsFiniteSet(Licensed(o)) /\ IsFiniteSet(UpTo(b, c))
    BY BatchTyping, FS_Subset DEF Licensed, UpTo, Kids
<1>3. Licensed(o) \cap UpTo(b, c) = {}
    BY DEF Licensed, UpTo
<1>4. Cardinality(Licensed(o) \cup UpTo(b, c)) =
          Cardinality(Licensed(o)) + Cardinality(UpTo(b, c))
    <2>1. Cardinality({}) = 0
        BY FS_EmptySet
    <2>2. Cardinality(Licensed(o)) \in Nat /\ Cardinality(UpTo(b, c)) \in Nat
        BY <1>2, FS_CardinalityType
    <2>3. Cardinality(Licensed(o) \cup UpTo(b, c)) =
              Cardinality(Licensed(o)) + Cardinality(UpTo(b, c))
                  - Cardinality(Licensed(o) \cap UpTo(b, c))
        BY ONLY <1>2, FS_Union
    <2>4. Cardinality(Licensed(o) \cap UpTo(b, c)) = 0
        BY ONLY <1>3, <2>1, Zenon
    <2>5. QED
        BY ONLY <2>2, <2>3, <2>4
<1>5. LastSerial(o) <= Cardinality(Licensed(o))
    <2>1. Cardinality(Licensed(o)) \in Nat
        BY <1>2, FS_CardinalityType
    <2>2. CASE LastSerial(o) = 0
        BY <2>1, <2>2
    <2>3. ASSUME NEW d \in Children, OfferOf[d] = o, serial[d] = LastSerial(o)
          PROVE  LastSerial(o) <= Cardinality(Licensed(o))
        BY <2>3 DEF Counted
    <2>4. QED
        BY <1>1, <2>2, <2>3, LastSerialGreatest
<1>6. Allotted(b)[c] = LastSerial(o) + Cardinality(UpTo(b, c))
    BY DEF Allotted, UpTo
<1>7. LastSerial(o) \in Nat /\ Cardinality(Licensed(o)) \in Nat
      /\ Cardinality(UpTo(b, c)) \in Nat
    BY <1>1, <1>2, FS_CardinalityType, LastSerialType
<1>8. QED
    BY <1>4, <1>5, <1>6, <1>7

\* A licence is given to those children only that have none.
LEMMA CountedGrows ==
    ASSUME RowsOK, Counted,
           \A c \in Children : serial[c] # 0 => serial'[c] = serial[c],
           \A c \in Children : serial'[c] # serial[c] =>
               serial'[c] <= Cardinality(Licensed(OfferOf[c]))'
    PROVE  Counted'
<1> SUFFICES ASSUME NEW c \in Children
             PROVE  serial'[c] <= Cardinality(Licensed(OfferOf[c])')
    BY DEF Counted
<1> DEFINE o == OfferOf[c]
<1>1. CASE serial'[c] # serial[c]
    BY <1>1
<1>2. CASE serial'[c] = serial[c]
    <2>1. Licensed(o) \subseteq Licensed(o)'
        BY DEF Licensed
    <2>2. IsFiniteSet(Licensed(o)')
        BY BatchTyping, FS_Subset DEF Licensed
    <2>3. /\ Cardinality(Licensed(o)) <= Cardinality(Licensed(o)')
          /\ Cardinality(Licensed(o)) \in Nat /\ Cardinality(Licensed(o)') \in Nat
        BY <2>1, <2>2, FS_Subset, FS_CardinalityType
    <2>4. serial[c] \in Nat /\ serial[c] <= Cardinality(Licensed(o))
        BY RowsTyped DEF Counted
    <2>5. QED
        BY ONLY <1>2, <2>3, <2>4
<1>3. QED
    BY <1>1, <1>2

LEMMA CountedDeliver ==
    ASSUME Shape, Counted, NEW r \in Requests, Deliver(r)
    PROVE  Counted'
<1> DEFINE b == on[r]
<1>1. b \in Batches /\ RowsOK
    BY DEF Shape, MindsOK, MemoryTypeOK, Deliver
<1>2. \A c \in Children : serial'[c] = IF BatchOf[c] = b THEN Allotted(b)[c] ELSE serial[c]
    BY DEF Deliver
<1>3. \A c \in Children : serial[c] # 0 => serial'[c] = serial[c]
    BY ONLY <1>2 DEF Allotted, Kids
<1>4. ASSUME NEW c \in Children, serial'[c] # serial[c]
      PROVE  serial'[c] <= Cardinality(Licensed(OfferOf[c]))'
    <2> DEFINE S == Licensed(OfferOf[c]) \cup UpTo(b, c)
    <2>1. c \in Kids(b) /\ serial[c] = 0 /\ serial'[c] = Allotted(b)[c]
        BY ONLY <1>2, <1>3, <1>4 DEF Kids
    <2>2. serial'[c] <= Cardinality(S)
        BY ONLY Counted, <1>1, <2>1, AllottedCounted
    <2>3. S \subseteq Licensed(OfferOf[c])'
        <3>1. \A d \in UpTo(b, c) : serial'[d] # 0
            <4>1. \A d \in UpTo(b, c) : d \in Kids(b) /\ d \in Children /\ BatchOf[d] = b
                BY DEF UpTo, Kids
            <4>2. QED
                BY ONLY <1>1, <1>2, <4>1, AllottedType
        <3>2. QED
            BY <1>3, <3>1 DEF Licensed, UpTo, Kids
    <2>4. IsFiniteSet(Licensed(OfferOf[c])')
        BY BatchTyping, FS_Subset DEF Licensed
    <2>5. /\ Cardinality(S) <= Cardinality(Licensed(OfferOf[c])')
          /\ Cardinality(S) \in Nat /\ Cardinality(Licensed(OfferOf[c])') \in Nat
        <3> HIDE DEF S
        <3>1. QED
            BY <2>3, <2>4, FS_Subset, FS_CardinalityType
    <2>6. serial'[c] \in Nat
        BY ONLY <1>1, <2>1, AllottedType
    <2>7. QED
        BY ONLY <2>2, <2>5, <2>6
<1>5. QED
    BY ONLY Counted, <1>1, <1>3, <1>4, CountedGrows

LEMMA CountedAllocate ==
    ASSUME Shape, Counted, Allocate
    PROVE  Counted'
<1>0. PICK c \in Children : c = on[Reaper]
    BY BatchTyping DEF Shape, MindsOK, ReaperAway, Allocate
<1> DEFINE o == OfferOf[c]
<1>1. RowsOK /\ c \in Children /\ o \in Offers /\ serial[c] \in Nat
    BY BatchTyping, RowsTyped DEF Shape
<1>2. CASE UNCHANGED serial
    BY <1>1, <1>2 DEF Counted, Licensed
<1>3. CASE serial[c] = 0 /\ serial' = [serial EXCEPT ![c] = LastSerial(o) + 1]
    <2>1. serial \in [Children -> Nat] /\ LastSerial(o) \in Nat
        BY ONLY <1>1, RowsTyped, LastSerialType
    <2>2. /\ serial'[c] = LastSerial(o) + 1
          /\ \A d \in Children \ {c} : serial'[d] = serial[d]
        BY ONLY <1>1, <1>3, <2>1
    <2>3. Licensed(o)' = Licensed(o) \cup {c} /\ c \notin Licensed(o)
        BY ONLY <1>1, <1>3, <2>1, <2>2 DEF Licensed
    <2>4. IsFiniteSet(Licensed(o))
        BY BatchTyping, FS_Subset DEF Licensed
    <2>5. /\ Cardinality(Licensed(o)') = Cardinality(Licensed(o)) + 1
          /\ Cardinality(Licensed(o)) \in Nat
        BY ONLY <2>3, <2>4, FS_AddElement, FS_CardinalityType
    <2>6. LastSerial(o) <= Cardinality(Licensed(o))
        BY ONLY Counted, <1>1, <2>1, <2>5, LastSerialGreatest DEF Counted
    <2>7. serial'[c] <= Cardinality(Licensed(o)')
        BY ONLY <2>1, <2>2, <2>5, <2>6
    <2>8. \A d \in Children : serial[d] # 0 => serial'[d] = serial[d]
        BY ONLY <1>3, <2>2
    <2>9. \A d \in Children : serial'[d] # serial[d] =>
              serial'[d] <= Cardinality(Licensed(OfferOf[d]))'
        BY ONLY <2>2, <2>7
    <2>10. QED
        BY ONLY Counted, <1>1, <2>8, <2>9, CountedGrows
<1>4. QED
    BY <1>0, <1>2, <1>3 DEF Allocate

LEMMA CountedNext == Shape /\ Counted /\ [Next]_vars => Counted'
<1> SUFFICES ASSUME Shape, Counted, [Next]_vars
             PROVE  Counted'
    OBVIOUS
<1>1. CASE \E r \in Requests : Deliver(r)
    BY <1>1, CountedDeliver
<1>2. CASE Allocate
    BY <1>2, CountedAllocate
<1>3. CASE UNCHANGED serial
    BY <1>3 DEF Counted, Licensed
<1>4. UNCHANGED serial \/ (\E r \in Requests : Deliver(r)) \/ Allocate
    <2>1. CASE \E r \in Requests : RequestStep(r)
        BY <2>1 DEF RequestStep, ReserveRefused, ReserveLostRace, Reserve, Replay,
            ReplayAnswered, VerifyValid, VerifyInvalid, FacilitatorUnavailable,
            SubmitSettle, SettleRefused, SettleSucceeded, SettleSuccess, MirrorHit,
            MirrorMiss, RollBack, Undeliverable, DeliverRolledBack, Enqueue, tables
    <2>2. CASE ReaperStep
        BY <2>2 DEF ReaperStep, SweepNext, RollForward, RecordSale, Finish,
            ReapStale, ReapSkipped, tables
    <2>3. QED
        BY <2>1, <2>2
           DEF Next, Arrive, Load, Crash, MirrorCatchUp, Land, Expire, SingleSale,
               Reach, Detach, Reattach, vars, tables
<1>5. QED
    BY <1>1, <1>2, <1>3, <1>4

LEMMA CountedAlways == Spec => []Counted
<1>1. BatchInit => Counted
    <2> SUFFICES ASSUME BatchInit PROVE Counted
        OBVIOUS
    <2>1. \A c \in Children : serial[c] = 0
        BY DEF BatchInit
    <2>2. \A o \in Offers : IsFiniteSet(Licensed(o))
        BY BatchTyping, FS_Subset DEF Licensed
    <2>3. \A o \in Offers : Cardinality(Licensed(o)) \in Nat
        BY <2>2, FS_CardinalityType
    <2>4. QED
        BY <2>1, <2>3, BatchTyping DEF Counted
<1>2. QED
    BY <1>1, CountedNext, ShapeAlways, PTL DEF Spec

\* A request leaves the Reaper and the other requests alone.
OwnMind(r) ==
    /\ pc'[Reaper] = pc[Reaper] /\ on'[Reaper] = on[Reaper]
    /\ seen'[Reaper] = seen[Reaper] /\ sweep' = sweep
    /\ \A q \in Requests \ {r} : pc'[q] = pc[q] /\ on'[q] = on[q] /\ kids'[q] = kids[q]
    /\ on'[r] \in {on[r], None} /\ (pc'[r] # "idle" => on'[r] = on[r])

LEMMA RequestMind ==
    ASSUME Shape, NEW r \in Requests, RequestStep(r) \/ Crash(r)
    PROVE  OwnMind(r)
<1>1. /\ pc \in [Actors -> Places] /\ seen \in [Actors -> STATUSES \cup {"none"}]
      /\ on \in [Actors -> Batches \cup Children \cup {None}]
      /\ DOMAIN kids = Requests
    BY DEF Shape, MindsOK, MemoryTypeOK, Memory
<1>2. Reaper \in Actors /\ r \in Actors /\ r # Reaper /\ \A q \in Requests : q \in Actors
    BY BatchTyping DEF Actors
<1>3. ASSUME NEW p, Goto(r, p), UNCHANGED <<on, kids, sweep>>,
             seen' = seen \/ \E s : seen' = [seen EXCEPT ![r] = s]
      PROVE  OwnMind(r)
    BY ONLY <1>1, <1>2, <1>3 DEF OwnMind, Goto
<1>4. CASE Return(r)
    BY ONLY <1>1, <1>2, <1>4 DEF OwnMind, Return, LetGo, Goto
<1>5. ASSUME NEW s, NEW p, Proceed(r, s, p)
      PROVE  OwnMind(r)
    BY ONLY <1>1, <1>2, <1>5 DEF OwnMind, Proceed, Goto
<1>6. CASE ReserveLostRace(r) \/ Reserve(r) \/ Replay(r) \/ SubmitSettle(r) \/ MirrorMiss(r)
    BY ONLY <1>3, <1>6 DEF ReserveLostRace, Reserve, Replay, SubmitSettle, MirrorMiss
<1>7. CASE VerifyValid(r) \/ SettleSucceeded(r) \/ MirrorHit(r) \/ Deliver(r)
    BY ONLY <1>5, <1>7 DEF VerifyValid, SettleSucceeded, MirrorHit, SettleSuccess, Deliver
<1>8. CASE \/ ReserveRefused(r) \/ ReplayAnswered(r) \/ VerifyInvalid(r)
           \/ FacilitatorUnavailable(r) \/ SettleRefused(r) \/ RollBack(r)
           \/ Undeliverable(r) \/ DeliverRolledBack(r) \/ Enqueue(r) \/ Crash(r)
    BY ONLY <1>2, <1>4, <1>8
       DEF ReserveRefused, ReplayAnswered, VerifyInvalid, FacilitatorUnavailable,
           SettleRefused, RollBack, Undeliverable, DeliverRolledBack, Enqueue, Crash
<1>9. QED
    BY <1>6, <1>7, <1>8 DEF RequestStep

\* It writes rows of its own batch, and remembers what it has written.
LEMMA MindsStayTrue ==
    ASSUME Shape, Apart, Remembered, NEW r \in Requests, OwnMind(r),
           \A c \in Children : BatchOf[c] # on[r] => child'[c].status = child[c].status,
           \A c \in DOMAIN kids'[r] : kids'[r][c] = child'[c].status
    PROVE  Apart' /\ Remembered'
<1>1. Apart'
    BY BatchTyping DEF Apart, OwnMind, Transfers
<1>2. \A c \in Children : sweep[c] # "none" => child'[c].status = child[c].status
    BY DEF Apart
<1>3. \A c \in Children : ByReaper(c)' = ByReaper(c) /\ (ByReaper(c) => sweep[c] # "none")
    BY DEF ByReaper, OwnMind, Apart
<1>4. ASSUME NEW q \in Requests, NEW c \in DOMAIN kids'[q]
      PROVE  kids'[q][c] = child'[c].status
    <2>1. CASE q = r
        BY <2>1
    <2>2. CASE q # r
        <3>1. kids'[q] = kids[q] /\ c \in DOMAIN kids[q]
            BY <2>2 DEF OwnMind
        <3>2. DOMAIN kids[q] \in {{}, Kids(on[q])}
            BY DEF Shape, MindsOK, Memory
        <3>3. BatchOf[c] = on[q] /\ c \in Children
            BY ONLY <3>1, <3>2 DEF Kids
        <3>4. BatchOf[c] # on[r]
            BY <2>2, <3>3, BatchTyping DEF Apart
        <3>5. QED
            BY <3>1, <3>3, <3>4 DEF Remembered
    <2>3. QED
        BY <2>1, <2>2
<1>5. \A c \in Children : sweep'[c] # "none" /\ ~ByReaper(c)' => sweep'[c] = child'[c].status
    BY <1>2, <1>3 DEF Remembered, OwnMind
<1>6. ASSUME NEW c \in Children, ByReaper(c)'
      PROVE  IF pc'[Reaper] \in {"mirror", "record"}
             THEN child'[c].status = seen'[Reaper] /\ seen'[Reaper] \in InFlight
             ELSE child'[c].status = "settled"
    BY <1>2, <1>3, <1>6 DEF Remembered, OwnMind
<1>7. Remembered'
    BY <1>4, <1>5, <1>6 DEF Remembered
<1>8. QED
    BY <1>1, <1>7

\* What a request has in its memory, or is about to read, is what the rows say.
LEMMA Fresh ==
    ASSUME Shape, Remembered, NEW r \in Requests, NEW c \in Kids(on[r])
    PROVE  Loaded(r)[c] = child[c].status
    BY DEF Loaded, Remembered, Shape, MindsOK, Memory

\* No status is written and no licence given.
Still ==
    /\ \A c \in Children : child'[c].status = child[c].status
    /\ \A b \in Batches : batch'[b].status = batch[b].status
    /\ serial' = serial

LEMMA RoomyKept ==
    ASSUME Roomy,
           \A c \in Children : child'[c].status \notin Failed \cup {"none"} =>
               child[c].status \notin Failed \cup {"none"}
    PROVE  Roomy'
<1> SUFFICES ASSUME NEW o \in Offers
             PROVE  Cardinality(InUse(o)') <= MaxUnits[o]
    BY DEF Roomy
<1>1. InUse(o)' \subseteq InUse(o)
    BY DEF InUse
<1>2. IsFiniteSet(InUse(o))
    BY BatchTyping, FS_Subset DEF InUse
<1>3. /\ Cardinality(InUse(o)') <= Cardinality(InUse(o))
      /\ Cardinality(InUse(o)) \in Nat /\ Cardinality(InUse(o)') \in Nat
    BY <1>1, <1>2, FS_Subset, FS_CardinalityType
<1>4. MaxUnits[o] \in Nat /\ Cardinality(InUse(o)) <= MaxUnits[o]
    BY BatchTyping DEF Roomy
<1>5. QED
    BY ONLY <1>3, <1>4

LEMMA StillRoomy ==
    ASSUME Rows, Roomy, Still
    PROVE  Rows' /\ Roomy'
<1>1. Roomy'
    BY RoomyKept DEF Still
<1>2. Rows'
    BY BatchTyping DEF Rows, Still
<1>3. QED
    BY <1>1, <1>2

\* The batch and its children are given a status.
Moved(b, s) ==
    /\ \A c \in Children : child'[c].status = IF BatchOf[c] = b THEN s ELSE child[c].status
    /\ \A d \in Batches : batch'[d].status = IF d = b THEN s ELSE batch[d].status

LEMMA MoveAllMoves ==
    ASSUME RowsOK, NEW b \in Batches, NEW s, NEW tx, MoveAll(b, s, tx)
    PROVE  Moved(b, s)
<1>1. batch \in [Batches -> BatchRows] /\ child \in [Children -> ChildRows]
    BY RowsTyped
<1>2. \A d \in Batches : batch'[d].status = IF d = b THEN s ELSE batch[d].status
    BY ONLY <1>1, MoveAll(b, s, tx), b \in Batches DEF MoveAll, BatchRows
<1>3. \A c \in Children : child'[c].status = IF BatchOf[c] = b THEN s ELSE child[c].status
    BY ONLY MoveAll(b, s, tx) DEF MoveAll
<1>4. QED
    BY <1>2, <1>3 DEF Moved

LEMMA FailBatchMoves ==
    ASSUME RowsOK, NEW r \in Requests, on[r] \in Batches, NEW s, FailBatch(r, s)
    PROVE  Moved(on[r], s)
<1>1. batch \in [Batches -> BatchRows] /\ child \in [Children -> ChildRows]
    BY RowsTyped
<1>2. \A d \in Batches : batch'[d].status = IF d = on[r] THEN s ELSE batch[d].status
    BY ONLY <1>1, FailBatch(r, s), on[r] \in Batches DEF FailBatch, BatchRows
<1>3. \A c \in Children : child'[c].status = IF BatchOf[c] = on[r] THEN s ELSE child[c].status
    BY ONLY <1>1, FailBatch(r, s) DEF FailBatch, ChildRows
<1>4. QED
    BY <1>2, <1>3 DEF Moved

LEMMA DeliverMoves ==
    ASSUME Shape, Remembered, NEW r \in Requests, Deliver(r)
    PROVE  Moved(on[r], "delivered")
<1> DEFINE b == on[r]
<1>1. /\ batch \in [Batches -> BatchRows] /\ child \in [Children -> ChildRows]
      /\ b \in Batches
    BY RowsTyped DEF Shape, MindsOK, MemoryTypeOK, Deliver
<1>2. \A c \in Children : BatchOf[c] = b => Loaded(r)[c] = child[c].status
    BY Fresh DEF Kids
<1>3. \A d \in Batches : batch'[d].status = IF d = b THEN "delivered" ELSE batch[d].status
    <2>1. batch' = [batch EXCEPT ![b].status = "delivered"]
        BY DEF Deliver
    <2>2. QED
        BY ONLY <1>1, <2>1 DEF BatchRows
<1>4. \A c \in Children :
          child'[c].status = IF BatchOf[c] = b THEN "delivered" ELSE child[c].status
    <2>1. child' = [c \in Children |->
              IF BatchOf[c] = b /\ Loaded(r)[c] # "delivered"
              THEN [child[c] EXCEPT !.status = "delivered"] ELSE child[c]]
        BY DEF Deliver
    <2>2. QED
        BY ONLY <1>1, <1>2, <2>1 DEF ChildRows
<1>5. QED
    BY <1>3, <1>4 DEF Moved

LEMMA QuietMoved ==
    ASSUME Shape, Quiet, NEW r \in Requests, OwnMind(r), on[r] \in Batches,
           NEW s \in STATUSES, Moved(on[r], s), Roomy',
           DOMAIN kids'[r] \subseteq Kids(on[r]),
           \A c \in DOMAIN kids'[r] : kids'[r][c] = s,
           \A c \in Children : serial'[c] # 0 =>
               IF BatchOf[c] = on[r] THEN s \in {"settled", "delivered"} ELSE serial[c] # 0
    PROVE  Quiet'
<1>1. \A c \in Children : BatchOf[c] # on[r] => child'[c].status = child[c].status
    BY DEF Moved
<1>2. \A c \in DOMAIN kids'[r] : kids'[r][c] = child'[c].status
    BY DEF Moved, Kids
<1>3. Apart' /\ Remembered'
    BY <1>1, <1>2, MindsStayTrue DEF Quiet
<1>4. s # "none"
    BY DEF STATUSES, InFlight, Failed
<1>5. Rows'
    BY <1>4, BatchTyping DEF Moved, Quiet, Rows
<1>6. Begun'
    <2>1. \A q \in Requests : pc'[q] # "idle" => on'[q] = on[q] /\ on[q] \in Batches
        BY DEF OwnMind, Shape, MindsOK, MemoryTypeOK
    <2>2. \A q \in Requests : pc'[q] \notin {"idle", "reserve"} =>
              q = r \/ batch[on[q]].status # "none"
        BY DEF OwnMind, Quiet, Begun
    <2>3. QED
        BY <1>4, <2>1, <2>2 DEF Begun, Moved
<1>7. QED
    BY <1>3, <1>5, <1>6 DEF Quiet

LEMMA QuietStill ==
    ASSUME Shape, Quiet, NEW r \in Requests, OwnMind(r), Still,
           kids'[r] \in {kids[r], <<>>},
           pc'[r] = "idle" \/ (pc[r] # "idle" /\ batch[on[r]].status # "none")
    PROVE  Quiet'
<1>1. \A c \in DOMAIN kids'[r] : c \in DOMAIN kids[r] /\ kids'[r][c] = kids[r][c]
    OBVIOUS
<1>2. \A c \in DOMAIN kids[r] : c \in Children
    BY DEF Shape, MindsOK, Memory, Kids
<1>3. \A c \in DOMAIN kids'[r] : kids'[r][c] = child'[c].status
    BY <1>1, <1>2 DEF Quiet, Remembered, Still
<1>4. Apart' /\ Remembered'
    BY <1>3, MindsStayTrue DEF Quiet, Still
<1>5. Begun'
    <2>1. \A q \in Requests : pc'[q] # "idle" => on'[q] = on[q] /\ on[q] \in Batches
        BY DEF OwnMind, Shape, MindsOK, MemoryTypeOK
    <2>2. \A q \in Requests : pc'[q] \notin {"idle", "reserve"} => batch[on[q]].status # "none"
        BY DEF OwnMind, Quiet, Begun
    <2>3. QED
        BY <2>1, <2>2 DEF Begun, Still
<1>6. Rows' /\ Roomy'
    BY StillRoomy DEF Quiet
<1>7. QED
    BY <1>4, <1>5, <1>6 DEF Quiet

\* What transition_to! lets a request write, it writes over rows in flight.
LEMMA Movable ==
    ASSUME Shape, Quiet, NEW r \in Requests, pc[r] \notin {"idle", "reserve"},
           NEW s \in {"verified", "settled"} \cup Failed, MayMove(r, s),
           NEW c \in Kids(on[r])
    PROVE  child[c].status \in InFlight
<1>1. c \in Children /\ BatchOf[c] = on[r]
    BY DEF Kids
<1>2. child[c].status \in STATUSES
    BY <1>1 DEF Quiet, Begun, Rows, Shape, RowsOK, RowsTypeOK
<1>3. s \in TRANSITIONS[child[c].status]
    BY Fresh DEF MayMove, Quiet
<1>4. QED
    BY ONLY <1>2, <1>3, s \in {"verified", "settled"} \cup Failed
       DEF TRANSITIONS, STATUSES, InFlight, Failed

LEMMA QuietWritten ==
    ASSUME Shape, Quiet, NEW r \in Requests, OwnMind(r), on[r] \in Batches,
           pc[r] \notin {"idle", "reserve"},
           NEW s \in {"verified", "settled"} \cup Failed, MayMove(r, s),
           Moved(on[r], s), UNCHANGED serial,
           DOMAIN kids'[r] \subseteq Kids(on[r]),
           \A c \in DOMAIN kids'[r] : kids'[r][c] = s
    PROVE  Quiet'
<1>1. \A c \in Children : BatchOf[c] = on[r] => child[c].status \in InFlight
    BY Movable DEF Kids
<1>2. Roomy'
    <2>1. \A c \in Children : child'[c].status \notin Failed \cup {"none"} =>
              child[c].status \notin Failed \cup {"none"}
        BY ONLY <1>1, Moved(on[r], s) DEF Moved, InFlight, Failed
    <2>2. QED
        BY <2>1, RoomyKept DEF Quiet
<1>3. \A c \in Children : serial'[c] # 0 => BatchOf[c] # on[r] /\ serial[c] # 0
    BY <1>1 DEF Quiet, Rows, InFlight
<1>4. s \in STATUSES
    BY DEF STATUSES, InFlight
<1>5. QED
    BY <1>2, <1>3, <1>4, QuietMoved

LEMMA QuietDeliver ==
    ASSUME Shape, Quiet, NEW r \in Requests, OwnMind(r), Deliver(r)
    PROVE  Quiet'
<1>1. on[r] \in Batches /\ pc[r] = "deliver" /\ DOMAIN kids = Requests
    BY DEF Shape, MindsOK, MemoryTypeOK, Memory, Deliver
<1>2. Moved(on[r], "delivered")
    BY DeliverMoves DEF Quiet
<1>3. ASSUME NEW c \in Children, BatchOf[c] = on[r]
      PROVE  child[c].status \in {"settled", "delivered"}
    <2>1. child[c].status \in STATUSES
        BY <1>1, <1>3 DEF Quiet, Begun, Rows, Shape, RowsOK, RowsTypeOK
    <2>2. \/ child[c].status = "delivered"
          \/ "delivered" \in TRANSITIONS[child[c].status]
        BY <1>3, Fresh DEF Deliver, CanFinish, Quiet, Kids
    <2>3. QED
        BY ONLY <2>1, <2>2 DEF TRANSITIONS, STATUSES, InFlight, Failed
<1>4. Roomy'
    <2>1. \A c \in Children : child'[c].status \notin Failed \cup {"none"} =>
              child[c].status \notin Failed \cup {"none"}
        BY ONLY <1>2, <1>3 DEF Moved, Failed
    <2>2. QED
        BY <2>1, RoomyKept DEF Quiet
<1>5. \A c \in Children : BatchOf[c] # on[r] => serial'[c] = serial[c]
    BY DEF Deliver
<1>6. DOMAIN kids'[r] = Kids(on[r]) /\ \A c \in DOMAIN kids'[r] : kids'[r][c] = "delivered"
    BY <1>1 DEF Deliver, Proceed
<1>7. "delivered" \in STATUSES
    BY DEF STATUSES
<1>8. QED
    BY <1>1, <1>2, <1>4, <1>5, <1>6, <1>7, QuietMoved

\* A reservation brings as many units into use as it has asked room for.
LEMMA QuietReserve ==
    ASSUME Shape, Quiet, NEW r \in Requests, OwnMind(r), Reserve(r)
    PROVE  Quiet'
<1>0. PICK b \in Batches : b = on[r]
    BY DEF Shape, MindsOK, MemoryTypeOK, Reserve
<1>1. pc[r] = "reserve" /\ kids'[r] = kids[r] /\ DOMAIN kids[r] = {} /\ serial' = serial
    BY DEF Shape, MindsOK, Memory, Reserve
<1>2. Moved(b, "pending")
    BY <1>0, MoveAllMoves DEF Shape, Reserve
<1>3. \A c \in Children : BatchOf[c] = b => child[c].status = "none" /\ serial[c] = 0
    BY <1>0 DEF Quiet, Rows, Reserve
<1>4. ASSUME NEW o \in Offers
      PROVE  Cardinality(InUse(o)') <= MaxUnits[o]
    <2> DEFINE W == {c \in Kids(b) : OfferOf[c] = o}
    <2>1. InUse(o)' = InUse(o) \cup W /\ InUse(o) \cap W = {}
        BY ONLY <1>2, <1>3 DEF InUse, Moved, Kids, Failed
    <2>2. IsFiniteSet(InUse(o)) /\ IsFiniteSet(W)
        BY BatchTyping, FS_Subset DEF InUse, Kids
    <2>3. Cardinality(InUse(o)) \in Nat /\ Cardinality(W) \in Nat /\ MaxUnits[o] \in Nat
        <3> HIDE DEF W
        <3>1. QED
            BY <2>2, BatchTyping, FS_CardinalityType
    <2>4. Cardinality(InUse(o)') = Cardinality(InUse(o)) + Cardinality(W)
        <3> HIDE DEF W
        <3>1. Cardinality(InUse(o) \cup W) =
                  Cardinality(InUse(o)) + Cardinality(W) - Cardinality(InUse(o) \cap W)
            BY ONLY <2>2, FS_Union
        <3>2. Cardinality({}) = 0
            BY FS_EmptySet
        <3>3. Cardinality(InUse(o) \cap W) = 0
            BY ONLY <2>1, <3>2, Zenon
        <3>4. Cardinality(InUse(o)') = Cardinality(InUse(o) \cup W)
            BY ONLY <2>1, Zenon
        <3>5. QED
            BY ONLY <2>3, <3>1, <3>3, <3>4
    <2>5. Wanted(b, o) = Cardinality(W) /\ Reserved(o) = Cardinality(InUse(o))
        BY DEF Wanted, Reserved, InUse
    <2>6. Wanted(b, o) = 0 \/ Reserved(o) + Wanted(b, o) <= MaxUnits[o]
        <3>1. ~(Wanted(b, o) > 0 /\ Reserved(o) + Wanted(b, o) > MaxUnits[o])
            BY <1>0 DEF Reserve, SoldOut
        <3> HIDE DEF W
        <3>2. QED
            BY ONLY <2>3, <2>5, <3>1
    <2>7. Cardinality(InUse(o)) <= MaxUnits[o]
        BY DEF Quiet, Roomy
    <2> HIDE DEF W
    <2>8. QED
        BY ONLY <2>3, <2>4, <2>5, <2>6, <2>7
<1>5. Roomy'
    BY <1>4 DEF Roomy
<1>6. "pending" \in STATUSES
    BY DEF STATUSES, InFlight
<1>7. QED
    BY <1>0, <1>1, <1>2, <1>3, <1>5, <1>6, QuietMoved

LEMMA QuietRequest ==
    ASSUME Shape, Quiet, NEW r \in Requests, RequestStep(r)
    PROVE  Quiet'
<1>1. OwnMind(r) /\ DOMAIN kids = Requests /\ (pc[r] # "idle" => on[r] \in Batches)
    BY RequestMind DEF Shape, MindsOK, MemoryTypeOK, Memory
<1>2. ASSUME Return(r)
      PROVE  kids'[r] = <<>> /\ pc'[r] = "idle"
    BY <1>1, <1>2, BatchTyping
       DEF Return, LetGo, Goto, Shape, MindsOK, MemoryTypeOK, Actors
<1>3. ASSUME UNCHANGED <<child, serial>>, kids'[r] \in {kids[r], <<>>},
             \A b \in Batches : batch'[b].status = batch[b].status,
             pc'[r] = "idle" \/ (pc[r] # "idle" /\ batch[on[r]].status # "none")
      PROVE  Quiet'
    BY <1>1, <1>3, QuietStill DEF Still
<1>4. CASE ReserveRefused(r) \/ RollBack(r) \/ DeliverRolledBack(r) \/ Enqueue(r)
    BY <1>2, <1>3, <1>4 DEF ReserveRefused, RollBack, DeliverRolledBack, Enqueue, tables
<1>5. CASE ReplayAnswered(r) \/ FacilitatorUnavailable(r) \/ Undeliverable(r)
    <2>1. \A b \in Batches : batch'[b].status = batch[b].status
        BY <1>5 DEF ReplayAnswered, FacilitatorUnavailable, Undeliverable, Shape,
            RowsOK, RowsTypeOK
    <2>2. Return(r) /\ UNCHANGED <<child, serial>>
        BY <1>5 DEF ReplayAnswered, FacilitatorUnavailable, Undeliverable
    <2>3. QED
        BY <1>2, <1>3, <2>1, <2>2
<1>6. CASE ReserveLostRace(r) \/ Replay(r) \/ SubmitSettle(r) \/ MirrorMiss(r)
    <2>1. UNCHANGED <<child, serial, batch, kids>>
        BY <1>6 DEF ReserveLostRace, Replay, SubmitSettle, MirrorMiss, tables
    <2>2. pc[r] # "idle" /\ batch[on[r]].status # "none"
        BY <1>6 DEF ReserveLostRace, Replay, SubmitSettle, MirrorMiss, Quiet, Begun
    <2>3. QED
        BY <1>3, <2>1, <2>2
<1>7. CASE Reserve(r)
    BY <1>1, <1>7, QuietReserve
<1>8. CASE VerifyValid(r)
    <2>1. /\ pc[r] = "verify" /\ MayMove(r, "verified") /\ MoveAll(on[r], "verified", None)
          /\ UNCHANGED serial
        BY <1>8 DEF VerifyValid
    <2>2. kids'[r] = [c \in Kids(on[r]) |-> "verified"]
        BY <1>1, <1>8 DEF VerifyValid, Proceed
    <2>3. QED
        BY <1>1, <2>1, <2>2, MoveAllMoves, QuietWritten DEF Shape
<1>9. ASSUME NEW tx, pc[r] \notin {"idle", "reserve"}, SettleSuccess(r, tx)
      PROVE  Quiet'
    <2>1. MayMove(r, "settled") /\ MoveAll(on[r], "settled", tx) /\ UNCHANGED serial
        BY <1>9 DEF SettleSuccess
    <2>2. kids'[r] = [c \in Kids(on[r]) |-> "settled"]
        BY <1>1, <1>9 DEF SettleSuccess, Proceed
    <2>3. QED
        BY <1>1, <1>9, <2>1, <2>2, MoveAllMoves, QuietWritten DEF Shape
<1>10. CASE SettleSucceeded(r) \/ MirrorHit(r)
    BY <1>9, <1>10 DEF SettleSucceeded, MirrorHit
<1>11. ASSUME NEW s \in Failed, pc[r] \notin {"idle", "reserve"}, FailBatch(r, s), Return(r),
              UNCHANGED serial
       PROVE  Quiet'
    <2>1. MayMove(r, s)
        BY <1>11 DEF FailBatch
    <2>2. DOMAIN kids'[r] = {}
        BY <1>2, <1>11
    <2>3. QED
        BY <1>1, <1>11, <2>1, <2>2, FailBatchMoves, QuietWritten DEF Shape
<1>12. CASE VerifyInvalid(r) \/ SettleRefused(r)
    BY <1>11, <1>12 DEF VerifyInvalid, SettleRefused, Failed
<1>13. CASE Deliver(r)
    BY <1>1, <1>13, QuietDeliver
<1>14. QED
    BY <1>4, <1>5, <1>6, <1>7, <1>8, <1>10, <1>12, <1>13 DEF RequestStep

\* What the Reaper does with a child no request has in its memory, and the room
\* there is does not get less.
LEMMA QuietWithChild ==
    ASSUME Shape, Quiet, NEW c \in Children, ByReaper(c),
           UNCHANGED <<batch, kids>>,
           \A r \in Requests : pc'[r] = pc[r] /\ on'[r] = on[r],
           \A d \in Children \ {c} : child'[d].status = child[d].status /\ serial'[d] = serial[d],
           child'[c].status # "none",
           serial'[c] # 0 => child'[c].status \in {"settled", "delivered"},
           \/ /\ pc'[Reaper] = "idle" /\ sweep'[c] = "none"
              /\ \A d \in Children : sweep'[d] \in {sweep[d], "none"}
           \/ /\ pc'[Reaper] # "idle" /\ on'[Reaper] = c /\ sweep' = sweep
              /\ IF pc'[Reaper] \in {"mirror", "record"}
                 THEN child'[c].status = seen'[Reaper] /\ seen'[Reaper] \in InFlight
                 ELSE child'[c].status = "settled"
    PROVE  Quiet'
<1>1. sweep[c] # "none" /\ child[c].status \notin Failed \cup {"none"}
    BY DEF Quiet, Apart, Remembered, ByReaper, InFlight, Failed
<1>2. Apart'
    BY BatchTyping DEF Quiet, Apart, ByReaper
<1>3. Begun'
    BY DEF Quiet, Begun
<1>4. Rows'
    BY <1>1, BatchTyping DEF Quiet, Rows
<1>5. Roomy'
    BY <1>1, RoomyKept DEF Quiet
<1>6. Remembered'
    <2>1. ASSUME NEW r \in Requests, NEW d \in DOMAIN kids'[r]
          PROVE  kids'[r][d] = child'[d].status
        <3>1. DOMAIN kids[r] \in {{}, Kids(on[r])} /\ kids' = kids
            BY DEF Shape, MindsOK, Memory
        <3>2. BatchOf[d] = on[r] /\ d \in Children
            BY ONLY <2>1, <3>1 DEF Kids
        <3>3. d # c
            BY <1>1, <3>2 DEF Quiet, Apart
        <3>4. QED
            BY <2>1, <3>1, <3>2, <3>3 DEF Quiet, Remembered
    <2>2. ASSUME NEW d \in Children, sweep'[d] # "none", ~ByReaper(d)'
          PROVE  sweep'[d] = child'[d].status
        <3>1. d # c
            BY <2>2 DEF ByReaper
        <3>2. ~ByReaper(d) /\ sweep'[d] = sweep[d]
            BY <2>2, <3>1 DEF ByReaper
        <3>3. QED
            BY <2>2, <3>1, <3>2 DEF Quiet, Remembered
    <2>3. ASSUME NEW d \in Children, ByReaper(d)'
          PROVE  IF pc'[Reaper] \in {"mirror", "record"}
                 THEN child'[d].status = seen'[Reaper] /\ seen'[Reaper] \in InFlight
                 ELSE child'[d].status = "settled"
        BY <2>3 DEF ByReaper
    <2>4. QED
        BY <2>1, <2>2, <2>3 DEF Remembered
<1>7. QED
    BY <1>2, <1>3, <1>4, <1>5, <1>6 DEF Quiet

LEMMA QuietReaper ==
    ASSUME Shape, Quiet, ReaperStep
    PROVE  Quiet'
<1>1. /\ pc \in [Actors -> Places] /\ on \in [Actors -> Batches \cup Children \cup {None}]
      /\ seen \in [Actors -> STATUSES \cup {"none"}]
      /\ sweep \in [Children -> InFlight \cup {"none"}]
      /\ Reaper \in Actors /\ \A r \in Requests : r \in Actors /\ r # Reaper
    BY BatchTyping DEF Shape, MindsOK, MemoryTypeOK, Actors
<1>2. child \in [Children -> ChildRows] /\ serial \in [Children -> Nat]
    BY RowsTyped DEF Shape
<1>3. CASE \E c \in Children : SweepNext(c)
    <2>1. PICK c \in Children : SweepNext(c)
        BY <1>3
    <2>2. /\ pc[Reaper] = "idle" /\ pc'[Reaper] = "mirror" /\ on'[Reaper] = c
          /\ seen'[Reaper] = sweep[c] /\ sweep[c] # "none"
          /\ UNCHANGED <<batch, child, serial, kids, sweep>>
          /\ \A r \in Requests : pc'[r] = pc[r] /\ on'[r] = on[r]
        BY <1>1, <2>1 DEF SweepNext, Goto, tables
    <2>3. Apart' /\ Begun' /\ Rows' /\ Roomy'
        BY <2>2, StillRoomy, BatchTyping DEF Quiet, Apart, Begun, Still
    <2>4. sweep[c] = child[c].status /\ sweep[c] \in InFlight
        BY <1>1, <2>2 DEF Quiet, Remembered, ByReaper
    <2>5. Remembered'
        BY <2>2, <2>4 DEF Quiet, Remembered, ByReaper
    <2>6. QED
        BY <2>3, <2>5 DEF Quiet
<1>4. CASE RollForward \/ RecordSale \/ Allocate \/ Finish \/ ReapStale \/ ReapSkipped
    <2>1. pc[Reaper] # "idle"
        BY <1>4 DEF RollForward, RecordSale, Allocate, Finish, ReapStale, ReapSkipped
    <2>2. PICK c \in Children : c = on[Reaper]
        BY <2>1, BatchTyping DEF Shape, MindsOK, ReaperAway
    <2>3. ByReaper(c) /\ (serial[c] # 0 => child[c].status \in {"settled", "delivered"})
        BY <2>1, <2>2 DEF ByReaper, Quiet, Rows
    <2>4. IF pc[Reaper] \in {"mirror", "record"}
          THEN child[c].status = seen[Reaper] /\ seen[Reaper] \in InFlight
          ELSE child[c].status = "settled"
        BY <2>3 DEF Quiet, Remembered
    <2>5. ASSUME NEW rest \in {Others, Nobody}, NextOne(rest)
          PROVE  /\ pc'[Reaper] = "idle" /\ sweep'[c] = "none" /\ UNCHANGED kids
                 /\ \A d \in Children : sweep'[d] \in {sweep[d], "none"}
                 /\ \A r \in Requests : pc'[r] = pc[r] /\ on'[r] = on[r]
        BY <1>1, <2>2, <2>5 DEF NextOne, LetGo, Goto, Others, Nobody
    <2>6. ASSUME NEW p, Goto(Reaper, p)
          PROVE  pc'[Reaper] = p /\ \A r \in Requests : pc'[r] = pc[r]
        BY <1>1, <2>6 DEF Goto
    <2>7. ASSUME NEW s, child' = [child EXCEPT ![c].status = s]
          PROVE  /\ child'[c].status = s
                 /\ \A d \in Children \ {c} : child'[d].status = child[d].status
        BY ONLY <1>2, <2>7, c \in Children DEF ChildRows
    <2>8. child[c].status # "none"
        BY <2>4 DEF InFlight
    <2>9. CASE RollForward
        <3>1. \A d \in Children : child'[d].status = child[d].status
            BY <1>2, <2>9 DEF RollForward, ChildRows
        <3>2. /\ pc'[Reaper] = "record" /\ \A r \in Requests : pc'[r] = pc[r]
              /\ UNCHANGED <<batch, serial, on, seen, kids, sweep>> /\ pc[Reaper] = "mirror"
            BY <2>6, <2>9 DEF RollForward
        <3>3. QED
            BY <2>2, <2>3, <2>4, <2>8, <3>1, <3>2, QuietWithChild
    <2>10. CASE RecordSale
        <3>1. pc[Reaper] = "record" /\ UNCHANGED <<batch, serial>>
            BY <2>10 DEF RecordSale
        <3>2. CASE seen[Reaper] = "verified"
            <4>1. /\ child' = [child EXCEPT ![c].status = "settled"]
                  /\ Goto(Reaper, "allocate") /\ UNCHANGED <<on, kids, sweep>>
                BY <2>2, <2>10, <3>2 DEF RecordSale
            <4>2. pc'[Reaper] = "allocate" /\ \A r \in Requests : pc'[r] = pc[r]
                BY ONLY <2>6, <4>1
            <4>3. /\ child'[c].status = "settled" /\ serial' = serial
                  /\ \A d \in Children \ {c} : child'[d].status = child[d].status
                BY ONLY <2>7, <3>1, <4>1
            <4>4. QED
                BY ONLY Shape, Quiet, c \in Children, <2>2, <2>3, <3>1, <4>1, <4>2, <4>3,
                    QuietWithChild
        <3>3. CASE seen[Reaper] # "verified"
            <4>1. NextOne(Nobody) /\ UNCHANGED child
                BY <2>10, <3>3 DEF RecordSale
            <4>2. QED
                BY <2>3, <2>5, <2>8, <3>1, <4>1, QuietWithChild
        <3>4. QED
            BY <3>2, <3>3
    <2>11. CASE Allocate
        <3>1. pc[Reaper] = "allocate" /\ UNCHANGED <<batch, child>>
            BY <2>11 DEF Allocate
        <3>2. child[c].status = "settled"
            BY <2>4, <3>1
        <3>3. CASE \E rest \in {Others, Nobody} : NextOne(rest) /\ UNCHANGED serial
            BY <2>3, <2>5, <2>8, <3>1, <3>3, QuietWithChild
        <3>4. CASE /\ \E n : serial' = [serial EXCEPT ![c] = n]
                   /\ Goto(Reaper, "finish") /\ UNCHANGED <<on, kids, sweep>>
            <4>1. \A d \in Children \ {c} : serial'[d] = serial[d]
                BY <1>2, <3>4
            <4>2. QED
                BY <2>2, <2>3, <2>6, <3>1, <3>2, <3>4, <4>1, QuietWithChild
        <3>5. QED
            BY <2>2, <2>11, <3>3, <3>4 DEF Allocate
    <2>12. CASE Finish \/ ReapStale
        <3>1. PICK s : /\ child' = [child EXCEPT ![c].status = s] /\ s # "none"
                       /\ s \notin {"settled", "delivered"} => pc[Reaper] = "mirror"
            BY <2>2, <2>12 DEF Finish, ReapStale
        <3>2. NextOne(Others) /\ UNCHANGED <<batch, serial>>
            BY <2>12 DEF Finish, ReapStale
        <3>3. serial[c] # 0 => s \in {"settled", "delivered"}
            BY <2>3, <2>4, <3>1 DEF InFlight
        <3>4. QED
            BY <2>3, <2>5, <2>7, <3>1, <3>2, <3>3, QuietWithChild
    <2>13. CASE ReapSkipped
        BY <2>3, <2>5, <2>8, <2>13, QuietWithChild DEF ReapSkipped, tables
    <2>14. QED
        BY <1>4, <2>9, <2>10, <2>11, <2>12, <2>13
<1>5. QED
    BY <1>3, <1>4 DEF ReaperStep

LEMMA QuietArrive ==
    ASSUME Shape, Quiet, Overlap = {}, NEW r \in Requests, NEW b \in Batches, Arrive(r, b)
    PROVE  Quiet'
<1>1. /\ on'[r] = b /\ \A a \in Actors \ {r} : pc'[a] = pc[a] /\ on'[a] = on[a]
      /\ pc'[r] \notin {"idle", "reserve"} => batch[b].status # "none"
      /\ Reaper \in Actors \ {r} /\ \A q \in Requests : q \in Actors
    BY BatchTyping DEF Arrive, Goto, Shape, MindsOK, MemoryTypeOK, Actors
<1>2. UNCHANGED <<child, batch, serial, seen, kids, sweep>>
    BY DEF Arrive, tables
<1>3. /\ \A q \in Requests : on[q] # b
      /\ \A c \in Children : BatchOf[c] = b => sweep[c] = "none"
    BY DEF Arrive, MayTake, Held, Kids
<1>4. Apart'
    BY <1>1, <1>2, <1>3 DEF Quiet, Apart
<1>5. Begun'
    BY <1>1, <1>2 DEF Quiet, Begun
<1>6. Remembered'
    BY <1>1, <1>2 DEF Quiet, Remembered, ByReaper
<1>7. Rows' /\ Roomy'
    BY <1>2, StillRoomy DEF Quiet, Still
<1>8. QED
    BY <1>4, <1>5, <1>6, <1>7 DEF Quiet

LEMMA QuietLoad ==
    ASSUME Shape, Quiet, Overlap = {}, NEW chosen \in SUBSET Stale, Load(chosen)
    PROVE  Quiet'
<1>1. /\ pc[Reaper] = "idle"
      /\ sweep' = [c \in Children |-> IF c \in chosen THEN child[c].status ELSE "none"]
      /\ UNCHANGED <<child, batch, serial, pc, on, seen, kids>>
    BY DEF Load, tables
<1>2. \A c \in chosen : \A q \in Requests : on[q] # BatchOf[c]
    BY DEF Load, MayTake, Held
<1>3. Apart' /\ Begun' /\ Remembered'
    BY <1>1, <1>2 DEF Quiet, Apart, Begun, Remembered, ByReaper
<1>4. Rows' /\ Roomy'
    BY <1>1, StillRoomy DEF Quiet, Still
<1>5. QED
    BY <1>3, <1>4 DEF Quiet

LEMMA QuietCrash ==
    ASSUME Shape, Quiet, NEW a \in Actors, Crash(a)
    PROVE  Quiet'
<1>1. UNCHANGED <<child, batch, serial>> /\ pc[a] # "idle"
    BY DEF Crash, tables
<1>2. CASE a = Reaper
    <2>1. PICK c \in Children : c = on[Reaper]
        BY <1>1, <1>2, BatchTyping DEF Shape, MindsOK, ReaperAway
    <2>2. /\ ByReaper(c) /\ child[c].status # "none"
          /\ (serial[c] # 0 => child[c].status \in {"settled", "delivered"})
        BY <1>1, <1>2, <2>1 DEF ByReaper, Quiet, Rows, Remembered, InFlight
    <2>3. /\ pc'[Reaper] = "idle" /\ sweep' = Nobody /\ UNCHANGED kids
          /\ \A r \in Requests : pc'[r] = pc[r] /\ on'[r] = on[r]
        BY <1>2, BatchTyping
           DEF Crash, NextOne, LetGo, Goto, Shape, MindsOK, MemoryTypeOK, Actors
    <2>4. QED
        BY <1>1, <2>2, <2>3, QuietWithChild DEF Nobody
<1>3. CASE a \in Requests
    <2>1. OwnMind(a)
        BY <1>3, RequestMind
    <2>2. kids'[a] = <<>> /\ pc'[a] = "idle"
        BY <1>3, BatchTyping
           DEF Crash, Return, LetGo, Goto, Shape, MindsOK, MemoryTypeOK, Memory, Actors
    <2>3. QED
        BY <1>1, <1>3, <2>1, <2>2, QuietStill DEF Still
<1>4. QED
    BY <1>2, <1>3 DEF Actors

LEMMA QuietNext == Overlap = {} /\ Shape /\ Quiet /\ [Next]_vars => Quiet'
<1> SUFFICES ASSUME Overlap = {}, Shape, Quiet, [Next]_vars
             PROVE  Quiet'
    OBVIOUS
<1>1. CASE \E r \in Requests : RequestStep(r)
    BY <1>1, QuietRequest
<1>2. CASE \E r \in Requests, b \in Batches : Arrive(r, b)
    BY <1>2, QuietArrive
<1>3. CASE ReaperStep
    BY <1>3, QuietReaper
<1>4. CASE Load(Stale) \/ \E c \in Stale : Load({c})
    BY <1>4, QuietLoad
<1>5. CASE \E a \in Actors : Crash(a)
    BY <1>5, QuietCrash
<1>6. CASE UNCHANGED <<tables, memory>>
    <2>1. UNCHANGED <<child, batch, serial, pc, on, seen, kids, sweep>>
        BY <1>6 DEF tables, memory
    <2>2. Apart' /\ Begun' /\ Remembered'
        BY <2>1 DEF Quiet, Apart, Begun, Remembered, ByReaper
    <2>3. Rows' /\ Roomy'
        BY <2>1, StillRoomy DEF Quiet, Still
    <2>4. QED
        BY <2>2, <2>3 DEF Quiet
<1>7. QED
    BY <1>1, <1>2, <1>3, <1>4, <1>5, <1>6
       DEF Next, MirrorCatchUp, Land, Expire, SingleSale, Reach, Detach, Reattach, vars

LEMMA QuietInit == BatchInit => Quiet
<1> SUFFICES ASSUME BatchInit PROVE Quiet
    OBVIOUS
<1>1. Apart /\ Remembered /\ Begun /\ Rows
    BY BatchTyping
       DEF BatchInit, Apart, Remembered, Begun, Rows, ByReaper, Actors, Transfers
<1>2. \A o \in Offers : InUse(o) = {}
    BY DEF BatchInit, InUse
<1>3. Roomy
    <2>1. Cardinality({}) = 0
        BY FS_EmptySet
    <2>2. \A o \in Offers : Cardinality(InUse(o)) = 0
        BY <1>2, <2>1, Zenon
    <2>3. QED
        BY <2>2, BatchTyping DEF Roomy
<1>4. QED
    BY <1>1, <1>3 DEF Quiet

\* As long as one actor at a time works on a batch, a batch that is paid has room
\* in its editions: delivering it never meets the cap.
THEOREM PaidAlwaysFits == Spec => []PaidFits
<1>1. (Overlap = {} => Quiet) /\ Shape /\ [Next]_vars => (Overlap = {} => Quiet)'
    BY QuietNext
<1>2. BatchInit => (Overlap = {} => Quiet)
    BY QuietInit
<1>3. (Overlap = {} => Quiet) /\ Shape /\ Counted /\ OneFate => PaidFits
    <2> SUFFICES ASSUME Quiet, Shape, Counted, OneFate,
                        NEW b \in Left, batch[b].status = "settled",
                        NEW c \in Kids(b), serial[c] = 0
                 PROVE  Allotted(b)[c] <= MaxUnits[OfferOf[c]]
        BY DEF PaidFits, Fits
    <2> DEFINE o == OfferOf[c]
               S == Licensed(o) \cup UpTo(b, c)
    <2>1. b \in Batches /\ o \in Offers /\ RowsOK
        BY BatchTyping DEF Left, Kids, Shape
    <2>2. ASSUME NEW d \in Kids(b)
          PROVE  child[d].status = "settled"
        <3>1. child[d] = [status |-> batch[b].status, tx |-> batch[b].tx]
            BY DEF OneFate, SharesFate
        <3>2. QED
            BY <3>1
    <2>3. S \subseteq InUse(o)
        BY <2>2 DEF Licensed, UpTo, InUse, Kids, Quiet, Rows, Failed
    <2>4. IsFiniteSet(InUse(o))
        BY BatchTyping, FS_Subset DEF InUse
    <2>5. Allotted(b)[c] \in Nat /\ Allotted(b)[c] <= Cardinality(S)
        BY ONLY Counted, <2>1, c \in Kids(b), serial[c] = 0, AllottedType, AllottedCounted
    <2> HIDE DEF S
    <2>6. /\ Cardinality(S) <= Cardinality(InUse(o))
          /\ Cardinality(S) \in Nat /\ Cardinality(InUse(o)) \in Nat
        BY ONLY <2>3, <2>4, FS_Subset, FS_CardinalityType
    <2>7. MaxUnits[o] \in Nat /\ Cardinality(InUse(o)) <= MaxUnits[o]
        BY <2>1, BatchTyping DEF Quiet, Roomy
    <2>8. QED
        BY ONLY <2>5, <2>6, <2>7
<1>4. QED
    BY <1>1, <1>2, <1>3, CountedAlways, ShapeAlways, BatchHasOneFate, PTL DEF Spec

=============================================================================
