---------------------------- MODULE SalesProofs ----------------------------
(***************************************************************************)
(* Purchases implements Sales, for any number of payments, offers,         *)
(* requests and crashes, overlapping or not: what a buyer and a designer   *)
(* see is one sale after another, opened, booked and licensed once.  And   *)
(* while no two actors work on one real purchase at a time, reservations   *)
(* stay within every edition and allocation never meets the cap.           *)
(***************************************************************************)
EXTENDS PurchasesProofs, NatFacts

\* Only a purchase with a row is worked on, swept, or sent to Hedera, and a
\* transaction is in flight at most until it reaches consensus.
Worked == \A a \in Actors : pc[a] \notin {"idle", "reserve"} => status[on[a]] # "none"
Swept  == \A p \in Payments : sweep[p] # "none" => status[p] # "none"
Sent   == \A t \in submitted : status[t] # "none" /\ t \notin Sandbox /\ consensus[t] = 0

OpenInv == Worked /\ Swept /\ Sent

\* A row is never deleted.
LEMMA RowStays ==
    ASSUME TypeOK, NEW a \in Actors, ActorStep(a)
    PROVE  \A p \in Payments : status[p] # "none" => status'[p] # "none"
<1>1. status \in [Payments -> Statuses \cup {"none"}] /\ "none" \notin Statuses
          /\ "pending" \in Statuses
    BY DEF TypeOK, Statuses, InFlight, Failed
<1>2. status' = status \/ \E s \in Statuses : status' = [status EXCEPT ![on[a]] = s]
    BY <1>1, StatusShape
<1>3. QED
    BY ONLY <1>1, <1>2

LEMMA OpenActor ==
    ASSUME TypeOK, OpenInv, NEW a \in Actors, ActorStep(a)
    PROVE  OpenInv'
<1>1. \A p \in Payments : status[p] # "none" => status'[p] # "none"
    BY RowStays
<1>2. (LetsGo(a) \/ GoesOn(a)) /\ Alone(a)
    BY StepShape
<1>3. \A e \in Actors : pc[e] # "idle" => on[e] \in Payments
    BY DEF TypeOK
<1>4. Worked'
    <2> SUFFICES ASSUME NEW e \in Actors, pc'[e] \notin {"idle", "reserve"}
                 PROVE  status'[on'[e]] # "none"
        BY DEF Worked
    <2>1. CASE e # a
        BY ONLY OpenInv, <1>1, <1>2, <1>3, <2>1, pc'[e] \notin {"idle", "reserve"},
                e \in Actors DEF OpenInv, Worked, Alone
    <2>2. CASE e = a
        <3>1. GoesOn(a)
            BY ONLY <1>2, <2>2, pc'[e] \notin {"idle", "reserve"} DEF LetsGo
        <3>2. QED
            BY ONLY OpenInv, <1>1, <1>3, <2>2, <3>1, a \in Actors
               DEF OpenInv, Worked, GoesOn
    <2>3. QED
        BY ONLY <2>1, <2>2
<1>5. Swept'
    <2>1. \A p \in Payments : sweep'[p] \in {"none", sweep[p]}
        BY ONLY <1>2 DEF LetsGo, GoesOn
    <2>2. QED
        BY ONLY OpenInv, <1>1, <2>1 DEF OpenInv, Swept
<1>6. Sent'
    <2>1. consensus' = consensus
        BY ONLY ActorStep(a) DEF ActorStep, RequestStep, SharedStep, ReserveRefused,
            ReserveLostRace, Reserve, Replay, ReplayAnswered, VerifyValid,
            VerifyInvalid, FacilitatorUnavailable, SubmitSettle, SettleSucceeded,
            SettleRefused, MirrorMiss, FindLicense, Undeliverable, Fail, MirrorHit,
            RecordTx, RecordRefused, Settle, SettleInvalid, Allocate,
            AllocateSoldOut, AllocateRefused, Deliver, Enqueue, Crash, hedera
    <2>2. CASE SubmitSettle(a)
        <3>1. /\ pc[a] = "settle" /\ on[a] \notin Sandbox
              /\ \/ submitted' = submitted \cup {on[a]} /\ consensus[on[a]] = 0
                 \/ submitted' = submitted
            BY ONLY <2>2 DEF SubmitSettle
        <3>2. status[on[a]] # "none"
            BY ONLY OpenInv, <3>1, a \in Actors DEF OpenInv, Worked
        <3>3. \A t \in submitted' : status[t] # "none" /\ t \notin Sandbox /\ consensus[t] = 0
            BY ONLY OpenInv, <3>1, <3>2 DEF OpenInv, Sent
        <3>4. status' = status
            BY ONLY <2>2 DEF SubmitSettle, rows
        <3>5. QED
            BY ONLY <2>1, <3>3, <3>4 DEF Sent
    <2>3. CASE ~SubmitSettle(a)
        <3>1. submitted' \subseteq submitted
            BY ONLY ActorStep(a), <2>3 DEF ActorStep, RequestStep, SharedStep,
                ReserveRefused, ReserveLostRace, Reserve, Replay, ReplayAnswered,
                VerifyValid, VerifyInvalid, FacilitatorUnavailable, SettleSucceeded,
                SettleRefused, MirrorMiss, FindLicense, Undeliverable, Fail,
                MirrorHit, RecordTx, RecordRefused, Settle, SettleInvalid, Allocate,
                AllocateSoldOut, AllocateRefused, Deliver, Enqueue, Crash, hedera
        <3>2. submitted \subseteq Payments
            BY DEF TypeOK
        <3>3. QED
            BY ONLY OpenInv, <1>1, <2>1, <3>1, <3>2 DEF OpenInv, Sent
    <2>4. QED
        BY ONLY <2>2, <2>3
<1>7. QED
    BY ONLY <1>4, <1>5, <1>6 DEF OpenInv

LEMMA OpenOther ==
    ASSUME TypeOK, OpenInv,
           \/ SweepStep \/ HederaStep \/ DesignerStep
           \/ \E r \in Requests, p \in Payments : Arrive(r, p)
    PROVE  OpenInv'
<1>1. CASE SweepStep
    <2>1. status' = status /\ UNCHANGED hedera
        BY <1>1, SweepFrame
    <2>2. Sent'
        BY ONLY OpenInv, <2>1 DEF OpenInv, Sent, hedera
    <2>3. /\ Reaper \in Actors /\ pc \in [Actors -> Places]
          /\ on \in [Actors -> Payments \cup {None}]
          /\ sweep \in [Payments -> InFlight \cup {"none"}]
        BY DEF TypeOK, Actors
    <2>4. ASSUME NEW Chosen \in SUBSET Stale, SweepStart(Chosen)
          PROVE  Worked' /\ Swept'
        <3>1. /\ UNCHANGED <<pc, on>>
              /\ sweep' = [p \in Payments |-> IF p \in Chosen THEN status[p] ELSE "none"]
            BY ONLY <2>4 DEF SweepStart
        <3>2. QED
            BY ONLY OpenInv, <2>1, <3>1 DEF OpenInv, Worked, Swept
    <2>5. CASE Reap \/ \E p \in Payments : Reconcile(p)
        <3>1. \E Chosen \in SUBSET Stale : SweepStart(Chosen)
            BY ONLY <2>5 DEF Reap, Reconcile
        <3>2. QED
            BY ONLY <2>2, <2>4, <3>1 DEF OpenInv
    <2>6. CASE ReapStale
        <3>1. pc' = [pc EXCEPT ![Reaper] = "failing"] /\ UNCHANGED <<on, sweep>>
                  /\ pc[Reaper] = "mirror"
            BY ONLY <2>6 DEF ReapStale, Goto
        <3>2. QED
            BY ONLY OpenInv, <2>1, <2>2, <2>3, <3>1 DEF OpenInv, Worked, Swept
    <2>7. CASE ReapSkipped
        <3>1. LetsGo(Reaper) /\ Alone(Reaper)
            BY ONLY TypeOK, <2>3, <2>7, ReturnShape DEF ReapSkipped
        <3>2. QED
            BY ONLY OpenInv, <2>1, <2>2, <3>1 DEF OpenInv, Worked, Swept, LetsGo, Alone
    <2>8. CASE \E p \in Payments : SweepNext(p)
        <3>1. PICK p \in Payments :
                  /\ pc' = [pc EXCEPT ![Reaper] = "mirror"]
                  /\ on' = [on EXCEPT ![Reaper] = p]
                  /\ sweep[p] # "none" /\ UNCHANGED sweep
            BY ONLY <2>8 DEF SweepNext, Goto
        <3>2. status[p] # "none"
            BY ONLY OpenInv, <3>1 DEF OpenInv, Swept
        <3>3. QED
            BY ONLY OpenInv, <2>1, <2>2, <2>3, <3>1, <3>2 DEF OpenInv, Worked, Swept
    <2>9. QED
        BY ONLY <1>1, <2>2, <2>5, <2>6, <2>7, <2>8 DEF SweepStep, OpenInv
<1>2. CASE HederaStep
    <2>1. UNCHANGED <<rows, actors>>
        BY ONLY <1>2 DEF HederaStep, MirrorCatchUp, Land, Expire
    <2>2. Worked' /\ Swept'
        BY ONLY OpenInv, <2>1 DEF OpenInv, Worked, Swept, rows, actors
    <2>3. ASSUME UNCHANGED <<submitted, consensus>>
          PROVE  Sent'
        BY ONLY OpenInv, <2>1, <2>3 DEF OpenInv, Sent, rows
    <2>4. ASSUME NEW t \in Payments, Land(t) \/ Expire(t)
          PROVE  Sent'
        <3>1. /\ submitted' = submitted \ {t}
              /\ consensus' = consensus \/ consensus' = [consensus EXCEPT ![t] = clock + 1]
            BY ONLY <2>4 DEF Land, Expire
        <3>2. consensus \in [Payments -> Nat] /\ submitted \subseteq Payments
            BY DEF TypeOK
        <3>3. \A u \in submitted' : u \in submitted /\ consensus'[u] = consensus[u]
            BY ONLY <3>1, <3>2
        <3>4. QED
            BY ONLY OpenInv, <2>1, <3>3 DEF OpenInv, Sent, rows
    <2>5. Sent'
        BY ONLY <1>2, <2>3, <2>4 DEF HederaStep, MirrorCatchUp
    <2>6. QED
        BY ONLY <2>2, <2>5 DEF OpenInv
<1>3. CASE DesignerStep
    BY ONLY OpenInv, <1>3, DesignerFrame
       DEF OpenInv, Worked, Swept, Sent, rows, actors, hedera
<1>4. CASE \E r \in Requests, p \in Payments : Arrive(r, p)
    <2>1. PICK r \in Requests, p \in Payments : Arrive(r, p)
        BY ONLY <1>4
    <2>2. /\ \A a \in Actors \ {r} : pc'[a] = pc[a] /\ on'[a] = on[a]
          /\ pc'[r] \in {"replay", "reserve"} /\ on'[r] = p
          /\ UNCHANGED <<rows, sales, mem, tx, sweep, hedera>>
        BY ONLY TypeOK, <2>1, ArriveStep
    <2>3. pc'[r] = "replay" => status[p] # "none"
        <3>1. r \in Actors /\ pc \in [Actors -> Places]
            BY DEF TypeOK, Actors
        <3>2. status[p] # "none" \/ pc' = [pc EXCEPT ![r] = "reserve"]
            BY ONLY <2>1 DEF Arrive, Goto
        <3>3. QED
            BY ONLY <3>1, <3>2
    <2>4. QED
        BY ONLY OpenInv, <2>2, <2>3 DEF OpenInv, Worked, Swept, Sent, rows, hedera
<1>5. QED
    BY <1>1, <1>2, <1>3, <1>4

LEMMA OpenInit == Init => OpenInv
    BY Typing DEF Init, OpenInv, Worked, Swept, Sent

LEMMA OpenNext == TypeOK /\ OpenInv /\ [Next]_vars => OpenInv'
<1> SUFFICES ASSUME TypeOK, OpenInv, [Next]_vars
             PROVE  OpenInv'
    OBVIOUS
<1>1. CASE Next
    BY <1>1, NextCases, OpenActor, OpenOther
<1>2. CASE UNCHANGED vars
    BY ONLY OpenInv, <1>2
       DEF OpenInv, Worked, Swept, Sent, vars, rows, actors, hedera
<1>3. QED
    BY <1>1, <1>2

-----------------------------------------------------------------------------
(* Every step is a step of the sale, or one that shows nothing of it.      *)

Opened == {p \in Payments : status[p] # "none"}
Moved  == {p \in Payments : consensus[p] > 0}
Claim  == [p \in Payments |-> IF p \in booked THEN paymentTx[p] ELSE None]

SaleInv == TypeOK /\ MoneyInv /\ SalesInv /\ EditionRespected /\ OpenInv

LEMMA SaleInit == Init => Sale!Init
    BY DEF Init, Sale!Init

\* What the buyer and the designer see is made of five variables.
LEMMA Unseen ==
    ASSUME UNCHANGED <<Opened, Moved, booked, paymentTx, serial>>
    PROVE  UNCHANGED Sale!sales
    BY DEF Opened, Moved, Sale!sales

\* A row written again stays open.
LEMMA StillOpened ==
    ASSUME TypeOK, NEW p, p \in Payments => status[p] # "none",
           NEW s \in Statuses, status' = [status EXCEPT ![p] = s]
    PROVE  Opened' = Opened
<1>1. "none" \notin Statuses
    BY DEF Statuses, InFlight, Failed
<1>2. status \in [Payments -> Statuses \cup {"none"}]
    BY DEF TypeOK
<1>3. QED
    BY <1>1, <1>2 DEF Opened

LEMMA SaleReserve ==
    ASSUME SaleInv, NEW a \in Actors, Reserve(a)
    PROVE  Sale!Next
<1> DEFINE b == on[a]
<1>1. /\ pc[a] = "reserve" /\ status[b] = "none"
      /\ status' = [status EXCEPT ![b] = "pending"]
      /\ UNCHANGED <<paymentTx, sales, hedera>>
    BY DEF Reserve
<1>2. b \in Payments /\ status \in [Payments -> Statuses \cup {"none"}]
    BY <1>1 DEF SaleInv, TypeOK
<1>3. b \notin Opened /\ Opened' = Opened \cup {b}
    BY ONLY <1>1, <1>2 DEF Opened
<1>4. UNCHANGED <<Moved, Claim, serial>>
    BY ONLY <1>1 DEF Moved, Claim, sales, hedera
<1>5. PICK p \in Payments : p = b
    BY <1>2
<1>6. Sale!Open(p)
    BY ONLY <1>3, <1>4, <1>5 DEF Sale!Open, Opened, Moved, Claim
<1>7. QED
    BY <1>6 DEF Sale!Next

\* A purchase is booked on a transfer that backs it and no other sale.
LEMMA SaleBook ==
    ASSUME SaleInv, NEW b \in Payments \ Sandbox, status[b] # "none",
           NEW t \in Payments, consensus[t] > 0, PriceOf[t] = PriceOf[b],
           \A q \in Payments \ {b} : paymentTx[q] # t,
           UNCHANGED <<Opened, consensus, serial>>,
           booked' = booked \cup {b}, paymentTx' = [paymentTx EXCEPT ![b] = t]
    PROVE  Sale!Next
<1>1. paymentTx \in [Payments -> Payments \cup {None}] /\ t # None
    BY Typing DEF SaleInv, TypeOK
<1>2. Claim' = [Claim EXCEPT ![b] = t]
    BY <1>1 DEF Claim
<1>3. \A q \in Payments \ {b} : Claim[q] # t
    BY <1>1 DEF Claim
<1>4. Sale!Backs(t, b)
    BY <1>3 DEF Sale!Backs, Claim
<1>5. UNCHANGED Moved
    BY DEF Moved
<1>6. Sale!Book(b, t)
    BY <1>2, <1>4, <1>5 DEF Sale!Book, Claim, Moved, Opened
<1>7. QED
    BY <1>6 DEF Sale!Next

LEMMA SaleRecordTx ==
    ASSUME SaleInv, NEW a \in Actors, RecordTx(a)
    PROVE  Sale!Next \/ UNCHANGED Sale!sales
<1> DEFINE b == on[a]
<1>1. /\ pc[a] = "record" /\ ~TxTaken(a)
      /\ paymentTx' = [paymentTx EXCEPT ![b] = tx[a]]
      /\ UNCHANGED <<status, sales, hedera>>
    BY DEF RecordTx
<1>2. /\ b \in Payments /\ tx[a] \in Payments /\ booked \subseteq Payments
      /\ paymentTx \in [Payments -> Payments \cup {None}]
    BY <1>1 DEF SaleInv, TypeOK
<1>3. UNCHANGED <<Opened, Moved, serial, booked, consensus>>
    BY ONLY <1>1 DEF Opened, Moved, sales, hedera
<1>4. CASE b \in booked
    <2>1. b \notin Sandbox
        BY ONLY SaleInv, <1>4 DEF SaleInv, MoneyInv
    <2>2. consensus[tx[a]] > 0 /\ PriceOf[tx[a]] = PriceOf[b]
        BY ONLY SaleInv, <1>1, <2>1, a \in Actors DEF SaleInv, MoneyInv
    <2>3. \A q \in Payments \ {b} : paymentTx[q] # tx[a]
        BY ONLY <1>1 DEF TxTaken
    <2>4. status[b] # "none"
        BY ONLY SaleInv, <1>1, a \in Actors DEF SaleInv, OpenInv, Worked
    <2>5. booked' = booked \cup {b}
        BY <1>3, <1>4
    <2>6. QED
        BY ONLY SaleInv, <1>1, <1>2, <1>3, <2>1, <2>2, <2>3, <2>4, <2>5, SaleBook
<1>5. CASE b \notin booked
    <2>1. Claim' = Claim
        BY ONLY <1>1, <1>2, <1>3, <1>5 DEF Claim
    <2>2. QED
        BY ONLY <1>3, <2>1 DEF Sale!sales, Claim, Opened, Moved
<1>6. QED
    BY <1>4, <1>5

LEMMA SaleSettle ==
    ASSUME SaleInv, NEW a \in Actors, Settle(a)
    PROVE  Sale!Next \/ UNCHANGED Sale!sales
<1> DEFINE b == on[a]
<1>1. /\ pc[a] = "booking" /\ status' = [status EXCEPT ![b] = "settled"]
      /\ booked' = IF b \notin Sandbox THEN booked \cup {b} ELSE booked
      /\ UNCHANGED <<paymentTx, serial, hedera>>
    BY DEF Settle, TransitionTo
<1>2. /\ b \in Payments /\ paymentTx \in [Payments -> Payments \cup {None}]
      /\ TypeOK
    BY <1>1 DEF SaleInv, TypeOK
<1>3. "settled" \in Statuses
    BY DEF Statuses
<1>4. status[b] # "none"
    BY ONLY SaleInv, <1>1, a \in Actors DEF SaleInv, OpenInv, Worked
<1>5. Opened' = Opened
    BY ONLY <1>1, <1>2, <1>3, <1>4, StillOpened
<1>6. CASE b \notin Sandbox
    <2>1. paymentTx[b] # None /\ paymentTx[b] \in Payments
        BY ONLY SaleInv, <1>1, <1>2, a \in Actors DEF SaleInv, MoneyInv
    <2>2. /\ consensus[paymentTx[b]] > 0 /\ PriceOf[paymentTx[b]] = PriceOf[b]
          /\ \A q \in Payments \ {b} : paymentTx[q] # paymentTx[b]
        BY ONLY SaleInv, <1>2, <1>6, <2>1 DEF SaleInv, MoneyInv
    <2>3. paymentTx' = [paymentTx EXCEPT ![b] = paymentTx[b]]
        BY ONLY <1>1, <1>2
    <2>4. UNCHANGED <<consensus, serial>> /\ booked' = booked \cup {b}
        BY ONLY <1>1, <1>6 DEF hedera
    <2>5. QED
        BY ONLY SaleInv, <1>2, <1>4, <1>5, <1>6, <2>1, <2>2, <2>3, <2>4, SaleBook
<1>7. CASE b \in Sandbox
    BY ONLY <1>1, <1>5, <1>7, Unseen DEF Moved, hedera
<1>8. QED
    BY <1>6, <1>7

\* An instance brings its own name of a set's size.
LEMMA SameCount ==
    ASSUME NEW S
    PROVE  Sale!Cardinality(S) = Cardinality(S)
    BY DEF Sale!Cardinality, Cardinality

\* The next serial is the number of licences of its kind so far, and one.
LEMMA NextSerial ==
    ASSUME TypeOK, EditionRespected, NEW p \in Payments, serial[p] = 0,
           NEW n \in Nat, n # 0, IsNextSerial(n, p)
    PROVE  n = 1 + Cardinality(Licensed(p))
<1> DEFINE L == Licensed(p)
<1>1. serial \in [Payments -> Nat] /\ L \subseteq Payments
    BY DEF TypeOK, Licensed
<1>2. IsFiniteSet(L)
    BY <1>1, Typing, FS_Subset
<1>3. n - 1 \in Nat
    OBVIOUS
<1>4. \A q \in L : serial[q] \in Nat \ {0} /\ serial[q] <= n - 1
    BY <1>1 DEF IsNextSerial, Licensed
<1>5. \A q \in L : Licensed(q) = L
    BY DEF Licensed
<1>6. \A q, u \in L : serial[q] = serial[u] => q = u
    <2> SUFFICES ASSUME NEW q \in L, NEW u \in L, serial[q] = serial[u], q # u
                 PROVE  FALSE
        OBVIOUS
    <2>1. u \in Licensed(q) \ {q} /\ q \in Payments /\ serial[q] # 0
        BY <1>1, <1>5 DEF Licensed
    <2>2. QED
        BY <2>1 DEF EditionRespected
<1>7. \A q \in L : serial[q] = 1 \/ \E u \in L : serial[u] + 1 = serial[q]
    <2> SUFFICES ASSUME NEW q \in L
                 PROVE  serial[q] = 1 \/ \E u \in L : serial[u] + 1 = serial[q]
        OBVIOUS
    <2>1. q \in Payments /\ serial[q] # 0 /\ Licensed(q) = L
        BY <1>1, <1>5 DEF Licensed
    <2>2. QED
        BY <2>1 DEF EditionRespected
<1>8. n - 1 = 0 \/ \E q \in L : serial[q] = n - 1
    BY <1>1 DEF IsNextSerial
<1>9. Cardinality(L) = n - 1
    <2> HIDE DEF L
    <2>1. QED
        BY <1>2, <1>3, <1>4, <1>6, <1>7, <1>8, NumberedCardinality
<1>10. QED
    BY <1>9

LEMMA SaleAllocate ==
    ASSUME SaleInv, NEW a \in Actors, Allocate(a)
    PROVE  Sale!Next
<1>1. /\ pc[a] = "allocate" /\ serial[on[a]] = 0 /\ ~CapReached(on[a])
      /\ UNCHANGED <<rows, booked, hedera>>
    BY DEF Allocate
<1>2. PICK n \in 1 .. Cardinality(Payments) :
          IsNextSerial(n, on[a]) /\ serial' = [serial EXCEPT ![on[a]] = n]
    BY DEF Allocate
<1>3. PICK p \in Payments : p = on[a]
    BY <1>1 DEF SaleInv, TypeOK
<1>4. n \in Nat /\ n # 0
    BY <1>2, RowCount
<1>5. n = 1 + Cardinality(Licensed(p))
    BY <1>1, <1>2, <1>3, <1>4, NextSerial DEF SaleInv
<1>6. Sale!NextUnit(p) = n
    <2>1. Sale!Siblings(p) = Licensed(p)
        BY DEF Sale!Siblings, Licensed
    <2>2. QED
        BY ONLY <1>5, <2>1, SameCount DEF Sale!NextUnit
<1>7. p \notin Sandbox => n <= MaxUnits[OfferOf[p]]
    <2>1. serial \in [Payments -> Nat] /\ MaxUnits[OfferOf[p]] \in Nat
        BY Typing DEF SaleInv, TypeOK
    <2>2. QED
        BY <1>1, <1>2, <1>3, <1>4, <2>1 DEF CapReached, IsNextSerial, Licensed
<1>8. ~Sale!EditionEnded(p)
    <2>1. MaxUnits[OfferOf[p]] \in Nat
        BY Typing
    <2>2. QED
        BY ONLY <1>4, <1>6, <1>7, <2>1 DEF Sale!EditionEnded
<1>9. p \in Opened
    BY ONLY SaleInv, <1>1, <1>3, a \in Actors DEF SaleInv, OpenInv, Worked, Opened
<1>10. p \notin Sandbox => Claim[p] # None
    BY ONLY SaleInv, <1>1, <1>3, a \in Actors DEF SaleInv, SalesInv, MoneyInv, Claim
<1>11. UNCHANGED <<Opened, Moved, Claim>>
    BY ONLY <1>1 DEF Opened, Moved, Claim, rows, hedera
<1>12. Sale!Issue(p)
    BY ONLY <1>1, <1>2, <1>3, <1>6, <1>8, <1>9, <1>10, <1>11
       DEF Sale!Issue, Opened, Moved, Claim
<1>13. QED
    BY <1>12 DEF Sale!Next

\* The steps of an actor that show nothing.
LEMMA SaleHidden ==
    ASSUME SaleInv, NEW a \in Actors, ActorStep(a),
           ~(Reserve(a) \/ RecordTx(a) \/ Settle(a) \/ Allocate(a))
    PROVE  UNCHANGED Sale!sales
<1>1. UNCHANGED <<consensus, paymentTx, serial>>
    BY ONLY ActorStep(a), ~(Reserve(a) \/ RecordTx(a) \/ Settle(a) \/ Allocate(a))
       DEF ActorStep, RequestStep, SharedStep, ReserveRefused,
        ReserveLostRace, Replay, ReplayAnswered, VerifyValid, VerifyInvalid,
        FacilitatorUnavailable, SubmitSettle, SettleSucceeded, SettleRefused,
        MirrorMiss, FindLicense, Undeliverable, Fail, MirrorHit, RecordRefused,
        SettleInvalid, AllocateSoldOut, AllocateRefused, Deliver, Enqueue, Crash,
        rows, sales, hedera
<1>2. CASE VerifyValid(a) \/ Fail(a) \/ Deliver(a)
    <2>1. /\ pc[a] \notin {"idle", "reserve"} /\ UNCHANGED booked
          /\ \E s \in {"verified", "failed_verification", "failed_settlement",
                       "delivered"} : status' = [status EXCEPT ![on[a]] = s]
        BY ONLY <1>2 DEF VerifyValid, Fail, Deliver, TransitionTo
    <2>2. status[on[a]] # "none" /\ TypeOK
        BY ONLY SaleInv, <2>1, a \in Actors DEF SaleInv, OpenInv, Worked
    <2>3. Opened' = Opened
        BY <2>1, <2>2, StillOpened DEF Statuses, InFlight, Failed
    <2>4. QED
        BY ONLY <1>1, <2>1, <2>3, Unseen DEF Moved
<1>3. CASE ~(VerifyValid(a) \/ Fail(a) \/ Deliver(a))
    <2>1. UNCHANGED <<status, booked>>
        BY ONLY <1>3, ActorStep(a), ~(Reserve(a) \/ RecordTx(a) \/ Settle(a) \/ Allocate(a))
           DEF ActorStep, RequestStep, SharedStep, ReserveRefused,
            ReserveLostRace, Replay, ReplayAnswered, VerifyInvalid,
            FacilitatorUnavailable, SubmitSettle, SettleSucceeded, SettleRefused,
            MirrorMiss, FindLicense, Undeliverable, MirrorHit, RecordRefused,
            SettleInvalid, AllocateSoldOut, AllocateRefused, Enqueue, Crash,
            rows, sales
    <2>2. QED
        BY ONLY <1>1, <2>1, Unseen DEF Opened, Moved
<1>4. QED
    BY ONLY <1>2, <1>3

LEMMA SaleLand ==
    ASSUME SaleInv, NEW t \in Payments, Land(t)
    PROVE  Sale!Next
<1>1. /\ t \in submitted /\ consensus' = [consensus EXCEPT ![t] = clock + 1]
      /\ UNCHANGED <<rows, sales>>
    BY DEF Land
<1>2. /\ consensus \in [Payments -> Nat] /\ clock \in Nat
      /\ status[t] # "none" /\ t \notin Sandbox /\ consensus[t] = 0
    BY <1>1 DEF SaleInv, TypeOK, OpenInv, Sent
<1>3. t \in Opened \ (Sandbox \cup Moved) /\ Moved' = Moved \cup {t}
    BY ONLY <1>1, <1>2, t \in Payments DEF Opened, Moved
<1>4. UNCHANGED <<Opened, Claim, serial>>
    BY ONLY <1>1 DEF Opened, Claim, rows, sales
<1>5. Sale!Move(t)
    BY ONLY <1>3, <1>4 DEF Sale!Move, Opened, Moved, Claim
<1>6. QED
    BY <1>5 DEF Sale!Next

LEMMA SaleOther ==
    ASSUME SaleInv,
           \/ SweepStep \/ HederaStep \/ DesignerStep
           \/ \E r \in Requests, p \in Payments : Arrive(r, p)
    PROVE  Sale!Next \/ UNCHANGED Sale!sales
<1>1. CASE SweepStep
    <2>1. UNCHANGED <<status, paymentTx, sales, hedera>>
        BY <1>1, SweepFrame DEF SaleInv
    <2>2. QED
        BY ONLY <2>1, Unseen DEF Opened, Moved, sales, hedera
<1>2. CASE \E t \in Payments : Land(t)
    BY <1>2, SaleLand
<1>3. CASE MirrorCatchUp \/ \E t \in Payments : Expire(t)
    <2>1. UNCHANGED <<rows, sales, consensus>>
        BY ONLY <1>3 DEF MirrorCatchUp, Expire
    <2>2. QED
        BY ONLY <2>1, Unseen DEF Opened, Moved, rows, sales
<1>4. CASE DesignerStep
    BY ONLY <1>4, DesignerFrame, Unseen DEF Opened, Moved, rows, sales, hedera
<1>5. CASE \E r \in Requests, p \in Payments : Arrive(r, p)
    <2>1. UNCHANGED <<rows, sales, hedera>>
        BY ONLY <1>5 DEF Arrive
    <2>2. QED
        BY ONLY <2>1, Unseen DEF Opened, Moved, rows, sales, hedera
<1>6. QED
    BY <1>1, <1>2, <1>3, <1>4, <1>5 DEF HederaStep

LEMMA SaleNext == SaleInv /\ [Next]_vars => [Sale!Next]_(Sale!sales)
<1> SUFFICES ASSUME SaleInv, [Next]_vars
             PROVE  Sale!Next \/ UNCHANGED Sale!sales
    BY DEF Sale!sales
<1>1. ASSUME NEW a \in Actors, ActorStep(a)
      PROVE  Sale!Next \/ UNCHANGED Sale!sales
    BY <1>1, SaleReserve, SaleRecordTx, SaleSettle, SaleAllocate, SaleHidden
<1>2. CASE Next
    BY <1>1, <1>2, NextCases, SaleOther
<1>3. CASE UNCHANGED vars
    BY ONLY <1>3, Unseen DEF Opened, Moved, vars, rows, sales, hedera
<1>4. QED
    BY <1>2, <1>3

\* Whatever requests, sweeps, retries and crashes do, and however they overlap,
\* what a buyer and a designer see is the sale that Sales specifies.
THEOREM ImplementsSale == Spec => IsASale
<1>1. Init => MoneyInv /\ SalesInv /\ EditionRespected /\ OpenInv
    <2>1. Init => SalesInv
        BY Typing DEF Init, SalesInv, SalesAreBooked, Actors
    <2>2. Init => EditionRespected
        BY DEF Init, EditionRespected
    <2>3. QED
        BY <2>1, <2>2, TypeInit, MoneyInit, OpenInit
<1>2. Init => SaleInv
    BY <1>1, TypeInit DEF SaleInv
<1>3. SaleInv /\ [Next]_vars => SaleInv'
    BY TypeNext, MoneyNext, SalesNext, EditionNext, OpenNext DEF SaleInv
<1>4. QED
    BY <1>2, <1>3, SaleInit, SaleNext, PTL DEF Spec, IsASale, Sale!Spec

-----------------------------------------------------------------------------
(* Reservations, while no two actors work on one real purchase at a time.  *)

Real == Payments \ Sandbox

\* A purchase on its way to a file is paid, one about to be licensed is not
\* licensed yet, and a licensed one is paid.
Paid ==
    /\ \A a \in Actors : on[a] \in Real =>
          /\ pc[a] \in {"license", "allocate", "files"} => status[on[a]] = "settled"
          /\ pc[a] = "allocate" => serial[on[a]] = 0
    /\ \A p \in Real : serial[p] # 0 => status[p] \in {"settled", "delivered"}

\* How an actor comes near the licence.
LEMMA PlaceShape ==
    ASSUME TypeOK, NEW a \in Actors, ActorStep(a),
           pc'[a] \in {"license", "allocate", "files"}
    PROVE  \/ /\ pc'[a] = "license" /\ status[on[a]] = "settled"
              /\ UNCHANGED <<status, serial>>
           \/ /\ pc[a] = "booking" /\ "settled" \in TRANSITIONS[mem[a]]
              /\ status' = [status EXCEPT ![on[a]] = "settled"] /\ serial' = serial
           \/ /\ pc[a] = "license" /\ UNCHANGED <<status, serial>>
              /\ pc'[a] = "allocate" => serial[on[a]] = 0
           \/ /\ pc[a] = "allocate" /\ pc'[a] = "files" /\ UNCHANGED status
<1>1. pc \in [Actors -> Places]
    BY DEF TypeOK
<1>2. ASSUME NEW place, Goto(a, place)
      PROVE  place \in {"license", "allocate", "files"} /\ pc'[a] = place
    BY <1>2, GotoShape
<1>3. ASSUME Return(a) \/ Abort(a)
      PROVE  FALSE
    BY <1>3, ReturnShape DEF LetsGo
<1>4. ~(\/ ReserveRefused(a) \/ ReplayAnswered(a) \/ FacilitatorUnavailable(a)
        \/ Undeliverable(a) \/ Fail(a) \/ RecordRefused(a) \/ SettleInvalid(a)
        \/ AllocateSoldOut(a) \/ AllocateRefused(a) \/ Enqueue(a) \/ Crash(a))
    BY ONLY <1>3 DEF ReserveRefused, ReplayAnswered, FacilitatorUnavailable,
        Undeliverable, Fail, RecordRefused, SettleInvalid, AllocateSoldOut,
        AllocateRefused, Enqueue, Crash
<1>5. ~(\/ ReserveLostRace(a) \/ Reserve(a) \/ VerifyValid(a) \/ VerifyInvalid(a)
        \/ SettleSucceeded(a) \/ SettleRefused(a) \/ MirrorMiss(a) \/ MirrorHit(a)
        \/ RecordTx(a))
    BY ONLY <1>2 DEF ReserveLostRace, Reserve, VerifyValid, VerifyInvalid,
        SettleSucceeded, SettleRefused, MirrorMiss, MirrorHit, RecordTx
<1>6. ~SubmitSettle(a)
    BY ONLY <1>2 DEF SubmitSettle
<1>7. ~Deliver(a)
    BY ONLY <1>2, <1>3 DEF Deliver
<1>8. CASE Replay(a)
    <2>1. /\ Goto(a, ReplayOutcome(on[a])) /\ UNCHANGED <<status, serial>>
        BY ONLY <1>8 DEF Replay, rows, sales
    <2>2. /\ ReplayOutcome(on[a]) \in {"license", "allocate", "files"}
          /\ pc'[a] = ReplayOutcome(on[a])
        BY ONLY TypeOK, <2>1, GotoShape, a \in Actors,
                pc'[a] \in {"license", "allocate", "files"}
    <2>3. QED
        BY ONLY <2>1, <2>2 DEF ReplayOutcome
<1>9. CASE Settle(a)
    BY ONLY <1>9 DEF Settle, TransitionTo
<1>10. CASE FindLicense(a)
    <2>1. /\ pc[a] = "license" /\ UNCHANGED <<status, serial>>
          /\ Goto(a, IF serial[on[a]] # 0 THEN "files" ELSE "allocate")
        BY ONLY <1>10 DEF FindLicense, rows, sales
    <2>2. pc'[a] = IF serial[on[a]] # 0 THEN "files" ELSE "allocate"
        BY ONLY TypeOK, <2>1, GotoShape, a \in Actors
    <2>3. QED
        BY ONLY <2>1, <2>2
<1>11. CASE Allocate(a)
    <2>1. pc[a] = "allocate" /\ Goto(a, "files") /\ UNCHANGED status
        BY ONLY <1>11 DEF Allocate, rows
    <2>2. QED
        BY ONLY <1>2, <2>1
<1>12. QED
    BY ONLY ActorStep(a), <1>4, <1>5, <1>6, <1>7, <1>8, <1>9, <1>10, <1>11
       DEF ActorStep, RequestStep, SharedStep

LEMMA SerialShape ==
    ASSUME NEW a, ActorStep(a)
    PROVE  \/ serial' = serial
           \/ /\ pc[a] = "allocate" /\ UNCHANGED status
              /\ \E n : serial' = [serial EXCEPT ![on[a]] = n]
<1>1. CASE Allocate(a)
    BY ONLY <1>1 DEF Allocate, rows
<1>2. CASE ~Allocate(a)
    BY ONLY <1>2, ActorStep(a)
       DEF ActorStep, RequestStep, SharedStep, ReserveRefused,
        ReserveLostRace, Reserve, Replay, ReplayAnswered, VerifyValid,
        VerifyInvalid, FacilitatorUnavailable, SubmitSettle, SettleSucceeded,
        SettleRefused, MirrorMiss, FindLicense, Undeliverable, Fail, MirrorHit,
        RecordTx, RecordRefused, Settle, SettleInvalid, AllocateSoldOut,
        AllocateRefused, Deliver, Enqueue, Crash, sales
<1>3. QED
    BY ONLY <1>1, <1>2

LEMMA PaidActor ==
    ASSUME Overlap \subseteq Sandbox, TypeOK, OneHolder, InStep, Paid,
           NEW a \in Actors, ActorStep(a)
    PROVE  Paid'
<1>1. /\ serial \in [Payments -> Nat]
      /\ status \in [Payments -> Statuses \cup {"none"}]
      /\ \A e \in Actors : pc[e] # "idle" => on[e] \in Payments
    BY DEF TypeOK
<1>2. (LetsGo(a) \/ GoesOn(a)) /\ Alone(a)
    BY StepShape
<1>3. \/ serial' = serial
      \/ /\ pc[a] = "allocate" /\ UNCHANGED status
         /\ \E n : serial' = [serial EXCEPT ![on[a]] = n]
    BY SerialShape
<1>4. status' = status \/ \E s : status' = [status EXCEPT ![on[a]] = s]
    BY StatusShape
<1>5. \A p \in Payments : p # on[a] => status'[p] = status[p] /\ serial'[p] = serial[p]
    BY ONLY <1>1, <1>3, <1>4
<1>6. \A p \in Real : status[p] \in {"settled", "delivered"} =>
                          status'[p] \in {"settled", "delivered"}
    <2> SUFFICES ASSUME NEW p \in Real, status[p] \in {"settled", "delivered"},
                        status'[p] # status[p]
                 PROVE  status'[p] \in {"settled", "delivered"}
        OBVIOUS
    <2>1. Next /\ p \in Payments \ Overlap
        BY DEF Real, ActorStep, Next, Actors
    <2>2. status'[p] \in TRANSITIONS[status[p]]
        BY <2>1, Forward
    <2>3. QED
        BY <2>2 DEF TRANSITIONS, Statuses, InFlight, Failed
<1>7. ASSUME NEW p \in Real, serial'[p] # 0
      PROVE  status'[p] \in {"settled", "delivered"}
    <2>1. CASE serial[p] # 0
        BY ONLY Paid, <1>6, <2>1, p \in Real DEF Paid
    <2>2. CASE serial[p] = 0
        <3>1. p = on[a] /\ pc[a] = "allocate"
            BY ONLY <1>3, <1>5, <1>7, <2>2 DEF Real
        <3>2. QED
            BY ONLY Paid, <1>6, <3>1, p \in Real, a \in Actors DEF Paid
    <2>3. QED
        BY <2>1, <2>2
<1>8. ASSUME NEW e \in Actors, on'[e] \in Real,
             pc'[e] \in {"license", "allocate", "files"}
      PROVE  status'[on'[e]] = "settled" /\ (pc'[e] = "allocate" => serial'[on'[e]] = 0)
    <2>1. CASE e # a
        <3>1. pc'[e] = pc[e] /\ on'[e] = on[e]
            BY ONLY <1>2, <2>1, e \in Actors DEF Alone
        <3>2. on[a] # on[e]
            BY ONLY OneHolder, <1>8, <2>1, <3>1, a \in Actors, Overlap \subseteq Sandbox
               DEF OneHolder, Real
        <3>3. QED
            BY ONLY Paid, <1>5, <1>8, <3>1, <3>2 DEF Paid, Real
    <2>2. CASE e = a
        <3>1. on'[a] = on[a] /\ pc[a] # "idle"
            BY ONLY <1>2, <1>8, <2>2 DEF LetsGo, GoesOn
        <3>2. \/ /\ pc'[a] = "license" /\ status[on[a]] = "settled"
                 /\ UNCHANGED <<status, serial>>
              \/ /\ pc[a] = "booking" /\ "settled" \in TRANSITIONS[mem[a]]
                 /\ status' = [status EXCEPT ![on[a]] = "settled"] /\ serial' = serial
              \/ /\ pc[a] = "license" /\ UNCHANGED <<status, serial>>
                 /\ pc'[a] = "allocate" => serial[on[a]] = 0
              \/ /\ pc[a] = "allocate" /\ pc'[a] = "files" /\ UNCHANGED status
            BY <1>8, <2>2, PlaceShape
        <3>3. CASE /\ pc[a] = "booking" /\ "settled" \in TRANSITIONS[mem[a]]
                   /\ status' = [status EXCEPT ![on[a]] = "settled"] /\ serial' = serial
            <4>1. mem[a] = status[on[a]] /\ on[a] \in Real
                BY ONLY InStep, <1>8, <2>2, <3>1, <3>3, Overlap \subseteq Sandbox
                   DEF InStep, Loaded, Real
            <4>2. mem[a] \in Statuses \cup {"none"}
                BY ONLY <1>1, <4>1 DEF Real
            <4>3. status[on[a]] \notin {"settled", "delivered"}
                <5>1. \A s \in {"settled", "delivered"} : "settled" \notin TRANSITIONS[s]
                    BY DEF TRANSITIONS, Statuses, InFlight, Failed
                <5>2. QED
                    BY ONLY <3>3, <4>1, <5>1
            <4>4. serial[on[a]] = 0
                BY ONLY Paid, <4>1, <4>3 DEF Paid
            <4>5. QED
                BY ONLY <1>1, <2>2, <3>1, <3>3, <4>1, <4>4 DEF Real
        <3>4. QED
            BY ONLY Paid, <1>8, <2>2, <3>1, <3>2, <3>3 DEF Paid
    <2>3. QED
        BY <2>1, <2>2
<1>9. QED
    BY ONLY <1>7, <1>8 DEF Paid, Real

LEMMA PaidOther ==
    ASSUME TypeOK, Paid,
           \/ SweepStep \/ HederaStep \/ DesignerStep
           \/ \E r \in Requests, p \in Payments : Arrive(r, p)
    PROVE  Paid'
<1>1. CASE SweepStep
    <2>1. /\ UNCHANGED <<status, sales>>
          /\ \A a \in Actors :
                \/ pc'[a] = pc[a] /\ on'[a] = on[a]
                \/ pc'[a] \in {"idle", "failing", "mirror"}
        BY <1>1, SweepFrame
    <2>2. QED
        BY ONLY Paid, <2>1 DEF Paid, Real, sales
<1>2. CASE HederaStep
    <2>1. UNCHANGED <<rows, sales, actors>>
        BY ONLY <1>2 DEF HederaStep, MirrorCatchUp, Land, Expire
    <2>2. QED
        BY ONLY Paid, <2>1 DEF Paid, Real, rows, sales, actors
<1>3. CASE DesignerStep
    BY ONLY Paid, <1>3, DesignerFrame DEF Paid, Real, rows, sales, actors
<1>4. CASE \E r \in Requests, p \in Payments : Arrive(r, p)
    <2>1. PICK r \in Requests, p \in Payments : Arrive(r, p)
        BY ONLY <1>4
    <2>2. /\ \A a \in Actors \ {r} : pc'[a] = pc[a] /\ on'[a] = on[a]
          /\ pc'[r] \in {"replay", "reserve"}
        BY ONLY TypeOK, <2>1, ArriveStep
    <2>3. UNCHANGED <<rows, sales>>
        BY ONLY <2>1 DEF Arrive
    <2>4. QED
        BY ONLY Paid, <2>2, <2>3 DEF Paid, Real, rows, sales
<1>5. QED
    BY <1>1, <1>2, <1>3, <1>4

\* The real purchases that use up an edition.
Counted(o) == {p \in Payments \ Sandbox :
                  OfferOf[p] = o /\ status[p] \notin Failed \cup {"none"}}

LEMMA CountedIsUsed ==
    ASSUME NEW o
    PROVE  CapacityUsed(o) = Cardinality(Counted(o)) /\ IsFiniteSet(Counted(o))
<1>1. Counted(o) \subseteq Payments
    BY DEF Counted
<1>2. IsFiniteSet(Counted(o))
    BY <1>1, Typing, FS_Subset
<1>3. QED
    BY <1>2 DEF CapacityUsed, Counted

WithinEdition == \A o \in Offers : CapacityUsed(o) <= MaxUnits[o]

LEMMA WithinNext ==
    ASSUME Overlap \subseteq Sandbox, TypeOK, OpenInv, InStep, WithinEdition,
           [Next]_vars
    PROVE  WithinEdition'
<1> SUFFICES ASSUME NEW o \in Offers
             PROVE  CapacityUsed(o)' <= MaxUnits[o]
    BY DEF WithinEdition
<1>1. /\ CapacityUsed(o) = Cardinality(Counted(o)) /\ IsFiniteSet(Counted(o))
      /\ CapacityUsed(o)' = Cardinality(Counted(o)') /\ IsFiniteSet(Counted(o)')
    <2>1. Counted(o)' \subseteq Payments
        BY DEF Counted
    <2>2. IsFiniteSet(Counted(o)')
        BY <2>1, Typing, FS_Subset
    <2>3. CapacityUsed(o)' = Cardinality(Counted(o)')
        BY DEF CapacityUsed, Counted
    <2>4. QED
        BY <2>2, <2>3, CountedIsUsed
<1>2. /\ CapacityUsed(o) \in Nat /\ CapacityUsed(o)' \in Nat /\ MaxUnits[o] \in Nat
      /\ CapacityUsed(o) <= MaxUnits[o]
    BY <1>1, Typing, FS_CardinalityType DEF WithinEdition
<1>3. \A p \in Payments \ Sandbox :
          status[p] \in Failed \cup {"none"} /\ status'[p] \notin Failed \cup {"none"}
              => \E a \in Actors : on[a] = p /\ Reserve(a)
    <2> SUFFICES ASSUME NEW p \in Payments \ Sandbox,
                        status[p] \in Failed \cup {"none"},
                        status'[p] \notin Failed \cup {"none"}
                 PROVE  \E a \in Actors : on[a] = p /\ Reserve(a)
        OBVIOUS
    <2>1. p \in Payments \ Overlap /\ status'[p] # status[p]
        OBVIOUS
    <2>2. CASE status[p] = "none"
        <3>1. ~\E a \in Actors : on[a] = p /\ Loaded(a)
            BY ONLY OpenInv, <2>2 DEF OpenInv, Worked, Loaded
        <3>2. QED
            BY <2>1, <3>1, Forward
    <2>3. CASE status[p] \in Failed
        <3>1. TRANSITIONS[status[p]] = {} /\ status[p] # "none"
            BY <2>3 DEF TRANSITIONS, Statuses, InFlight, Failed
        <3>2. QED
            BY <2>1, <3>1, Forward
    <2>4. QED
        BY <2>2, <2>3
<1>4. CASE \E a \in Actors : Reserve(a) /\ on[a] \in Counted(o)'
    <2>1. PICK a \in Actors : Reserve(a) /\ on[a] \in Counted(o)'
        BY <1>4
    <2>2. PICK b \in Payments : b = on[a]
        BY <2>1 DEF Counted
    <2>3. /\ b \notin Sandbox /\ OfferOf[b] = o
          /\ status' = [status EXCEPT ![b] = "pending"]
          /\ ~SoldOut(OfferOf[b])
        <3>1. b \notin Sandbox /\ OfferOf[b] = o
            BY ONLY <2>1, <2>2 DEF Counted
        <3>2. QED
            BY ONLY <2>1, <2>2, <3>1 DEF Reserve
    <2>4. Counted(o)' \subseteq Counted(o) \cup {b}
        <3>1. status \in [Payments -> Statuses \cup {"none"}]
            BY DEF TypeOK
        <3>2. QED
            BY ONLY <2>3, <3>1 DEF Counted
    <2>5. CapacityUsed(o) < MaxUnits[o]
        BY ONLY <1>2, <2>3 DEF SoldOut
    <2>6. /\ IsFiniteSet(Counted(o) \cup {b})
          /\ Cardinality(Counted(o) \cup {b}) \in Nat
          /\ Cardinality(Counted(o) \cup {b}) <= CapacityUsed(o) + 1
        <3>1. /\ IsFiniteSet(Counted(o) \cup {b})
              /\ \/ Cardinality(Counted(o) \cup {b}) = CapacityUsed(o)
                 \/ Cardinality(Counted(o) \cup {b}) = CapacityUsed(o) + 1
            BY ONLY <1>1, FS_AddElement
        <3>2. QED
            BY ONLY <1>2, <3>1
    <2>7. CapacityUsed(o)' <= Cardinality(Counted(o) \cup {b})
        BY ONLY <1>1, <2>4, <2>6, FS_Subset
    <2>8. QED
        BY ONLY <1>2, <2>5, <2>6, <2>7
<1>5. CASE ~\E a \in Actors : Reserve(a) /\ on[a] \in Counted(o)'
    <2>1. Counted(o)' \subseteq Counted(o)
        <3> SUFFICES ASSUME NEW p \in Counted(o)'
                     PROVE  p \in Counted(o)
            OBVIOUS
        <3>1. /\ p \in Payments \ Sandbox /\ OfferOf[p] = o
              /\ status'[p] \notin Failed \cup {"none"}
            BY DEF Counted
        <3>2. status[p] \notin Failed \cup {"none"}
            BY ONLY <1>3, <1>5, <3>1, p \in Counted(o)'
        <3>3. QED
            BY ONLY <3>1, <3>2 DEF Counted
    <2>2. CapacityUsed(o)' <= CapacityUsed(o)
        BY ONLY <1>1, <2>1, FS_Subset
    <2>3. QED
        BY ONLY <1>2, <2>2
<1>6. QED
    BY <1>4, <1>5

\* A paid purchase that is about to be licensed does not meet the cap.
LEMMA NeverShort ==
    ASSUME Overlap \subseteq Sandbox, TypeOK, EditionRespected, InStep, Paid,
           WithinEdition, NEW a \in Actors, pc[a] = "allocate"
    PROVE  ~CapReached(on[a])
<1> SUFFICES ASSUME CapReached(on[a])
             PROVE  FALSE
    OBVIOUS
<1>1. PICK p \in Payments : p = on[a]
    BY DEF TypeOK
<1> DEFINE o == OfferOf[p]
           L == Licensed(p)
<1>2. /\ p \notin Sandbox
      /\ MaxUnits[o] = 0 \/ \E q \in L : serial[q] >= MaxUnits[o]
    BY <1>1 DEF CapReached
<1>3. status[p] = "settled" /\ serial[p] = 0
    BY <1>1, <1>2 DEF Paid, Real
<1>4. o \in Offers /\ MaxUnits[o] \in Nat /\ serial \in [Payments -> Nat]
    BY Typing DEF TypeOK
<1>5. p \in Counted(o) /\ p \notin L
    BY <1>2, <1>3 DEF Counted, Licensed, Failed
<1>6. L \subseteq Counted(o)
    BY <1>2 DEF Counted, Licensed, Failed, Paid, Real
<1>7. IsFiniteSet(Counted(o)) /\ Cardinality(Counted(o)) <= MaxUnits[o]
    BY <1>4, CountedIsUsed DEF WithinEdition
<1>8. IsFiniteSet(L) /\ Cardinality(L) \in Nat /\ Cardinality(Counted(o)) \in Nat
    BY <1>6, <1>7, FS_Subset, FS_CardinalityType
<1>9. Cardinality(L) < Cardinality(Counted(o))
    <2> HIDE DEF L, o
    <2>1. /\ Cardinality(L) <= Cardinality(Counted(o))
          /\ Cardinality(L) = Cardinality(Counted(o)) => L = Counted(o)
        BY ONLY <1>6, <1>7, FS_Subset
    <2>2. QED
        BY ONLY <1>5, <1>8, <2>1
<1>10. CASE \E q \in L : serial[q] >= MaxUnits[o]
    <2>1. \A q \in L : serial[q] \in Nat \ {0} /\ serial[q] <= MaxUnits[o]
        BY <1>2, <1>4 DEF EditionRespected, Licensed
    <2>2. \A q \in L : Licensed(q) = L
        BY DEF Licensed
    <2>3. \A q, u \in L : serial[q] = serial[u] => q = u
        <3> SUFFICES ASSUME NEW q \in L, NEW u \in L, serial[q] = serial[u], q # u
                     PROVE  FALSE
            OBVIOUS
        <3>1. u \in Licensed(q) \ {q} /\ q \in Payments /\ serial[q] # 0
            BY <2>2 DEF Licensed
        <3>2. QED
            BY <3>1 DEF EditionRespected
    <2>4. \A q \in L : serial[q] = 1 \/ \E u \in L : serial[u] + 1 = serial[q]
        <3> SUFFICES ASSUME NEW q \in L
                     PROVE  serial[q] = 1 \/ \E u \in L : serial[u] + 1 = serial[q]
            OBVIOUS
        <3>1. q \in Payments /\ serial[q] # 0 /\ Licensed(q) = L
            BY <2>2 DEF Licensed
        <3>2. QED
            BY <3>1 DEF EditionRespected
    <2>5. \E q \in L : serial[q] = MaxUnits[o]
        BY <1>4, <1>10, <2>1
    <2>6. Cardinality(L) = MaxUnits[o]
        <3> HIDE DEF L, o
        <3>1. QED
            BY ONLY <1>4, <1>8, <2>1, <2>3, <2>4, <2>5, NumberedCardinality
    <2>7. QED
        BY ONLY <1>4, <1>7, <1>8, <1>9, <2>6
<1>11. CASE MaxUnits[o] = 0
    BY ONLY <1>7, <1>8, <1>9, <1>11
<1>12. QED
    BY <1>2, <1>10, <1>11

\* The one reason written when the cap is met, and the others.
LEMMA ReasonShape ==
    ASSUME TypeOK, Next, \A a \in Actors : ~AllocateSoldOut(a), NEW p \in Payments,
           reason[p] # "capacity_overrun"
    PROVE  reason'[p] # "capacity_overrun"
<1> DEFINE Harmless == reason' = reason
                          \/ \E b, w : /\ w # "capacity_overrun"
                                       /\ reason' = [reason EXCEPT ![b] = w]
<1>1. ASSUME Harmless
      PROVE  reason'[p] # "capacity_overrun"
    BY <1>1 DEF TypeOK
<1>2. ASSUME NEW a \in Actors, ActorStep(a)
      PROVE  Harmless
    <2>1. CASE \/ ReplayAnswered(a) \/ VerifyInvalid(a) \/ FacilitatorUnavailable(a)
               \/ SettleRefused(a) \/ Undeliverable(a)
        BY ONLY <2>1 DEF ReplayAnswered, VerifyInvalid, FacilitatorUnavailable,
            SettleRefused, Undeliverable, SetReason
    <2>2. CASE ~(\/ ReplayAnswered(a) \/ VerifyInvalid(a) \/ FacilitatorUnavailable(a)
                 \/ SettleRefused(a) \/ Undeliverable(a))
        BY ONLY <1>2, <2>2, ~AllocateSoldOut(a)
           DEF ActorStep, RequestStep, SharedStep, ReserveRefused,
            ReserveLostRace, Reserve, Replay, VerifyValid, SubmitSettle,
            SettleSucceeded, MirrorMiss, FindLicense, Fail, MirrorHit,
            RecordTx, RecordRefused, Settle, SettleInvalid, Allocate,
            AllocateRefused, Deliver, Enqueue, Crash, rows
    <2>3. QED
        BY ONLY <2>1, <2>2
<1>3. ASSUME SweepStep
      PROVE  Harmless
    <2>1. CASE ReapStale
        BY ONLY <2>1 DEF ReapStale, SetReason
    <2>2. CASE ~ReapStale
        BY ONLY <1>3, <2>2 DEF SweepStep, Reap, Reconcile, SweepStart, ReapSkipped,
            SweepNext, rows
    <2>3. QED
        BY ONLY <2>1, <2>2
<1>4. ASSUME HederaStep \/ DesignerStep \/ \E r \in Requests, q \in Payments : Arrive(r, q)
      PROVE  Harmless
    <2>1. UNCHANGED rows
        BY ONLY <1>4, DesignerFrame DEF HederaStep, MirrorCatchUp, Land, Expire, Arrive
    <2>2. QED
        BY ONLY <2>1 DEF rows
<1>5. Harmless
    BY <1>2, <1>3, <1>4, NextCases
<1>6. QED
    BY <1>1, <1>5

UnitsInv == OpenInv /\ EditionRespected /\ Paid /\ UnitsReserved

LEMMA UnitsNext ==
    ASSUME Overlap \subseteq Sandbox
    PROVE  TypeOK /\ OneHolder /\ InStep /\ UnitsInv /\ [Next]_vars => UnitsInv'
<1> SUFFICES ASSUME TypeOK, OneHolder, InStep, UnitsInv, [Next]_vars
             PROVE  UnitsInv'
    OBVIOUS
<1>1. OpenInv /\ EditionRespected /\ Paid /\ WithinEdition
          /\ \A p \in Payments : reason[p] # "capacity_overrun"
    BY DEF UnitsInv, UnitsReserved, WithinEdition
<1>2. OpenInv' /\ EditionRespected'
    BY <1>1, OpenNext, EditionNext
<1>3. Paid'
    <2>1. CASE Next
        BY <1>1, <2>1, NextCases, PaidActor, PaidOther
    <2>2. CASE UNCHANGED vars
        BY ONLY <1>1, <2>2 DEF Paid, Real, vars, rows, sales, actors
    <2>3. QED
        BY <2>1, <2>2
<1>4. WithinEdition'
    BY <1>1, WithinNext
<1>5. ASSUME NEW p \in Payments
      PROVE  reason'[p] # "capacity_overrun"
    <2>1. \A a \in Actors : ~AllocateSoldOut(a)
        BY <1>1, NeverShort DEF AllocateSoldOut
    <2>2. CASE Next
        BY <1>1, <2>1, <2>2, ReasonShape
    <2>3. CASE UNCHANGED vars
        BY ONLY <1>1, <2>3, p \in Payments DEF vars, rows
    <2>4. QED
        BY <2>2, <2>3
<1>6. QED
    BY ONLY <1>2, <1>3, <1>4, <1>5 DEF UnitsInv, UnitsReserved, WithinEdition

LEMMA UnitsInit == Init => UnitsInv
<1> SUFFICES ASSUME Init
             PROVE  UnitsInv
    OBVIOUS
<1>1. EditionRespected /\ Paid
    BY Typing DEF Init, EditionRespected, Paid, Real, Actors
<1>2. \A p \in Payments : reason[p] # "capacity_overrun"
    BY DEF Init
<1>3. ASSUME NEW o \in Offers
      PROVE  CapacityUsed(o) <= MaxUnits[o]
    <2>1. Counted(o) = {}
        BY DEF Init, Counted
    <2>2. CapacityUsed(o) = 0 /\ MaxUnits[o] \in Nat
        BY <2>1, CountedIsUsed, FS_EmptySet, Typing
    <2>3. QED
        BY <2>2
<1>4. QED
    BY <1>1, <1>2, <1>3, OpenInit DEF UnitsInv, UnitsReserved

\* While no two actors work on one real purchase at a time, reservations stay
\* within every edition and a paid purchase always finds its unit.
THEOREM UnitsAreReserved ==
    ASSUME Overlap \subseteq Sandbox
    PROVE  Spec => []UnitsReserved
<1>1. UnitsInv => UnitsReserved
    BY DEF UnitsInv
<1>2. TypeOK /\ OneHolder /\ InStep /\ UnitsInv /\ [Next]_vars => UnitsInv'
    BY UnitsNext
<1>3. QED
    BY <1>1, <1>2, UnitsInit, HolderAlways, PTL DEF Spec

=============================================================================
