-------------------------- MODULE PurchasesProofs --------------------------
(***************************************************************************)
(* What Purchases keeps for any number of payments, offers, requests and   *)
(* crashes, whether or not actors overlap on a purchase.                   *)
(***************************************************************************)
EXTENDS Purchases, FiniteSetTheorems, TLAPS

\* A new row's number is a natural number.
LEMMA RowCount ==
    ASSUME NEW S \in SUBSET Payments
    PROVE  1 + Cardinality(S) \in Nat
<1>1. IsFiniteSet(S)
    BY Typing, FS_Subset
<1>2. Cardinality(S) \in Nat
    BY <1>1, FS_CardinalityType
<1>3. QED
    BY <1>2

LEMMA TypeInit == Init => TypeOK
    BY Typing DEF Init, TypeOK, Statuses, InFlight, Failed, Reasons, Jobs,
        Places, Actors

LEMMA TypeRequest ==
    ASSUME TypeOK, NEW r \in Requests, RequestStep(r)
    PROVE  TypeOK'
<1> USE Typing DEF TypeOK, Statuses, InFlight, Failed, Reasons, Places, Actors,
        Goto, Release, Return, SetReason, rows, sales, studio, actors, hedera
<1>1. CASE ReserveRefused(r)
    BY <1>1 DEF ReserveRefused
<1>2. CASE ReserveLostRace(r)
    BY <1>2 DEF ReserveLostRace
<1>3. CASE Reserve(r)
    BY <1>3, RowCount DEF Reserve
<1>4. CASE Replay(r)
    BY <1>4 DEF Replay, ReplayOutcome
<1>5. CASE ReplayAnswered(r)
    BY <1>5 DEF ReplayAnswered
<1>6. CASE VerifyValid(r)
    BY <1>6 DEF VerifyValid, TransitionTo
<1>7. CASE VerifyInvalid(r)
    BY <1>7 DEF VerifyInvalid
<1>8. CASE FacilitatorUnavailable(r)
    BY <1>8 DEF FacilitatorUnavailable
<1>9. CASE SubmitSettle(r)
    BY <1>9 DEF SubmitSettle
<1>10. CASE SettleSucceeded(r)
    BY <1>10 DEF SettleSucceeded
<1>11. CASE SettleRefused(r)
    BY <1>11 DEF SettleRefused
<1>12. CASE MirrorMiss(r)
    BY <1>12 DEF MirrorMiss
<1>13. CASE FindLicense(r)
    BY <1>13 DEF FindLicense
<1>14. CASE Undeliverable(r)
    BY <1>14 DEF Undeliverable
<1>15. QED
    BY <1>1, <1>2, <1>3, <1>4, <1>5, <1>6, <1>7, <1>8, <1>9, <1>10, <1>11,
       <1>12, <1>13, <1>14 DEF RequestStep

LEMMA TypeShared ==
    ASSUME TypeOK, NEW a \in Actors, SharedStep(a) \/ Crash(a)
    PROVE  TypeOK'
<1> USE Typing DEF TypeOK, Statuses, InFlight, Failed, Reasons, Places, Jobs,
        Goto, Release, Return, Abort, SetReason, rows, sales, studio, actors,
        hedera
<1>1. CASE Fail(a)
    BY <1>1 DEF Fail, TransitionTo
<1>2. CASE MirrorHit(a)
    BY <1>2 DEF MirrorHit
<1>3. CASE RecordTx(a)
    BY <1>3 DEF RecordTx
<1>4. CASE RecordRefused(a)
    BY <1>4 DEF RecordRefused
<1>5. CASE Settle(a)
    BY <1>5 DEF Settle, TransitionTo
<1>6. CASE SettleInvalid(a)
    BY <1>6 DEF SettleInvalid
<1>7. CASE Allocate(a)
    BY <1>7 DEF Allocate
<1>8. CASE AllocateSoldOut(a)
    BY <1>8 DEF AllocateSoldOut
<1>9. CASE AllocateRefused(a)
    BY <1>9 DEF AllocateRefused
<1>10. CASE Deliver(a)
    <2>0. on[a] \in Payments
        BY <1>10 DEF Deliver
    <2>1. /\ status' = [status EXCEPT ![on[a]] = "delivered"]
          /\ booked' = booked
          /\ UNCHANGED <<reason, paymentTx, rowId, since, serial, enqueued, studio,
                         hedera, crashes>>
        BY <1>10 DEF Deliver, TransitionTo
    <2>2. CASE on[a] \in Sandbox
        <3>1. Return(a)
            BY <1>10, <2>2 DEF Deliver
        <3>2. QED
            BY <2>1, <3>1
    <2>3. CASE on[a] \notin Sandbox
        <3>1. /\ mem' = [mem EXCEPT ![a] = "delivered"] /\ Goto(a, "enqueue")
              /\ UNCHANGED <<on, tx, sweep>>
            BY <1>10, <2>3 DEF Deliver
        <3>2. QED
            BY <2>0, <2>1, <3>1
    <2>4. QED
        BY <2>2, <2>3
<1>11. CASE Enqueue(a)
    BY <1>11 DEF Enqueue
<1>12. CASE Crash(a)
    BY <1>12 DEF Crash
<1>13. QED
    BY <1>1, <1>2, <1>3, <1>4, <1>5, <1>6, <1>7, <1>8, <1>9, <1>10, <1>11,
       <1>12 DEF SharedStep

\* The sweep's own steps, Hedera's and the designer's, and a request's arrival.
LEMMA TypeOther ==
    ASSUME TypeOK,
           \/ SweepStep \/ HederaStep \/ DesignerStep
           \/ \E r \in Requests, p \in Payments : Arrive(r, p)
    PROVE  TypeOK'
<1> USE Typing DEF TypeOK, Statuses, InFlight, Failed, Reasons, Places, Actors,
        Goto, Release, Return, SetReason, rows, sales, studio, actors, hedera
<1>1. CASE Reap \/ \E p \in Payments : Reconcile(p)
    <2>1. \A Chosen \in SUBSET Stale : SweepStart(Chosen) => TypeOK'
        BY DEF SweepStart, Stale
    <2>2. CASE Reap
        BY <2>1, <2>2 DEF Reap
    <2>3. CASE \E p \in Payments : Reconcile(p)
        <3>1. PICK p \in Payments : p \in Stale /\ SweepStart({p})
            BY <2>3 DEF Reconcile
        <3>2. {p} \in SUBSET Stale
            BY <3>1
        <3>3. QED
            BY <2>1, <3>1, <3>2
    <2>4. QED
        BY <1>1, <2>2, <2>3
<1>2. CASE ReapStale \/ ReapSkipped
    BY <1>2 DEF ReapStale, ReapSkipped
<1>3. CASE \E p \in Payments : SweepNext(p)
    BY <1>3 DEF SweepNext
<1>4. CASE HederaStep
    BY <1>4 DEF HederaStep, MirrorCatchUp, Land, Expire
<1>5. CASE DesignerStep
    <2>1. Detached \subseteq Offers /\ Relisted \subseteq Offers
        OBVIOUS
    <2>2. ASSUME NEW o \in Offers, DetachFiles(o) \/ ReattachFiles(o)
          PROVE  TypeOK'
        <3>1. files' \in [Offers -> BOOLEAN]
            <4>1. files \in [Offers -> BOOLEAN]
                OBVIOUS
            <4>2. PICK b \in BOOLEAN : files' = [files EXCEPT ![o] = b]
                BY <2>2 DEF DetachFiles, ReattachFiles
            <4>3. QED
                BY ONLY <4>1, <4>2
        <3>2. UNCHANGED <<rows, sales, listing, actors, hedera, crashes>>
            BY ONLY <2>2 DEF DetachFiles, ReattachFiles
        <3>3. QED
            BY <3>1, <3>2
    <2>3. ASSUME NEW o \in Offers, NEW new \in {"live", "paused", "replaced"},
                 ChangeListing(o, new)
          PROVE  TypeOK'
        <3>1. listing' \in [Offers -> {"live", "paused", "replaced"}]
            BY <2>3 DEF ChangeListing
        <3>2. UNCHANGED <<rows, sales, files, actors, hedera, crashes>>
            BY ONLY <2>3 DEF ChangeListing
        <3>3. QED
            BY <3>1, <3>2
    <2>4. QED
        BY <1>5, <2>1, <2>2, <2>3 DEF DesignerStep
<1>6. CASE \E r \in Requests, p \in Payments : Arrive(r, p)
    <2>1. PICK r \in Requests, p \in Payments : Arrive(r, p)
        BY ONLY <1>6
    <2>2. PICK place \in {"replay", "reserve"} : pc' = [pc EXCEPT ![r] = place]
        BY ONLY <2>1 DEF Arrive, Goto
    <2>3. on' = [on EXCEPT ![r] = p]
              /\ UNCHANGED <<rows, sales, studio, mem, tx, sweep, hedera, crashes>>
        BY ONLY <2>1 DEF Arrive
    <2>4. QED
        BY <2>2, <2>3
<1>7. QED
    BY <1>1, <1>2, <1>3, <1>4, <1>5, <1>6 DEF SweepStep

LEMMA TypeNext == TypeOK /\ [Next]_vars => TypeOK'
<1> SUFFICES ASSUME TypeOK, [Next]_vars
             PROVE  TypeOK'
    OBVIOUS
<1>1. CASE Next
    BY <1>1, TypeRequest, TypeShared, TypeOther DEF Next
<1>2. CASE UNCHANGED vars
    BY <1>2 DEF TypeOK, vars, rows, sales, studio, actors, hedera
<1>3. QED
    BY <1>1, <1>2

\* The designer touches no row, sale, actor or transfer.
LEMMA DesignerFrame ==
    ASSUME DesignerStep
    PROVE  UNCHANGED <<rows, sales, actors, hedera>>
<1>1. ASSUME NEW o, DetachFiles(o) \/ ReattachFiles(o)
      PROVE  UNCHANGED <<rows, sales, actors, hedera>>
    BY <1>1 DEF DetachFiles, ReattachFiles
<1>2. ASSUME NEW o, NEW new, ChangeListing(o, new)
      PROVE  UNCHANGED <<rows, sales, actors, hedera>>
    BY <1>2 DEF ChangeListing
<1>3. QED
    BY <1>1, <1>2 DEF DesignerStep

\* A sweep's own steps write at most a reason: they move the sweep to a place
\* before the money, or leave every actor where it is.
LEMMA SweepFrame ==
    ASSUME TypeOK, SweepStep
    PROVE  /\ UNCHANGED <<status, paymentTx, rowId, since, sales, hedera>>
           /\ \A a \in Actors :
                 \/ pc'[a] = pc[a] /\ on'[a] = on[a] /\ tx'[a] = tx[a]
                 \/ pc'[a] \in {"idle", "failing", "mirror"}
<1> DEFINE Frame == /\ UNCHANGED <<status, paymentTx, rowId, since, sales, hedera>>
                    /\ \A a \in Actors :
                          \/ pc'[a] = pc[a] /\ on'[a] = on[a] /\ tx'[a] = tx[a]
                          \/ pc'[a] \in {"idle", "failing", "mirror"}
<1>1. /\ Reaper \in Actors /\ pc \in [Actors -> Places]
      /\ on \in [Actors -> Payments \cup {None}]
      /\ tx \in [Actors -> Payments \cup {None}]
    BY DEF TypeOK, Actors
<1>2. ASSUME NEW Chosen, SweepStart(Chosen)
      PROVE  Frame
    BY ONLY <1>2 DEF SweepStart, rows, sales, hedera
<1>3. CASE Reap \/ \E p \in Payments : Reconcile(p)
    BY ONLY <1>2, <1>3 DEF Reap, Reconcile
<1>4. CASE ReapStale
    BY ONLY <1>1, <1>4 DEF ReapStale, Goto, SetReason, sales, hedera
<1>5. CASE ReapSkipped
    <2>1. /\ pc' = [pc EXCEPT ![Reaper] = "idle"]
          /\ on' = [on EXCEPT ![Reaper] = None]
          /\ tx' = [tx EXCEPT ![Reaper] = None]
          /\ UNCHANGED <<rows, sales, hedera>>
        BY ONLY <1>5 DEF ReapSkipped, Return, Release, Goto
    <2>2. QED
        BY ONLY <1>1, <2>1 DEF rows, sales, hedera
<1>6. CASE \E p \in Payments : SweepNext(p)
    BY ONLY <1>1, <1>6 DEF SweepNext, Goto, rows, sales, hedera
<1>7. QED
    BY ONLY SweepStep, <1>3, <1>4, <1>5, <1>6 DEF SweepStep

\* A payment that arrives takes an idle request to one of two places.
LEMMA ArriveStep ==
    ASSUME TypeOK, NEW r \in Requests, NEW p \in Payments, Arrive(r, p)
    PROVE  /\ \A a \in Actors \ {r} : pc'[a] = pc[a] /\ on'[a] = on[a]
           /\ pc'[r] \in {"replay", "reserve"} /\ on'[r] = p
           /\ UNCHANGED <<rows, sales, mem, tx, sweep, hedera>>
<1>1. PICK place \in {"replay", "reserve"} : pc' = [pc EXCEPT ![r] = place]
    BY DEF Arrive, Goto
<1>2. on' = [on EXCEPT ![r] = p]
    BY DEF Arrive
<1>3. r \in Actors /\ pc \in [Actors -> Places]
          /\ on \in [Actors -> Payments \cup {None}]
    BY DEF TypeOK, Actors
<1>4. QED
    BY <1>1, <1>2, <1>3 DEF Arrive

\* Every variable keeps its type: a reachable row, actor or sweep is one the
\* code could hold.
THEOREM TypeCorrect == Spec => []TypeOK
<1>1. QED
    BY TypeInit, TypeNext, PTL DEF Spec

-----------------------------------------------------------------------------
(* What an actor's step does to the purchase in its hands.                 *)

\* An actor lets go of its purchase, and of the rest of its sweep or not.
LetsGo(a) ==
    /\ pc'[a] = "idle" /\ on'[a] = None /\ mem'[a] = "none"
    /\ a # Reaper => sweep' = sweep
    /\ \A p \in Payments : sweep'[p] \in {"none", sweep[p]}
    /\ a = Reaper => \A p \in Payments : on[a] = p => sweep'[p] = "none"

\* An actor goes on with its purchase.
GoesOn(a) ==
    /\ pc[a] # "idle" /\ pc'[a] # "idle"
    /\ on'[a] = on[a] /\ sweep' = sweep
    /\ pc[a] = "reserve" => status'[on[a]] # "none"
    /\ pc'[a] # "reserve"

Alone(a) == \A e \in Actors \ {a} : pc'[e] = pc[e] /\ on'[e] = on[e] /\ mem'[e] = mem[e]

ActorStep(a) == (a \in Requests /\ RequestStep(a)) \/ SharedStep(a) \/ Crash(a)

LEMMA ReturnShape ==
    ASSUME TypeOK, NEW a \in Actors, Return(a) \/ Abort(a)
    PROVE  LetsGo(a) /\ Alone(a)
<1>1. /\ pc \in [Actors -> Places] /\ on \in [Actors -> Payments \cup {None}]
      /\ mem \in [Actors -> Statuses \cup {"none"}]
      /\ sweep \in [Payments -> InFlight \cup {"none"}]
    BY DEF TypeOK
<1>2. /\ pc' = [pc EXCEPT ![a] = "idle"] /\ on' = [on EXCEPT ![a] = None]
      /\ mem' = [mem EXCEPT ![a] = "none"]
    BY ONLY Return(a) \/ Abort(a) DEF Return, Abort, Release, Goto
<1>3. \/ sweep' = sweep /\ a # Reaper
      \/ sweep' = [sweep EXCEPT ![on[a]] = "none"]
      \/ sweep' = [p \in Payments |-> "none"] /\ a = Reaper
    BY ONLY Return(a) \/ Abort(a) DEF Return, Abort, Release
<1>4. a # Reaper => sweep' = sweep
    BY ONLY Return(a) \/ Abort(a) DEF Return, Abort, Release
<1>5. \A p \in Payments : /\ sweep'[p] \in {"none", sweep[p]}
                          /\ a = Reaper /\ on[a] = p => sweep'[p] = "none"
    BY ONLY <1>1, <1>3
<1>6. QED
    BY ONLY <1>1, <1>2, <1>4, <1>5, a \in Actors DEF LetsGo, Alone

LEMMA GotoShape ==
    ASSUME TypeOK, NEW a \in Actors, NEW place, Goto(a, place)
    PROVE  pc'[a] = place /\ \A e \in Actors \ {a} : pc'[e] = pc[e]
    BY DEF TypeOK, Goto

\* Either the actor goes on or it lets go; the others are not disturbed.
LEMMA StepShape ==
    ASSUME TypeOK, NEW a \in Actors, ActorStep(a)
    PROVE  (LetsGo(a) \/ GoesOn(a)) /\ Alone(a)
<1>1. /\ pc \in [Actors -> Places] /\ on \in [Actors -> Payments \cup {None}]
      /\ mem \in [Actors -> Statuses \cup {"none"}]
      /\ pc[a] # "idle" => on[a] \in Payments
      /\ status \in [Payments -> Statuses \cup {"none"}]
    BY DEF TypeOK
<1>2. CASE Return(a) \/ Abort(a)
    BY <1>2, ReturnShape
<1>3. ASSUME NEW place, Goto(a, place), place # "idle", place # "reserve",
             pc[a] # "idle", pc[a] # "reserve",
             \/ UNCHANGED mem
             \/ \E s : mem' = [mem EXCEPT ![a] = s],
             UNCHANGED <<on, sweep>>
      PROVE  GoesOn(a) /\ Alone(a)
    <2>1. pc'[a] = place /\ \A e \in Actors \ {a} : pc'[e] = pc[e]
        BY <1>3, GotoShape
    <2>2. \A e \in Actors \ {a} : mem'[e] = mem[e]
        BY ONLY <1>1, <1>3
    <2>3. QED
        BY ONLY <1>3, <2>1, <2>2 DEF GoesOn, Alone
<1>4. CASE ReserveRefused(a) \/ ReplayAnswered(a) \/ FacilitatorUnavailable(a)
           \/ Undeliverable(a) \/ Fail(a) \/ RecordRefused(a) \/ SettleInvalid(a)
           \/ AllocateSoldOut(a) \/ AllocateRefused(a) \/ Enqueue(a) \/ Crash(a)
    BY <1>2, <1>4 DEF ReserveRefused, ReplayAnswered, FacilitatorUnavailable,
        Undeliverable, Fail, RecordRefused, SettleInvalid, AllocateSoldOut,
        AllocateRefused, Enqueue, Crash
<1>5. CASE ReserveLostRace(a)
    <2>1. pc'[a] = "replay" /\ \A e \in Actors \ {a} : pc'[e] = pc[e]
        BY <1>5, GotoShape DEF ReserveLostRace
    <2>2. /\ pc[a] = "reserve" /\ status[on[a]] # "none"
          /\ UNCHANGED <<on, mem, sweep, rows>>
        BY ONLY <1>5 DEF ReserveLostRace
    <2>3. QED
        BY ONLY <2>1, <2>2 DEF GoesOn, Alone, rows
<1>6. CASE Reserve(a)
    <2>1. pc'[a] = "verify" /\ \A e \in Actors \ {a} : pc'[e] = pc[e]
        BY <1>6, GotoShape DEF Reserve
    <2>2. /\ pc[a] = "reserve" /\ status' = [status EXCEPT ![on[a]] = "pending"]
          /\ mem' = [mem EXCEPT ![a] = "pending"] /\ UNCHANGED <<on, sweep>>
        BY ONLY <1>6 DEF Reserve
    <2>3. status'[on[a]] = "pending" /\ \A e \in Actors \ {a} : mem'[e] = mem[e]
        BY ONLY <1>1, <2>2
    <2>4. QED
        BY ONLY <2>1, <2>2, <2>3 DEF GoesOn, Alone
<1>7. CASE Replay(a)
    <2>1. ReplayOutcome(on[a]) \in {"license", "settle", "mirror", "verify"}
        BY ONLY <1>7 DEF Replay, ReplayOutcome
    <2>2. Goto(a, ReplayOutcome(on[a])) /\ pc[a] = "replay"
              /\ mem' = [mem EXCEPT ![a] = status[on[a]]] /\ UNCHANGED <<on, sweep>>
        BY ONLY <1>7 DEF Replay
    <2>3. QED
        BY ONLY <1>3, <2>1, <2>2
<1>8. CASE VerifyValid(a) \/ VerifyInvalid(a) \/ SettleSucceeded(a)
           \/ SettleRefused(a) \/ MirrorMiss(a) \/ MirrorHit(a) \/ RecordTx(a)
    BY ONLY <1>3, <1>8 DEF VerifyValid, VerifyInvalid, SettleSucceeded,
        SettleRefused, MirrorMiss, MirrorHit, RecordTx
<1>9. CASE SubmitSettle(a)
    BY ONLY <1>3, <1>9 DEF SubmitSettle
<1>10. CASE FindLicense(a) \/ Settle(a)
    <2>1. PICK place \in {"files", "allocate", "license"} : Goto(a, place)
        BY ONLY <1>10 DEF FindLicense, Settle
    <2>2. /\ pc[a] \in {"license", "booking"} /\ UNCHANGED <<on, sweep>>
          /\ UNCHANGED mem \/ \E s : mem' = [mem EXCEPT ![a] = s]
        BY ONLY <1>10 DEF FindLicense, Settle
    <2>3. QED
        BY ONLY <1>3, <2>1, <2>2
<1>11. CASE Allocate(a)
    BY ONLY <1>3, <1>11 DEF Allocate
<1>12. CASE Deliver(a)
    <2>1. \/ Return(a)
          \/ /\ Goto(a, "enqueue") /\ pc[a] = "files" /\ UNCHANGED <<on, sweep>>
             /\ \E s : mem' = [mem EXCEPT ![a] = s]
        BY ONLY <1>12 DEF Deliver
    <2>2. QED
        BY ONLY <1>2, <1>3, <2>1
<1>13. QED
    BY ONLY ActorStep(a), <1>4, <1>5, <1>6, <1>7, <1>8, <1>9, <1>10, <1>11, <1>12
       DEF ActorStep, RequestStep, SharedStep

\* An actor opens a row, or moves one on from what it remembers of it.
LEMMA StatusShape ==
    ASSUME NEW a, ActorStep(a)
    PROVE  \/ status' = status
           \/ /\ Reserve(a) /\ pc[a] = "reserve" /\ status[on[a]] = "none"
              /\ status' = [status EXCEPT ![on[a]] = "pending"]
           \/ /\ pc[a] \in {"verify", "failing", "booking", "files"}
              /\ \E s \in Statuses : /\ s \in TRANSITIONS[mem[a]]
                                     /\ status' = [status EXCEPT ![on[a]] = s]
<1> DEFINE Moved == \E s \in Statuses : /\ s \in TRANSITIONS[mem[a]]
                                        /\ status' = [status EXCEPT ![on[a]] = s]
<1>1. ASSUME NEW s \in Statuses, TransitionTo(a, s)
      PROVE  Moved
    BY ONLY <1>1 DEF TransitionTo
<1>2. /\ {"verified", "failed_verification", "failed_settlement", "settled",
          "delivered"} \subseteq Statuses
    BY DEF Statuses, InFlight, Failed
<1>3. CASE VerifyValid(a) \/ Fail(a) \/ Settle(a) \/ Deliver(a)
    <2>1. pc[a] \in {"verify", "failing", "booking", "files"}
        BY ONLY <1>3 DEF VerifyValid, Fail, Settle, Deliver
    <2>2. \E s \in Statuses : TransitionTo(a, s)
        BY ONLY <1>2, <1>3 DEF VerifyValid, Fail, Settle, Deliver
    <2>3. QED
        BY ONLY <1>1, <2>1, <2>2
<1>4. CASE Reserve(a)
    BY ONLY <1>4 DEF Reserve
<1>5. CASE /\ ActorStep(a)
           /\ ~(VerifyValid(a) \/ Fail(a) \/ Settle(a) \/ Deliver(a) \/ Reserve(a))
    BY ONLY <1>5 DEF ActorStep, RequestStep, SharedStep, ReserveRefused,
        ReserveLostRace, Replay, ReplayAnswered, VerifyInvalid,
        FacilitatorUnavailable, SubmitSettle, SettleSucceeded, SettleRefused,
        MirrorMiss, FindLicense, Undeliverable, MirrorHit, RecordTx,
        RecordRefused, SettleInvalid, Allocate, AllocateSoldOut,
        AllocateRefused, Enqueue, Crash, rows
<1>6. QED
    BY ONLY ActorStep(a), <1>3, <1>4, <1>5

-----------------------------------------------------------------------------
(* Money.                                                                  *)

\* A transaction id in a row, or in the hands of an actor about to write it,
\* is a transfer of that purchase's price that reached consensus; no two rows
\* hold the same; and what is booked holds one.
MoneyInv ==
    /\ \A p \in Payments \ Sandbox : paymentTx[p] # None =>
          consensus[paymentTx[p]] > 0 /\ PriceOf[paymentTx[p]] = PriceOf[p]
    /\ \A p, q \in Payments :
          p # q /\ paymentTx[p] # None => paymentTx[q] # paymentTx[p]
    /\ \A a \in Actors :
          /\ pc[a] \in {"record", "booking"} /\ on[a] \notin Sandbox =>
                consensus[tx[a]] > 0 /\ PriceOf[tx[a]] = PriceOf[on[a]]
          /\ pc[a] = "booking" => paymentTx[on[a]] # None
    /\ \A p \in booked : p \notin Sandbox /\ paymentTx[p] # None

LEMMA MoneyRequest ==
    ASSUME TypeOK, MoneyInv, NEW r \in Requests, RequestStep(r)
    PROVE  MoneyInv'
<1> USE Typing DEF TypeOK, MoneyInv, Actors, Goto, Release, Return, Abort,
        SetReason, rows, sales, studio, actors, hedera
<1>1. CASE ReserveRefused(r)
    BY <1>1 DEF ReserveRefused
<1>2. CASE ReserveLostRace(r)
    BY <1>2 DEF ReserveLostRace
<1>3. CASE Reserve(r)
    BY <1>3 DEF Reserve
<1>4. CASE Replay(r)
    BY <1>4 DEF Replay, ReplayOutcome
<1>5. CASE ReplayAnswered(r)
    BY <1>5 DEF ReplayAnswered
<1>6. CASE VerifyValid(r)
    BY <1>6 DEF VerifyValid, TransitionTo
<1>7. CASE VerifyInvalid(r)
    BY <1>7 DEF VerifyInvalid
<1>8. CASE FacilitatorUnavailable(r)
    BY <1>8 DEF FacilitatorUnavailable
<1>9. CASE SubmitSettle(r)
    BY <1>9 DEF SubmitSettle
<1>10. CASE SettleSucceeded(r)
    BY <1>10 DEF SettleSucceeded
<1>11. CASE SettleRefused(r)
    BY <1>11 DEF SettleRefused
<1>12. CASE MirrorMiss(r)
    BY <1>12 DEF MirrorMiss
<1>13. CASE FindLicense(r)
    BY <1>13 DEF FindLicense
<1>14. CASE Undeliverable(r)
    BY <1>14 DEF Undeliverable
<1>15. QED
    BY <1>1, <1>2, <1>3, <1>4, <1>5, <1>6, <1>7, <1>8, <1>9, <1>10, <1>11,
       <1>12, <1>13, <1>14 DEF RequestStep

LEMMA MoneyShared ==
    ASSUME TypeOK, MoneyInv, NEW a \in Actors, SharedStep(a) \/ Crash(a)
    PROVE  MoneyInv'
<1> USE Typing DEF TypeOK, MoneyInv, Actors, Goto, Release, Return, Abort,
        SetReason, rows, sales, studio, actors, hedera
<1>1. CASE Fail(a)
    BY <1>1 DEF Fail, TransitionTo
<1>2. CASE MirrorHit(a)
    <2>1. PICK t \in Payments : MirrorMatch(on[a], t) /\ tx' = [tx EXCEPT ![a] = t]
        BY <1>2 DEF MirrorHit
    <2>2. pc[a] = "mirror" /\ on[a] \in Payments
        BY <1>2 DEF MirrorHit
    <2>3. since[on[a]] \in Nat /\ consensus[t] \in Nat
        BY <2>2
    <2>4. consensus[t] > 0 /\ PriceOf[t] = PriceOf[on[a]]
        BY ONLY <2>1, <2>3 DEF MirrorMatch, Credits
    <2>5. pc' = [pc EXCEPT ![a] = "record"]
        BY <1>2 DEF MirrorHit
    <2>6. \A e \in Actors : /\ pc'[e] = IF e = a THEN "record" ELSE pc[e]
                            /\ tx'[e] = IF e = a THEN t ELSE tx[e]
        BY <2>1, <2>5
    <2>7. UNCHANGED <<rows, sales, on, hedera>>
        BY ONLY <1>2 DEF MirrorHit
    <2>8. QED
        BY ONLY MoneyInv, <2>4, <2>6, <2>7 DEF MoneyInv, rows, sales, hedera
<1>3. CASE RecordTx(a)
    BY <1>3 DEF RecordTx, TxTaken
<1>4. CASE RecordRefused(a)
    BY <1>4 DEF RecordRefused
<1>5. CASE Settle(a)
    BY <1>5 DEF Settle, TransitionTo
<1>6. CASE SettleInvalid(a)
    BY <1>6 DEF SettleInvalid
<1>7. CASE Allocate(a)
    BY <1>7 DEF Allocate
<1>8. CASE AllocateSoldOut(a)
    BY <1>8 DEF AllocateSoldOut
<1>9. CASE AllocateRefused(a)
    BY <1>9 DEF AllocateRefused
<1>10. CASE Deliver(a)
    BY <1>10 DEF Deliver, TransitionTo
<1>11. CASE Enqueue(a)
    BY <1>11 DEF Enqueue
<1>12. CASE Crash(a)
    BY <1>12 DEF Crash
<1>13. QED
    BY <1>1, <1>2, <1>3, <1>4, <1>5, <1>6, <1>7, <1>8, <1>9, <1>10, <1>11,
       <1>12 DEF SharedStep

LEMMA MoneyOther ==
    ASSUME TypeOK, MoneyInv,
           \/ SweepStep \/ HederaStep \/ DesignerStep
           \/ \E r \in Requests, p \in Payments : Arrive(r, p)
    PROVE  MoneyInv'
<1> USE Typing DEF TypeOK, MoneyInv, Actors, Goto, Release, Return, Abort,
        SetReason, rows, sales, studio, actors, hedera
<1>1. CASE SweepStep
    BY ONLY TypeOK, MoneyInv, <1>1, SweepFrame DEF MoneyInv, sales, hedera
<1>2. CASE HederaStep
    <2>1. UNCHANGED <<rows, sales, actors>>
        BY ONLY <1>2 DEF HederaStep, MirrorCatchUp, Land, Expire
    <2>2. \A t \in Payments : consensus[t] > 0 => consensus'[t] > 0
        <3>1. ASSUME NEW t \in Payments, Land(t)
              PROVE  consensus' = [consensus EXCEPT ![t] = clock + 1]
            BY <3>1 DEF Land
        <3>2. \/ UNCHANGED consensus
              \/ \E t \in Payments : consensus' = [consensus EXCEPT ![t] = clock + 1]
            BY ONLY <1>2, <3>1 DEF HederaStep, MirrorCatchUp, Expire
        <3>3. consensus \in [Payments -> Nat] /\ clock \in Nat
            BY ONLY TypeOK DEF TypeOK
        <3>4. QED
            BY ONLY <3>2, <3>3
    <2>3. \A a \in Actors :
              pc[a] \in {"record", "booking"} => tx[a] \in Payments
        OBVIOUS
    <2>4. \A p \in Payments : paymentTx[p] \in Payments \cup {None}
        OBVIOUS
    <2>5. QED
        BY ONLY MoneyInv, <2>1, <2>2, <2>3, <2>4
           DEF MoneyInv, rows, sales, actors
<1>3. CASE DesignerStep
    BY ONLY MoneyInv, <1>3, DesignerFrame
       DEF MoneyInv, rows, sales, actors, hedera
<1>4. CASE \E r \in Requests, p \in Payments : Arrive(r, p)
    <2>1. PICK r \in Requests, p \in Payments : Arrive(r, p)
        BY <1>4
    <2>2. /\ \A a \in Actors \ {r} : pc'[a] = pc[a] /\ on'[a] = on[a]
          /\ pc'[r] \in {"replay", "reserve"} /\ on'[r] = p
          /\ UNCHANGED <<rows, sales, mem, tx, sweep, hedera>>
        BY ONLY TypeOK, <2>1, ArriveStep
    <2>3. QED
        BY ONLY MoneyInv, <2>2 DEF MoneyInv, rows, sales, hedera
<1>5. QED
    BY <1>1, <1>2, <1>3, <1>4

-----------------------------------------------------------------------------
(* Sales.                                                                  *)

\* An actor past the ledger holds a booked purchase, one past allocation a
\* licensed one.
SalesInv ==
    /\ SalesAreBooked
    /\ \A a \in Actors : on[a] \notin Sandbox =>
          /\ pc[a] \in {"license", "allocate", "files", "enqueue"} =>
                on[a] \in booked
          /\ pc[a] \in {"files", "enqueue"} => serial[on[a]] # 0

LEMMA SalesRequest ==
    ASSUME TypeOK, SalesInv, NEW r \in Requests, RequestStep(r)
    PROVE  SalesInv'
<1> USE Typing DEF TypeOK, SalesInv, SalesAreBooked, InFlight, Jobs, Actors,
        Goto, Release, Return, Abort, SetReason, rows, sales, studio, actors, hedera
<1>1. CASE ReserveRefused(r)
    BY <1>1 DEF ReserveRefused
<1>2. CASE ReserveLostRace(r)
    BY <1>2 DEF ReserveLostRace
<1>3. CASE Reserve(r)
    BY <1>3 DEF Reserve
<1>4. CASE Replay(r)
    BY <1>4 DEF Replay, ReplayOutcome
<1>5. CASE ReplayAnswered(r)
    BY <1>5 DEF ReplayAnswered
<1>6. CASE VerifyValid(r)
    BY <1>6 DEF VerifyValid, TransitionTo
<1>7. CASE VerifyInvalid(r)
    BY <1>7 DEF VerifyInvalid
<1>8. CASE FacilitatorUnavailable(r)
    BY <1>8 DEF FacilitatorUnavailable
<1>9. CASE SubmitSettle(r)
    BY <1>9 DEF SubmitSettle
<1>10. CASE SettleSucceeded(r)
    BY <1>10 DEF SettleSucceeded
<1>11. CASE SettleRefused(r)
    BY <1>11 DEF SettleRefused
<1>12. CASE MirrorMiss(r)
    BY <1>12 DEF MirrorMiss
<1>13. CASE FindLicense(r)
    BY <1>13 DEF FindLicense
<1>14. CASE Undeliverable(r)
    BY <1>14 DEF Undeliverable
<1>15. QED
    BY <1>1, <1>2, <1>3, <1>4, <1>5, <1>6, <1>7, <1>8, <1>9, <1>10, <1>11,
       <1>12, <1>13, <1>14 DEF RequestStep

LEMMA SalesShared ==
    ASSUME TypeOK, SalesInv, NEW a \in Actors, SharedStep(a) \/ Crash(a)
    PROVE  SalesInv'
<1> USE Typing DEF TypeOK, SalesInv, SalesAreBooked, InFlight, Jobs, Actors,
        Goto, Release, Return, Abort, SetReason, rows, sales, studio, actors, hedera
<1>1. CASE Fail(a)
    BY <1>1 DEF Fail, TransitionTo
<1>2. CASE MirrorHit(a)
    BY <1>2 DEF MirrorHit, MirrorMatch, Credits
<1>3. CASE RecordTx(a)
    BY <1>3 DEF RecordTx, TxTaken
<1>4. CASE RecordRefused(a)
    BY <1>4 DEF RecordRefused
<1>5. CASE Settle(a)
    BY <1>5 DEF Settle, TransitionTo
<1>6. CASE SettleInvalid(a)
    BY <1>6 DEF SettleInvalid
<1>7. CASE Allocate(a)
    BY <1>7 DEF Allocate
<1>8. CASE AllocateSoldOut(a)
    BY <1>8 DEF AllocateSoldOut
<1>9. CASE AllocateRefused(a)
    BY <1>9 DEF AllocateRefused
<1>10. CASE Deliver(a)
    <2>1. on[a] \in Payments /\ pc[a] = "files"
        BY <1>10 DEF Deliver
    <2>2. status' = [status EXCEPT ![on[a]] = "delivered"]
        BY ONLY <1>10 DEF Deliver, TransitionTo
    <2>3. \A p \in Payments :
              status'[p] = IF p = on[a] THEN "delivered" ELSE status[p]
        BY <2>1, <2>2
    <2>4. UNCHANGED <<serial, enqueued, booked>>
        BY ONLY <1>10 DEF Deliver, TransitionTo
    <2>5. \/ pc' = [pc EXCEPT ![a] = "enqueue"] /\ UNCHANGED on
          \/ pc' = [pc EXCEPT ![a] = "idle"] /\ on' = [on EXCEPT ![a] = None]
        BY ONLY <1>10 DEF Deliver, Return, Release, Goto
    <2>6. \A e \in Actors \ {a} : pc'[e] = pc[e] /\ on'[e] = on[e]
        BY <2>5
    <2>7. \/ pc'[a] = "idle"
          \/ pc'[a] = "enqueue" /\ on'[a] = on[a]
        BY <2>5
    <2>8. SalesAreBooked'
        BY ONLY SalesInv, <2>1, <2>3, <2>4 DEF SalesInv, SalesAreBooked
    <2>9. QED
        BY ONLY SalesInv, <2>1, <2>4, <2>6, <2>7, <2>8 DEF SalesInv
<1>11. CASE Enqueue(a)
    BY <1>11 DEF Enqueue
<1>12. CASE Crash(a)
    BY <1>12 DEF Crash
<1>13. QED
    BY <1>1, <1>2, <1>3, <1>4, <1>5, <1>6, <1>7, <1>8, <1>9, <1>10, <1>11,
       <1>12 DEF SharedStep

LEMMA SalesOther ==
    ASSUME TypeOK, SalesInv,
           \/ SweepStep \/ HederaStep \/ DesignerStep
           \/ \E r \in Requests, p \in Payments : Arrive(r, p)
    PROVE  SalesInv'
<1> USE Typing DEF TypeOK, SalesInv, SalesAreBooked, InFlight, Jobs, Actors,
        Goto, Release, Return, Abort, SetReason, rows, sales, studio, actors, hedera
<1>1. CASE SweepStep
    BY ONLY TypeOK, SalesInv, <1>1, SweepFrame DEF SalesInv, SalesAreBooked, sales, hedera
<1>2. CASE HederaStep
    BY <1>2 DEF HederaStep, MirrorCatchUp, Land, Expire
<1>3. CASE DesignerStep
    BY ONLY SalesInv, <1>3, DesignerFrame
       DEF SalesInv, SalesAreBooked, rows, sales, actors, hedera
<1>4. CASE \E r \in Requests, p \in Payments : Arrive(r, p)
    <2>1. PICK r \in Requests, p \in Payments : Arrive(r, p)
        BY <1>4
    <2>2. /\ \A a \in Actors \ {r} : pc'[a] = pc[a] /\ on'[a] = on[a]
          /\ pc'[r] \in {"replay", "reserve"} /\ on'[r] = p
          /\ UNCHANGED <<rows, sales, mem, tx, sweep, hedera>>
        BY ONLY TypeOK, <2>1, ArriveStep
    <2>3. QED
        BY ONLY SalesInv, <2>2 DEF SalesInv, SalesAreBooked, rows, sales, hedera
<1>5. QED
    BY <1>1, <1>2, <1>3, <1>4

-----------------------------------------------------------------------------
LEMMA MoneyInit == TypeOK /\ Init => MoneyInv
    BY Typing DEF Init, MoneyInv, TypeOK, Actors

LEMMA MoneyNext == TypeOK /\ MoneyInv /\ [Next]_vars => MoneyInv'
<1> SUFFICES ASSUME TypeOK, MoneyInv, [Next]_vars
             PROVE  MoneyInv'
    OBVIOUS
<1>1. CASE Next
    BY <1>1, MoneyRequest, MoneyShared, MoneyOther DEF Next
<1>2. CASE UNCHANGED vars
    BY <1>2 DEF MoneyInv, vars, rows, sales, studio, actors, hedera
<1>3. QED
    BY <1>1, <1>2

\* Revenue is backed by a transfer of its own, however many buyers pay the
\* same price, whoever books the sale and whenever a process dies.
THEOREM RevenueIsBacked == Spec => []RevenueBacked
<1>1. Init => MoneyInv
    BY TypeInit, MoneyInit
<1>2. MoneyInv /\ TypeOK => RevenueBacked
    BY Typing DEF MoneyInv, TypeOK, RevenueBacked
<1>3. QED
    BY <1>1, <1>2, MoneyNext, TypeCorrect, PTL DEF Spec

LEMMA SalesNext == TypeOK /\ SalesInv /\ [Next]_vars => SalesInv'
<1> SUFFICES ASSUME TypeOK, SalesInv, [Next]_vars
             PROVE  SalesInv'
    OBVIOUS
<1>1. CASE Next
    BY <1>1, SalesRequest, SalesShared, SalesOther DEF Next
<1>2. CASE UNCHANGED vars
    BY <1>2 DEF SalesInv, SalesAreBooked, vars, rows, sales, studio, actors,
        hedera
<1>3. QED
    BY <1>1, <1>2

\* No licence, delivery or job without the sale's ledger rows, although stale
\* records overwrite the status they were read from.
THEOREM SalesHaveLedgerRows == Spec => []SalesAreBooked
<1>1. Init => SalesInv
    BY Typing DEF Init, SalesInv, SalesAreBooked, Actors
<1>2. SalesInv => SalesAreBooked
    BY DEF SalesInv
<1>3. QED
    BY <1>1, <1>2, SalesNext, TypeCorrect, PTL DEF Spec

-----------------------------------------------------------------------------
(* Editions.                                                               *)

LEMMA EditionAllocate ==
    ASSUME TypeOK, EditionRespected, NEW a \in Actors, Allocate(a)
    PROVE  EditionRespected'
<1> DEFINE b == on[a]
<1>1. b \in Payments /\ serial[b] = 0 /\ ~CapReached(b)
    BY DEF Allocate, TypeOK, Places
<1>2. PICK n \in 1 .. Cardinality(Payments) :
          IsNextSerial(n, b) /\ serial' = [serial EXCEPT ![b] = n]
    BY DEF Allocate
<1>3. n \in Nat /\ n # 0
    BY <1>2, RowCount
<1>4. serial \in [Payments -> Nat]
    BY DEF TypeOK
<1>5. \A q \in Payments : serial'[q] = IF q = b THEN n ELSE serial[q]
    BY <1>1, <1>2, <1>4
<1>6. b \notin Sandbox => n <= MaxUnits[OfferOf[b]]
    BY <1>1, <1>2, <1>3, <1>4, Typing DEF CapReached, IsNextSerial, Licensed
<1>7. n = 1 \/ \E q \in Licensed(b) : serial[q] + 1 = n
    BY <1>2 DEF IsNextSerial
<1>8. \A q \in Licensed(b) : serial[q] < n
    BY <1>2 DEF IsNextSerial
<1>9. QED
    BY <1>1, <1>3, <1>4, <1>5, <1>6, <1>7, <1>8, Typing
       DEF EditionRespected, Licensed

LEMMA SerialUnchanged ==
    ASSUME Next, \A a \in Actors : ~Allocate(a)
    PROVE  serial' = serial
    BY DEF Next, RequestStep, SharedStep, SweepStep, HederaStep, DesignerStep,
        Arrive, ReserveRefused, ReserveLostRace, Reserve, Replay,
        ReplayAnswered, VerifyValid, VerifyInvalid, FacilitatorUnavailable,
        SubmitSettle, SettleSucceeded, SettleRefused, MirrorMiss, FindLicense,
        Undeliverable, Fail, MirrorHit, RecordTx, RecordRefused, Settle,
        SettleInvalid, AllocateSoldOut, AllocateRefused, Deliver, Enqueue,
        Reap, Reconcile, SweepStart, SweepNext, ReapStale, ReapSkipped, Land,
        Expire, MirrorCatchUp, ChangeListing, DetachFiles, ReattachFiles,
        Crash, sales, Actors

LEMMA EditionNext == TypeOK /\ EditionRespected /\ [Next]_vars => EditionRespected'
<1> SUFFICES ASSUME TypeOK, EditionRespected, [Next]_vars
             PROVE  EditionRespected'
    OBVIOUS
<1>1. CASE \E a \in Actors : Allocate(a)
    BY <1>1, EditionAllocate
<1>2. CASE Next /\ \A a \in Actors : ~Allocate(a)
    BY <1>2, SerialUnchanged DEF EditionRespected, Licensed
<1>3. CASE UNCHANGED vars
    BY <1>3 DEF EditionRespected, Licensed, vars, sales
<1>4. QED
    BY <1>1, <1>2, <1>3

\* An edition is numbered without gaps or repeats and never oversold, whatever
\* became of the reservations.
THEOREM EditionIsRespected == Spec => []EditionRespected
<1>1. Init => EditionRespected
    BY DEF Init, EditionRespected
<1>2. QED
    BY <1>1, EditionNext, TypeCorrect, PTL DEF Spec

-----------------------------------------------------------------------------
(* While no two actors work on one purchase at a time.                     *)

\* Every step of Next is an actor's or one of the rest.
LEMMA NextCases ==
    ASSUME Next
    PROVE  \/ \E a \in Actors : ActorStep(a)
           \/ SweepStep \/ HederaStep \/ DesignerStep
           \/ \E r \in Requests, p \in Payments : Arrive(r, p)
    BY DEF Next, ActorStep, Actors

\* A purchase outside Overlap is in one actor's hands, or waits in the sweep.
OneHolder ==
    /\ \A a \in Actors : pc[a] = "idle" => on[a] = None
    /\ pc[Reaper] # "idle" => sweep[on[Reaper]] # "none"
    /\ \A a, e \in Actors : a # e /\ on[a] \in Payments \ Overlap => on[e] # on[a]
    /\ \A r \in Requests : on[r] \in Payments \ Overlap => sweep[on[r]] = "none"

LEMMA HolderActor ==
    ASSUME TypeOK, OneHolder, NEW a \in Actors, ActorStep(a)
    PROVE  OneHolder'
<1>1. (LetsGo(a) \/ GoesOn(a)) /\ Alone(a)
    BY StepShape
<1>2. /\ Reaper \in Actors /\ Requests \subseteq Actors /\ None \notin Payments
      /\ \A e \in Actors : pc[e] # "idle" => on[e] \in Payments
    BY Typing DEF TypeOK, Actors
<1>3. CASE LetsGo(a)
    BY ONLY OneHolder, <1>1, <1>2, <1>3, a \in Actors DEF OneHolder, LetsGo, Alone
<1>4. CASE GoesOn(a)
    BY ONLY OneHolder, <1>1, <1>2, <1>4, a \in Actors DEF OneHolder, GoesOn, Alone
<1>5. QED
    BY <1>1, <1>3, <1>4

LEMMA HolderOther ==
    ASSUME TypeOK, OneHolder,
           \/ SweepStep \/ HederaStep \/ DesignerStep
           \/ \E r \in Requests, p \in Payments : Arrive(r, p)
    PROVE  OneHolder'
<1>1. /\ Reaper \in Actors /\ Requests \subseteq Actors /\ Reaper \notin Requests
      /\ None \notin Payments /\ pc \in [Actors -> Places]
      /\ on \in [Actors -> Payments \cup {None}]
      /\ \A e \in Actors : pc[e] # "idle" => on[e] \in Payments
      /\ Actors = Requests \cup {Reaper}
    BY Typing DEF TypeOK, Actors
<1>2. CASE SweepStep
    <2>1. ASSUME NEW Chosen \in SUBSET Stale, SweepStart(Chosen)
          PROVE  OneHolder'
        <3>1. /\ \A p \in Chosen : p \in Overlap \/ \A a \in Actors : on[a] # p
              /\ pc[Reaper] = "idle" /\ UNCHANGED <<pc, on>>
              /\ sweep' = [p \in Payments |-> IF p \in Chosen THEN status[p] ELSE "none"]
            BY ONLY <2>1 DEF SweepStart, MayTake, Held
        <3>2. QED
            BY ONLY OneHolder, <1>1, <3>1 DEF OneHolder
    <2>2. CASE Reap \/ \E p \in Payments : Reconcile(p)
        <3>1. \E Chosen \in SUBSET Stale : SweepStart(Chosen)
            BY ONLY <2>2 DEF Reap, Reconcile
        <3>2. QED
            BY ONLY <2>1, <3>1
    <2>3. CASE ReapStale
        <3>1. pc' = [pc EXCEPT ![Reaper] = "failing"] /\ UNCHANGED <<on, sweep>>
                  /\ pc[Reaper] = "mirror"
            BY ONLY <2>3 DEF ReapStale, Goto
        <3>2. QED
            BY ONLY OneHolder, <1>1, <3>1 DEF OneHolder
    <2>4. CASE ReapSkipped
        <3>1. LetsGo(Reaper) /\ Alone(Reaper)
            BY ONLY TypeOK, <1>1, <2>4, ReturnShape DEF ReapSkipped
        <3>2. QED
            BY ONLY OneHolder, <1>1, <3>1 DEF OneHolder, LetsGo, Alone
    <2>5. CASE \E p \in Payments : SweepNext(p)
        <3>1. PICK p \in Payments :
                  /\ pc' = [pc EXCEPT ![Reaper] = "mirror"]
                  /\ on' = [on EXCEPT ![Reaper] = p]
                  /\ pc[Reaper] = "idle" /\ sweep[p] # "none" /\ UNCHANGED sweep
            BY ONLY <2>5 DEF SweepNext, Goto
        <3>2. \A r \in Requests : pc'[r] = pc[r] /\ on'[r] = on[r]
            BY ONLY <1>1, <3>1
        <3>3. pc'[Reaper] = "mirror" /\ on'[Reaper] = p
            BY ONLY <1>1, <3>1
        <3>4. QED
            BY ONLY OneHolder, <1>1, <3>1, <3>2, <3>3 DEF OneHolder
    <2>6. QED
        BY ONLY <1>2, <2>2, <2>3, <2>4, <2>5 DEF SweepStep
<1>3. CASE HederaStep
    <2>1. UNCHANGED actors
        BY ONLY <1>3 DEF HederaStep, MirrorCatchUp, Land, Expire
    <2>2. QED
        BY ONLY OneHolder, <2>1 DEF OneHolder, actors
<1>4. CASE DesignerStep
    BY ONLY OneHolder, <1>4, DesignerFrame DEF OneHolder, actors
<1>5. CASE \E r \in Requests, p \in Payments : Arrive(r, p)
    <2>1. PICK r \in Requests, p \in Payments : Arrive(r, p)
        BY ONLY <1>5
    <2>2. /\ \A a \in Actors \ {r} : pc'[a] = pc[a] /\ on'[a] = on[a]
          /\ pc'[r] \in {"replay", "reserve"} /\ on'[r] = p
        BY ONLY TypeOK, <2>1, ArriveStep
    <2>3. /\ \/ p \in Overlap
             \/ (\A a \in Actors : on[a] # p) /\ sweep[p] = "none"
          /\ UNCHANGED sweep
        BY ONLY <2>1 DEF Arrive, MayTake, Held
    <2>4. QED
        BY ONLY OneHolder, <1>1, <2>2, <2>3 DEF OneHolder
<1>6. QED
    BY <1>2, <1>3, <1>4, <1>5

\* An actor that has read its purchase remembers its status truly, and so does
\* a sweep that has yet to come to it.
Loaded(a) == pc[a] \notin {"idle", "reserve", "replay"}

InStep ==
    /\ pc[Reaper] \notin {"reserve", "replay"}
    /\ \A a \in Actors : Loaded(a) /\ on[a] \notin Overlap => mem[a] = status[on[a]]
    /\ \A p \in Payments \ Overlap :
          sweep[p] # "none" /\ on[Reaper] # p => sweep[p] = status[p]

\* What an actor remembers is what it last read or wrote.
LEMMA MemShape ==
    ASSUME TypeOK, NEW a \in Actors, ActorStep(a)
    PROVE  \/ LetsGo(a)
           \/ pc'[a] = "replay" /\ pc[a] = "reserve"
           \/ /\ pc'[a] # "replay" /\ Loaded(a)
              /\ mem'[a] = mem[a] /\ status' = status
           \/ pc'[a] # "replay" /\ mem'[a] = status'[on[a]]
<1>1. /\ mem \in [Actors -> Statuses \cup {"none"}]
      /\ status \in [Payments -> Statuses \cup {"none"}]
      /\ pc \in [Actors -> Places]
      /\ pc[a] # "idle" => on[a] \in Payments
    BY DEF TypeOK
<1>2. CASE Return(a) \/ Abort(a)
    BY <1>2, ReturnShape
<1>3. ASSUME NEW place, place # "replay", Goto(a, place), pc[a] # "idle",
             NEW s, status' = [status EXCEPT ![on[a]] = s],
             mem' = [mem EXCEPT ![a] = s]
      PROVE  pc'[a] # "replay" /\ mem'[a] = status'[on[a]]
    BY ONLY TypeOK, <1>1, <1>3, GotoShape, a \in Actors
<1>4. ASSUME NEW place, place # "replay", Goto(a, place), Loaded(a),
             UNCHANGED <<mem, status>>
      PROVE  /\ pc'[a] # "replay" /\ Loaded(a)
             /\ mem'[a] = mem[a] /\ status' = status
    BY ONLY TypeOK, <1>4, GotoShape, a \in Actors
<1>5. CASE ReserveRefused(a) \/ ReplayAnswered(a) \/ FacilitatorUnavailable(a)
           \/ Undeliverable(a) \/ Fail(a) \/ RecordRefused(a) \/ SettleInvalid(a)
           \/ AllocateSoldOut(a) \/ AllocateRefused(a) \/ Enqueue(a) \/ Crash(a)
    BY ONLY <1>2, <1>5 DEF ReserveRefused, ReplayAnswered, FacilitatorUnavailable,
        Undeliverable, Fail, RecordRefused, SettleInvalid, AllocateSoldOut,
        AllocateRefused, Enqueue, Crash
<1>6. CASE ReserveLostRace(a)
    BY ONLY TypeOK, <1>6, GotoShape, a \in Actors DEF ReserveLostRace
<1>7. CASE Reserve(a) \/ VerifyValid(a)
    BY ONLY <1>3, <1>7 DEF Reserve, VerifyValid, TransitionTo
<1>8. CASE Settle(a)
    BY ONLY <1>3, <1>8 DEF Settle, TransitionTo
<1>9. CASE Deliver(a)
    <2>1. \/ Return(a)
          \/ /\ Goto(a, "enqueue") /\ pc[a] = "files"
             /\ status' = [status EXCEPT ![on[a]] = "delivered"]
             /\ mem' = [mem EXCEPT ![a] = "delivered"]
        BY ONLY <1>9 DEF Deliver, TransitionTo
    <2>2. QED
        BY ONLY <1>2, <1>3, <2>1
<1>10. CASE Replay(a)
    <2>1. /\ pc'[a] = ReplayOutcome(on[a]) /\ mem'[a] = status[on[a]]
          /\ UNCHANGED status
        BY ONLY TypeOK, <1>1, <1>10, GotoShape, a \in Actors DEF Replay, rows
    <2>2. QED
        BY ONLY <2>1 DEF ReplayOutcome
<1>11. CASE VerifyInvalid(a) \/ SettleSucceeded(a) \/ SettleRefused(a)
            \/ MirrorMiss(a) \/ MirrorHit(a) \/ RecordTx(a) \/ Allocate(a)
    BY ONLY <1>4, <1>11 DEF VerifyInvalid, SettleSucceeded, SettleRefused,
        MirrorMiss, MirrorHit, RecordTx, Allocate, Loaded, rows
<1>12. CASE SubmitSettle(a)
    BY ONLY <1>4, <1>12 DEF SubmitSettle, Loaded, rows
<1>13. CASE FindLicense(a)
    BY ONLY <1>4, <1>13 DEF FindLicense, Loaded, rows
<1>14. QED
    BY ONLY ActorStep(a), <1>5, <1>6, <1>7, <1>8, <1>9, <1>10, <1>11, <1>12, <1>13
       DEF ActorStep, RequestStep, SharedStep

LEMMA StepActor ==
    ASSUME TypeOK, OneHolder, InStep, NEW a \in Actors, ActorStep(a)
    PROVE  InStep'
<1>1. (LetsGo(a) \/ GoesOn(a)) /\ Alone(a)
    BY StepShape
<1>2. \/ LetsGo(a)
      \/ pc'[a] = "replay" /\ pc[a] = "reserve"
      \/ /\ pc'[a] # "replay" /\ Loaded(a)
         /\ mem'[a] = mem[a] /\ status' = status
      \/ pc'[a] # "replay" /\ mem'[a] = status'[on[a]]
    BY MemShape
<1>3. /\ Reaper \in Actors /\ None \notin Payments
      /\ Actors = Requests \cup {Reaper}
      /\ \A e \in Actors : pc[e] # "idle" => on[e] \in Payments
    BY Typing DEF TypeOK, Actors
<1>4. \A p \in Payments : p # on[a] => status'[p] = status[p]
    <2>1. status' = status \/ \E s : status' = [status EXCEPT ![on[a]] = s]
        BY StatusShape
    <2>2. status \in [Payments -> Statuses \cup {"none"}]
        BY DEF TypeOK
    <2>3. QED
        BY ONLY <2>1, <2>2
<1>5. \A p \in Payments \ Overlap :
          sweep'[p] # "none" /\ on'[Reaper] # p =>
              /\ sweep'[p] = sweep[p] /\ on[Reaper] # p
              /\ \A r \in Requests : on[r] # p
    <2>1. \A p \in Payments : sweep'[p] \in {"none", sweep[p]}
        BY ONLY <1>1 DEF LetsGo, GoesOn
    <2>2. \A p \in Payments \ Overlap : sweep[p] # "none" => \A r \in Requests : on[r] # p
        BY ONLY OneHolder DEF OneHolder
    <2>3. \A p \in Payments :
              sweep'[p] # "none" /\ on'[Reaper] # p => on[Reaper] # p
        BY ONLY <1>1, <1>3, a \in Actors DEF LetsGo, GoesOn, Alone
    <2>4. QED
        BY ONLY <2>1, <2>2, <2>3
<1>6. pc'[Reaper] \notin {"reserve", "replay"}
    BY ONLY InStep, <1>1, <1>2, <1>3, a \in Actors DEF InStep, LetsGo, GoesOn, Alone
<1>7. \A p \in Payments \ Overlap :
          sweep'[p] # "none" /\ on'[Reaper] # p => sweep'[p] = status'[p]
    BY ONLY InStep, <1>3, <1>4, <1>5, a \in Actors DEF InStep
<1>8. ASSUME NEW e \in Actors, pc'[e] \notin {"idle", "reserve", "replay"},
             on'[e] \notin Overlap
      PROVE  mem'[e] = status'[on'[e]]
    <2>1. CASE e = a
        <3>1. on'[a] = on[a] /\ pc'[a] # "idle" /\ pc'[a] # "replay"
            BY ONLY <1>1, <1>8, <2>1 DEF LetsGo, GoesOn
        <3>2. QED
            BY ONLY InStep, <1>2, <1>8, <2>1, <3>1 DEF InStep, LetsGo
    <2>2. CASE e # a
        <3>1. pc'[e] = pc[e] /\ on'[e] = on[e] /\ mem'[e] = mem[e]
            BY ONLY <1>1, <1>8, <2>2 DEF Alone
        <3>2. Loaded(e) /\ on[e] \in Payments \ Overlap
            BY ONLY <1>3, <1>8, <3>1 DEF Loaded
        <3>3. on[a] # on[e]
            BY ONLY OneHolder, <2>2, <3>2, a \in Actors, e \in Actors DEF OneHolder
        <3>4. QED
            BY ONLY InStep, <1>4, <3>1, <3>2, <3>3, e \in Actors DEF InStep
    <2>3. QED
        BY ONLY <2>1, <2>2
<1>9. QED
    BY ONLY <1>6, <1>7, <1>8 DEF InStep, Loaded

LEMMA StepOther ==
    ASSUME TypeOK, OneHolder, InStep,
           \/ SweepStep \/ HederaStep \/ DesignerStep
           \/ \E r \in Requests, p \in Payments : Arrive(r, p)
    PROVE  InStep'
<1>1. /\ Reaper \in Actors /\ Requests \subseteq Actors /\ Reaper \notin Requests
      /\ None \notin Payments /\ pc \in [Actors -> Places]
      /\ on \in [Actors -> Payments \cup {None}]
      /\ mem \in [Actors -> Statuses \cup {"none"}]
      /\ \A e \in Actors : pc[e] # "idle" => on[e] \in Payments
      /\ Actors = Requests \cup {Reaper}
    BY Typing DEF TypeOK, Actors
<1>2. CASE SweepStep
    <2>1. UNCHANGED status
        BY <1>2, SweepFrame
    <2>2. ASSUME NEW Chosen \in SUBSET Stale, SweepStart(Chosen)
          PROVE  InStep'
        <3>1. /\ UNCHANGED <<pc, on, mem>>
              /\ sweep' = [p \in Payments |-> IF p \in Chosen THEN status[p] ELSE "none"]
            BY ONLY <2>2 DEF SweepStart
        <3>2. QED
            BY ONLY InStep, <2>1, <3>1 DEF InStep, Loaded
    <2>3. CASE Reap \/ \E p \in Payments : Reconcile(p)
        <3>1. \E Chosen \in SUBSET Stale : SweepStart(Chosen)
            BY ONLY <2>3 DEF Reap, Reconcile
        <3>2. QED
            BY ONLY <2>2, <3>1
    <2>4. CASE ReapStale
        <3>1. pc' = [pc EXCEPT ![Reaper] = "failing"] /\ UNCHANGED <<on, mem, sweep>>
                  /\ pc[Reaper] = "mirror"
            BY ONLY <2>4 DEF ReapStale, Goto
        <3>2. QED
            BY ONLY InStep, <1>1, <2>1, <3>1 DEF InStep, Loaded
    <2>5. CASE ReapSkipped
        <3>1. LetsGo(Reaper) /\ Alone(Reaper)
            BY ONLY TypeOK, <1>1, <2>5, ReturnShape DEF ReapSkipped
        <3>2. \A p \in Payments : sweep'[p] # "none" => on[Reaper] # p /\ sweep'[p] = sweep[p]
            BY ONLY <3>1 DEF LetsGo
        <3>3. QED
            BY ONLY InStep, <1>1, <2>1, <3>1, <3>2 DEF InStep, Loaded, LetsGo, Alone
    <2>6. CASE \E p \in Payments : SweepNext(p)
        <3>1. PICK p \in Payments :
                  /\ pc' = [pc EXCEPT ![Reaper] = "mirror"]
                  /\ on' = [on EXCEPT ![Reaper] = p]
                  /\ mem' = [mem EXCEPT ![Reaper] = sweep[p]]
                  /\ pc[Reaper] = "idle" /\ sweep[p] # "none" /\ UNCHANGED sweep
            BY ONLY <2>6 DEF SweepNext, Goto
        <3>2. /\ \A r \in Requests : pc'[r] = pc[r] /\ on'[r] = on[r] /\ mem'[r] = mem[r]
              /\ pc'[Reaper] = "mirror" /\ on'[Reaper] = p /\ mem'[Reaper] = sweep[p]
            BY ONLY <1>1, <3>1
        <3>3. on[Reaper] = None
            BY ONLY OneHolder, <1>1, <3>1 DEF OneHolder
        <3>4. QED
            BY ONLY InStep, <1>1, <2>1, <3>1, <3>2, <3>3 DEF InStep, Loaded
    <2>7. QED
        BY ONLY <1>2, <2>3, <2>4, <2>5, <2>6 DEF SweepStep
<1>3. CASE HederaStep
    <2>1. UNCHANGED <<rows, actors>>
        BY ONLY <1>3 DEF HederaStep, MirrorCatchUp, Land, Expire
    <2>2. QED
        BY ONLY InStep, <2>1 DEF InStep, Loaded, rows, actors
<1>4. CASE DesignerStep
    BY ONLY InStep, <1>4, DesignerFrame DEF InStep, Loaded, rows, sales, actors, hedera
<1>5. CASE \E r \in Requests, p \in Payments : Arrive(r, p)
    <2>1. PICK r \in Requests, p \in Payments : Arrive(r, p)
        BY ONLY <1>5
    <2>2. /\ \A a \in Actors \ {r} : pc'[a] = pc[a] /\ on'[a] = on[a]
          /\ pc'[r] \in {"replay", "reserve"}
        BY ONLY TypeOK, <2>1, ArriveStep
    <2>3. UNCHANGED <<rows, mem, sweep>>
        BY ONLY <2>1 DEF Arrive
    <2>4. QED
        BY ONLY InStep, <1>1, <2>2, <2>3 DEF InStep, Loaded, rows
<1>6. QED
    BY <1>2, <1>3, <1>4, <1>5

LEMMA HolderNext == TypeOK /\ OneHolder /\ InStep /\ [Next]_vars => OneHolder' /\ InStep'
<1> SUFFICES ASSUME TypeOK, OneHolder, InStep, [Next]_vars
             PROVE  OneHolder' /\ InStep'
    OBVIOUS
<1>1. CASE Next
    BY <1>1, NextCases, HolderActor, HolderOther, StepActor, StepOther
<1>2. CASE UNCHANGED vars
    BY ONLY OneHolder, InStep, <1>2 DEF OneHolder, InStep, Loaded, vars, rows, actors
<1>3. QED
    BY <1>1, <1>2

LEMMA HolderInit == Init => OneHolder /\ InStep
    BY Typing DEF Init, OneHolder, InStep, Loaded, Actors

LEMMA HolderAlways == Spec => [](TypeOK /\ OneHolder /\ InStep)
<1>1. QED
    BY TypeInit, TypeNext, HolderInit, HolderNext, PTL DEF Spec

\* A status is written from what an actor remembers: from a true one, if the
\* purchase is in no other hands.
LEMMA Forward ==
    ASSUME TypeOK, InStep, [Next]_vars, NEW p \in Payments \ Overlap,
           status'[p] # status[p]
    PROVE  \/ /\ status[p] = "none" /\ status'[p] = "pending"
              /\ \E a \in Actors : on[a] = p /\ Reserve(a)
           \/ /\ status'[p] \in TRANSITIONS[status[p]]
              /\ \E a \in Actors : on[a] = p /\ Loaded(a)
<1>1. CASE \E a \in Actors : ActorStep(a)
    <2>1. PICK a \in Actors : ActorStep(a)
        BY <1>1
    <2>2. status \in [Payments -> Statuses \cup {"none"}]
        BY DEF TypeOK
    <2>3. \/ status' = status
          \/ /\ Reserve(a) /\ status[on[a]] = "none"
             /\ status' = [status EXCEPT ![on[a]] = "pending"]
          \/ /\ pc[a] \in {"verify", "failing", "booking", "files"}
             /\ \E s : s \in TRANSITIONS[mem[a]] /\ status' = [status EXCEPT ![on[a]] = s]
        BY <2>1, StatusShape
    <2>4. p = on[a]
        BY ONLY <2>2, <2>3, status'[p] # status[p], p \in Payments
    <2>5. CASE pc[a] \in {"verify", "failing", "booking", "files"}
        <3>1. Loaded(a) /\ mem[a] = status[p]
            BY ONLY InStep, <2>4, <2>5, p \notin Overlap DEF InStep, Loaded
        <3>2. QED
            BY ONLY <2>2, <2>3, <2>4, <3>1, status'[p] # status[p], p \in Payments
    <2>6. CASE pc[a] \notin {"verify", "failing", "booking", "files"}
        BY ONLY <2>2, <2>3, <2>4, <2>6, status'[p] # status[p], p \in Payments
    <2>7. QED
        BY <2>5, <2>6
<1>2. CASE ~\E a \in Actors : ActorStep(a)
    <2>1. CASE SweepStep
        BY <2>1, SweepFrame
    <2>2. CASE HederaStep \/ DesignerStep \/ \E r \in Requests, q \in Payments : Arrive(r, q)
        <3>1. UNCHANGED rows
            BY ONLY <2>2, DesignerFrame DEF HederaStep, MirrorCatchUp, Land, Expire, Arrive
        <3>2. QED
            BY ONLY <3>1, status'[p] # status[p] DEF rows
    <2>3. CASE UNCHANGED vars
        BY ONLY <2>3, status'[p] # status[p] DEF vars, rows
    <2>4. QED
        BY <1>2, <2>1, <2>2, <2>3, NextCases
<1>3. QED
    BY <1>1, <1>2

\* A purchase that no two actors work on at once only moves along the table,
\* although every writer goes by the status it remembers.
THEOREM LifecycleIsForward == Spec => LifecycleForward
<1>1. TypeOK /\ InStep /\ [Next]_vars =>
          [\A p \in Payments \ Overlap :
              status'[p] # status[p] =>
                  status[p] = "none" \/ status'[p] \in TRANSITIONS[status[p]]]_status
    BY Forward
<1>2. QED
    BY <1>1, HolderAlways, PTL DEF Spec, LifecycleForward

=============================================================================
