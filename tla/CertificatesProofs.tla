------------------------- MODULE CertificatesProofs -------------------------
(***************************************************************************)
(* What Certificates and Sidecar keep for any number of licences, workers, *)
(* payouts, failed calls and crashes.                                      *)
(***************************************************************************)
EXTENDS Certificates, SequenceTheorems, TLAPS

\* A worker's call carries what its job is about, and a receipt names a message.
Linked ==
    \A w \in Workers :
        /\ stage[w] # "idle" => job[w].at \in {"calling", "paying"}
        /\ job[w].at = "building" => job[w].on \in Licences
        /\ job[w].at = "calling" =>
            load[w] \in Certs /\ job[w].on \in Licences /\ load[w].of = job[w].on
        /\ job[w].at = "paying" => load[w] \in Payouts
        /\ job[w].at \notin {"calling", "paying"} => load[w] = None
        /\ job[w].held # None => job[w].on \in Licences /\ job[w].held.of = job[w].on
        /\ stage[w] \in {"landed", "ok"} /\ load[w] \in Certs =>
            receipt[w] # 0 /\ topic[receipt[w]] = load[w]

\* A request holds a certificate of its licence.
Asked ==
    \A r \in Requests :
        /\ req[r].at # "idle" => req[r].on \in Licences
        /\ req[r].held # None => req[r].held.of = req[r].on

\* The same types, by what the actions change together.
SideOK == SidecarTypeOK(Certs) /\ faults \in 0 .. MaxFaults

RowOK ==
    /\ cert \in [Licences -> Certs \cup {None}]
    /\ \A l \in Licences : cert[l] # None => cert[l].of = l
    /\ seq \in [Licences -> 0 .. Len(topic)]
    /\ delivered \subseteq Licences
    /\ given \in [Licences -> SUBSET Certs]
    /\ queued \in [Licences -> 0 .. MaxQueued + 1]

ActorsOK ==
    /\ req \in [Requests -> Fields]
    /\ job \in [Workers -> Fields]
    /\ tried \subseteq Payouts

Shape == SideOK /\ RowOK /\ ActorsOK /\ Linked /\ Asked

LEMMA ShapeTypes == Shape => CertTypeOK
    BY DEF Shape, SideOK, RowOK, ActorsOK, CertTypeOK

LEMMA OldCertType ==
    ASSUME NEW l \in Licences
    PROVE  OldCert(l) \in Certs /\ OldCert(l).of = l
    BY CertificateTyping, CertificateNames DEF OldCert, Certs

LEMMA ShapeInit == CertInit => Shape
<1> SUFFICES ASSUME CertInit PROVE Shape
    OBVIOUS
<1>1. SideOK
    BY CertificateTyping, CertificateNames DEF CertInit, SidecarInit, SideOK, SidecarTypeOK, Ends
<1>2. RowOK
    BY CertificateTyping, CertificateNames, OldCertType DEF CertInit, SidecarInit, RowOK
<1>3. ActorsOK /\ Linked /\ Asked
    BY CertificateTyping, CertificateNames
       DEF CertInit, SidecarInit, ActorsOK, Linked, Asked, Idle, Fields
<1>4. QED
    BY <1>1, <1>2, <1>3 DEF Shape

LEMMA BuiltOrType ==
    ASSUME NEW l \in Licences, NEW held \in Certs \cup {None},
           held # None => held.of = l, NEW c \in BuiltOr(l, held)
    PROVE  c \in Certs /\ c.of = l
    BY DEF BuiltOr, Build, Certs

\* A buyer, the admin panel and the Reaper, who call no sidecar.
LEMMA ShapeShop ==
    ASSUME Shape,
           \/ \E r \in Requests : Deliver(r) \/ HandOver(r) \/ Drop(r)
           \/ \E r \in Requests, l \in Licences : Present(r, l)
           \/ \E l \in Licences : DeliverBatch(l) \/ RollForward(l) \/ RetryCertificate(l)
    PROVE  Shape'
<1> USE CertificateTyping, CertificateNames DEF Shape
<1>1. UNCHANGED <<sidecarVars, job, tried, faults>>
    BY DEF Deliver, HandOver, Drop, Present, DeliverBatch, RollForward, RetryCertificate
<1>2. SideOK' /\ Linked'
    BY <1>1 DEF SideOK, SidecarTypeOK, Linked, sidecarVars
<1>3. ASSUME NEW l \in Licences, Enqueue(l)
      PROVE  queued' \in [Licences -> 0 .. MaxQueued + 1]
    BY <1>3 DEF Enqueue, RowOK
<1>4. CASE \E r \in Requests : Deliver(r)
    <2>1. RowOK'
        BY <1>3, <1>4, <1>1 DEF Deliver, RowOK, Asked, sidecarVars
    <2>2. ActorsOK' /\ Asked'
        BY <1>4 DEF Deliver, ActorsOK, Asked, Fields
    <2>3. QED
        BY <1>2, <2>1, <2>2
<1>5. CASE \E r \in Requests : HandOver(r)
    <2> PICK r \in Requests : HandOver(r)
        BY <1>5
    <2>1. req[r].on \in Licences /\ req[r].held \in Certs \cup {None}
        BY DEF HandOver, Asked, ActorsOK, Fields
    <2>2. PICK c \in BuiltOr(req[r].on, req[r].held) :
              /\ cert' = [cert EXCEPT ![req[r].on] = IF req[r].held = None THEN c ELSE @]
              /\ given' = [given EXCEPT ![req[r].on] = @ \cup {c}]
        BY DEF HandOver
    <2>3. c \in Certs /\ c.of = req[r].on
        BY <2>1, BuiltOrType DEF Asked
    <2>4. RowOK'
        <3> DEFINE l == req[r].on
                   d == IF req[r].held = None THEN c ELSE cert[l]
        <3>1. /\ cert \in [Licences -> Certs \cup {None}]
              /\ given \in [Licences -> SUBSET Certs]
              /\ \A x \in Licences : cert[x] # None => cert[x].of = x
            BY DEF RowOK
        <3>2. d \in Certs \cup {None} /\ (d # None => d.of = l)
            BY ONLY <2>1, <2>3, <3>1
        <3>3. cert' = [cert EXCEPT ![l] = d] /\ given' = [given EXCEPT ![l] = @ \cup {c}]
            BY ONLY <2>1, <2>2, <3>1
        <3> HIDE DEF d
        <3>4. /\ cert' \in [Licences -> Certs \cup {None}]
              /\ given' \in [Licences -> SUBSET Certs]
              /\ \A x \in Licences : cert'[x] # None => cert'[x].of = x
            BY ONLY <2>1, <2>3, <3>1, <3>2, <3>3
        <3>5. UNCHANGED <<seq, topic, delivered, queued>>
            BY DEF HandOver, sidecarVars
        <3>6. QED
            BY ONLY RowOK, <3>4, <3>5 DEF RowOK
    <2>5. ActorsOK' /\ Asked'
        BY <1>1 DEF HandOver, ActorsOK, Asked, Fields, Idle
    <2>6. QED
        BY <1>2, <2>4, <2>5
<1>6. CASE \E r \in Requests : Drop(r)
    BY <1>1, <1>2, <1>6 DEF Drop, RowOK, row, ActorsOK, Asked, Fields, Idle, sidecarVars
<1>7. CASE \E r \in Requests, l \in Licences : Present(r, l)
    BY <1>1, <1>2, <1>7 DEF Present, RowOK, row, ActorsOK, Asked, Fields, sidecarVars
<1>8. CASE \E l \in Licences : DeliverBatch(l)
    <2> PICK l \in Licences : DeliverBatch(l)
        BY <1>8
    <2>1. PICK c \in Build(l) : /\ cert' = [cert EXCEPT ![l] = c]
                                /\ given' = [given EXCEPT ![l] = {c}]
        BY DEF DeliverBatch
    <2>2. c \in Certs /\ c.of = l
        BY DEF Build, Certs
    <2>3. queued' \in [Licences -> 0 .. MaxQueued + 1]
        BY <1>3 DEF DeliverBatch, RowOK
    <2>4. RowOK'
        <3>1. seq' = seq /\ topic' = topic /\ delivered' = delivered \cup {l}
            BY <1>1 DEF DeliverBatch, sidecarVars
        <3>2. QED
            BY <2>1, <2>2, <2>3, <3>1 DEF RowOK
    <2>5. QED
        BY <1>1, <1>2, <2>4 DEF DeliverBatch, ActorsOK, Asked
<1>9. CASE \E l \in Licences : RollForward(l) \/ RetryCertificate(l)
    BY <1>1, <1>2, <1>3, <1>9
       DEF RollForward, RetryCertificate, RowOK, row, ActorsOK, Asked, sidecarVars
<1>10. QED
    BY <1>4, <1>5, <1>6, <1>7, <1>8, <1>9

\* What the topic has, it keeps at its place.
LEMMA ShapeSidecar ==
    ASSUME Shape, SidecarStep
    PROVE  /\ Shape'
           /\ Len(topic) <= Len(topic') /\ \A n \in 1 .. Len(topic) : topic'[n] = topic[n]
<1> USE CertificateTyping, CertificateNames DEF Shape
<1>1. ASSUME NEW m \in Certs \cup Payouts, Reach(m)
      PROVE  /\ topic' \in Seq(Certs) /\ paid' \subseteq Payouts
             /\ Len(topic) <= Len(topic') /\ \A n \in 1 .. Len(topic) : topic'[n] = topic[n]
             /\ m \in Certs => Len(topic') # 0 /\ topic'[Len(topic')] = m
    <2>1. topic \in Seq(Certs) /\ paid \subseteq Payouts
        BY DEF SideOK, SidecarTypeOK
    <2>2. CASE m \in Payouts
        BY <1>1, <2>1, <2>2 DEF Reach
    <2>3. CASE m \notin Payouts
        BY <1>1, <2>1, <2>3, AppendProperties DEF Reach
    <2>4. QED
        BY <2>2, <2>3
<1>2. ASSUME NEW c \in Workers, stage[c] \in {"sent", "working", "landed"}
      PROVE  load[c] \in Certs \cup Payouts
    BY <1>2 DEF Linked
<1>3. ASSUME Len(topic) <= Len(topic'), \A n \in 1 .. Len(topic) : topic'[n] = topic[n]
      PROVE  RowOK' /\ ActorsOK' /\ Asked'
    BY <1>3 DEF SidecarStep, row, actors, RowOK, ActorsOK, Asked, SideOK, SidecarTypeOK
<1>4. ASSUME NEW c \in Workers, Submit(c) \/ Answer(c), UNCHANGED faults
      PROVE  SideOK' /\ Linked' /\ UNCHANGED topic
    <2>1. /\ \/ stage[c] = "sent" /\ stage' = [stage EXCEPT ![c] = "working"]
             \/ stage[c] = "landed" /\ stage' = [stage EXCEPT ![c] = "ok"]
          /\ UNCHANGED <<load, receipt, orphans, topic, paid, job, faults>>
        BY <1>4 DEF SidecarStep, actors, Submit, Answer, Advance
    <2>2. stage \in [Workers -> Ends \cup {"idle", "sent", "working", "landed"}]
        BY DEF SideOK, SidecarTypeOK
    <2>3. SideOK'
        BY ONLY SideOK, <2>1, <2>2 DEF SideOK, SidecarTypeOK, Ends
    <2>4. Linked'
        BY ONLY Linked, <2>1, <2>2 DEF Linked
    <2>5. QED
        BY ONLY <2>1, <2>3, <2>4
<1>5. ASSUME NEW c \in Workers, Land(c), UNCHANGED faults
      PROVE  /\ SideOK' /\ Linked'
             /\ Len(topic) <= Len(topic') /\ \A n \in 1 .. Len(topic) : topic'[n] = topic[n]
    <2>1. load[c] \in Certs \cup Payouts /\ Reach(load[c])
        BY <1>2, <1>5 DEF Land
    <2>2. SideOK'
        BY <1>1, <1>5, <2>1 DEF Land, Advance, SideOK, SidecarTypeOK
    <2>3. Linked'
        <3>1. stage' = [stage EXCEPT ![c] = "landed"] /\ load' = load /\ job' = job
            BY <1>5 DEF SidecarStep, actors, Land, Advance
        <3>2. \A w \in Workers : receipt'[w] = IF w = c THEN Len(topic') ELSE receipt[w]
            BY <1>5 DEF Land, SideOK, SidecarTypeOK
        <3>3. \A w \in Workers : receipt[w] # 0 => topic'[receipt[w]] = topic[receipt[w]]
            BY <1>1, <2>1 DEF SideOK, SidecarTypeOK
        <3>4. stage[c] = "working"
            BY <1>5 DEF Land
        <3>5. load[c] \in Certs => receipt'[c] # 0 /\ topic'[receipt'[c]] = load[c]
            BY <1>1, <2>1, <3>2
        <3>6. QED
            BY <3>1, <3>2, <3>3, <3>4, <3>5 DEF Linked, SideOK, SidecarTypeOK
    <2>4. QED
        BY <1>1, <2>1, <2>2, <2>3
<1>6. ASSUME NEW c \in Workers, Refuse(c) \/ HederaError(c) \/ LoseAnswer(c), Fault
      PROVE  SideOK' /\ Linked' /\ UNCHANGED topic
    <2>1. SideOK'
        <3>1. PICK e \in Ends : stage' = [stage EXCEPT ![c] = e]
            BY <1>6 DEF Refuse, HederaError, LoseAnswer, Advance, Ends
        <3>2. \/ orphans' = orphans
              \/ orphans' = [orphans EXCEPT ![load[c]] = @ + 1] /\ load[c] \in Certs \cup Payouts
            BY <1>2, <1>6 DEF Refuse, HederaError, LoseAnswer, Abandon
        <3>3. /\ UNCHANGED <<load, receipt, topic, paid>>
              /\ faults < MaxFaults /\ faults' = faults + 1
            BY <1>6 DEF Refuse, HederaError, LoseAnswer, Fault
        <3>4. QED
            BY <3>1, <3>2, <3>3 DEF SideOK, SidecarTypeOK
    <2>2. Linked' /\ UNCHANGED topic
        <3>1. /\ \E e \in {"unavailable", "rejected", "ambiguous"} :
                    stage' = [stage EXCEPT ![c] = e]
              /\ stage[c] # "idle" /\ UNCHANGED <<load, receipt, topic, job>>
            BY <1>6 DEF SidecarStep, actors, Refuse, HederaError, LoseAnswer, Advance
        <3>2. stage \in [Workers -> Ends \cup {"idle", "sent", "working", "landed"}]
            BY DEF SideOK, SidecarTypeOK
        <3>3. QED
            BY ONLY Linked, <3>1, <3>2 DEF Linked
    <2>3. QED
        BY <2>1, <2>2
<1>7. ASSUME NEW m \in DOMAIN orphans, LandOrphan(m), UNCHANGED faults
      PROVE  /\ SideOK' /\ Linked'
             /\ Len(topic) <= Len(topic') /\ \A n \in 1 .. Len(topic) : topic'[n] = topic[n]
    <2>1. m \in Certs \cup Payouts /\ Reach(m)
        BY <1>7 DEF LandOrphan, SideOK, SidecarTypeOK
    <2>2. SideOK'
        BY <1>1, <1>7, <2>1 DEF LandOrphan, SideOK, SidecarTypeOK
    <2>3. Linked'
        <3>1. UNCHANGED <<stage, load, receipt, job>>
            BY <1>7 DEF SidecarStep, actors, LandOrphan
        <3>2. ASSUME NEW w \in Workers, receipt[w] # 0
              PROVE  topic'[receipt[w]] = topic[receipt[w]]
            <4>1. Len(topic) \in Nat
                BY DEF SideOK, SidecarTypeOK
            <4>2. receipt[w] \in 1 .. Len(topic)
                BY <3>2, <4>1 DEF SideOK, SidecarTypeOK
            <4>3. QED
                BY <1>1, <2>1, <4>2
        <3>3. QED
            BY <3>1, <3>2 DEF Linked
    <2>4. QED
        BY <1>1, <2>1, <2>2, <2>3
<1>8. /\ SideOK' /\ Linked'
      /\ Len(topic) <= Len(topic') /\ \A n \in 1 .. Len(topic) : topic'[n] = topic[n]
    <2>1. Len(topic) \in Nat
        BY DEF SideOK, SidecarTypeOK
    <2>2. QED
        BY <1>4, <1>5, <1>6, <1>7, <2>1 DEF SidecarStep, Handle, Fail
<1>9. QED
    BY <1>3, <1>8

\* A worker hangs up and has no job any more.
LEMMA WorkerDone ==
    ASSUME Shape, NEW w \in Workers, Finish(w),
           \/ orphans' = orphans
           \/ load[w] \in Certs \cup Payouts /\ Abandon(w)
    PROVE  /\ SidecarTypeOK(Certs)' /\ Linked' /\ ActorsOK' /\ Asked'
           /\ topic' = topic /\ UNCHANGED <<cert, delivered, given>>
<1> USE CertificateTyping, CertificateNames DEF Shape
<1>1. SidecarTypeOK(Certs)'
    <2>1. \/ orphans' = orphans
          \/ /\ load[w] \in Certs \cup Payouts
             /\ orphans' = [orphans EXCEPT ![load[w]] = @ + 1]
        BY DEF Abandon
    <2>2. DOMAIN orphans' = Certs \cup Payouts /\ \A m \in Certs \cup Payouts : orphans'[m] \in Nat
        BY <2>1 DEF SideOK, SidecarTypeOK
    <2>3. QED
        BY <2>2 DEF Finish, Hang, Advance, SideOK, SidecarTypeOK
<1>2. Linked'
    <2>1. /\ stage' = [stage EXCEPT ![w] = "idle"] /\ load' = [load EXCEPT ![w] = None]
          /\ receipt' = [receipt EXCEPT ![w] = 0] /\ job' = [job EXCEPT ![w] = Idle]
          /\ topic' = topic
        BY DEF Finish, Hang, Advance
    <2>2. QED
        BY <2>1 DEF Linked, SideOK, SidecarTypeOK, ActorsOK, Idle
<1>3. ActorsOK' /\ Asked'
    BY DEF Finish, ActorsOK, Asked, Fields, Idle
<1>4. QED
    BY <1>1, <1>2, <1>3 DEF Finish

LEMMA ShapeWorker ==
    ASSUME Shape, NEW w \in Workers,
           \/ BuildAndSubmit(w) \/ Record(w) \/ RetryOrFail(w) \/ Crash(w) \/ PayoutTold(w)
           \/ \E l \in Licences : Start(w, l)
           \/ \E x \in Payouts : Pay(w, x)
    PROVE  Shape' /\ topic' = topic
<1> USE CertificateTyping, CertificateNames DEF Shape
<1>1. ASSUME NEW l \in Licences, Enqueue(l)
      PROVE  queued' \in [Licences -> 0 .. MaxQueued + 1]
    BY <1>1 DEF Enqueue, RowOK
<1>2. ASSUME NEW l \in Licences, Start(w, l)
      PROVE  Shape' /\ topic' = topic
    <2>1. UNCHANGED <<sidecarVars, row, given, req, tried, faults>>
        BY <1>2 DEF Start
    <2>2. SideOK' /\ Asked' /\ topic' = topic
        BY <2>1 DEF SideOK, SidecarTypeOK, Asked, sidecarVars
    <2>3. RowOK'
        BY <1>2, <2>1 DEF Start, RowOK, row, sidecarVars
    <2>4. PICK f \in {Idle, [at |-> "building", on |-> l, held |-> cert[l]]} :
              job' = [job EXCEPT ![w] = f]
        BY <1>2 DEF Start
    <2>5. f \in Fields /\ (f.held # None => f.on \in Licences /\ f.held.of = f.on)
        BY DEF Idle, Fields, RowOK
    <2>6. ActorsOK'
        BY <2>1, <2>4, <2>5 DEF ActorsOK
    <2>7. job[w].at = "idle"
        BY <1>2 DEF Start
    <2>8. Linked'
        BY <2>1, <2>4, <2>5, <2>7 DEF Linked, ActorsOK, Idle, sidecarVars
    <2>9. QED
        BY <2>2, <2>3, <2>6, <2>8
<1>3. CASE BuildAndSubmit(w)
    <2> DEFINE l == job[w].on
    <2>1. l \in Licences /\ job[w].held \in Certs \cup {None}
        BY <1>3 DEF BuildAndSubmit, Linked, ActorsOK, Fields
    <2>2. PICK c \in BuiltOr(l, job[w].held) :
              /\ cert' = [cert EXCEPT ![l] = IF job[w].held = None THEN c ELSE @]
              /\ Call(w, c)
              /\ job' = [job EXCEPT ![w] = [at |-> "calling", on |-> l, held |-> c]]
        BY <1>3 DEF BuildAndSubmit
    <2>3. c \in Certs /\ c.of = l
        BY <2>1, BuiltOrType DEF Linked
    <2>4. /\ stage' = [stage EXCEPT ![w] = "sent"] /\ load' = [load EXCEPT ![w] = c]
          /\ UNCHANGED <<receipt, orphans, topic, paid>>
          /\ UNCHANGED <<seq, delivered, given, queued, req, tried, faults>>
        BY <1>3, <2>2 DEF Call, Advance, BuildAndSubmit
    <2>5. SideOK'
        BY <2>3, <2>4 DEF SideOK, SidecarTypeOK
    <2>6. RowOK'
        BY <2>1, <2>2, <2>3, <2>4 DEF RowOK
    <2>7. ActorsOK' /\ Asked'
        BY <2>1, <2>2, <2>3, <2>4 DEF ActorsOK, Fields, Asked
    <2>8. Linked'
        BY <2>1, <2>2, <2>3, <2>4 DEF Linked, SideOK, SidecarTypeOK, ActorsOK
    <2>9. QED
        BY <2>4, <2>5, <2>6, <2>7, <2>8
<1>4. ASSUME Finish(w), UNCHANGED <<orphans, faults>>,
             queued' \in [Licences -> 0 .. MaxQueued + 1],
             seq' \in [Licences -> 0 .. Len(topic)]
      PROVE  Shape' /\ topic' = topic
    BY <1>4, WorkerDone DEF SideOK, RowOK
<1>5. CASE Record(w)
    <2>1. receipt[w] \in 0 .. Len(topic)
        BY DEF SideOK, SidecarTypeOK
    <2>2. QED
        BY <1>4, <1>5, <2>1 DEF Record, RowOK
<1>6. CASE RetryOrFail(w)
    <2>1. job[w].on \in Licences
        BY <1>6 DEF RetryOrFail, Linked
    <2>2. queued' \in [Licences -> 0 .. MaxQueued + 1]
        BY <1>1, <1>6, <2>1 DEF RetryOrFail, RowOK
    <2>3. QED
        BY <1>4, <1>6, <2>2 DEF RetryOrFail, RowOK
<1>7. CASE PayoutTold(w)
    BY <1>4, <1>7 DEF PayoutTold, RowOK
<1>8. CASE Crash(w)
    <2>1. \/ orphans' = orphans
          \/ load[w] \in Certs \cup Payouts /\ Abandon(w)
        BY <1>8 DEF Crash, Linked
    <2>2. queued' \in [Licences -> 0 .. MaxQueued + 1]
        BY <1>1, <1>8 DEF Crash, RowOK
    <2>3. faults' \in 0 .. MaxFaults
        BY <1>8 DEF Crash, Fault, SideOK
    <2>4. Finish(w) /\ seq' = seq
        BY <1>8 DEF Crash
    <2>5. QED
        BY <2>1, <2>2, <2>3, <2>4, WorkerDone DEF SideOK, RowOK
<1>9. ASSUME NEW x \in Payouts, Pay(w, x)
      PROVE  Shape' /\ topic' = topic
    <2>1. /\ stage' = [stage EXCEPT ![w] = "sent"] /\ load' = [load EXCEPT ![w] = x]
          /\ job' = [job EXCEPT ![w] = [at |-> "paying", on |-> x, held |-> None]]
          /\ tried' = tried \cup {x}
          /\ UNCHANGED <<receipt, orphans, topic, paid, row, given, queued, req, faults>>
        BY <1>9 DEF Pay, Call, Advance
    <2>2. SideOK'
        BY <2>1 DEF SideOK, SidecarTypeOK
    <2>3. RowOK' /\ ActorsOK' /\ Asked'
        BY <2>1 DEF RowOK, ActorsOK, Asked, Fields, row
    <2>4. Linked'
        BY <2>1 DEF Linked, SideOK, SidecarTypeOK, ActorsOK
    <2>5. QED
        BY <2>1, <2>2, <2>3, <2>4
<1>10. QED
    BY <1>2, <1>3, <1>5, <1>6, <1>7, <1>8, <1>9

LEMMA ShapeNext == Shape /\ [CertStep]_certVars => Shape'
<1> SUFFICES ASSUME Shape, [CertStep]_certVars
             PROVE  Shape'
    OBVIOUS
<1>1. CASE CertStep
    BY <1>1, ShapeShop, ShapeSidecar, ShapeWorker DEF CertStep
<1>2. CASE UNCHANGED certVars
    BY <1>2 DEF certVars, sidecarVars, row, actors, Shape, SideOK, SidecarTypeOK, RowOK,
        ActorsOK, Linked, Asked
<1>3. QED
    BY <1>1, <1>2

LEMMA ShapeAlways == CertSpec => []Shape
    BY ShapeInit, ShapeNext, PTL DEF CertSpec

\* The rows, the queue, the workers and the sidecar's calls are well typed.
THEOREM CertTypeCorrect == CertSpec => []CertTypeOK
    BY ShapeAlways, ShapeTypes, PTL

-----------------------------------------------------------------------------
(* Anchors.  A number is recorded from the receipt of the job's own call,  *)
(* and what the topic has it keeps.                                        *)

LEMMA AnchorKept ==
    ASSUME Shape, AnchoredAtItsOwn, seq' = seq,
           Len(topic) <= Len(topic'), \A n \in 1 .. Len(topic) : topic'[n] = topic[n],
           Len(topic') \in Nat
    PROVE  AnchoredAtItsOwn'
    BY DEF AnchoredAtItsOwn, Shape, RowOK, SideOK, SidecarTypeOK

LEMMA AnchorNext == Shape /\ AnchoredAtItsOwn /\ [CertStep]_certVars => AnchoredAtItsOwn'
<1> SUFFICES ASSUME Shape, AnchoredAtItsOwn, [CertStep]_certVars
             PROVE  AnchoredAtItsOwn'
    OBVIOUS
<1>1. CASE SidecarStep
    <2>1. Len(topic') \in Nat
        BY <1>1, ShapeSidecar DEF Shape, SideOK, SidecarTypeOK
    <2>2. QED
        BY <1>1, <2>1, ShapeSidecar, AnchorKept DEF SidecarStep, row
<1>2. CASE \E w \in Workers : Record(w)
    <2> PICK w \in Workers : Record(w)
        BY <1>2
    <2>1. topic' = topic
        BY ShapeWorker
    <2>2. job[w].on \in Licences /\ load[w] \in Certs /\ load[w].of = job[w].on
        BY DEF Record, Shape, Linked
    <2>3. topic[receipt[w]] = load[w] /\ receipt[w] <= Len(topic)
        BY <2>2 DEF Record, Shape, Linked, SideOK, SidecarTypeOK
    <2>4. seq' = [seq EXCEPT ![job[w].on] = receipt[w]]
        BY DEF Record
    <2>5. QED
        BY <2>1, <2>2, <2>3, <2>4 DEF AnchoredAtItsOwn, Shape, RowOK
<1>3. CASE seq' = seq /\ topic' = topic
    BY <1>3 DEF AnchoredAtItsOwn
<1>4. CertStep => SidecarStep \/ (\E w \in Workers : Record(w)) \/ (seq' = seq /\ topic' = topic)
    BY ShapeWorker DEF CertStep, Deliver, HandOver, Drop, Present, DeliverBatch, RollForward,
        RetryCertificate, BuildAndSubmit, RetryOrFail, Crash, PayoutTold, Start, Pay, row,
        sidecarVars
<1>5. QED
    BY <1>1, <1>2, <1>3, <1>4 DEF certVars, row, sidecarVars

\* Whatever jobs, repeated submissions and late transactions came first, a
\* licence is anchored at a message of its own.
THEOREM AnchorIsItsOwn == CertSpec => []AnchoredAtItsOwn
<1>1. CertInit => AnchoredAtItsOwn
    BY DEF CertInit, AnchoredAtItsOwn
<1>2. QED
    BY <1>1, AnchorNext, ShapeAlways, PTL DEF CertSpec

-----------------------------------------------------------------------------
(* Payouts.  Each is called for once, so that while its caller waits or    *)
(* has been told, nobody else's transaction can make the answer untrue.    *)

CallsTrue ==
    \A w \in Workers : load[w] \in Payouts =>
        /\ load[w] \in tried
        /\ stage[w] \in {"landed", "ok"} => load[w] \in paid
        /\ stage[w] \in {"sent", "working", "unavailable", "rejected"} =>
            load[w] \notin paid /\ orphans[load[w]] = 0
        /\ \A v \in Workers \ {w} : load[v] # load[w]

UntriedUnpaid == \A x \in Payouts \ tried : x \notin paid /\ orphans[x] = 0

PayInv == CallsTrue /\ UntriedUnpaid

LEMMA PaySidecar ==
    ASSUME Shape, PayInv, SidecarStep
    PROVE  PayInv'
<1> USE CertificateTyping, CertificateNames DEF Shape, SideOK, SidecarTypeOK
<1>1. tried' = tried
    BY DEF SidecarStep, actors
<1>2. ASSUME NEW c \in Workers, Submit(c) \/ Answer(c)
      PROVE  PayInv'
    BY <1>1, <1>2 DEF PayInv, CallsTrue, UntriedUnpaid, Submit, Answer, Advance
<1>3. ASSUME NEW c \in Workers, Land(c)
      PROVE  PayInv'
    <2>1. CASE load[c] \in Payouts
        BY <1>1, <1>3, <2>1 DEF PayInv, CallsTrue, UntriedUnpaid, Land, Advance, Reach
    <2>2. CASE load[c] \notin Payouts
        BY <1>1, <1>3, <2>2 DEF PayInv, CallsTrue, UntriedUnpaid, Land, Advance, Reach
    <2>3. QED
        BY <2>1, <2>2
<1>4. ASSUME NEW c \in Workers, Refuse(c)
      PROVE  PayInv'
    BY <1>1, <1>4 DEF PayInv, CallsTrue, UntriedUnpaid, Refuse, Advance
<1>5. ASSUME NEW c \in Workers, HederaError(c) \/ LoseAnswer(c)
      PROVE  PayInv'
    <2>1. UNCHANGED <<load, paid>>
        BY <1>5 DEF HederaError, LoseAnswer
    <2>2. load[c] \in Certs \cup Payouts
        BY <1>5 DEF HederaError, LoseAnswer, Linked
    <2>3. PICK e \in {"ambiguous", "rejected", "unavailable"} :
              stage' = [stage EXCEPT ![c] = e] /\ (load[c] \in Payouts => e = "ambiguous")
        BY <1>5 DEF HederaError, LoseAnswer, Advance
    <2>4. \A m \in Certs \cup Payouts : m # load[c] => orphans'[m] = orphans[m]
        BY <1>5, <2>2 DEF HederaError, LoseAnswer, Abandon
    <2>5. CallsTrue'
        BY <2>1, <2>2, <2>3, <2>4, <1>1 DEF PayInv, CallsTrue
    <2>6. UntriedUnpaid'
        BY <2>1, <2>2, <2>3, <2>4, <1>1 DEF PayInv, CallsTrue, UntriedUnpaid
    <2>7. QED
        BY <2>5, <2>6 DEF PayInv
<1>6. ASSUME NEW m \in DOMAIN orphans, LandOrphan(m)
      PROVE  PayInv'
    <2>1. \A x \in Payouts : orphans[x] = 0 => orphans'[x] = 0 /\ (x \notin paid => x \notin paid')
        BY <1>6 DEF LandOrphan, Reach
    <2>2. paid \subseteq paid' /\ UNCHANGED <<stage, load>>
        BY <1>6 DEF LandOrphan, Reach
    <2>3. QED
        BY <1>1, <2>1, <2>2 DEF PayInv, CallsTrue, UntriedUnpaid
<1>7. QED
    BY <1>2, <1>3, <1>4, <1>5, <1>6 DEF SidecarStep, Handle, Fail

LEMMA PayWorker ==
    ASSUME Shape, PayInv, NEW w \in Workers,
           \/ BuildAndSubmit(w) \/ Record(w) \/ RetryOrFail(w) \/ Crash(w) \/ PayoutTold(w)
           \/ \E x \in Payouts : Pay(w, x)
    PROVE  PayInv'
<1> USE CertificateTyping, CertificateNames DEF Shape, SideOK, SidecarTypeOK
<1>1. CASE BuildAndSubmit(w)
    <2>1. job[w].on \in Licences /\ job[w].held \in Certs \cup {None}
        BY <1>1 DEF BuildAndSubmit, Linked, ActorsOK, Fields
    <2>2. PICK c \in Certs : Call(w, c)
        <3>1. job[w].held # None => job[w].held.of = job[w].on
            BY <1>1 DEF Linked
        <3>2. PICK c \in BuiltOr(job[w].on, job[w].held) : Call(w, c)
            BY ONLY <1>1 DEF BuildAndSubmit
        <3>3. QED
            BY ONLY <2>1, <3>1, <3>2, BuiltOrType
    <2>3. tried' = tried
        BY <1>1 DEF BuildAndSubmit
    <2>4. QED
        BY <2>2, <2>3 DEF Call, Advance, PayInv, CallsTrue, UntriedUnpaid
<1>2. CASE \E x \in Payouts : Pay(w, x)
    <2> PICK x \in Payouts : Pay(w, x)
        BY <1>2
    <2>1. x \notin tried /\ tried' = tried \cup {x}
        BY DEF Pay
    <2>2. x \notin paid /\ orphans[x] = 0 /\ \A v \in Workers : load[v] # x
        BY <2>1 DEF PayInv, CallsTrue, UntriedUnpaid
    <2>3. /\ stage' = [stage EXCEPT ![w] = "sent"] /\ load' = [load EXCEPT ![w] = x]
          /\ UNCHANGED <<orphans, paid>>
        BY DEF Pay, Call, Advance
    <2>4. CallsTrue'
        BY <2>1, <2>2, <2>3 DEF PayInv, CallsTrue
    <2>5. UntriedUnpaid'
        BY <2>1, <2>3 DEF PayInv, UntriedUnpaid
    <2>6. QED
        BY <2>4, <2>5 DEF PayInv
<1>3. CASE Record(w) \/ RetryOrFail(w) \/ Crash(w) \/ PayoutTold(w)
    <2>1. Finish(w)
        BY <1>3 DEF Record, RetryOrFail, Crash, PayoutTold
    <2>2. \/ orphans' = orphans
          \/ load[w] \in Certs \cup Payouts /\ Abandon(w)
        BY <1>3 DEF Record, RetryOrFail, Crash, PayoutTold, Linked
    <2>3. \A m \in Certs \cup Payouts : m # load[w] => orphans'[m] = orphans[m]
        BY <2>2 DEF Abandon
    <2>4. /\ stage' = [stage EXCEPT ![w] = "idle"] /\ load' = [load EXCEPT ![w] = None]
          /\ paid' = paid /\ tried' = tried
        BY <2>1 DEF Finish, Hang, Advance
    <2>5. CallsTrue'
        BY <2>3, <2>4 DEF PayInv, CallsTrue
    <2>6. UntriedUnpaid'
        <3>1. load[w] \in Payouts => load[w] \in tried
            BY DEF PayInv, CallsTrue
        <3>2. QED
            BY <2>3, <2>4, <3>1 DEF PayInv, UntriedUnpaid
    <2>7. QED
        BY <2>5, <2>6 DEF PayInv
<1>4. QED
    BY <1>1, <1>2, <1>3

LEMMA PayNext == Shape /\ PayInv /\ [CertStep]_certVars => PayInv'
<1> SUFFICES ASSUME Shape, PayInv, [CertStep]_certVars
             PROVE  PayInv'
    OBVIOUS
<1>1. CASE UNCHANGED <<sidecarVars, tried>>
    BY <1>1 DEF PayInv, CallsTrue, UntriedUnpaid, sidecarVars
<1>2. CASE CertStep
    BY <1>1, <1>2, PaySidecar, PayWorker
       DEF CertStep, Deliver, HandOver, Drop, Present, DeliverBatch, RollForward,
           RetryCertificate, Start
<1>3. QED
    BY <1>1, <1>2 DEF certVars, actors

\* The sidecar's answers about a payout are true for as long as it is waited for.
THEOREM PayoutAnswersStayTrue == CertSpec => []PayoutAnswersTrue
<1>1. CertInit => PayInv
    BY CertificateTyping, CertificateNames DEF CertInit, SidecarInit, PayInv, CallsTrue, UntriedUnpaid
<1>2. PayInv => PayoutAnswersTrue
    BY DEF PayInv, CallsTrue, PayoutAnswersTrue
<1>3. QED
    BY <1>1, <1>2, PayNext, ShapeAlways, PTL DEF CertSpec

-----------------------------------------------------------------------------
(* What was given.  A licence sold in a cart has its certificate before    *)
(* any job can know of it, and one of an earlier release has it already:   *)
(* whoever loads such a licence finds the certificate and keeps it.        *)

Settled(l) ==
    /\ cert[l] # None /\ given[l] = {cert[l]}
    /\ seq[l] # 0 => topic[seq[l]] = cert[l]
    /\ \A w \in Workers : job[w].on = l =>
        /\ job[w].at = "building" => job[w].held = cert[l]
        /\ job[w].at = "calling" => load[w] = cert[l]
    /\ \A r \in Requests : req[r].at # "idle" /\ req[r].on = l => req[r].held = cert[l]

Unknown(l) ==
    /\ queued[l] = 0 /\ seq[l] = 0
    /\ \A w \in Workers : job[w].at \notin {"idle", "paying"} => job[w].on # l

GivenInv ==
    /\ \A l \in Batched \cup Legacy :
        /\ given[l] # {} => Settled(l)
        /\ l \notin delivered => given[l] = {} /\ Unknown(l)
    /\ \A l \in Legacy : given[l] # {}
    /\ \A r \in Requests : req[r].at # "idle" => req[r].on \notin Batched
    /\ \A w \in Workers : job[w].at = "paying" => job[w].on \in Payouts

LEMMA GivenKept ==
    ASSUME GivenInv, delivered \subseteq delivered', given' = given,
           \A l \in Batched \cup Legacy :
               /\ Settled(l) => Settled(l)'
               /\ l \notin delivered' /\ Unknown(l) => Unknown(l)',
           \A r \in Requests : req'[r].at # "idle" => req'[r].on \notin Batched,
           \A w \in Workers : job'[w].at = "paying" => job'[w].on \in Payouts
    PROVE  GivenInv'
    BY DEF GivenInv

LEMMA GivenShop ==
    ASSUME Shape, GivenInv,
           \/ \E r \in Requests : Deliver(r) \/ HandOver(r) \/ Drop(r)
           \/ \E r \in Requests, l \in Licences : Present(r, l)
           \/ \E l \in Licences : DeliverBatch(l) \/ RollForward(l) \/ RetryCertificate(l)
    PROVE  GivenInv'
<1> USE CertificateTyping, CertificateNames DEF Shape
<1>1. UNCHANGED <<sidecarVars, seq, job>>
    BY DEF Deliver, HandOver, Drop, Present, DeliverBatch, RollForward, RetryCertificate, row
<1>2. topic' = topic /\ load' = load /\ job' = job /\ seq' = seq
    BY <1>1 DEF sidecarVars
<1>3. CASE \E r \in Requests : Deliver(r)
    <2> PICK r \in Requests : Deliver(r)
        BY <1>3
    <2>1. /\ delivered' = delivered \cup {req[r].on}
          /\ \A l \in Licences \ {req[r].on} : queued'[l] = queued[l]
          /\ UNCHANGED <<cert, given>>
        BY DEF Deliver, Enqueue, RowOK
    <2>2. \A q \in Requests :
              /\ req'[q].on = req[q].on /\ req'[q].held = req[q].held
              /\ req'[q].at # "idle" => req[q].at # "idle"
        BY DEF Deliver, ActorsOK, Fields
    <2>3. ASSUME NEW l \in Batched \cup Legacy, Settled(l)
          PROVE  Settled(l)'
        BY <1>2, <2>1, <2>2, <2>3 DEF Settled
    <2>4. ASSUME NEW l \in Batched \cup Legacy, l \notin delivered', Unknown(l)
          PROVE  Unknown(l)'
        BY <1>2, <2>1, <2>4 DEF Unknown
    <2>5. \A q \in Requests : req'[q].at # "idle" => req'[q].on \notin Batched
        BY <2>2 DEF GivenInv
    <2>6. \A v \in Workers : job'[v].at = "paying" => job'[v].on \in Payouts
        BY <1>2 DEF GivenInv
    <2>7. QED
        BY <2>1, <2>3, <2>4, <2>5, <2>6, GivenKept
<1>4. CASE \E r \in Requests : HandOver(r)
    <2> PICK r \in Requests : HandOver(r)
        BY <1>4
    <2> DEFINE k == req[r].on
    <2>1. k \in Licences /\ k \notin Batched /\ req[r].at = "building"
        BY DEF HandOver, Asked, GivenInv
    <2>2. PICK c \in BuiltOr(k, req[r].held) :
              /\ cert' = [cert EXCEPT ![k] = IF req[r].held = None THEN c ELSE @]
              /\ given' = [given EXCEPT ![k] = @ \cup {c}]
        BY DEF HandOver
    <2>3. k \in Legacy => c = cert[k] /\ req[r].held # None /\ given[k] = {cert[k]}
        BY <2>1, <2>2 DEF BuiltOr, GivenInv, Settled
    <2>4. \A l \in Batched \cup Legacy : cert'[l] = cert[l] /\ given'[l] = given[l]
        BY <2>1, <2>2, <2>3 DEF RowOK
    <2>5. delivered' = delivered /\ queued' = queued
        BY DEF HandOver
    <2>6. \A q \in Requests : req'[q].at # "idle" => req'[q] = req[q]
        BY DEF HandOver, ActorsOK, Idle
    <2>7. QED
        BY <1>2, <2>4, <2>5, <2>6 DEF GivenInv, Settled, Unknown
<1>5. CASE \E r \in Requests : Drop(r)
    <2>1. UNCHANGED <<row, given, queued>>
          /\ \A q \in Requests : req'[q].at # "idle" => req'[q] = req[q]
        BY <1>5 DEF Drop, ActorsOK, Idle
    <2>2. QED
        BY <1>2, <2>1 DEF GivenInv, Settled, Unknown, row
<1>6. CASE \E r \in Requests, l \in Licences : Present(r, l)
    <2> PICK r \in Requests, k \in Licences : Present(r, k)
        BY <1>6
    <2>1. /\ UNCHANGED <<row, given, queued>> /\ k \notin Batched
          /\ req'[r].on = k /\ req'[r].held = cert[k]
          /\ \A q \in Requests \ {r} : req'[q] = req[q]
        BY DEF Present, ActorsOK
    <2>2. ASSUME NEW l \in Batched \cup Legacy
          PROVE  /\ (given[l] # {} => Settled(l)')
                 /\ (l \notin delivered => Unknown(l)')
        BY <1>2, <2>1, <2>2 DEF GivenInv, Settled, Unknown, row
    <2>3. \A q \in Requests : req'[q].at # "idle" => req'[q].on \notin Batched
        BY <2>1 DEF GivenInv
    <2>4. QED
        BY <1>2, <2>1, <2>2, <2>3 DEF GivenInv, row
<1>7. CASE \E l \in Licences : DeliverBatch(l)
    <2> PICK k \in Licences : DeliverBatch(k)
        BY <1>7
    <2>1. PICK c \in Build(k) : /\ cert' = [cert EXCEPT ![k] = c]
                                /\ given' = [given EXCEPT ![k] = {c}]
        BY DEF DeliverBatch
    <2>2. c \in Certs /\ c # None
        BY DEF Build, Certs
    <2>3. /\ k \in Batched /\ k \notin delivered /\ delivered' = delivered \cup {k}
          /\ req' = req /\ \A l \in Licences \ {k} : queued'[l] = queued[l]
        BY DEF DeliverBatch, Enqueue, RowOK
    <2>4. Unknown(k)
        BY <2>3 DEF GivenInv
    <2>5. Settled(k)'
        BY <1>2, <2>1, <2>2, <2>3, <2>4 DEF GivenInv, Settled, Unknown, RowOK
    <2>6. \A l \in Licences \ {k} : cert'[l] = cert[l] /\ given'[l] = given[l]
        BY <2>1 DEF RowOK
    <2>7. ASSUME NEW l \in Batched \cup Legacy, l # k
          PROVE  /\ (given[l] # {} => Settled(l)')
                 /\ (l \notin delivered => given'[l] = {} /\ Unknown(l)')
        BY <1>2, <2>3, <2>6, <2>7 DEF GivenInv, Settled, Unknown
    <2>8. \A l \in Legacy : given'[l] # {}
        BY <2>3, <2>6 DEF GivenInv
    <2>9. QED
        BY <1>2, <2>3, <2>5, <2>6, <2>7, <2>8 DEF GivenInv
<1>8. CASE \E l \in Licences : RollForward(l) \/ RetryCertificate(l)
    <2> PICK k \in Licences : RollForward(k) \/ RetryCertificate(k)
        BY <1>8
    <2>1. /\ delivered' = delivered \cup {k} /\ UNCHANGED <<cert, given, req>>
          /\ \A l \in Licences \ {k} : queued'[l] = queued[l]
        BY DEF RollForward, RetryCertificate, Enqueue, RowOK, row
    <2>2. ASSUME NEW l \in Batched \cup Legacy
          PROVE  /\ Settled(l) => Settled(l)'
                 /\ l \notin delivered' /\ Unknown(l) => Unknown(l)'
        BY <1>2, <2>1 DEF Settled, Unknown
    <2>3. QED
        BY <1>2, <2>1, <2>2, GivenKept DEF GivenInv
<1>9. QED
    BY <1>3, <1>4, <1>5, <1>6, <1>7, <1>8

LEMMA GivenSidecar ==
    ASSUME Shape, GivenInv, SidecarStep
    PROVE  GivenInv'
<1> USE CertificateTyping, CertificateNames DEF Shape
<1>1. UNCHANGED <<load, cert, seq, delivered, given, queued, req, job>>
    BY DEF SidecarStep, row, actors, Handle, Submit, Land, Answer, Fail, Refuse, HederaError,
        LoseAnswer, LandOrphan
<1>2. ASSUME NEW l \in Licences, seq[l] # 0
      PROVE  topic'[seq[l]] = topic[seq[l]]
    <2>1. Len(topic) \in Nat
        BY DEF SideOK, SidecarTypeOK
    <2>2. seq[l] \in 1 .. Len(topic)
        BY <1>2, <2>1 DEF RowOK
    <2>3. QED
        BY <2>2, ShapeSidecar
<1>3. ASSUME NEW l \in Batched \cup Legacy
      PROVE  (Settled(l) => Settled(l)') /\ (Unknown(l) => Unknown(l)')
    BY <1>1, <1>2 DEF Settled, Unknown
<1>4. QED
    BY <1>1, <1>3, GivenKept DEF GivenInv

LEMMA GivenDone ==
    ASSUME Shape, GivenInv, NEW w \in Workers,
           Record(w) \/ RetryOrFail(w) \/ Crash(w) \/ PayoutTold(w)
    PROVE  GivenInv'
<1> USE CertificateTyping, CertificateNames DEF Shape
<1> DEFINE k == job[w].on
<1>1. Finish(w)
    BY DEF Record, RetryOrFail, Crash, PayoutTold
<1>2. /\ job' = [job EXCEPT ![w] = Idle] /\ load' = [load EXCEPT ![w] = None]
      /\ topic' = topic /\ UNCHANGED <<cert, delivered, given, req>>
    BY <1>1 DEF Finish, Hang
<1>3. /\ \A v \in Workers \ {w} : job'[v] = job[v] /\ load'[v] = load[v]
      /\ job'[w].at = "idle" /\ job'[w].on = None
    BY <1>2 DEF ActorsOK, Idle, SideOK, SidecarTypeOK
<1>4. \/ queued' = queued
      \/ /\ k \in Licences /\ \A l \in Licences \ {k} : queued'[l] = queued[l]
         /\ job[w].at \notin {"idle", "paying"}
    <2>1. queued \in [Licences -> 0 .. MaxQueued + 1]
        BY DEF RowOK
    <2>2. CASE Record(w) \/ PayoutTold(w)
        BY <2>2 DEF Record, PayoutTold
    <2>3. CASE RetryOrFail(w)
        BY <2>1, <2>3 DEF RetryOrFail, Enqueue, Linked
    <2>4. CASE Crash(w)
        BY <2>1, <2>4 DEF Crash, Enqueue, GivenInv
    <2>5. QED
        BY <2>2, <2>3, <2>4
<1>5. \/ seq' = seq
      \/ /\ k \in Licences /\ job[w].at = "calling" /\ topic[receipt[w]] = load[w]
         /\ seq' = [seq EXCEPT ![k] = receipt[w]]
    BY DEF Record, RetryOrFail, Crash, PayoutTold, Linked, SideOK, SidecarTypeOK
<1>6. ASSUME NEW l \in Batched \cup Legacy, Settled(l)
      PROVE  Settled(l)'
    <2>1. seq'[l] # 0 => topic[seq'[l]] = cert[l]
        BY <1>5, <1>6 DEF Settled, RowOK
    <2>2. QED
        BY <1>2, <1>3, <1>6, <2>1 DEF Settled
<1>7. ASSUME NEW l \in Batched \cup Legacy, Unknown(l)
      PROVE  Unknown(l)'
    <2>1. queued'[l] = 0 /\ seq'[l] = 0
        BY <1>4, <1>5, <1>7 DEF Unknown, RowOK
    <2>2. QED
        BY <1>3, <1>7, <2>1 DEF Unknown
<1>8. QED
    BY <1>2, <1>3, <1>6, <1>7, GivenKept DEF GivenInv

LEMMA GivenWork ==
    ASSUME Shape, GivenInv, NEW w \in Workers,
           \/ BuildAndSubmit(w) \/ \E l \in Licences : Start(w, l)
           \/ \E x \in Payouts : Pay(w, x)
    PROVE  GivenInv'
<1> USE CertificateTyping, CertificateNames DEF Shape
<1>1. UNCHANGED <<topic, seq, delivered, given, req>>
    BY DEF BuildAndSubmit, Start, Pay, Call, row, sidecarVars
<1>2. CASE BuildAndSubmit(w)
    <2> DEFINE k == job[w].on
    <2>1. job[w].at = "building" /\ k \in Licences
        BY <1>2 DEF BuildAndSubmit, Linked
    <2>2. PICK c \in BuiltOr(k, job[w].held) :
              /\ cert' = [cert EXCEPT ![k] = IF job[w].held = None THEN c ELSE @]
              /\ Call(w, c)
              /\ job' = [job EXCEPT ![w] = [at |-> "calling", on |-> k, held |-> c]]
        BY <1>2 DEF BuildAndSubmit
    <2>3. queued' = queued
        BY <1>2 DEF BuildAndSubmit
    <2>4. /\ \A v \in Workers \ {w} : job'[v] = job[v] /\ load'[v] = load[v]
          /\ job'[w].at = "calling" /\ job'[w].on = k /\ load'[w] = c
        BY <2>2 DEF Call, ActorsOK, SideOK, SidecarTypeOK
    <2>5. ASSUME NEW l \in Batched \cup Legacy, Settled(l)
          PROVE  Settled(l)'
        <3>1. k = l => c = cert[l]
            BY <2>1, <2>2, <2>5 DEF Settled, BuiltOr
        <3>2. cert'[l] = cert[l]
            BY <2>1, <2>2, <3>1 DEF RowOK
        <3>3. QED
            BY <1>1, <2>4, <2>5, <3>1, <3>2 DEF Settled
    <2>6. ASSUME NEW l \in Batched \cup Legacy, Unknown(l)
          PROVE  Unknown(l)'
        BY <1>1, <2>1, <2>3, <2>4, <2>6 DEF Unknown
    <2>7. QED
        BY <1>1, <2>4, <2>5, <2>6, GivenKept DEF GivenInv
<1>3. CASE \E l \in Licences : Start(w, l)
    <2> PICK k \in Licences : Start(w, k)
        BY <1>3
    <2>1. /\ queued[k] > 0 /\ UNCHANGED <<load, cert>>
          /\ queued' = [queued EXCEPT ![k] = @ - 1]
          /\ job' = [job EXCEPT ![w] =
                IF seq[k] # 0 THEN Idle ELSE [at |-> "building", on |-> k, held |-> cert[k]]]
        BY DEF Start, row, sidecarVars
    <2>2. /\ \A v \in Workers \ {w} : job'[v] = job[v]
          /\ \/ job'[w].at = "idle" /\ job'[w].on = None
             \/ job'[w].at = "building" /\ job'[w].on = k /\ job'[w].held = cert[k]
        BY <2>1 DEF ActorsOK, Idle
    <2>3. ASSUME NEW l \in Batched \cup Legacy, Settled(l)
          PROVE  Settled(l)'
        BY <1>1, <2>1, <2>2, <2>3 DEF Settled
    <2>4. ASSUME NEW l \in Batched \cup Legacy, Unknown(l)
          PROVE  Unknown(l)'
        <3>1. l # k
            BY <2>1, <2>4 DEF Unknown
        <3>2. queued'[l] = 0
            BY <2>1, <2>4, <3>1 DEF Unknown, RowOK
        <3>3. QED
            BY <1>1, <2>2, <2>4, <3>1, <3>2 DEF Unknown
    <2>5. QED
        BY <1>1, <2>2, <2>3, <2>4, GivenKept DEF GivenInv
<1>4. CASE \E x \in Payouts : Pay(w, x)
    <2> PICK x \in Payouts : Pay(w, x)
        BY <1>4
    <2>1. /\ UNCHANGED <<cert, queued>> /\ load' = [load EXCEPT ![w] = x]
          /\ job' = [job EXCEPT ![w] = [at |-> "paying", on |-> x, held |-> None]]
        BY DEF Pay, Call, row
    <2>2. /\ \A v \in Workers \ {w} : job'[v] = job[v] /\ load'[v] = load[v]
          /\ job'[w].at = "paying" /\ job'[w].on = x
        BY <2>1 DEF ActorsOK, SideOK, SidecarTypeOK
    <2>3. ASSUME NEW l \in Batched \cup Legacy
          PROVE  (Settled(l) => Settled(l)') /\ (Unknown(l) => Unknown(l)')
        BY <1>1, <2>1, <2>2 DEF Settled, Unknown
    <2>4. QED
        BY <1>1, <2>2, <2>3, GivenKept DEF GivenInv
<1>5. QED
    BY <1>2, <1>3, <1>4

LEMMA GivenNext == Shape /\ GivenInv /\ [CertStep]_certVars => GivenInv'
<1> SUFFICES ASSUME Shape, GivenInv, [CertStep]_certVars
             PROVE  GivenInv'
    OBVIOUS
<1>1. CASE UNCHANGED certVars
    BY <1>1 DEF GivenInv, Settled, Unknown, certVars, row, actors, sidecarVars
<1>2. CASE CertStep
    BY <1>2, GivenShop, GivenSidecar, GivenDone, GivenWork DEF CertStep
<1>3. QED
    BY <1>1, <1>2

LEMMA GivenInit == CertInit => GivenInv
<1> SUFFICES ASSUME CertInit PROVE GivenInv
    OBVIOUS
<1>1. ASSUME NEW l \in Legacy
      PROVE  given[l] = {cert[l]} /\ cert[l] # None
    BY <1>1, CertificateTyping, CertificateNames, OldCertType DEF CertInit
<1>2. QED
    BY <1>1, CertificateTyping, CertificateNames DEF CertInit, GivenInv, Settled, Unknown, Idle

\* A cart licence, and one delivered by an earlier release, is anchored at the
\* commitment of the certificate its buyer was given.
THEOREM BatchGivenStaysAnchored == CertSpec => []BatchGivenIsAnchored
<1>1. GivenInv => BatchGivenIsAnchored
    BY DEF GivenInv, Settled, BatchGivenIsAnchored, GivenIsAnchored
<1>2. QED
    BY <1>1, GivenInit, GivenNext, ShapeAlways, PTL DEF CertSpec

=============================================================================
