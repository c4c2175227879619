---------------------------- MODULE Certificates ----------------------------
(***************************************************************************)
(* Licence certificates: who builds them, and CertMintJob, which publishes *)
(* a commitment to each on the topic.                                      *)
(*                                                                         *)
(* A certificate stands for its commitment as well: the hash of the        *)
(* certificate and its salt.                                               *)
(***************************************************************************)
EXTENDS Sidecar

CONSTANTS
    Licences,
    Legacy,         \* delivered with a certificate by a release that issued v1
    Batched,        \* sold in a cart
    Aged,           \* left in flight so long that the Reaper finds them
    Requests,       \* downloads#create, answering a delivered licence
    Moments,        \* bound: what can differ between two builds of a certificate:
                    \* the time, the file and the terms as they stand
    MaxQueued,      \* bound: mint jobs queued for one licence
    MaxFaults       \* bound: calls that fail and workers that die

Certs == [of : Licences, at : Moments, v : {1, 2}]

ASSUME CertificateTyping ==
    /\ Legacy \subseteq Licences /\ Batched \subseteq Licences
    /\ Aged \subseteq Licences \ Legacy
    /\ Moments # {} /\ MaxQueued \in Nat /\ MaxFaults \in Nat

ASSUME CertificateNames ==
    /\ Payouts \cap Certs = {} /\ Payouts \cap Licences = {}
    /\ None \notin Licences \cup Payouts \cup Certs

VARIABLES
    cert,       \* licenses.cert_json, with its salt
    seq,        \* licenses.hcs_sequence_number, 0 while minting
    delivered,  \* licences whose purchase is delivered
    given,      \* certificates handed to the buyers in their bundles
    queued,     \* mint jobs in the queue
    req,        \* requests: the licence as they loaded it
    job,        \* workers: the licence as they loaded it, or a transfer
    tried,      \* transfers that were called for, each once
    faults

row      == <<cert, seq, delivered>>
actors   == <<given, queued, req, job, tried>>
certVars == <<sidecarVars, row, actors, faults>>

Fields == [at : {"idle", "delivering", "building", "calling", "paying"},
           on : Licences \cup Payouts \cup {None}, held : Certs \cup {None}]

Idle == [at |-> "idle", on |-> None, held |-> None]

CertTypeOK ==
    /\ SidecarTypeOK(Certs)
    /\ cert \in [Licences -> Certs \cup {None}]
    /\ \A l \in Licences : cert[l] # None => cert[l].of = l
    /\ seq \in [Licences -> 0 .. Len(topic)]
    /\ delivered \subseteq Licences
    /\ given \in [Licences -> SUBSET Certs]
    /\ queued \in [Licences -> 0 .. MaxQueued + 1]
    /\ req \in [Requests -> Fields]
    /\ job \in [Workers -> Fields]
    /\ tried \subseteq Payouts
    /\ faults \in 0 .. MaxFaults

OldCert(l) == [of |-> l, at |-> CHOOSE t \in Moments : TRUE, v |-> 1]

CertInit ==
    /\ SidecarInit(Certs)
    /\ cert = [l \in Licences |-> IF l \in Legacy THEN OldCert(l) ELSE None]
    /\ seq = [l \in Licences |-> 0]
    /\ delivered = Legacy
    /\ given = [l \in Licences |-> IF l \in Legacy THEN {OldCert(l)} ELSE {}]
    /\ queued = [l \in Licences |-> IF l \in Legacy THEN 1 ELSE 0]
    /\ req = [r \in Requests |-> Idle]
    /\ job = [w \in Workers |-> Idle]
    /\ tried = {}
    /\ faults = 0

-----------------------------------------------------------------------------
\* Certificates::Builder: personal and commercial alike are version 2.
Build(l) == {[of |-> l, at |-> t, v |-> 2] : t \in Moments}

\* The certificate of a licence as loaded, built if that has none.
BuiltOr(l, held) == IF held = None THEN Build(l) ELSE {held}

Enqueue(l) ==
    /\ queued[l] < MaxQueued
    /\ queued' = [queued EXCEPT ![l] = @ + 1]

\* The licence is loaded or allocated.
Present(r, l) ==
    /\ req[r].at = "idle" /\ l \notin Batched
    /\ req' = [req EXCEPT ![r] =
        [at |-> IF l \in delivered THEN "building" ELSE "delivering",
         on |-> l, held |-> cert[l]]]
    /\ UNCHANGED <<sidecarVars, row, given, queued, job, tried, faults>>

\* deliver, up to its payload: delivered, and the job enqueued
Deliver(r) ==
    /\ req[r].at = "delivering"
    /\ delivered' = delivered \cup {req[r].on}
    /\ Enqueue(req[r].on)
    /\ req' = [req EXCEPT ![r].at = "building"]
    /\ UNCHANGED <<sidecarVars, cert, seq, given, job, tried, faults>>

\* delivery_payload: the certificate is built if the record in memory has none.
HandOver(r) ==
    /\ req[r].at = "building"
    /\ \E c \in BuiltOr(req[r].on, req[r].held) :
        /\ cert' = [cert EXCEPT ![req[r].on] = IF req[r].held = None THEN c ELSE @]
        /\ given' = [given EXCEPT ![req[r].on] = @ \cup {c}]
    /\ req' = [req EXCEPT ![r] = Idle]
    /\ UNCHANGED <<sidecarVars, seq, delivered, queued, job, tried, faults>>

Drop(r) ==
    /\ req[r].at # "idle"
    /\ req' = [req EXCEPT ![r] = Idle]
    /\ UNCHANGED <<sidecarVars, row, given, queued, job, tried, faults>>

\* As a bug would have it: the job is enqueued first, and the certificate built
\* with the payload, as a single delivery does.
DeliverBatchUnbuilt(l) ==
    /\ l \in Batched
    /\ \/ l \notin delivered /\ Enqueue(l) /\ UNCHANGED <<cert, given>>
       \/ /\ l \in delivered /\ UNCHANGED queued
          /\ \E c \in Build(l) :
                /\ cert' = [cert EXCEPT ![l] = c]
                /\ given' = [given EXCEPT ![l] = @ \cup {c}]
    /\ delivered' = delivered \cup {l}
    /\ UNCHANGED <<sidecarVars, seq, req, job, tried, faults>>

\* batches#deliver: certificates are written in the transaction that delivers;
\* the jobs are enqueued after it, unless the process dies.
DeliverBatch(l) ==
    /\ l \in Batched \ delivered
    /\ \E c \in Build(l) :
        /\ cert' = [cert EXCEPT ![l] = c]
        /\ given' = [given EXCEPT ![l] = {c}]
    /\ delivered' = delivered \cup {l}
    /\ Enqueue(l) \/ UNCHANGED queued
    /\ UNCHANGED <<sidecarVars, seq, req, job, tried, faults>>

\* Reaper.roll_forward builds no certificate.
RollForward(l) ==
    /\ l \in Aged \ delivered
    /\ delivered' = delivered \cup {l}
    /\ Enqueue(l)
    /\ UNCHANGED <<sidecarVars, cert, seq, given, req, job, tried, faults>>

\* As a bug would have it: only a licence without a certificate can be retried.
RetryCertificateUnbuilt(l) ==
    /\ l \in delivered /\ cert[l] = None
    /\ Enqueue(l)
    /\ UNCHANGED <<sidecarVars, row, given, req, job, tried, faults>>

\* The admin panel
RetryCertificate(l) ==
    /\ l \in delivered /\ seq[l] = 0
    /\ Enqueue(l)
    /\ UNCHANGED <<sidecarVars, row, given, req, job, tried, faults>>

-----------------------------------------------------------------------------
(* CertMintJob                                                             *)

Fault == faults < MaxFaults /\ faults' = faults + 1

\* A job of an anchored licence only announces it.
Start(w, l) ==
    /\ job[w].at = "idle" /\ queued[l] > 0
    /\ queued' = [queued EXCEPT ![l] = @ - 1]
    /\ job' = [job EXCEPT ![w] =
        IF seq[l] # 0 THEN Idle ELSE [at |-> "building", on |-> l, held |-> cert[l]]]
    /\ UNCHANGED <<sidecarVars, row, given, req, tried, faults>>

\* The certificate is built if the record in memory has none, and its
\* commitment submitted.
BuildAndSubmit(w) ==
    LET l == job[w].on IN
    /\ job[w].at = "building"
    /\ \E c \in BuiltOr(l, job[w].held) :
        /\ cert' = [cert EXCEPT ![l] = IF job[w].held = None THEN c ELSE @]
        /\ Call(w, c)
        /\ job' = [job EXCEPT ![w] = [at |-> "calling", on |-> l, held |-> c]]
    /\ UNCHANGED <<seq, delivered, given, queued, req, tried, faults>>

Finish(w) ==
    /\ Hang(w)
    /\ job' = [job EXCEPT ![w] = Idle]
    /\ UNCHANGED <<topic, paid, cert, delivered, given, req, tried>>

\* As a bug would have it: the last number of the topic is taken for the own.
RecordLast(w) ==
    /\ job[w].at = "calling" /\ stage[w] = "ok"
    /\ seq' = [seq EXCEPT ![job[w].on] = Len(topic)]
    /\ Finish(w)
    /\ UNCHANGED <<queued, orphans, faults>>

Record(w) ==
    /\ job[w].at = "calling" /\ stage[w] = "ok"
    /\ seq' = [seq EXCEPT ![job[w].on] = receipt[w]]
    /\ Finish(w)
    /\ UNCHANGED <<queued, orphans, faults>>

\* retry_on Unavailable, up to its tenth attempt; any other error ends the job.
RetryOrFail(w) ==
    /\ job[w].at = "calling"
    /\ \/ stage[w] = "unavailable" /\ Enqueue(job[w].on)
       \/ stage[w] \in {"unavailable", "rejected"} /\ UNCHANGED queued
    /\ Finish(w)
    /\ UNCHANGED <<seq, orphans, faults>>

\* The worker's process dies; what it had sent goes on, and the job is lost or
\* handed to another worker.
Crash(w) ==
    /\ job[w].at # "idle"
    /\ Fault
    /\ IF stage[w] \in {"sent", "working"} THEN Abandon(w) ELSE UNCHANGED orphans
    /\ \/ UNCHANGED queued
       \/ job[w].on \in Licences /\ Enqueue(job[w].on)
    /\ Finish(w)
    /\ UNCHANGED seq

-----------------------------------------------------------------------------
\* PayoutRunner, as far as the sidecar sees it: it believes what it is told.
Pay(w, x) ==
    /\ job[w].at = "idle" /\ x \notin tried
    /\ tried' = tried \cup {x}
    /\ Call(w, x)
    /\ job' = [job EXCEPT ![w] = [at |-> "paying", on |-> x, held |-> None]]
    /\ UNCHANGED <<row, given, queued, req, faults>>

PayoutTold(w) ==
    /\ job[w].at = "paying" /\ stage[w] \in Ends
    /\ Finish(w)
    /\ UNCHANGED <<seq, queued, orphans, faults>>

SidecarStep ==
    /\ \/ \E c \in Workers : Handle(c) /\ UNCHANGED faults
       \/ \E c \in Workers : Fail(c) /\ Fault
       \/ \E m \in DOMAIN orphans : LandOrphan(m) /\ UNCHANGED faults
    /\ UNCHANGED <<row, actors>>

CertStep ==
    \/ \E r \in Requests :
        \/ Deliver(r) \/ HandOver(r) \/ Drop(r)
        \/ \E l \in Licences : Present(r, l)
    \/ \E l \in Licences : DeliverBatch(l) \/ RollForward(l) \/ RetryCertificate(l)
    \/ \E w \in Workers :
        \/ BuildAndSubmit(w) \/ Record(w) \/ RetryOrFail(w) \/ Crash(w)
        \/ PayoutTold(w)
        \/ \E l \in Licences : Start(w, l)
        \/ \E x \in Payouts : Pay(w, x)
    \/ SidecarStep

CertSpec == CertInit /\ [][CertStep]_certVars

\* Workers and sidecar go on, and somebody retries what the admin panel shows as
\* not anchored.
FairCertSpec ==
    /\ CertSpec
    /\ \A w \in Workers :
        /\ WF_certVars(\E l \in Licences : Start(w, l))
        /\ WF_certVars(BuildAndSubmit(w) \/ Record(w) \/ RetryOrFail(w) \/ PayoutTold(w))
        /\ WF_certVars(Handle(w) /\ UNCHANGED <<row, actors, faults>>)
    /\ \A l \in Licences : WF_certVars(RetryCertificate(l))

-----------------------------------------------------------------------------
\* A licence is anchored at a message of its own, whichever of several jobs,
\* repeated submissions and late transactions came first.
AnchoredAtItsOwn ==
    \A l \in Licences :
        seq[l] # 0 => seq[l] <= Len(topic) /\ topic[seq[l]].of = l

\* The commitment a licence is anchored at is that of every certificate handed
\* out for it, where the certificate is written before a job can know of it.
GivenIsAnchored(sold) ==
    \A l \in sold : \A c \in given[l] :
        seq[l] # 0 => topic[seq[l]] = c

BatchGivenIsAnchored == GivenIsAnchored(Batched \cup Legacy)

\* A delivered licence gets its anchor, whatever went wrong before.
DeliveredIsAnchored == \A l \in Licences : l \in delivered ~> seq[l] # 0

=============================================================================
