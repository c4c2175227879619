------------------------------ MODULE Sidecar ------------------------------
(***************************************************************************)
(* The signing sidecar and the client the Rails processes call it with:    *)
(* commitments submitted to the provenance topic and payout transfers.     *)
(*                                                                         *)
(* A call is given up by its client long before the sidecar gives up a     *)
(* transaction: what was submitted may reach consensus after the client    *)
(* has been told, or has assumed, otherwise.                               *)
(***************************************************************************)
EXTENDS Naturals, Sequences

CONSTANTS
    Workers,    \* threads that run jobs
    Payouts,    \* treasury transfers of PayoutRunner
    None

VARIABLES
    stage,      \* how far a caller's call has come, or how it ended
    load,       \* what it submits: a certificate's commitment or a transfer
    receipt,    \* the sequence number in the receipt, once there is one
    orphans,    \* submitted transactions no call waits for any more
    topic,      \* the topic's messages: the certificates they commit to
    paid        \* transfers at consensus

sidecarVars == <<stage, load, receipt, orphans, topic, paid>>

\* SidecarClient's exceptions
Ends == {"ok", "unavailable", "ambiguous", "rejected"}

SidecarTypeOK(Messages) ==
    /\ stage \in [Workers -> Ends \cup {"idle", "sent", "working", "landed"}]
    /\ load \in [Workers -> Messages \cup Payouts \cup {None}]
    /\ receipt \in [Workers -> 0 .. Len(topic)]
    /\ DOMAIN orphans = Messages \cup Payouts
    /\ \A m \in Messages \cup Payouts : orphans[m] \in Nat
    /\ topic \in Seq(Messages)
    /\ paid \subseteq Payouts

SidecarInit(Messages) ==
    /\ stage = [c \in Workers |-> "idle"]
    /\ load = [c \in Workers |-> None]
    /\ receipt = [c \in Workers |-> 0]
    /\ orphans = [m \in Messages \cup Payouts |-> 0]
    /\ topic = <<>>
    /\ paid = {}

-----------------------------------------------------------------------------
Advance(c, s) == stage' = [stage EXCEPT ![c] = s]

Abandon(c) == orphans' = [orphans EXCEPT ![load[c]] = @ + 1]

Call(c, m) ==
    /\ stage[c] = "idle"
    /\ Advance(c, "sent")
    /\ load' = [load EXCEPT ![c] = m]
    /\ UNCHANGED <<receipt, orphans, topic, paid>>

\* No connection; no topic or no treasury is configured; the token, the shape
\* or the size is wrong.
Refuse(c) ==
    /\ stage[c] = "sent"
    /\ \E e \in {"unavailable", "rejected"} : Advance(c, e)
    /\ UNCHANGED <<load, receipt, orphans, topic, paid>>

Submit(c) ==
    /\ stage[c] = "sent"
    /\ Advance(c, "working")
    /\ UNCHANGED <<load, receipt, orphans, topic, paid>>

Reach(m) ==
    IF m \in Payouts
    THEN paid' = paid \cup {m} /\ UNCHANGED topic
    ELSE topic' = Append(topic, m) /\ UNCHANGED paid

\* As a bug would have it: the number after the message's own is taken.
LandCountedTwice(c) ==
    /\ stage[c] = "working"
    /\ Advance(c, "landed")
    /\ Reach(load[c])
    /\ receipt' = [receipt EXCEPT ![c] = Len(topic') + 1]
    /\ UNCHANGED <<load, orphans>>

Land(c) ==
    /\ stage[c] = "working"
    /\ Advance(c, "landed")
    /\ Reach(load[c])
    /\ receipt' = [receipt EXCEPT ![c] = Len(topic')]
    /\ UNCHANGED <<load, orphans>>

LandOrphan(m) ==
    /\ orphans[m] > 0
    /\ orphans' = [orphans EXCEPT ![m] = @ - 1]
    /\ Reach(m)
    /\ UNCHANGED <<stage, load, receipt>>

\* getReceipt: success is answered only from the receipt.
Answer(c) ==
    /\ stage[c] = "landed"
    /\ Advance(c, "ok")
    /\ UNCHANGED <<load, receipt, orphans, topic, paid>>

\* As a bug would have it: a payout's hedera_error is a plain refusal.
HederaErrorPlain(c) ==
    /\ stage[c] \in {"sent", "working", "landed"}
    /\ Advance(c, "rejected")
    /\ IF stage[c] = "working" THEN Abandon(c) ELSE UNCHANGED orphans
    /\ UNCHANGED <<load, receipt, topic, paid>>

\* execute or getReceipt throws: a 502, whatever became of the transaction.
HederaError(c) ==
    /\ stage[c] \in {"sent", "working", "landed"}
    /\ Advance(c, IF load[c] \in Payouts THEN "ambiguous" ELSE "rejected")
    /\ IF stage[c] = "working" THEN Abandon(c) ELSE UNCHANGED orphans
    /\ UNCHANGED <<load, receipt, topic, paid>>

\* The client's read times out, or the connection is reset: the sidecar goes on.
LoseAnswer(c) ==
    /\ stage[c] \in {"sent", "working", "landed"}
    /\ Advance(c, IF load[c] \in Payouts THEN "ambiguous" ELSE "unavailable")
    /\ IF stage[c] = "landed" THEN UNCHANGED orphans ELSE Abandon(c)
    /\ UNCHANGED <<load, receipt, topic, paid>>

Handle(c) == Submit(c) \/ Land(c) \/ Answer(c)
Fail(c)   == Refuse(c) \/ HederaError(c) \/ LoseAnswer(c)

\* The caller is done with what it was told.
Hang(c) ==
    /\ Advance(c, "idle")
    /\ load' = [load EXCEPT ![c] = None]
    /\ receipt' = [receipt EXCEPT ![c] = 0]

-----------------------------------------------------------------------------
\* What the payout runner relies on when it frees a share for another transfer:
\* "ok" means paid, and unavailable or rejected that the transfer has not
\* happened and never will.  Only an ambiguous end leaves the question open.
PayoutAnswersTrue ==
    \A c \in Workers : load[c] \in Payouts =>
        /\ stage[c] = "ok" => load[c] \in paid
        /\ stage[c] \in {"unavailable", "rejected"} =>
            load[c] \notin paid /\ orphans[load[c]] = 0

=============================================================================
