------------------------------- MODULE Agents -------------------------------
(***************************************************************************)
(* Buyers that are programs: calls of the MCP server's buy_license tool    *)
(* and runs of scripts/buy.mjs.  Both look at a listing, compare its price *)
(* with the spend cap, and leave quoting, signing and paying to the SDK,   *)
(* which keeps no payment once buy has returned or thrown.                 *)
(***************************************************************************)
EXTENDS Api

CONSTANTS
    Calls,          \* slots for calls or runs in progress at once
    AgentPayments,  \* transactions the agents' key can sign
    MaxSpend,       \* MAX_SPEND_CENTS, --max-price
    MaxCalls        \* bound: calls the agents' owner confirms

ASSUME AgentTyping ==
    /\ AgentPayments \subseteq Payments
    /\ MaxSpend \in Nat /\ MaxCalls \in Nat

VARIABLES
    step,       \* where a call is
    asked,      \* the licence it was asked to buy
    seen,       \* the offer whose price it compared with the cap
    deal,       \* the quote it signs
    paying,     \* the payment it has signed
    result,     \* what its caller was told
    spent,      \* every payment the agents signed
    confirmed   \* calls made

call      == <<step, asked, seen, deal, paying, result>>
agentVars == <<call, spent, confirmed>>

Licences == {KindOf[o] : o \in Offers}
Running  == {"listing", "quoting", "associating", "signing", "paying", "saving"}

AgentTypeOK ==
    /\ step \in [Calls -> Running \cup {"idle"}]
    /\ asked \in [Calls -> Licences \cup {None}]
    /\ seen \in [Calls -> Offers \cup {None}]
    /\ deal \in [Calls -> Offers \cup {None}]
    /\ paying \in [Calls -> AgentPayments \cup {None}]
    /\ result \in [Calls -> {"none", "refused", "error", "bought"}]
    /\ spent \subseteq AgentPayments
    /\ confirmed \in 0 .. MaxCalls
    /\ \A c \in Calls :
        /\ step[c] \in {"associating", "signing"} => deal[c] # None
        /\ step[c] \in {"paying", "saving"} => paying[c] \in spent
        /\ result[c] = "bought" => paying[c] \in spent

AgentInit ==
    /\ step = [c \in Calls |-> "idle"]
    /\ asked = [c \in Calls |-> None]
    /\ seen = [c \in Calls |-> None]
    /\ deal = [c \in Calls |-> None]
    /\ paying = [c \in Calls |-> None]
    /\ result = [c \in Calls |-> "none"]
    /\ spent = {}
    /\ confirmed = 0

-----------------------------------------------------------------------------
Go(c, place) == step' = [step EXCEPT ![c] = place]

Tell(c, r) == Go(c, "idle") /\ result' = [result EXCEPT ![c] = r]

\* buy_license with confirm: true; the slot is free for the next call once
\* the last one has answered.
Begin(c, k) ==
    /\ step[c] = "idle" /\ confirmed < MaxCalls
    /\ confirmed' = confirmed + 1
    /\ Go(c, "listing")
    /\ asked' = [asked EXCEPT ![c] = k]
    /\ seen' = [seen EXCEPT ![c] = None]
    /\ deal' = [deal EXCEPT ![c] = None]
    /\ paying' = [paying EXCEPT ![c] = None]
    /\ result' = [result EXCEPT ![c] = "none"]
    /\ UNCHANGED <<spent, apiVars>>

\* As a bug would have it: the cap is compared with nothing.
LookUnchecked(c) ==
    /\ step[c] = "listing"
    /\ \E o \in listed :
        /\ KindOf[o] = asked[c]
        /\ seen' = [seen EXCEPT ![c] = o]
        /\ Go(c, "quoting") /\ UNCHANGED result
    /\ UNCHANGED <<asked, deal, paying, spent, confirmed, apiVars>>

\* client.get or client.search, then the guardrail
Look(c) ==
    /\ step[c] = "listing"
    /\ \E o \in listed :
        /\ KindOf[o] = asked[c]
        /\ seen' = [seen EXCEPT ![c] = o]
        /\ IF Cents[o] > MaxSpend THEN Tell(c, "refused")
                                  ELSE Go(c, "quoting") /\ UNCHANGED result
    /\ UNCHANGED <<asked, deal, paying, spent, confirmed, apiVars>>

\* client.quote
Quote(c) ==
    /\ step[c] = "quoting"
    /\ \E o \in Quotable(asked[c]) : deal' = [deal EXCEPT ![c] = o]
    /\ Go(c, "associating")
    /\ UNCHANGED <<asked, seen, paying, result, spent, confirmed, apiVars>>

\* ensureUsdcAssociated: the token is associated, now or before.
Associate(c) ==
    /\ step[c] = "associating"
    /\ Go(c, "signing")
    /\ UNCHANGED <<asked, seen, deal, paying, result, spent, confirmed, apiVars>>

\* The listing, the quote, the mirror node, the association or the signer fails:
\* buy throws before anything is signed.
GiveUp(c) ==
    /\ step[c] \in {"listing", "quoting", "associating", "signing"}
    /\ Tell(c, "error")
    /\ UNCHANGED <<asked, seen, deal, paying, spent, confirmed, apiVars>>

\* paymentHeaders, for a quote of this client's
ByKey(c, p) == p \in AgentPayments \ spent /\ OfferOf[p] = deal[c]

\* The request that carries the payment
SignByKey(c, p) ==
    /\ step[c] = "signing"
    /\ ByKey(c, p)
    /\ spent' = spent \cup {p}
    /\ paying' = [paying EXCEPT ![c] = p]
    /\ Go(c, "paying")
    /\ Send(p)
    /\ UNCHANGED <<asked, seen, deal, result, confirmed>>

\* As a bug would have it: the status of the answer is not looked at.
PaidUnread(c, a) ==
    /\ step[c] = "paying" /\ Hear(paying[c], a)
    /\ Go(c, "saving") /\ UNCHANGED result
    /\ UNCHANGED <<asked, seen, deal, paying, spent, confirmed>>

\* buy returns the body of a success and throws on any other status.
PaidOrThrown(c, a) ==
    /\ step[c] = "paying" /\ Hear(paying[c], a)
    /\ IF a = "ok" THEN Go(c, "saving") /\ UNCHANGED result
                   ELSE Tell(c, "error")
    /\ UNCHANGED <<asked, seen, deal, paying, spent, confirmed>>

Unanswered(c) ==
    /\ step[c] = "paying" /\ Miss(paying[c])
    /\ Tell(c, "error")
    /\ UNCHANGED <<asked, seen, deal, paying, spent, confirmed>>

\* The tool reports downloads that failed along with the purchase; the script
\* writes the paid response first and then the files and the certificate.
Save(c) ==
    /\ step[c] = "saving"
    /\ Tell(c, "bought")
    /\ UNCHANGED <<asked, seen, deal, paying, spent, confirmed, apiVars>>

\* The tool: the directory or the proof bundle cannot be written.  The script:
\* any file or the certificate cannot be had.
CannotSave(c) ==
    /\ step[c] = "saving"
    /\ Tell(c, "error")
    /\ UNCHANGED <<asked, seen, deal, paying, spent, confirmed, apiVars>>

CallStep(c) ==
    \/ Look(c) \/ Quote(c) \/ Associate(c) \/ GiveUp(c)
    \/ \E p \in AgentPayments : SignByKey(c, p)
    \/ \E a \in Answers : PaidOrThrown(c, a)
    \/ Unanswered(c) \/ Save(c) \/ CannotSave(c)

AgentStep ==
    \E c \in Calls : CallStep(c) \/ \E k \in Licences : Begin(c, k)

=============================================================================
