------------------------------- MODULE Buyers -------------------------------
(***************************************************************************)
(* A buyer at the checkout page and a program that buys, at one shop: the  *)
(* composition of Checkout and Agents, which meet only on the server.      *)
(***************************************************************************)
EXTENDS Checkout, Agents

ASSUME BuyersTyping == PagePayments \cap AgentPayments = {}

vars == <<apiVars, pageVars, agentVars>>

Init == ApiInit /\ PageInit /\ AgentInit

Next ==
    \/ PageStep /\ UNCHANGED agentVars
    \/ AgentStep /\ UNCHANGED pageVars
    \/ ApiStep /\ UNCHANGED <<pageVars, agentVars>>

Spec == Init /\ [][Next]_vars

-----------------------------------------------------------------------------
(* Fairness.  The server takes up what it is sent and, asked often enough, *)
(* reaches a verdict while the buyer still waits, rather than limiting the *)
(* rate or finding no facilitator; an answer sought again and again is     *)
(* heard some time.  The buyer presses the button while it can be pressed  *)
(* and a payment is pending; wallet and cart answer one way or another.    *)

OnThePage(A) == A /\ UNCHANGED agentVars

Serving ==
    \A p \in Payments :
        /\ SF_vars(wire[p] = "asked" /\ Respond(p) /\ UNCHANGED <<pageVars, agentVars>>)
        /\ SF_vars(Advance(p) /\ UNCHANGED <<pageVars, agentVars>>)

Buying ==
    /\ WF_vars(OnThePage(Resubmit))
    /\ WF_vars(OnThePage(GetQuote \/ NoQuote))
    /\ WF_vars(OnThePage(LoadWallet \/ NotSigned \/ \E p \in PagePayments : SignInWallet(p)))
    /\ SF_vars(OnThePage(\E a \in Answers \ Recoverable : SettledOrFailed(a)))
    /\ WF_vars(OnThePage(NoAnswer \/ \E a \in Answers : SettledOrFailed(a)))
    /\ WF_vars(OnThePage(Complete))

FairSpec == Spec /\ Serving /\ Buying

-----------------------------------------------------------------------------
TypeOK == ApiTypeOK /\ PageTypeOK /\ AgentTypeOK

\* Whoever is told of a purchase has one: the page's receipt and a tool's or a
\* script's report stand for a licence that was delivered.
ToldIsSold ==
    /\ at \in {"completing", "success"} =>
        \E p \in told : p \in delivered /\ unit[p] # 0
    /\ \A c \in Calls :
        step[c] = "saving" \/ result[c] = "bought" =>
            paying[c] \in delivered /\ unit[paying[c]] # 0

\* What a signature was given for and never answered is not forgotten while the
\* page stays open: the page holds exactly that payment.
DoubtKept == signed \ (told \cup left) \subseteq {pending}

\* "Never ask for a second signature in that state": the page signs again only
\* when it was told what became of everything it signed before, or was left.
SignsOnlyWhenTold ==
    [][signed' # signed => signed \subseteq told \cup left]_vars

\* The owner's cap: a program signs more than it only when the offer it looked
\* at was replaced before it was quoted.
CapHolds ==
    \A c \in Calls :
        paying[c] # None /\ PriceOf[paying[c]] > MaxSpend => seen[c] \notin listed

\* A buyer who keeps pressing the button learns what became of a payment whose
\* answer was lost, limited or put off.
DoubtResolved ==
    \A p \in PagePayments : pending = p ~> p \in told \cup left

\* No attempt hangs: the page ends at a receipt or at a failure.
AttemptEnds == at \in Busy ~> at \notin Busy

=============================================================================
