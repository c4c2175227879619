------------------------------ MODULE Checkout ------------------------------
(***************************************************************************)
(* One visit after another of one buyer to a checkout page: the Stimulus   *)
(* controller, the wallet loader and the browser wallet.                   *)
(*                                                                         *)
(* The page keeps the payment it has signed until it is told what became   *)
(* of it, and presents the same bytes again instead of signing anew.       *)
(***************************************************************************)
EXTENDS Api

CONSTANTS
    PagePayments,   \* transactions the page's wallet can sign
    Carts,          \* is the page a cart, sold as one batch?
    MaxVisits       \* bound: how often the page is loaded

ASSUME PageTyping ==
    /\ PagePayments \subseteq Payments
    /\ Carts \subseteq BOOLEAN /\ Carts # {}
    /\ MaxVisits \in Nat

VARIABLES
    at,         \* data-checkout-state; "completing": settled, the cart is
                \* being emptied
    enabled,    \* can the buy button be pressed?
    chosen,     \* the licence whose radio button is checked
    wanted,     \* the licence this attempt asked a quote for
    quoted,     \* the offer it was quoted
    pending,    \* pendingPayment
    wallet,     \* the wallet module: not imported, ready, or failed for good
    cart,
    signed,     \* every payment signed so far
    told,       \* those whose fate the page was told
    left,       \* those it forgot because the buyer left or reloaded
    visits

attempt  == <<at, enabled, wanted, quoted, pending>>
history  == <<signed, told, left, visits>>
pageVars == <<attempt, chosen, wallet, cart, history>>

Kinds == {KindOf[o] : o \in Offers}
Busy  == {"quoting", "wallet", "settling", "completing"}

PageTypeOK ==
    /\ at \in Busy \cup {"idle", "failed", "success"}
    /\ enabled \in BOOLEAN
    /\ chosen \in Kinds
    /\ wanted \in Kinds \cup {None}
    /\ quoted \in Offers \cup {None}
    /\ at = "wallet" => quoted \in Offers
    /\ pending \in signed \cup {None}
    /\ at = "settling" => pending # None
    /\ wallet \in {"unloaded", "ready", "broken"}
    /\ cart \in Carts
    /\ signed \subseteq PagePayments
    /\ told \subseteq signed
    /\ left \subseteq signed
    /\ visits \in 0 .. MaxVisits

PageInit ==
    /\ at = "idle"
    /\ enabled = TRUE
    /\ chosen \in Kinds
    /\ wanted = None
    /\ quoted = None
    /\ pending = None
    /\ wallet = "unloaded"
    /\ cart \in Carts
    /\ signed = {} /\ told = {} /\ left = {}
    /\ visits = 0

-----------------------------------------------------------------------------
\* Errors after which only the same bytes can find out what happened.
Recoverable == {"unavailable", "rate_limited"}
TERMINAL_ERRORS == {"sold_out", "duplicate"}

SetState(state) == at' = state /\ enabled' = FALSE

Fail(terminal) == at' = "failed" /\ enabled' = ~terminal

\* success; successBatch empties the cart before it shows the licences.
Succeed == SetState(IF cart THEN "completing" ELSE "success")

\* updatePrice: a failure belongs to the offer that produced it.
Choose(k) ==
    /\ ~cart /\ at # "success"
    /\ chosen' = k
    /\ IF at = "failed" THEN at' = "idle" /\ enabled' = TRUE
                        ELSE UNCHANGED <<at, enabled>>
    /\ UNCHANGED <<wanted, quoted, pending, wallet, cart, history, apiVars>>

Pressed == enabled /\ at \in {"idle", "failed"}

\* As a bug would have it: nothing looks whether a payment was signed.
ResubmitBlind ==
    /\ Pressed
    /\ SetState("settling")
    /\ Send(pending)
    /\ UNCHANGED <<wanted, quoted, pending, chosen, wallet, cart, history>>

\* buy, with a payment signed before
Resubmit ==
    /\ Pressed /\ pending # None
    /\ SetState("settling")
    /\ Send(pending)
    /\ UNCHANGED <<wanted, quoted, pending, chosen, wallet, cart, history>>

\* As a bug would have it: a payment in doubt does not keep the page from
\* asking anew.
AskQuoteAnew ==
    /\ Pressed
    /\ SetState("quoting")
    /\ wanted' = chosen
    /\ UNCHANGED <<quoted, pending, chosen, wallet, cart, history, apiVars>>

AskQuote ==
    /\ Pressed /\ pending = None
    /\ SetState("quoting")
    /\ wanted' = chosen
    /\ UNCHANGED <<quoted, pending, chosen, wallet, cart, history, apiVars>>

GetQuote ==
    /\ at = "quoting"
    /\ \E o \in Quotable(wanted) : quoted' = o
    /\ SetState("wallet")
    /\ UNCHANGED <<wanted, pending, chosen, wallet, cart, history, apiVars>>

\* Sold out or a chat approval refused is final; a listing that is gone, a
\* limit or a lost answer is not.
NoQuote ==
    /\ at = "quoting"
    /\ \E terminal \in BOOLEAN : Fail(terminal)
    /\ UNCHANGED <<wanted, quoted, pending, chosen, wallet, cart, history, apiVars>>

\* The loader keeps the promise of its first import, also a rejected one.
LoadWallet ==
    /\ at = "wallet" /\ wallet = "unloaded"
    /\ wallet' \in {"ready", "broken"}
    /\ UNCHANGED <<attempt, chosen, cart, history, apiVars>>

\* A transaction of its own, for the requirements that were quoted.
ByWallet(p) == p \in PagePayments \ signed /\ OfferOf[p] = quoted

SignInWallet(p) ==
    /\ at = "wallet" /\ wallet = "ready"
    /\ ByWallet(p)
    /\ signed' = signed \cup {p}
    /\ pending' = p
    /\ SetState("settling")
    /\ Send(p)
    /\ UNCHANGED <<wanted, quoted, chosen, wallet, cart, told, left, visits>>

\* Cancelled, refused, timed out, no account; final if no wallet is configured.
NotSigned ==
    /\ at = "wallet"
    /\ \/ wallet # "unloaded" /\ Fail(FALSE)
       \/ wallet = "unloaded" /\ Fail(TRUE)
    /\ UNCHANGED <<wanted, quoted, pending, chosen, wallet, cart, history, apiVars>>

\* As a bug would have it: an error that only a retry can resolve is final.
SettledOrFailedForGood(a) ==
    /\ at = "settling" /\ Hear(pending, a)
    /\ IF a = "ok" THEN Succeed
                   ELSE Fail(a \in TERMINAL_ERRORS \cup Recoverable)
    /\ IF a \in Recoverable THEN UNCHANGED <<pending, told>>
       ELSE pending' = None /\ told' = told \cup {pending}
    /\ UNCHANGED <<wanted, quoted, chosen, wallet, cart, signed, left, visits>>

\* As a bug would have it: a licence without its files is shown as a purchase.
SettledOrFailedUnread(a) ==
    /\ at = "settling" /\ Hear(pending, a)
    /\ IF a \in {"ok", "no_file"} THEN Succeed
                                  ELSE Fail(a \in TERMINAL_ERRORS)
    /\ IF a \in Recoverable THEN UNCHANGED <<pending, told>>
       ELSE pending' = None /\ told' = told \cup {pending}
    /\ UNCHANGED <<wanted, quoted, chosen, wallet, cart, signed, left, visits>>

\* submitPendingPayment, answered
SettledOrFailed(a) ==
    /\ at = "settling" /\ Hear(pending, a)
    /\ IF a = "ok" THEN Succeed
                   ELSE Fail(a \in TERMINAL_ERRORS)
    /\ IF a \in Recoverable THEN UNCHANGED <<pending, told>>
       ELSE pending' = None /\ told' = told \cup {pending}
    /\ UNCHANGED <<wanted, quoted, chosen, wallet, cart, signed, left, visits>>

\* As a bug would have it: the payment is dropped on any failure.
NoAnswerForgets ==
    /\ at = "settling" /\ Miss(pending)
    /\ Fail(FALSE) /\ pending' = None
    /\ UNCHANGED <<wanted, quoted, chosen, wallet, cart, history>>

\* As a bug would have it: nobody catches what submitPendingPayment throws.
NoAnswerUncaught ==
    /\ at = "settling" /\ Miss(pending)
    /\ UNCHANGED <<attempt, chosen, wallet, cart, history>>

\* submitPendingPayment, when fetch throws or the body is no JSON
NoAnswer ==
    /\ at = "settling" /\ Miss(pending)
    /\ Fail(FALSE)
    /\ UNCHANGED <<wanted, quoted, pending, chosen, wallet, cart, history>>

\* If the request that empties the cart throws, buy reports a failure.
Complete ==
    /\ at = "completing"
    /\ SetState("success") \/ Fail(FALSE)
    /\ UNCHANGED <<wanted, quoted, pending, chosen, wallet, cart, history, apiVars>>

\* The buyer loads the page again: nothing of the last visit is kept.
Leave ==
    /\ visits < MaxVisits
    /\ visits' = visits + 1
    /\ left' = left \cup (signed \ told)
    /\ at' = "idle" /\ enabled' = TRUE
    /\ wanted' = None /\ quoted' = None /\ pending' = None
    /\ wallet' = "unloaded"
    /\ wire' = [p \in Payments |-> IF p \in PagePayments THEN "none" ELSE wire[p]]
    /\ UNCHANGED <<chosen, cart, signed, told, store, server, busy>>

PageStep ==
    \/ \E k \in Kinds : Choose(k)
    \/ Resubmit \/ AskQuote \/ GetQuote \/ NoQuote \/ LoadWallet
    \/ \E p \in PagePayments : SignInWallet(p)
    \/ NotSigned
    \/ \E a \in Answers : SettledOrFailed(a)
    \/ NoAnswer \/ Complete \/ Leave

=============================================================================
