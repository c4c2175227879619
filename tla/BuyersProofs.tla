---------------------------- MODULE BuyersProofs ----------------------------
(***************************************************************************)
(* What buyers can rely on, for any number of payments, offers, calls and  *)
(* visits: a page never loses sight of what it signed for, never signs     *)
(* again while a payment is in doubt, and nobody is told of a purchase     *)
(* that is not one.                                                        *)
(***************************************************************************)
EXTENDS Buyers, FiniteSetTheorems, TLAPS

USE DEF PriceOf, Sandbox

\* The next serial of an offer is a natural number other than zero.
LEMMA NextUnitType ==
    ASSUME NEW p \in Payments
    PROVE  S!NextUnit(p) \in Nat \ {0}
<1>1. IsFiniteSet(S!Siblings(p))
    BY ApiTyping, FS_Subset DEF S!Siblings
<1>2. Cardinality(S!Siblings(p)) \in Nat
    BY <1>1, FS_CardinalityType
<1>3. S!Cardinality(S!Siblings(p)) = Cardinality(S!Siblings(p))
    BY DEF S!Cardinality, Cardinality
<1>4. QED
    BY <1>2, <1>3 DEF S!NextUnit

-----------------------------------------------------------------------------
(* Types.                                                                  *)

LEMMA TypeInit == Init => TypeOK
    BY ApiTyping, PageTyping, AgentTyping
       DEF Init, ApiInit, PageInit, AgentInit, TypeOK, ApiTypeOK, PageTypeOK,
           AgentTypeOK, S!Init, Kinds, Busy, Licences, Running, Answers

LEMMA TypeApi ==
    ASSUME ApiTypeOK, ApiStep
    PROVE  ApiTypeOK'
<1> USE ApiTyping DEF ApiTypeOK, Answer, Answers, store, server, S!sales
<1>1. ASSUME NEW p \in Payments, Respond(p)
      PROVE  ApiTypeOK'
    BY <1>1 DEF Respond, TurnAway, Refuse, Duplicate, CapacityOverrun, Deliver,
                Undeliverable
<1>2. ASSUME NEW p \in Payments, Advance(p)
      PROVE  ApiTypeOK'
    <2>1. CASE Take(p)
        BY <2>1 DEF Take, S!Open
    <2>2. CASE Allocate(p)
        BY <1>2, <2>2, NextUnitType DEF Allocate, S!Issue
    <2>3. CASE \E t \in Payments : Confirm(p, t)
        BY <2>3 DEF Confirm, S!Book
    <2>4. QED
        BY <1>2, <2>1, <2>2, <2>3 DEF Advance
<1>3. ASSUME NEW p \in Payments,
             \/ RateLimit(p) \/ FacilitatorUnavailable(p) \/ Die(p)
             \/ ReapStale(p) \/ Land(p)
      PROVE  ApiTypeOK'
    BY <1>3 DEF RateLimit, FacilitatorUnavailable, Die, ReapStale, Land, S!Move
<1>4. ASSUME NEW p \in Payments, NEW t \in Payments, RollForward(p, t)
      PROVE  ApiTypeOK'
    BY <1>4, NextUnitType DEF RollForward
<1>5. ASSUME NEW o \in Offers, Revise(o)
      PROVE  ApiTypeOK'
    BY <1>5 DEF Revise
<1>6. CASE DetachOrReattach
    BY <1>6 DEF DetachOrReattach
<1>7. QED
    BY <1>1, <1>2, <1>3, <1>4, <1>5, <1>6 DEF ApiStep

LEMMA TypePage ==
    ASSUME ApiTypeOK, PageTypeOK, PageStep
    PROVE  ApiTypeOK' /\ PageTypeOK'
<1> USE ApiTyping, PageTyping
    DEF ApiTypeOK, PageTypeOK, Kinds, Busy, Answers, SetState, Fail, Pressed,
        Send, Hear, Miss, apiVars, store, server, attempt, history, S!sales
<1>1. CASE \E k \in Kinds : Choose(k)
    <2> PICK k \in Kinds : Choose(k)
        BY <1>1
    <2>1. ApiTypeOK'
        BY DEF Choose
    <2>2. PageTypeOK'
        BY DEF Choose
    <2>3. QED
        BY <2>1, <2>2
<1>2. CASE Resubmit
    BY <1>2 DEF Resubmit
<1>3. CASE AskQuote \/ GetQuote \/ NoQuote
    BY <1>3 DEF AskQuote, GetQuote, NoQuote, Quotable
<1>4. CASE LoadWallet \/ NotSigned \/ Complete
    BY <1>4 DEF LoadWallet, NotSigned, Complete
<1>5. CASE \E p \in PagePayments : SignInWallet(p)
    <2> PICK p \in PagePayments : SignInWallet(p)
        BY <1>5
    <2>1. ApiTypeOK'
        BY DEF SignInWallet
    <2>2. p # None /\ signed' = signed \cup {p} /\ pending' = p
        BY DEF SignInWallet
    <2>3. PageTypeOK'
        BY <2>2 DEF SignInWallet
    <2>4. QED
        BY <2>1, <2>3
<1>6. CASE \E a \in Answers : SettledOrFailed(a)
    <2> PICK a \in Answers : SettledOrFailed(a)
        BY <1>6
    <2>1. pending \in signed /\ pending \in Payments
        BY DEF SettledOrFailed
    <2>2. CASE a \in Recoverable
        BY <2>1, <2>2 DEF SettledOrFailed, Succeed, Recoverable, TERMINAL_ERRORS
    <2>3. CASE a \notin Recoverable
        BY <2>1, <2>3 DEF SettledOrFailed, Succeed, TERMINAL_ERRORS
    <2>4. QED
        BY <2>2, <2>3
<1>7. CASE NoAnswer
    BY <1>7 DEF NoAnswer
<1>8. CASE Leave
    BY <1>8 DEF Leave
<1>9. QED
    BY <1>1, <1>2, <1>3, <1>4, <1>5, <1>6, <1>7, <1>8 DEF PageStep

LEMMA TypeAgent ==
    ASSUME ApiTypeOK, AgentTypeOK, AgentStep
    PROVE  ApiTypeOK' /\ AgentTypeOK'
<1> USE ApiTyping, AgentTyping
    DEF ApiTypeOK, AgentTypeOK, Running, Licences, Answers, Go, Tell, Send,
        Hear, Miss, apiVars, store, server, S!sales
<1>1. ASSUME NEW c \in Calls, NEW k \in Licences, Begin(c, k)
      PROVE  ApiTypeOK' /\ AgentTypeOK'
    BY <1>1 DEF Begin
<1>2. ASSUME NEW c \in Calls, Look(c)
      PROVE  ApiTypeOK' /\ AgentTypeOK'
    BY <1>2 DEF Look
<1>3. ASSUME NEW c \in Calls, Quote(c) \/ Associate(c) \/ GiveUp(c)
      PROVE  ApiTypeOK' /\ AgentTypeOK'
    BY <1>3 DEF Quote, Quotable, Associate, GiveUp
<1>4. ASSUME NEW c \in Calls, NEW p \in AgentPayments, SignByKey(c, p)
      PROVE  ApiTypeOK' /\ AgentTypeOK'
    BY <1>4 DEF SignByKey, ByKey
<1>5. ASSUME NEW c \in Calls, NEW a \in Answers, PaidOrThrown(c, a)
      PROVE  ApiTypeOK' /\ AgentTypeOK'
    BY <1>5 DEF PaidOrThrown
<1>6. ASSUME NEW c \in Calls, Unanswered(c) \/ Save(c) \/ CannotSave(c)
      PROVE  ApiTypeOK' /\ AgentTypeOK'
    BY <1>6 DEF Unanswered, Save, CannotSave
<1>7. ASSUME NEW c \in Calls, CallStep(c)
      PROVE  ApiTypeOK' /\ AgentTypeOK'
    BY ONLY <1>2, <1>3, <1>4, <1>5, <1>6, <1>7 DEF CallStep
<1>8. QED
    BY ONLY AgentStep, <1>1, <1>7 DEF AgentStep

LEMMA TypeNext == TypeOK /\ [Next]_vars => TypeOK'
<1> SUFFICES ASSUME TypeOK, [Next]_vars
             PROVE  TypeOK'
    OBVIOUS
<1>1. UNCHANGED agentVars /\ AgentTypeOK => AgentTypeOK'
    BY DEF agentVars, call, AgentTypeOK
<1>2. UNCHANGED pageVars /\ PageTypeOK => PageTypeOK'
    BY DEF pageVars, attempt, history, PageTypeOK
<1>3. UNCHANGED apiVars /\ ApiTypeOK => ApiTypeOK'
    BY DEF apiVars, store, server, ApiTypeOK
<1>4. CASE PageStep /\ UNCHANGED agentVars
    BY <1>1, <1>4, TypePage DEF TypeOK
<1>5. CASE AgentStep /\ UNCHANGED pageVars
    BY <1>2, <1>5, TypeAgent DEF TypeOK
<1>6. CASE ApiStep /\ UNCHANGED <<pageVars, agentVars>>
    BY <1>1, <1>2, <1>6, TypeApi DEF TypeOK
<1>7. CASE UNCHANGED vars
    BY <1>1, <1>2, <1>3, <1>7 DEF TypeOK, vars
<1>8. QED
    BY <1>4, <1>5, <1>6, <1>7 DEF Next

\* Every state of the buyers and of the server they meet is well typed.
THEOREM TypeCorrect == Spec => []TypeOK
<1>1. QED
    BY TypeInit, TypeNext, PTL DEF Spec

-----------------------------------------------------------------------------
(* A payment in doubt.  The page starts an attempt only with no payment in *)
(* hand, so that signing, which replaces the one in hand, loses none.      *)

DoubtInv ==
    /\ DoubtKept
    /\ at \in {"quoting", "wallet"} => pending = None

LEMMA DoubtNext == TypeOK /\ DoubtInv /\ [Next]_vars => DoubtInv'
<1> SUFFICES ASSUME TypeOK, DoubtInv, [Next]_vars
             PROVE  DoubtInv'
    OBVIOUS
<1> USE DEF DoubtInv, DoubtKept
<1>1. CASE PageStep
    <2> USE DEF attempt, history, SetState, Fail
    <2>1. CASE \E k \in Kinds : Choose(k)
        BY <2>1 DEF Choose
    <2>2. CASE Resubmit
        BY <2>2 DEF Resubmit
    <2>3. CASE AskQuote \/ GetQuote \/ NoQuote
        BY <2>3 DEF AskQuote, GetQuote, NoQuote
    <2>4. CASE LoadWallet \/ NotSigned \/ Complete
        BY <2>4 DEF LoadWallet, NotSigned, Complete
    <2>5. CASE \E p \in PagePayments : SignInWallet(p)
        BY <2>5, ApiTyping, PageTyping DEF SignInWallet, TypeOK, PageTypeOK
    <2>6. CASE \E a \in Answers : SettledOrFailed(a)
        BY <2>6 DEF SettledOrFailed, Succeed
    <2>7. CASE NoAnswer
        BY <2>7 DEF NoAnswer
    <2>8. CASE Leave
        BY <2>8 DEF Leave
    <2>9. QED
        BY <1>1, <2>1, <2>2, <2>3, <2>4, <2>5, <2>6, <2>7, <2>8 DEF PageStep
<1>2. CASE UNCHANGED pageVars
    BY <1>2 DEF pageVars, attempt, history
<1>3. QED
    BY <1>1, <1>2 DEF Next, vars

LEMMA DoubtAlways == Spec => []DoubtInv
<1>1. Init => DoubtInv
    BY DEF Init, PageInit, DoubtInv, DoubtKept
<1>2. QED
    BY <1>1, DoubtNext, TypeCorrect, PTL DEF Spec

\* A payment that was signed for and never answered is the one the page holds.
THEOREM DoubtIsKept == Spec => []DoubtKept
<1>1. DoubtInv => DoubtKept
    BY DEF DoubtInv
<1>2. QED
    BY <1>1, DoubtAlways, PTL

\* The wallet is asked again only when the page was told of all it signed.
THEOREM SignedOnlyWhenTold == Spec => SignsOnlyWhenTold
<1>1. TypeOK /\ DoubtInv /\ [Next]_vars
          => [signed' # signed => signed \subseteq told \cup left]_vars
    <2> SUFFICES ASSUME TypeOK, DoubtInv, Next, signed' # signed
                 PROVE  signed \subseteq told \cup left
        OBVIOUS
    <2>1. PICK p \in PagePayments : SignInWallet(p)
        BY DEF Next, PageStep, pageVars, attempt, history, Choose, Resubmit,
            AskQuote, GetQuote, NoQuote, LoadWallet, NotSigned,
            SettledOrFailed, NoAnswer, Complete, Leave
    <2>2. pending = None
        BY <2>1 DEF SignInWallet, DoubtInv
    <2>3. None \notin signed
        BY ApiTyping, PageTyping DEF TypeOK, PageTypeOK
    <2>4. QED
        BY <2>2, <2>3 DEF DoubtInv, DoubtKept
<1>2. QED
    BY <1>1, TypeCorrect, DoubtAlways, PTL DEF Spec, SignsOnlyWhenTold

-----------------------------------------------------------------------------
(* What a buyer is told.  A success is sent only for a delivered purchase, *)
(* a delivered purchase has its licence, and neither is ever taken back.   *)

SoldInv ==
    /\ ToldIsSold
    /\ \A p \in delivered : unit[p] # 0
    /\ \A p \in Payments : wire[p] = "ok" => p \in delivered
    /\ \A c \in Calls : step[c] # "idle" => result[c] = "none"

\* Nothing takes a delivery or a licence back.
LEMMA SoldStays ==
    ASSUME TypeOK, [Next]_vars
    PROVE  /\ delivered \subseteq delivered'
           /\ \A p \in Payments : unit[p] # 0 => unit'[p] # 0
<1> USE DEF TypeOK, ApiTypeOK, store, server, S!sales, Answer
<1>1. CASE \E p \in Payments : Allocate(p)
    BY <1>1, NextUnitType DEF Allocate, S!Issue
<1>2. CASE \E p, t \in Payments : RollForward(p, t)
    BY <1>2, NextUnitType DEF RollForward
<1>3. CASE /\ ApiStep
           /\ ~\E p \in Payments : Allocate(p)
           /\ ~\E p, t \in Payments : RollForward(p, t)
    BY <1>3 DEF ApiStep, Respond, Advance, TurnAway, Take, Confirm, Refuse,
        Duplicate, CapacityOverrun, Deliver, Undeliverable, RateLimit,
        FacilitatorUnavailable, Die, ReapStale, Land, Revise,
        DetachOrReattach, S!Open, S!Book, S!Move
<1>4. CASE UNCHANGED server
    BY <1>4
<1>5. PageStep => UNCHANGED server
    BY DEF PageStep, apiVars, Choose, Resubmit, AskQuote, GetQuote, NoQuote,
        LoadWallet, SignInWallet, NotSigned, SettledOrFailed, NoAnswer,
        Complete, Leave, Send, Hear, Miss
<1>6. AgentStep => UNCHANGED server
    BY DEF AgentStep, CallStep, apiVars, Begin, Look, Quote, Associate, GiveUp,
        SignByKey, PaidOrThrown, Unanswered, Save, CannotSave, Send, Hear, Miss
<1>7. QED
    BY <1>1, <1>2, <1>3, <1>4, <1>5, <1>6 DEF Next, vars, apiVars

\* The server answers "ok" only with the delivery of a licence.
LEMMA SoldApi ==
    ASSUME TypeOK, SoldInv, ApiStep
    PROVE  /\ \A p \in delivered' : unit'[p] # 0
           /\ \A p \in Payments : wire'[p] = "ok" => p \in delivered'
<1> USE DEF TypeOK, ApiTypeOK, SoldInv, store, server, S!sales, Answer
<1>1. ASSUME NEW p \in Payments, Respond(p)
      PROVE  /\ \A q \in delivered' : unit'[q] # 0
             /\ \A q \in Payments : wire'[q] = "ok" => q \in delivered'
    BY <1>1 DEF Respond, TurnAway, Refuse, Duplicate, CapacityOverrun, Deliver,
        Undeliverable
<1>2. ASSUME NEW p \in Payments, Allocate(p)
      PROVE  /\ \A q \in delivered' : unit'[q] # 0
             /\ \A q \in Payments : wire'[q] = "ok" => q \in delivered'
    BY <1>2, NextUnitType DEF Allocate, S!Issue
<1>3. ASSUME NEW p \in Payments, NEW t \in Payments, RollForward(p, t)
      PROVE  /\ \A q \in delivered' : unit'[q] # 0
             /\ \A q \in Payments : wire'[q] = "ok" => q \in delivered'
    BY <1>3, NextUnitType DEF RollForward
<1>4. CASE \E p \in Payments :
               \/ Take(p) \/ \E t \in Payments : Confirm(p, t)
               \/ RateLimit(p) \/ FacilitatorUnavailable(p) \/ Die(p)
               \/ ReapStale(p) \/ Land(p)
    BY <1>4 DEF Take, Confirm, RateLimit, FacilitatorUnavailable, Die,
        ReapStale, Land, S!Open, S!Book, S!Move
<1>5. CASE (\E o \in Offers : Revise(o)) \/ DetachOrReattach
    BY <1>5 DEF Revise, DetachOrReattach
<1>6. QED
    BY <1>1, <1>2, <1>3, <1>4, <1>5 DEF ApiStep, Advance

LEMMA SoldPage ==
    ASSUME TypeOK, SoldInv, PageStep, UNCHANGED agentVars
    PROVE  SoldInv'
<1> USE DEF TypeOK, ApiTypeOK, PageTypeOK, SoldInv, ToldIsSold, apiVars, store,
        server, S!sales, agentVars, call, attempt, history, SetState, Fail,
        Send, Hear, Miss
<1>1. CASE \E k \in Kinds : Choose(k)
    BY <1>1 DEF Choose
<1>2. CASE Resubmit
    BY <1>2 DEF Resubmit, Pressed
<1>3. CASE AskQuote \/ GetQuote \/ NoQuote
    BY <1>3 DEF AskQuote, GetQuote, NoQuote
<1>4. CASE LoadWallet \/ NotSigned \/ Complete
    BY <1>4 DEF LoadWallet, NotSigned, Complete
<1>5. CASE \E p \in PagePayments : SignInWallet(p)
    BY <1>5 DEF SignInWallet
<1>6. CASE \E a \in Answers : SettledOrFailed(a)
    <2> PICK a \in Answers : SettledOrFailed(a)
        BY <1>6
    <2>1. pending \in Payments
        BY PageTyping DEF SettledOrFailed
    <2>2. CASE a = "ok"
        BY <2>1, <2>2 DEF SettledOrFailed, Succeed, Recoverable
    <2>3. CASE a # "ok"
        BY <2>1, <2>3 DEF SettledOrFailed
    <2>4. QED
        BY <2>2, <2>3
<1>7. CASE NoAnswer
    BY <1>7 DEF NoAnswer
<1>8. CASE Leave
    BY <1>8 DEF Leave
<1>9. QED
    BY <1>1, <1>2, <1>3, <1>4, <1>5, <1>6, <1>7, <1>8 DEF PageStep

LEMMA SoldAgent ==
    ASSUME TypeOK, SoldInv, AgentStep, UNCHANGED pageVars
    PROVE  SoldInv'
<1> USE AgentTyping
    DEF TypeOK, ApiTypeOK, AgentTypeOK, Running, SoldInv, ToldIsSold, apiVars,
        store, server, S!sales, pageVars, attempt, history, Go, Tell, Send,
        Hear, Miss
<1>1. ASSUME NEW c \in Calls, NEW k \in Licences, Begin(c, k)
      PROVE  SoldInv'
    BY <1>1 DEF Begin
<1>2. ASSUME NEW c \in Calls, Look(c)
      PROVE  SoldInv'
    BY <1>2 DEF Look
<1>3. ASSUME NEW c \in Calls, Quote(c) \/ Associate(c) \/ GiveUp(c)
      PROVE  SoldInv'
    BY <1>3 DEF Quote, Associate, GiveUp
<1>4. ASSUME NEW c \in Calls, NEW p \in AgentPayments, SignByKey(c, p)
      PROVE  SoldInv'
    <2>1. p \in Payments
        BY <1>4 DEF ByKey
    <2>2. wire' = [wire EXCEPT ![p] = "asked"]
        BY <1>4 DEF SignByKey
    <2>3. UNCHANGED <<delivered, unit, at, told, result>>
        BY <1>4 DEF SignByKey
    <2>4. \A d \in Calls : step'[d] = "saving" \/ result'[d] = "bought"
              => d # c /\ step'[d] = step[d] /\ paying'[d] = paying[d]
        BY <1>4, <2>3 DEF SignByKey
    <2>5. \A d \in Calls : step'[d] # "idle" => step[d] # "idle"
        BY <1>4 DEF SignByKey
    <2>6. QED
        BY <2>1, <2>2, <2>3, <2>4, <2>5
<1>5. ASSUME NEW c \in Calls, NEW a \in Answers, PaidOrThrown(c, a)
      PROVE  SoldInv'
    BY <1>5 DEF PaidOrThrown
<1>6. ASSUME NEW c \in Calls, Unanswered(c) \/ Save(c) \/ CannotSave(c)
      PROVE  SoldInv'
    BY <1>6 DEF Unanswered, Save, CannotSave
<1>7. QED
    BY <1>1, <1>2, <1>3, <1>4, <1>5, <1>6 DEF AgentStep, CallStep

LEMMA SoldNext == TypeOK /\ SoldInv /\ [Next]_vars => SoldInv'
<1> SUFFICES ASSUME TypeOK, SoldInv, [Next]_vars
             PROVE  SoldInv'
    OBVIOUS
<1>1. CASE PageStep /\ UNCHANGED agentVars
    BY <1>1, SoldPage
<1>2. CASE AgentStep /\ UNCHANGED pageVars
    BY <1>2, SoldAgent
<1>3. CASE ApiStep /\ UNCHANGED <<pageVars, agentVars>>
    <2>1. delivered \subseteq delivered'
        BY SoldStays
    <2>2. ToldIsSold'
        BY <1>3, <2>1, SoldApi
           DEF SoldInv, ToldIsSold, pageVars, agentVars, attempt, history, call
    <2>3. QED
        BY <1>3, <2>2, SoldApi DEF SoldInv, agentVars, call
<1>4. CASE UNCHANGED vars
    BY <1>4 DEF SoldInv, ToldIsSold, vars, apiVars, pageVars, agentVars, store,
        server, attempt, history, call
<1>5. QED
    BY <1>1, <1>2, <1>3, <1>4 DEF Next

\* Whoever was told of a purchase, at the page, by a tool or by the script, has
\* a delivered purchase and its licence, whatever was lost, repeated or revised.
THEOREM BuyersToldOfASale == Spec => []ToldIsSold
<1>1. Init => SoldInv
    BY DEF Init, ApiInit, PageInit, AgentInit, S!Init, SoldInv, ToldIsSold
<1>2. SoldInv => ToldIsSold
    BY DEF SoldInv
<1>3. QED
    BY <1>1, <1>2, SoldNext, TypeCorrect, PTL DEF Spec

-----------------------------------------------------------------------------
(* The owner's cap.  Offers of a kind follow each other, one on sale at a  *)
(* time: what is quoted after the look at a listing is the offer looked at *)
(* or one that took its place, and what was replaced never comes back.     *)

Number ==
    CHOOSE number \in [Offers -> 1 .. Cardinality(Offers)] :
        \A o \in Offers : Revision[o] # None =>
            KindOf[Revision[o]] = KindOf[o] /\ number[o] < number[Revision[o]]

Later(o, q) == Number[o] < Number[q]

Follows(q, o) == KindOf[q] = KindOf[o] /\ (q = o \/ Later(o, q))

\* An offer that is on sale or was replaced
WasListed(o) == \A q \in listed : KindOf[q] = KindOf[o] => Follows(q, o)

CallWithinCap(c) ==
    /\ step[c] \in {"listing", "quoting", "associating", "signing"} => paying[c] = None
    /\ seen[c] # None => WasListed(seen[c])
    /\ step[c] \in {"quoting", "associating", "signing"} =>
        seen[c] # None /\ KindOf[seen[c]] = asked[c] /\ Cents[seen[c]] <= MaxSpend
    /\ step[c] \in {"associating", "signing"} =>
        Follows(deal[c], seen[c]) /\ WasListed(deal[c])
    /\ paying[c] # None =>
        LET o == OfferOf[paying[c]]
        IN  /\ seen[c] # None /\ Follows(o, seen[c]) /\ WasListed(o)
            /\ o = seen[c] => Cents[o] <= MaxSpend

OneOfAKind == \A o, q \in listed : KindOf[o] = KindOf[q] => o = q

CapInv == OneOfAKind /\ \A c \in Calls : CallWithinCap(c)

LEMMA Numbering ==
    /\ Number \in [Offers -> Nat]
    /\ \A o \in Offers : Revision[o] # None =>
        KindOf[Revision[o]] = KindOf[o] /\ Number[o] < Number[Revision[o]]
<1>1. Cardinality(Offers) \in Nat
    BY Revising, FS_CardinalityType
<1>2. /\ Number \in [Offers -> 1 .. Cardinality(Offers)]
      /\ \A o \in Offers : Revision[o] # None =>
            KindOf[Revision[o]] = KindOf[o] /\ Number[o] < Number[Revision[o]]
    BY ONLY Revising DEF Number
<1>3. QED
    BY <1>1, <1>2

\* Only a revision changes what is on sale.
LEMMA ListedChanges ==
    ASSUME [Next]_vars
    PROVE  listed' = listed \/ \E o \in Offers : Revise(o)
<1> USE DEF store, apiVars
<1>1. CASE PageStep
    BY <1>1 DEF PageStep, Choose, Resubmit, AskQuote, GetQuote, NoQuote, LoadWallet,
        SignInWallet, NotSigned, SettledOrFailed, NoAnswer, Complete, Leave,
        Send, Hear, Miss
<1>2. CASE AgentStep
    BY <1>2 DEF AgentStep, CallStep, Begin, Look, Quote, Associate, GiveUp,
        SignByKey, PaidOrThrown, Unanswered, Save, CannotSave, Send, Hear, Miss
<1>3. CASE ApiStep
    BY <1>3 DEF ApiStep, Respond, Advance, TurnAway, Take, Confirm, Refuse,
        Duplicate, CapacityOverrun, Deliver, Undeliverable, RateLimit,
        FacilitatorUnavailable, Die, ReapStale, Land, Allocate, RollForward,
        DetachOrReattach, Answer
<1>4. QED
    BY <1>1, <1>2, <1>3 DEF Next, vars

\* One offer of a kind stays on sale, and what was replaced stays so.
LEMMA ListedStep ==
    ASSUME TypeOK, OneOfAKind, [Next]_vars
    PROVE  OneOfAKind' /\ \A o \in Offers : WasListed(o) => WasListed(o)'
<1>1. listed \subseteq Offers
    BY DEF TypeOK, ApiTypeOK
<1>2. CASE listed' = listed
    BY <1>2 DEF OneOfAKind, WasListed
<1>3. ASSUME NEW o \in Offers, Revise(o)
      PROVE  OneOfAKind' /\ \A q \in Offers : WasListed(q) => WasListed(q)'
    <2> DEFINE new == Revision[o]
    <2>1. /\ o \in listed /\ new \in Offers
          /\ listed' = (listed \ {o}) \cup {new}
          /\ KindOf[new] = KindOf[o] /\ Number[o] < Number[new]
        BY <1>3, ApiTyping, Numbering DEF Revise
    <2> HIDE DEF new
    <2>2. OneOfAKind'
        BY ONLY <2>1, OneOfAKind DEF OneOfAKind
    <2>3. ASSUME NEW q \in Offers, WasListed(q), KindOf[new] = KindOf[q]
          PROVE  Follows(new, q)
        <3>1. Follows(o, q)
            BY ONLY <2>1, <2>3 DEF WasListed
        <3>2. Number[o] \in Nat /\ Number[q] \in Nat /\ Number[new] \in Nat
            BY ONLY <2>1, <1>3, <2>3, Numbering
        <3>3. QED
            BY ONLY <2>1, <2>3, <3>1, <3>2 DEF Follows, Later
    <2>4. ASSUME NEW q \in Offers, WasListed(q)
          PROVE  WasListed(q)'
        BY ONLY <2>1, <2>3, <2>4 DEF WasListed, Follows, Later
    <2>5. QED
        BY ONLY <2>2, <2>4
<1>4. QED
    BY ONLY ListedChanges, [Next]_vars, <1>2, <1>3

\* Whatever is on sale counts as listed.
LEMMA OnSale ==
    ASSUME OneOfAKind, NEW o \in listed
    PROVE  WasListed(o)
BY DEF OneOfAKind, WasListed, Follows

\* One step of one call.
LEMMA CapCall ==
    ASSUME TypeOK, CapInv, NEW c \in Calls, [Next]_vars,
           CallStep(c) \/ \E k \in Licences : Begin(c, k)
    PROVE  CallWithinCap(c)'
<1>1. /\ CallWithinCap(c)
      /\ \A o \in Offers : WasListed(o) => WasListed(o)'
      /\ \A o \in listed : o \in Offers /\ WasListed(o)
    BY ListedStep, OnSale DEF CapInv, TypeOK, ApiTypeOK
<1>2. /\ seen[c] \in Offers \cup {None} /\ deal[c] \in Offers \cup {None}
      /\ paying[c] \in Payments \cup {None}
      /\ paying[c] # None => OfferOf[paying[c]] \in Offers
      /\ None \notin Offers
      /\ step[c] \in {"associating", "signing"} => deal[c] # None
    BY AgentTyping, ApiTyping DEF TypeOK, AgentTypeOK
<1>3. /\ step \in [Calls -> Running \cup {"idle"}]
      /\ asked \in [Calls -> Licences \cup {None}]
      /\ seen \in [Calls -> Offers \cup {None}]
      /\ deal \in [Calls -> Offers \cup {None}]
      /\ paying \in [Calls -> AgentPayments \cup {None}]
    BY DEF TypeOK, AgentTypeOK
<1> USE DEF CallWithinCap, Go, Tell
<1>4. CASE \E k \in Licences : Begin(c, k)
    BY ONLY <1>1, <1>2, <1>3, <1>4 DEF Begin
<1>5. CASE Look(c)
    <2>1. PICK o \in listed :
            /\ KindOf[o] = asked[c]
            /\ seen' = [seen EXCEPT ![c] = o]
            /\ IF Cents[o] > MaxSpend THEN Tell(c, "refused")
                                      ELSE Go(c, "quoting") /\ UNCHANGED result
        BY ONLY <1>5 DEF Look
    <2>2. /\ o # None /\ WasListed(o)' /\ Cents[o] \in Nat /\ MaxSpend \in Nat
          /\ step[c] = "listing" /\ UNCHANGED <<asked, deal, paying>>
        BY ONLY <1>1, <1>2, <1>5, ApiTyping, AgentTyping DEF Look
    <2>3. QED
        BY ONLY <1>1, <1>3, <2>1, <2>2
<1>6. CASE Quote(c)
    <2>1. PICK o \in listed : KindOf[o] = asked[c] /\ deal' = [deal EXCEPT ![c] = o]
        BY ONLY <1>6 DEF Quote, Quotable
    <2>2. /\ o \in Offers /\ WasListed(o)' /\ step[c] = "quoting"
          /\ UNCHANGED <<asked, seen, paying>> /\ step' = [step EXCEPT ![c] = "associating"]
        BY ONLY <1>1, <1>6 DEF Quote
    <2>3. Follows(o, seen[c])
        BY ONLY <1>1, <2>1, <2>2 DEF WasListed
    <2>4. QED
        BY ONLY <1>1, <1>2, <1>3, <2>1, <2>2, <2>3
<1>7. CASE \E p \in AgentPayments : SignByKey(c, p)
    <2> PICK p \in AgentPayments : SignByKey(c, p)
        BY ONLY <1>7
    <2>1. /\ step[c] = "signing" /\ OfferOf[p] = deal[c] /\ p # None
          /\ UNCHANGED <<asked, seen, deal>>
          /\ paying' = [paying EXCEPT ![c] = p] /\ step' = [step EXCEPT ![c] = "paying"]
        BY ONLY SignByKey(c, p), AgentTyping, ApiTyping DEF SignByKey, ByKey
    <2>2. QED
        BY ONLY <1>1, <1>2, <1>3, <2>1
<1>8. CASE Associate(c) \/ GiveUp(c) \/ Unanswered(c) \/ Save(c) \/ CannotSave(c)
    BY ONLY <1>1, <1>2, <1>3, <1>8 DEF Associate, GiveUp, Unanswered, Save, CannotSave
<1>9. CASE \E a \in Answers : PaidOrThrown(c, a)
    BY ONLY <1>1, <1>2, <1>3, <1>9 DEF PaidOrThrown
<1>10. QED
    BY <1>4, <1>5, <1>6, <1>7, <1>8, <1>9 DEF CallStep

LEMMA CapNext == TypeOK /\ CapInv /\ [Next]_vars => CapInv'
<1> SUFFICES ASSUME TypeOK, CapInv, [Next]_vars
             PROVE  CapInv'
    OBVIOUS
<1>1. /\ OneOfAKind' /\ \A o \in Offers : WasListed(o) => WasListed(o)'
      /\ \A p \in Payments : OfferOf[p] \in Offers
    BY ListedStep, ApiTyping DEF CapInv
<1>2. ASSUME NEW d \in Calls, UNCHANGED <<step[d], asked[d], seen[d], deal[d], paying[d]>>
      PROVE  CallWithinCap(d)'
    <2>1. /\ CallWithinCap(d)
          /\ seen[d] \in Offers \cup {None}
          /\ paying[d] \in Payments \cup {None}
          /\ deal[d] \in Offers \cup {None}
          /\ step[d] \in {"associating", "signing"} => deal[d] # None
        BY AgentTyping DEF TypeOK, AgentTypeOK, CapInv
    <2>2. QED
        BY ONLY <1>1, <1>2, <2>1 DEF CallWithinCap, Follows
<1>3. CASE UNCHANGED agentVars
    BY <1>1, <1>2, <1>3 DEF CapInv, agentVars, call
<1>4. ASSUME NEW c \in Calls, CallStep(c) \/ \E k \in Licences : Begin(c, k)
      PROVE  CapInv'
    <2>1. CallWithinCap(c)'
        BY <1>4, CapCall
    <2>2. ASSUME NEW d \in Calls \ {c}
          PROVE  UNCHANGED <<step[d], asked[d], seen[d], deal[d], paying[d]>>
        BY <1>4 DEF TypeOK, AgentTypeOK, CallStep, Begin, Look, Quote, Associate,
            GiveUp, SignByKey, PaidOrThrown, Unanswered, Save, CannotSave, Go, Tell
    <2>3. QED
        BY ONLY <1>1, <1>2, <2>1, <2>2 DEF CapInv
<1>5. QED
    BY <1>3, <1>4 DEF Next, AgentStep, vars

LEMMA CapInit == Init => CapInv
BY ApiTyping, Revising
   DEF Init, ApiInit, AgentInit, CapInv, OneOfAKind, CallWithinCap

\* A program signs more than its owner's cap only when the offer it looked at
\* was replaced before it was quoted.
THEOREM CapIsHeld == Spec => []CapHolds
<1>1. TypeOK /\ CapInv => CapHolds
    <2> SUFFICES ASSUME TypeOK, CapInv, NEW c \in Calls, paying[c] # None,
                        PriceOf[paying[c]] > MaxSpend, seen[c] \in listed
                 PROVE  FALSE
        BY DEF CapHolds
    <2> DEFINE o == OfferOf[paying[c]]
    <2>1. paying[c] \in Payments /\ o \in Offers /\ seen[c] \in Offers
        BY ApiTyping, AgentTyping DEF TypeOK, ApiTypeOK, AgentTypeOK
    <2>2. Cents[o] > MaxSpend
        BY <2>1 DEF PriceOf
    <2>3. Follows(o, seen[c]) /\ WasListed(o) /\ (o = seen[c] => Cents[o] <= MaxSpend)
        BY DEF CapInv, CallWithinCap
    <2>4. Cents[o] \in Nat /\ MaxSpend \in Nat
          /\ Number[o] \in Nat /\ Number[seen[c]] \in Nat
        BY <2>1, ApiTyping, AgentTyping, Numbering
    <2> HIDE DEF o
    <2>5. o # seen[c]
        BY <2>2, <2>3, <2>4
    <2>6. Follows(seen[c], o)
        BY <2>3 DEF WasListed, Follows
    <2>7. QED
        BY ONLY <2>3, <2>4, <2>5, <2>6 DEF Follows, Later
<1>2. QED
    BY <1>1, CapInit, CapNext, TypeCorrect, PTL DEF Spec

=============================================================================
