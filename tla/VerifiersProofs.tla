-------------------------- MODULE VerifiersProofs --------------------------
(***************************************************************************)
(* What the independent tools say of a licence, whatever the shop does     *)
(* meanwhile, for any number of licences, bundles and verifications.       *)
(***************************************************************************)
EXTENDS Verifiers, CertificatesProofs

\* The tools read the shop's state and change none of it.
LEMMA ToolsOnlyRead == [Next]_vars => [CertStep]_certVars
BY DEF Next, vars, ToolStep, Load, CannotLoad, Read, NotIndexed, NoMirror, Run,
       Remove, SetAttribute, Begin, Index

LEMMA ShopInvariants == Spec => [](Shape /\ GivenInv)
<1>1. Init => Shape /\ GivenInv
    BY ShapeInit, GivenInit DEF Init
<1>2. (Shape /\ GivenInv) /\ [Next]_vars => (Shape /\ GivenInv)'
    BY ToolsOnlyRead, ShapeNext, GivenNext
<1>3. QED
    BY <1>1, <1>2, PTL DEF Spec

-----------------------------------------------------------------------------
(* What the topic has it keeps, and what was handed out with a cart, or by *)
(* an earlier release, is what its licence is anchored at.                 *)

Grows == Len(topic) <= Len(topic') /\ \A n \in 1 .. Len(topic) : topic'[n] = topic[n]

LEMMA TopicGrows == Shape /\ [CertStep]_certVars => Grows
<1> SUFFICES ASSUME Shape, [CertStep]_certVars
             PROVE  Grows
    OBVIOUS
<1>1. topic \in Seq(Certs) /\ Len(topic) \in Nat
    BY DEF Shape, SideOK, SidecarTypeOK
<1>2. CASE topic' = topic
    BY <1>1, <1>2 DEF Grows
<1>3. CASE SidecarStep
    BY <1>3, ShapeSidecar DEF Grows
<1>4. CASE CertStep /\ ~SidecarStep
    <2>1. CASE \E w \in Workers :
                  \/ BuildAndSubmit(w) \/ Record(w) \/ RetryOrFail(w) \/ Crash(w)
                  \/ PayoutTold(w)
                  \/ \E l \in Licences : Start(w, l)
                  \/ \E x \in Payouts : Pay(w, x)
        BY <1>2, <2>1, ShapeWorker
    <2>2. CASE \/ \E r \in Requests :
                    \/ Deliver(r) \/ HandOver(r) \/ Drop(r)
                    \/ \E l \in Licences : Present(r, l)
               \/ \E l \in Licences : DeliverBatch(l) \/ RollForward(l) \/ RetryCertificate(l)
        BY <1>2, <2>2 DEF Deliver, HandOver, Drop, Present, DeliverBatch, RollForward,
            RetryCertificate, sidecarVars
    <2>3. QED
        BY ONLY <1>4, <2>1, <2>2 DEF CertStep
<1>5. CASE UNCHANGED certVars
    BY <1>2, <1>5 DEF certVars, sidecarVars
<1>6. QED
    BY <1>3, <1>4, <1>5

\* A cart's licence is delivered with its certificate unless the Reaper does it.
HandedOut == \A l \in BuiltFirst : l \in delivered => given[l] # {}

LEMMA HandedOutAlways == Spec => []HandedOut
<1>1. Init => HandedOut
    BY CertificateTyping DEF Init, CertInit, HandedOut, BuiltFirst
<1>2. Shape /\ GivenInv /\ HandedOut /\ [Next]_vars => HandedOut'
    <2> SUFFICES ASSUME Shape, GivenInv, HandedOut, CertStep
                 PROVE  HandedOut'
        BY ToolsOnlyRead DEF HandedOut, certVars, row, actors
    <2>1. \A l \in Licences : given[l] # {} => given'[l] # {}
        <3>1. given \in [Licences -> SUBSET Certs]
            BY DEF Shape, RowOK
        <3>2. CASE \E r \in Requests : HandOver(r)
            BY <3>1, <3>2 DEF HandOver
        <3>3. CASE \E l \in Licences : DeliverBatch(l)
            BY <3>1, <3>3 DEF DeliverBatch
        <3>4. CASE given' = given
            BY ONLY <3>4
        <3>5. SidecarStep => given' = given
            BY DEF SidecarStep, actors
        <3>6. ASSUME NEW w \in Workers,
                     \/ BuildAndSubmit(w) \/ Record(w) \/ RetryOrFail(w) \/ Crash(w)
                     \/ PayoutTold(w)
                     \/ \E l \in Licences : Start(w, l)
                     \/ \E x \in Payouts : Pay(w, x)
              PROVE  given' = given
            BY ONLY <3>6 DEF Start, BuildAndSubmit, Record, RetryOrFail, Crash, PayoutTold,
                Pay, Finish, row
        <3>7. CASE \/ \E r \in Requests :
                        Deliver(r) \/ Drop(r) \/ \E l \in Licences : Present(r, l)
                   \/ \E l \in Licences : RollForward(l) \/ RetryCertificate(l)
            BY ONLY <3>4, <3>7 DEF Deliver, Drop, Present, RollForward, RetryCertificate, row
        <3>8. QED
            BY ONLY CertStep, <3>2, <3>3, <3>4, <3>5, <3>6, <3>7 DEF CertStep
    <2>2. ASSUME NEW l \in BuiltFirst, l \in delivered'
          PROVE  l \in delivered \/ given'[l] # {}
        <3>1. given \in [Licences -> SUBSET Certs] /\ l \in Licences
            BY CertificateTyping DEF Shape, RowOK, BuiltFirst
        <3>2. l \in Legacy => given[l] # {}
            BY DEF GivenInv
        <3>3. l \in Batched => \A r \in Requests : req[r].at # "idle" => req[r].on # l
            BY DEF GivenInv
        <3>4. CASE l \in Legacy
            BY <2>1, <3>1, <3>2, <3>4
        <3>5. CASE l \in Batched \ Aged
            <4>1. ~\E r \in Requests : Deliver(r) /\ req[r].on = l
                BY <3>3, <3>5 DEF Deliver
            <4>2. ~RollForward(l)
                BY <3>5 DEF RollForward
            <4>3. DeliverBatch(l) => given'[l] # {}
                BY <3>1 DEF DeliverBatch
            <4>4. CASE ~DeliverBatch(l)
                BY <2>2, <4>1, <4>2, <4>4
                   DEF CertStep, Deliver, HandOver, Drop, Present, DeliverBatch, RollForward,
                    RetryCertificate, Start, BuildAndSubmit, Record, RetryOrFail, Crash,
                    PayoutTold, Pay, SidecarStep, Finish, row
            <4>5. QED
                BY <4>3, <4>4
        <3>6. QED
            BY <3>4, <3>5 DEF BuiltFirst
    <2>3. QED
        BY <2>1, <2>2, CertificateTyping DEF HandedOut, BuiltFirst
<1>3. QED
    BY <1>1, <1>2, ShopInvariants, PTL DEF Spec

-----------------------------------------------------------------------------
(* One verification, by what it has in its hands.                          *)

Limit == IF tool = "poll" THEN PollAttempts ELSE MirrorAttempts

CheckFields ==
    [at : {"unused", "loading", "asking", "judging", "done"},
     url : Sources \cup {None}, pin : {Ours, None}, bundle : Bundles \cup {None},
     last : Bundles \cup {None}, tries : Nat]

\* A bundle the shop made of such a licence once it was anchored.
Anchored(b) ==
    /\ b.commitment = b.cert /\ b.terms = "same" /\ b.topic = Ours
    /\ b.seq \in 1 .. Len(topic) /\ topic[b.seq] = b.cert

Asking(k) == k.at \in {"asking", "judging"}

SoundCheck(k) ==
    /\ k.at # "unused" => k.url \in Sources
    /\ k.tries < Limit
    /\ k.at = "judging" => tool = "smoke"
    /\ tool # "widget" => k.pin = None
    /\ Asking(k) =>
        /\ k.bundle # None
        /\ k.pin # None => k.bundle.topic = k.pin
        /\ k.url \in BuiltFirst => Anchored(k.bundle)

\* What verified means: the message that was read is there for good.
Proved(b, expected) ==
    /\ b \in Bundles /\ MessageAt(b) # None /\ MessageAt(b) = b.cert
    /\ expected # None => b.topic = expected
    /\ tool # "poll" => b.commitment = b.cert

Current ==
    tool = "widget" /\ present =>
        /\ latest # 0
        /\ check[latest].url = url
        /\ Asking(check[latest]) => check[latest].pin = pin
        /\ shown # Nothing => shown.url = url /\ shown.pin = pin

Typing ==
    /\ tool \in Tools /\ url \in Sources /\ pin \in {Ours, None}
    /\ tool # "widget" => pin = None
    /\ present \in BOOLEAN
    /\ latest \in 0 .. MaxChecks
    /\ check \in [Checks -> CheckFields]
    /\ shown.verdict \in Verdicts \cup {"none"}

ToolInv ==
    /\ Typing /\ indexed \in 0 .. Len(topic)
    /\ \A n \in Checks : SoundCheck(check[n])
    /\ shown.verdict = "verified" => Proved(shown.bundle, shown.pin)
    /\ HonestNeverFails
    /\ Current

\* What is to be shown as the end of a verification.
Told(n, verdict, b, expected) ==
    /\ verdict \in Verdicts
    /\ tool = "widget" /\ present /\ n = latest => expected = pin
    /\ verdict = "verified" => Proved(b, expected)
    /\ verdict = "failed" /\ check[n].url \in BuiltFirst => tool # "poll" /\ ~WellFormed(b.cert)

LEMMA Concluded ==
    ASSUME ToolInv, NEW n \in Checks, NEW verdict, NEW b, NEW e,
           check[n].at # "unused", Told(n, verdict, b, e), Conclude(n, verdict, b, e),
           UNCHANGED <<certVars, indexed>>
    PROVE  ToolInv'
<1> DEFINE k == [check[n] EXCEPT !.at = "done", !.bundle = None, !.last = None]
<1>1. /\ check' = [check EXCEPT ![n] = k]
      /\ UNCHANGED <<tool, url, pin, present, latest, indexed, topic>>
      /\ check \in [Checks -> CheckFields] /\ check[n] \in CheckFields
    BY DEF Conclude, ToolInv, Typing, certVars, sidecarVars
<1>2. k \in CheckFields /\ k.at = "done" /\ k.url = check[n].url
      /\ k.tries = check[n].tries /\ k.pin = check[n].pin
    BY ONLY <1>1 DEF CheckFields
<1>3. SoundCheck(k)
    BY ONLY <1>2, ToolInv, check[n].at # "unused" DEF ToolInv, SoundCheck, Asking
<1> HIDE DEF k
<1>4. shown' = shown \/ (n = latest /\ shown' = [verdict |-> verdict, url |-> check[n].url,
                                                 pin |-> e, bundle |-> b])
    BY DEF Conclude, Show
<1>5. Typing' /\ (indexed \in 0 .. Len(topic))'
    BY ONLY <1>1, <1>2, <1>4, ToolInv, Told(n, verdict, b, e) DEF Typing, ToolInv, Told
<1>6. (\A m \in Checks : SoundCheck(check[m]))'
    <2> SUFFICES ASSUME NEW m \in Checks PROVE SoundCheck(check[m])'
        OBVIOUS
    <2>1. check'[m] = (IF m = n THEN k ELSE check[m]) /\ SoundCheck(check[m])
        BY ONLY <1>1, ToolInv DEF ToolInv
    <2>2. QED
        BY ONLY <1>1, <1>3, <2>1 DEF SoundCheck, Anchored, Limit, Asking
<1>7. (shown.verdict = "verified" => Proved(shown.bundle, shown.pin))'
    BY <1>1, <1>4 DEF Proved, MessageAt, Told, ToolInv
<1>8. HonestNeverFails'
    BY ONLY <1>1, <1>4, ToolInv, Told(n, verdict, b, e) DEF HonestNeverFails, Told, ToolInv
<1>9. Current'
    BY ONLY <1>1, <1>2, <1>4, ToolInv, Told(n, verdict, b, e)
       DEF Current, Told, ToolInv, Asking
<1>10. QED
    BY <1>5, <1>6, <1>7, <1>8, <1>9 DEF ToolInv

LEMMA Moved ==
    ASSUME ToolInv, NEW n \in Checks, NEW k \in CheckFields, SoundCheck(k),
           k.url = check[n].url,
           tool = "widget" /\ present /\ n = latest /\ Asking(k) => k.pin = pin,
           check' = [check EXCEPT ![n] = k],
           UNCHANGED <<tool, url, pin, present, latest, shown, certVars, indexed>>
    PROVE  ToolInv'
<1>1. UNCHANGED <<topic, seq, cert>> /\ check \in [Checks -> CheckFields]
    BY DEF certVars, sidecarVars, row, ToolInv, Typing
<1>2. Typing' /\ (indexed \in 0 .. Len(topic))'
    BY <1>1 DEF Typing, ToolInv
<1>3. (\A m \in Checks : SoundCheck(check[m]))'
    <2> SUFFICES ASSUME NEW m \in Checks PROVE SoundCheck(check[m])'
        OBVIOUS
    <2>1. check'[m] = (IF m = n THEN k ELSE check[m]) /\ SoundCheck(check[m])
        BY <1>1 DEF ToolInv
    <2>2. QED
        BY <1>1, <2>1 DEF SoundCheck, Anchored, Limit, Asking
<1>4. (shown.verdict = "verified" => Proved(shown.bundle, shown.pin))'
    BY <1>1 DEF Proved, MessageAt, ToolInv
<1>5. HonestNeverFails' /\ Current'
    BY <1>1 DEF HonestNeverFails, Current, ToolInv, Asking
<1>6. QED
    BY <1>2, <1>3, <1>4, <1>5 DEF ToolInv

\* A round of certificate-poll that is repeated or was the last.
LEMMA Retried ==
    ASSUME ToolInv, NEW n \in Checks, NEW answer \in Bundles \cup {None},
           tool = "poll", check[n].at # "unused", Retry(n, answer),
           UNCHANGED <<certVars, indexed>>
    PROVE  ToolInv'
<1> DEFINE last == IF answer = None THEN check[n].last ELSE answer
           more == check[n].tries + 1
           k == [check[n] EXCEPT !.at = "loading", !.tries = more, !.bundle = None, !.last = last]
<1>1. /\ check[n] \in CheckFields /\ SoundCheck(check[n])
      /\ last \in Bundles \cup {None} /\ more \in Nat
    BY DEF ToolInv, Typing, CheckFields
<1>2. CASE check[n].tries + 1 < PollAttempts
    <2>1. /\ check' = [check EXCEPT ![n] = k]
          /\ UNCHANGED <<tool, url, pin, present, latest, shown>>
        BY <1>1, <1>2 DEF Retry, CheckFields
    <2>2. more < Limit
        BY <1>2 DEF Limit
    <2> HIDE DEF last, more
    <2>3. /\ k \in CheckFields /\ k.at = "loading" /\ k.url = check[n].url
          /\ k.tries = more /\ k.pin = check[n].pin
        BY ONLY <1>1 DEF CheckFields
    <2> HIDE DEF k
    <2>4. SoundCheck(k) /\ ~Asking(k)
        BY ONLY <1>1, <2>2, <2>3, check[n].at # "unused"
           DEF SoundCheck, Asking
    <2>5. QED
        BY <2>1, <2>3, <2>4, Moved
<1>3. CASE ~(check[n].tries + 1 < PollAttempts)
    <2> DEFINE verdict == IF last = None THEN "error" ELSE "unproven"
    <2>1. Conclude(n, verdict, last, None)
        BY <1>3 DEF Retry
    <2>2. Told(n, verdict, last, None)
        BY DEF Told, Verdicts
    <2> HIDE DEF last, verdict
    <2>3. QED
        BY <2>1, <2>2, Concluded
<1>4. QED
    BY <1>2, <1>3

\* A bundle that was read holds together, and one of such a licence is true.
LEMMA Bundled ==
    ASSUME Shape, GivenInv, HandedOut, NEW source \in Sources,
           source \in Licences => source \in delivered
    PROVE  /\ BundleAt(source) \in Bundles
           /\ source \in BuiltFirst =>
                LET b == BundleAt(source) IN
                b.topic \in {Ours, None} /\ (b.topic # None => Anchored(b))
<1>1. CASE source \in Licences
    <2>1. /\ cert[source] \in Certs \cup {None} /\ seq[source] \in 0 .. Len(topic)
          /\ Len(topic) \in Nat
        BY <1>1 DEF Shape, RowOK, SideOK, SidecarTypeOK
    <2>2. /\ BundleAt(source) =
             [cert |-> cert[source], commitment |-> cert[source], terms |-> "same",
              topic |-> IF seq[source] = 0 THEN None ELSE Ours, seq |-> seq[source]]
        BY <1>1 DEF BundleAt, BundleOf
    <2>3. BundleAt(source) \in Bundles
        BY ONLY <2>1, <2>2 DEF Bundles
    <2>4. ASSUME source \in BuiltFirst
          PROVE  seq[source] # 0 => topic[seq[source]] = cert[source]
        BY <1>1, <2>4 DEF HandedOut, GivenInv, Settled, BuiltFirst
    <2>5. QED
        BY ONLY <2>1, <2>2, <2>3, <2>4 DEF Anchored
<1>2. CASE source \in Files
    <2>1. source \notin Licences /\ source \notin BuiltFirst
        BY <1>2, VerifierTyping, CertificateTyping DEF BuiltFirst
    <2>2. QED
        BY <1>2, <2>1, VerifierContents DEF BundleAt
<1>3. QED
    BY <1>1, <1>2 DEF Sources

LEMMA ToolLoad ==
    ASSUME Shape, GivenInv, HandedOut, ToolInv, NEW n \in Checks, Load(n)
    PROVE  ToolInv'
<1> DEFINE b == BundleAt(check[n].url)
           early == WithoutMirror(b, pin)
           k == [check[n] EXCEPT !.at = "asking", !.bundle = b, !.pin = pin]
<1>1. /\ check[n] \in CheckFields /\ SoundCheck(check[n]) /\ check[n].at = "loading"
      /\ UNCHANGED <<certVars, indexed>>
      /\ tool \in {"cli", "widget", "poll", "smoke"} /\ pin \in {Ours, None}
      /\ tool # "widget" => pin = None
    BY VerifierTyping DEF Load, ToolInv, Typing
<1>2. /\ b \in Bundles
      /\ check[n].url \in BuiltFirst =>
            b.topic \in {Ours, None} /\ (b.topic # None => Anchored(b))
    BY <1>1, Bundled DEF Load, SoundCheck
<1>3. CASE tool = "poll" /\ b.topic = None
    BY <1>1, <1>2, <1>3, Retried DEF Load
<1>4. CASE tool = "smoke" /\ b.topic = None
    <2>1. UNCHANGED <<toolVars, certVars, indexed>>
        BY <1>4 DEF Load
    <2>2. QED
        BY <2>1 DEF toolVars, certVars, sidecarVars, ToolInv, Typing, SoundCheck, Anchored,
            Limit, Asking, Proved, MessageAt, HonestNeverFails, Current
<1>5. CASE tool \in {"cli", "widget"} /\ early # None
    <2>1. Conclude(n, early, b, pin)
        BY <1>5 DEF Load
    <2>2. Told(n, early, b, pin)
        BY <1>1, <1>2, <1>5 DEF Told, WithoutMirror, Verdicts
    <2> HIDE DEF b, early
    <2>3. QED
        BY <1>1, <2>1, <2>2, Concluded
<1>6. CASE /\ ~(tool \in {"poll", "smoke"} /\ b.topic = None)
           /\ ~(tool \in {"cli", "widget"} /\ early # None)
    <2>1. Proceed(n, "asking", b, pin)
        BY <1>6 DEF Load
    <2>2. /\ check' = [check EXCEPT ![n] = k]
          /\ UNCHANGED <<tool, url, pin, present, latest, shown>>
        BY <2>1 DEF Proceed
    <2>3. b.topic # None /\ (pin # None => b.topic = pin)
        BY <1>1, <1>6, VerifierContents DEF WithoutMirror, Verdicts
    <2> HIDE DEF b, early
    <2>4. k \in CheckFields /\ k.url = check[n].url /\ k.pin = pin
        BY ONLY <1>1, <1>2 DEF CheckFields
    <2>5. SoundCheck(k)
        BY ONLY <1>1, <1>2, <2>3, VerifierContents DEF CheckFields, SoundCheck, Asking
    <2> HIDE DEF k
    <2>6. QED
        BY ONLY <1>1, <2>2, <2>4, <2>5, ToolInv, n \in Checks, Moved
<1>7. QED
    BY ONLY <1>1, <1>3, <1>4, <1>5, <1>6

LEMMA ToolCannotLoad ==
    ASSUME ToolInv, NEW n \in Checks, CannotLoad(n)
    PROVE  ToolInv'
<1>1. check[n].at = "loading" /\ UNCHANGED <<certVars, indexed>>
    BY DEF CannotLoad
<1>2. Told(n, "error", None, pin)
    BY DEF Told, Verdicts
<1>3. CASE Conclude(n, "error", None, pin)
    BY <1>1, <1>2, <1>3, Concluded
<1>4. CASE tool = "poll" /\ Retry(n, None)
    BY <1>1, <1>4, Retried
<1>5. QED
    BY <1>3, <1>4 DEF CannotLoad

\* A verification that asks the mirror node.
LEMMA InHand ==
    ASSUME ToolInv, NEW n \in Checks, Asking(check[n])
    PROVE  /\ check[n] \in CheckFields /\ SoundCheck(check[n])
           /\ check[n].at # "unused" /\ check[n].bundle \in Bundles
           /\ check[n].pin # None => check[n].bundle.topic = check[n].pin
           /\ check[n].url \in BuiltFirst => Anchored(check[n].bundle)
           /\ tool = "widget" /\ present /\ n = latest => check[n].pin = pin
<1>1. check[n] \in CheckFields /\ SoundCheck(check[n])
    BY DEF ToolInv, Typing
<1>2. QED
    BY <1>1 DEF ToolInv, Current, SoundCheck, CheckFields, Asking

LEMMA ToolRead ==
    ASSUME ToolInv, NEW n \in Checks, Read(n)
    PROVE  ToolInv'
<1> DEFINE b == check[n].bundle
           m == MessageAt(b)
           k == [check[n] EXCEPT !.at = "judging", !.bundle = b, !.pin = None]
<1>1. /\ Asking(check[n]) /\ m # None
      /\ UNCHANGED <<certVars, indexed>>
    BY DEF Read, Asking
<1>2. /\ check[n] \in CheckFields /\ SoundCheck(check[n])
      /\ check[n].at # "unused" /\ b \in Bundles
      /\ check[n].pin # None => b.topic = check[n].pin
      /\ check[n].url \in BuiltFirst => Anchored(b)
      /\ tool = "widget" /\ present /\ n = latest => check[n].pin = pin
    BY <1>1, InHand
<1>3. check[n].url \in BuiltFirst => m = b.cert /\ b.commitment = b.cert /\ b.terms = "same"
    BY <1>1, <1>2, VerifierTyping DEF Anchored, MessageAt
<1>4. CASE tool = "poll"
    <2>1. Conclude(n, Match(b, m), b, None)
        BY <1>4 DEF Read
    <2>2. Told(n, Match(b, m), b, None)
        BY <1>1, <1>2, <1>3, <1>4 DEF Told, Match, Verdicts, Proved
    <2>3. QED
        BY <1>1, <1>2, <2>1, <2>2, Concluded
<1>5. CASE tool = "smoke" /\ check[n].at = "asking"
    <2>1. /\ check' = [check EXCEPT ![n] = k]
          /\ UNCHANGED <<tool, url, pin, present, latest, shown>>
        BY <1>5 DEF Read, Proceed
    <2> HIDE DEF b, m
    <2>2. k \in CheckFields /\ k.url = check[n].url
        BY ONLY <1>2 DEF CheckFields
    <2>3. SoundCheck(k)
        BY ONLY <1>2, <1>5, VerifierContents DEF CheckFields, SoundCheck, Asking, Limit
    <2> HIDE DEF k
    <2>4. QED
        BY ONLY <1>1, <1>5, <2>1, <2>2, <2>3, ToolInv, n \in Checks, Moved
<1>6. CASE tool # "poll" /\ ~(tool = "smoke" /\ check[n].at = "asking")
    <2>1. Conclude(n, Judge(b, m), b, check[n].pin)
        BY <1>6 DEF Read
    <2>2. Told(n, Judge(b, m), b, check[n].pin)
        BY <1>1, <1>2, <1>3, <1>6 DEF Told, Judge, Verdicts, Proved
    <2>3. QED
        BY <1>1, <1>2, <2>1, <2>2, Concluded
<1>7. QED
    BY ONLY <1>4, <1>5, <1>6

LEMMA ToolNoMessage ==
    ASSUME ToolInv, NEW n \in Checks, NotIndexed(n) \/ NoMirror(n)
    PROVE  ToolInv'
<1> DEFINE b == check[n].bundle
           k == [check[n] EXCEPT !.tries = @ + 1]
<1>1. Asking(check[n]) /\ UNCHANGED <<certVars, indexed>>
    BY DEF NotIndexed, NoMirror, Asking
<1>2. /\ check[n] \in CheckFields /\ SoundCheck(check[n])
      /\ check[n].at # "unused" /\ b \in Bundles
      /\ tool = "widget" /\ present /\ n = latest => check[n].pin = pin
    BY <1>1, InHand
<1>3. Told(n, "error", b, check[n].pin) /\ (tool = "poll" => Told(n, "unproven", b, None))
    BY <1>2 DEF Told, Verdicts
<1>4. CASE UNCHANGED toolVars
    BY <1>1, <1>4 DEF toolVars, certVars, sidecarVars, ToolInv, Typing, SoundCheck, Anchored,
        Limit, Asking, Proved, MessageAt, HonestNeverFails, Current
<1>5. CASE Conclude(n, "error", b, check[n].pin) \/ (tool = "poll" /\ Conclude(n, "unproven", b, None))
    BY <1>1, <1>2, <1>3, <1>5, Concluded
<1>6. CASE tool = "poll" /\ Retry(n, None)
    BY <1>1, <1>2, <1>6, Retried
<1>7. CASE Patient(n) /\ check[n].tries + 1 < MirrorAttempts /\ Again(n)
    <2>1. /\ check' = [check EXCEPT ![n] = k]
          /\ UNCHANGED <<tool, url, pin, present, latest, shown>>
        BY <1>2, <1>7 DEF Again, CheckFields
    <2>2. Limit = MirrorAttempts
        BY <1>2, <1>7 DEF Patient, Limit, SoundCheck
    <2> HIDE DEF b
    <2>3. k \in CheckFields /\ k.url = check[n].url /\ k.pin = check[n].pin
        BY ONLY <1>2 DEF CheckFields
    <2>4. SoundCheck(k)
        BY ONLY <1>2, <1>7, <2>2 DEF CheckFields, SoundCheck, Asking
    <2> HIDE DEF k
    <2>5. QED
        BY ONLY <1>1, <1>2, <2>1, <2>3, <2>4, ToolInv, n \in Checks, Moved
<1>8. QED
    BY <1>4, <1>5, <1>6, <1>7 DEF NotIndexed, NoMirror

\* A new verification, which the outcome on display gives way to.
LEMMA ToolBegin ==
    ASSUME ToolInv, NEW source \in Sources, NEW expected \in {Ours, None},
           tool # "widget" => expected = None,
           Begin(source, expected), present' \in BOOLEAN
    PROVE  ToolInv'
<1> DEFINE n == latest + 1
           k == [Unused EXCEPT !.at = "loading", !.url = source]
<1>1. /\ n \in Checks /\ latest' = n /\ n # 0
      /\ check' = [check EXCEPT ![n] = k] /\ check \in [Checks -> CheckFields]
      /\ shown' = Nothing /\ url' = source /\ pin' = expected
      /\ UNCHANGED <<tool, indexed, topic>>
    BY VerifierTyping DEF Begin, ToolInv, Typing, Checks, certVars, sidecarVars
<1>2. /\ k \in CheckFields /\ k.at = "loading" /\ k.url = source /\ k.tries = 0
      /\ k.pin = None
    BY DEF Unused, CheckFields
<1>3. SoundCheck(k)
    BY <1>2, VerifierTyping DEF SoundCheck, Limit, Asking
<1> HIDE DEF k
<1>4. Typing' /\ (indexed \in 0 .. Len(topic))'
    <2>1. latest' \in 0 .. MaxChecks
        BY <1>1 DEF Begin, ToolInv, Typing, Checks
    <2> HIDE DEF n
    <2>2. QED
        BY ONLY <1>1, <1>2, <2>1, ToolInv, present' \in BOOLEAN, source \in Sources,
            expected \in {Ours, None}, tool # "widget" => expected = None
           DEF Typing, ToolInv, Nothing
<1> HIDE DEF n
<1>5. (\A m \in Checks : SoundCheck(check[m]))'
    <2> SUFFICES ASSUME NEW m \in Checks PROVE SoundCheck(check[m])'
        OBVIOUS
    <2>1. check'[m] = (IF m = n THEN k ELSE check[m]) /\ SoundCheck(check[m])
        BY ONLY <1>1, ToolInv DEF ToolInv
    <2>2. QED
        BY ONLY <1>1, <1>3, <2>1 DEF SoundCheck, Anchored, Limit, Asking
<1>6. /\ (shown.verdict = "verified" => Proved(shown.bundle, shown.pin))'
      /\ HonestNeverFails'
    BY ONLY <1>1 DEF HonestNeverFails, Nothing
<1>7. Current'
    BY ONLY <1>1, <1>2 DEF Current, Asking
<1>8. QED
    BY ONLY <1>4, <1>5, <1>6, <1>7 DEF ToolInv

\* What stays true of a bundle and of an outcome while the topic grows.
LEMMA ShopMoves ==
    ASSUME ToolInv, Grows, Len(topic) \in Nat, Len(topic') \in Nat,
           indexed' \in 0 .. Len(topic'), indexed <= indexed', UNCHANGED toolVars
    PROVE  ToolInv'
<1>1. UNCHANGED <<tool, url, pin, present, latest, check, shown>>
    BY DEF toolVars
<1>2. ASSUME NEW b, Anchored(b)
      PROVE  Anchored(b)'
    BY ONLY <1>2, Grows, Len(topic) \in Nat, Len(topic') \in Nat DEF Anchored, Grows
<1>3. ASSUME NEW b \in Bundles, MessageAt(b) # None
      PROVE  MessageAt(b)' = MessageAt(b)
    BY ONLY <1>3, Grows, ToolInv, Len(topic) \in Nat, Len(topic') \in Nat,
        indexed' \in 0 .. Len(topic'), indexed <= indexed'
       DEF MessageAt, Grows, Bundles, ToolInv
<1>4. (\A m \in Checks : SoundCheck(check[m]))'
    <2> SUFFICES ASSUME NEW m \in Checks PROVE SoundCheck(check[m])'
        OBVIOUS
    <2>1. SoundCheck(check[m])
        BY DEF ToolInv
    <2>2. QED
        BY ONLY <1>1, <1>2, <2>1 DEF SoundCheck, Limit, Asking
<1>5. (shown.verdict = "verified" => Proved(shown.bundle, shown.pin))'
    BY ONLY <1>1, <1>3, ToolInv DEF ToolInv, Proved
<1>6. Typing' /\ HonestNeverFails' /\ Current'
    BY ONLY <1>1, ToolInv DEF ToolInv, Typing, HonestNeverFails, Current, Asking
<1>7. QED
    BY ONLY <1>4, <1>5, <1>6, indexed' \in 0 .. Len(topic') DEF ToolInv

LEMMA ToolNext ==
    Shape /\ GivenInv /\ HandedOut /\ ToolInv /\ [Next]_vars => ToolInv'
<1> SUFFICES ASSUME Shape, GivenInv, HandedOut, ToolInv, [Next]_vars
             PROVE  ToolInv'
    OBVIOUS
<1>1. /\ Len(topic) \in Nat /\ Len(topic') \in Nat /\ Grows
      /\ indexed \in 0 .. Len(topic)
    BY ToolsOnlyRead, ShapeNext, TopicGrows DEF Shape, SideOK, SidecarTypeOK, ToolInv
<1>2. CASE UNCHANGED toolVars /\ indexed' = indexed
    BY <1>1, <1>2, ShopMoves DEF Grows
<1>3. CASE Index
    <2>1. UNCHANGED <<topic, toolVars>> /\ indexed' = indexed + 1 /\ indexed < Len(topic)
        BY <1>3 DEF Index, certVars, sidecarVars
    <2>2. QED
        BY <1>1, <2>1, ShopMoves
<1>4. CASE \E n \in Checks :
              Load(n) \/ CannotLoad(n) \/ Read(n) \/ NotIndexed(n) \/ NoMirror(n)
    BY <1>4, ToolLoad, ToolCannotLoad, ToolRead, ToolNoMessage
<1>5. CASE Run
    <2>1. Begin(url, pin) /\ present' = TRUE
        BY <1>5 DEF Run
    <2>2. QED
        BY <2>1, ToolBegin DEF ToolInv, Typing
<1>6. ASSUME NEW s \in Settings, SetAttribute(s[1], s[2])
      PROVE  ToolInv'
    <2>1. s[1] \in Sources /\ s[2] \in {Ours, None} /\ tool = "widget"
        BY <1>6, VerifierTyping DEF SetAttribute, Sources
    <2>2. CASE present
        <3>1. Begin(s[1], s[2]) /\ present' = present
            BY <1>6, <2>2 DEF SetAttribute
        <3>2. QED
            BY <2>1, <3>1, ToolBegin DEF ToolInv, Typing
    <2>3. CASE ~present
        <3>1. /\ url' = s[1] /\ pin' = s[2]
              /\ UNCHANGED <<tool, present, latest, check, shown, indexed, topic>>
            BY <1>6, <2>3 DEF SetAttribute, certVars, sidecarVars
        <3>2. QED
            BY ONLY <2>1, <2>3, <3>1, ToolInv
               DEF ToolInv, Typing, SoundCheck, Anchored, Limit, Asking, Proved, MessageAt,
                HonestNeverFails, Current
    <2>4. QED
        BY <2>2, <2>3
<1>7. CASE Remove
    <2>1. UNCHANGED <<tool, url, pin, latest, check, shown, indexed, topic>> /\ present' = FALSE
        BY <1>7 DEF Remove, certVars, sidecarVars
    <2>2. QED
        BY ONLY <2>1, ToolInv
           DEF ToolInv, Typing, SoundCheck, Anchored, Limit, Asking, Proved, MessageAt,
            HonestNeverFails, Current
<1>8. QED
    BY <1>2, <1>3, <1>4, <1>5, <1>6, <1>7 DEF Next, ToolStep, vars

LEMMA ToolInitial == Init => ToolInv
<1> SUFFICES ASSUME Init PROVE ToolInv
    OBVIOUS
<1>1. /\ topic = <<>> /\ indexed = 0 /\ tool \in Tools /\ present = FALSE /\ latest = 0
      /\ check = [n \in Checks |-> Unused] /\ shown = Nothing
      /\ tool \in {"cli", "poll", "smoke"} => pin = None
    BY DEF Init, CertInit, SidecarInit, ToolInit
<1>2. url \in Sources /\ pin \in {Ours, None}
    BY VerifierTyping DEF Init, ToolInit, Sources
<1>3. Unused \in CheckFields /\ SoundCheck(Unused)
    BY VerifierTyping DEF Unused, CheckFields, SoundCheck, Limit, Asking
<1>4. indexed \in 0 .. Len(topic) /\ latest \in 0 .. MaxChecks
    BY <1>1, VerifierTyping
<1>5. Typing
    BY <1>1, <1>2, <1>3, <1>4, VerifierTyping DEF Typing, Nothing
<1>6. \A n \in Checks : SoundCheck(check[n])
    BY ONLY <1>1, <1>3
<1>7. shown.verdict = "none" /\ ~present
    BY ONLY <1>1 DEF Nothing
<1>8. QED
    BY ONLY <1>4, <1>5, <1>6, <1>7 DEF ToolInv, HonestNeverFails, Current

LEMMA ToolAlways == Spec => []ToolInv
BY ToolInitial, ToolNext, ShopInvariants, HandedOutAlways, PTL DEF Spec

-----------------------------------------------------------------------------

\* The tools, their verifications and the shop they look at are well typed.
THEOREM VerifiersTypeCorrect == Spec => []TypeOK
<1>1. Shape /\ ToolInv => TypeOK
    <2> SUFFICES ASSUME Shape, ToolInv PROVE ToolTypeOK
        BY ShapeTypes DEF TypeOK
    <2>1. ASSUME NEW n \in Checks
          PROVE  check[n] \in CheckFields /\ check[n].tries < Limit
        BY DEF ToolInv, Typing, SoundCheck
    <2>2. QED
        BY <2>1 DEF ToolInv, Typing, ToolTypeOK, CheckFields, Limit
<1>2. QED
    BY <1>1, ShopInvariants, ToolAlways, PTL

\* A tool that says verified is right about the ledger, and stays right.
THEOREM VerifiedStaysAnchored == Spec => []VerifiedIsAnchored
<1>1. ToolInv => VerifiedIsAnchored
    BY DEF ToolInv, Proved, VerifiedIsAnchored
<1>2. QED
    BY <1>1, ToolAlways, PTL

\* The element shows no outcome for attributes it no longer has.
THEOREM ShownStaysCurrent == Spec => []ShownIsCurrent
<1>1. ToolInv => ShownIsCurrent
    BY DEF ToolInv, Current, ShownIsCurrent
<1>2. QED
    BY <1>1, ToolAlways, PTL

\* No tool raises a false alarm about a certificate that was written before its
\* job could know of the licence.
THEOREM HonestIsNeverFailed == Spec => []HonestNeverFails
<1>1. ToolInv => HonestNeverFails
    BY DEF ToolInv
<1>2. QED
    BY <1>1, ToolAlways, PTL

=============================================================================
