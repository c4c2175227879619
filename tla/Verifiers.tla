----------------------------- MODULE Verifiers -----------------------------
(***************************************************************************)
(* The tools that check a licence against the public topic without asking  *)
(* the shop for a verdict: the verifier's command line, its twin in the    *)
(* browser, the SDK's verify as certificate-poll repeats it, and the smoke *)
(* test.  A behaviour follows one of them: they share no state.            *)
(***************************************************************************)
EXTENDS Certificates

CONSTANTS
    Tools,              \* those followed: "cli", "widget", "poll", "smoke"
    Ours, Foreign,      \* the shop's topic and somebody else's
    ForeignMessage,     \* what the first message of that topic commits to
    Files,              \* bundles from elsewhere than the certificates endpoint
    Contents,           \* what they hold
    MirrorAttempts,     \* MIRROR_ATTEMPTS
    PollAttempts,       \* attempts of certificate-poll
    Settings,           \* bound: what is checked, and the topic expected or None
    MaxChecks           \* bound: verifications a page's element starts

ASSUME VerifierTyping ==
    /\ Tools \subseteq {"cli", "widget", "poll", "smoke"}
    /\ Ours # Foreign
    /\ ForeignMessage \in Certs
    /\ Files \cap Licences = {}
    /\ Settings \subseteq (Licences \cup Files) \X {Ours, None}
    /\ MirrorAttempts \in Nat \ {0} /\ PollAttempts \in Nat \ {0}
    /\ MaxChecks \in Nat \ {0}

VARIABLES
    indexed,    \* messages of the topic that the mirror node shows
    tool,
    url, pin,   \* what to check, and the topic it must be anchored on, if any:
                \* the element's attributes, the command's arguments
    present,    \* is the element in the document?
    latest,     \* requestNumber
    check,      \* verifications started
    shown       \* the outcome on display, or the last the caller was told

toolVars == <<tool, url, pin, present, latest, check, shown>>
vars     == <<certVars, indexed, toolVars>>

Sources == Licences \cup Files
Bundles == [cert : Certs \cup {None}, commitment : Certs \cup {None},
            terms : {"absent", "same", "other"},
            topic : {Ours, Foreign, None}, seq : Nat]
Checks  == 1 .. MaxChecks

Verdicts == {"verified", "failed", "pending", "unproven", "error"}

ASSUME VerifierContents ==
    Contents \in [Files -> Bundles] /\ None \notin Bundles \cup Sources \cup Verdicts

Nothing  == [verdict |-> "none", url |-> None, pin |-> None, bundle |-> None]
Unused   == [at |-> "unused", url |-> None, pin |-> None, bundle |-> None,
             last |-> None, tries |-> 0]

ToolTypeOK ==
    /\ indexed \in 0 .. Len(topic)
    /\ tool \in Tools
    /\ url \in Sources /\ pin \in {Ours, Foreign, None}
    /\ present \in BOOLEAN
    /\ latest \in 0 .. MaxChecks
    /\ \A n \in Checks :
        /\ check[n].at \in {"unused", "loading", "asking", "judging", "done"}
        /\ check[n].url \in Sources \cup {None}
        /\ check[n].bundle \in Bundles \cup {None}
        /\ check[n].last \in Bundles \cup {None}
        /\ check[n].tries < IF tool = "poll" THEN PollAttempts ELSE MirrorAttempts
    /\ shown.verdict \in Verdicts \cup {"none"}

TypeOK == CertTypeOK /\ ToolTypeOK

ToolInit ==
    /\ indexed = 0
    /\ tool \in Tools
    /\ \E s \in Settings : url = s[1] /\ pin = s[2]
    /\ tool \in {"cli", "poll", "smoke"} => pin = None
    /\ tool \in {"poll", "smoke"} => url \in Licences
    /\ present = FALSE
    /\ latest = 0
    /\ check = [n \in Checks |-> Unused]
    /\ shown = Nothing

-----------------------------------------------------------------------------
(* The verification of a bundle, as verifyBundle does it.                  *)

\* As a bug would have it: the terms are those of the offer as it stands today.
BundleOfTermsToday(l) ==
    [cert |-> cert[l], commitment |-> cert[l], terms |-> "other",
     topic |-> IF seq[l] = 0 THEN None ELSE Ours, seq |-> seq[l]]

\* Certificates::Bundle, as the certificates endpoint answers it now.
BundleOf(l) ==
    [cert |-> cert[l], commitment |-> cert[l], terms |-> "same",
     topic |-> IF seq[l] = 0 THEN None ELSE Ours, seq |-> seq[l]]

BundleAt(source) == IF source \in Licences THEN BundleOf(source) ELSE Contents[source]

\* The public mirror's message at a bundle's place, None if it shows none there.
MessageAt(b) ==
    IF b.topic = Foreign /\ b.seq = 1 THEN ForeignMessage
    ELSE IF b.topic = Ours /\ b.seq \in 1 .. indexed THEN topic[b.seq]
    ELSE None

\* PWC-1: version 1, with a unit serial.
WellFormed(c) == c.v = 1

\* Reached without asking the mirror: None if it must be asked.
WithoutMirror(b, expected) ==
    IF b.cert = None THEN "error"
    ELSE IF b.topic = None THEN "pending"
    ELSE IF expected # None /\ b.topic # expected THEN "failed"
    ELSE None

\* As a bug would have it: the message is compared with what the bundle says of
\* itself.
JudgeByItsWord(b, message) ==
    IF message = b.commitment /\ WellFormed(b.cert) /\ b.terms # "other"
    THEN "verified" ELSE "failed"

\* The commitment is recomputed from the certificate: it must be the bundle's
\* own and the message's.
Judge(b, message) ==
    IF /\ b.commitment = b.cert
       /\ message = b.cert
       /\ WellFormed(b.cert)
       /\ b.terms # "other"
    THEN "verified" ELSE "failed"

\* The SDK's match looks at nothing but the message.
Match(b, message) == IF message = b.cert THEN "verified" ELSE "failed"

-----------------------------------------------------------------------------
(* One verification.                                                       *)

Show(n, verdict, b, expected) ==
    shown' = [verdict |-> verdict, url |-> check[n].url, pin |-> expected, bundle |-> b]

\* As a bug would have it: whatever ends last is shown.
ConcludeAnyway(n, verdict, b, expected) ==
    /\ check' = [check EXCEPT ![n] = [@ EXCEPT !.at = "done", !.bundle = None, !.last = None]]
    /\ Show(n, verdict, b, expected)
    /\ UNCHANGED <<tool, url, pin, present, latest>>

\* A verification that another has overtaken ends in silence.
Conclude(n, verdict, b, expected) ==
    /\ check' = [check EXCEPT ![n] = [@ EXCEPT !.at = "done", !.bundle = None, !.last = None]]
    /\ IF n = latest THEN Show(n, verdict, b, expected) ELSE UNCHANGED shown
    /\ UNCHANGED <<tool, url, pin, present, latest>>

Proceed(n, place, b, expected) ==
    /\ check' = [check EXCEPT ![n] =
        [@ EXCEPT !.at = place, !.bundle = b, !.pin = expected]]
    /\ UNCHANGED <<tool, url, pin, present, latest, shown>>

\* The same question again.
Again(n) ==
    /\ check' = [check EXCEPT ![n].tries = @ + 1]
    /\ UNCHANGED <<tool, url, pin, present, latest, shown>>

\* A round of certificate-poll that found no anchor, or None if it failed: what
\* it was told last counts when the attempts are used up.
Retry(n, answer) ==
    LET last == IF answer = None THEN check[n].last ELSE answer IN
    IF check[n].tries + 1 < PollAttempts
    THEN /\ check' = [check EXCEPT ![n] =
                [@ EXCEPT !.at = "loading", !.tries = check[n].tries + 1,
                          !.bundle = None, !.last = last]]
         /\ UNCHANGED <<tool, url, pin, present, latest, shown>>
    ELSE Conclude(n, IF last = None THEN "error" ELSE "unproven", last, None)

\* The bundle is read; the element reads its other attributes only now.
Load(n) ==
    LET b == BundleAt(check[n].url)
        early == WithoutMirror(b, pin)
    IN  /\ check[n].at = "loading"
        /\ check[n].url \in Licences => check[n].url \in delivered
        /\ CASE tool = "poll" /\ b.topic = None -> Retry(n, b)
             [] tool = "smoke" /\ b.topic = None -> UNCHANGED toolVars
             [] OTHER -> IF tool \in {"cli", "widget"} /\ early # None
                         THEN Conclude(n, early, b, pin)
                         ELSE Proceed(n, "asking", b, pin)
        /\ UNCHANGED <<certVars, indexed>>

\* The bundle cannot be had: not there, or nobody answers.
CannotLoad(n) ==
    /\ check[n].at = "loading"
    /\ \/ Conclude(n, "error", None, pin)
       \/ tool = "poll" /\ Retry(n, None)
    /\ UNCHANGED <<certVars, indexed>>

\* The mirror node answers with the message.
Read(n) ==
    LET b == check[n].bundle
        m == MessageAt(b)
    IN  /\ check[n].at \in {"asking", "judging"} /\ m # None
        /\ CASE tool = "poll" -> Conclude(n, Match(b, m), b, None)
             [] tool = "smoke" /\ check[n].at = "asking" -> Proceed(n, "judging", b, None)
             [] OTHER -> Conclude(n, Judge(b, m), b, check[n].pin)
        /\ UNCHANGED <<certVars, indexed>>

\* The message is not indexed yet: the SDK says so, the smoke test waits, and
\* for the verifier and its twin that is an error.
NotIndexed(n) ==
    LET b == check[n].bundle IN
    /\ check[n].at \in {"asking", "judging"} /\ MessageAt(b) = None
    /\ CASE tool = "poll" -> Conclude(n, "unproven", b, None)
         [] tool = "smoke" /\ check[n].at = "asking" -> UNCHANGED toolVars
         [] OTHER -> Conclude(n, "error", b, check[n].pin)
    /\ UNCHANGED <<certVars, indexed>>

\* The verifier asks again; its twin does not, nor does the smoke test before it
\* hands over to the verifier.
Patient(n) == tool = "cli" \/ check[n].at = "judging"

\* As a bug would have it: the verifier never gives up.
NoMirrorForever(n) ==
    /\ check[n].at \in {"asking", "judging"}
    /\ \/ tool = "poll" /\ Retry(n, None)
       \/ Patient(n) /\ Again(n)
       \/ Conclude(n, "error", check[n].bundle, check[n].pin)
    /\ UNCHANGED <<certVars, indexed>>

\* A limit, a 5xx or no answer, for which there may be another attempt; or an
\* answer that no attempt mends.
NoMirror(n) ==
    /\ check[n].at \in {"asking", "judging"}
    /\ \/ tool = "poll" /\ Retry(n, None)
       \/ Patient(n) /\ check[n].tries + 1 < MirrorAttempts /\ Again(n)
       \/ Conclude(n, "error", check[n].bundle, check[n].pin)
    /\ UNCHANGED <<certVars, indexed>>

-----------------------------------------------------------------------------
(* What starts one.                                                        *)

\* The element's verify: the previous outcome is taken off the page.
Begin(source, expected) ==
    /\ latest < MaxChecks
    /\ latest' = latest + 1
    /\ check' = [check EXCEPT ![latest + 1] = [Unused EXCEPT !.at = "loading", !.url = source]]
    /\ shown' = Nothing
    /\ url' = source /\ pin' = expected
    /\ UNCHANGED <<tool, indexed, certVars>>

\* A command is run, a test started, or the element put into the page.
Run ==
    /\ ~present
    /\ tool = "widget" \/ latest = 0
    /\ present' = TRUE
    /\ Begin(url, pin)

\* attributeChangedCallback
SetAttribute(source, expected) ==
    /\ tool = "widget"
    /\ <<source, expected>> # <<url, pin>>
    /\ IF present
       THEN Begin(source, expected) /\ UNCHANGED present
       ELSE url' = source /\ pin' = expected
            /\ UNCHANGED <<tool, present, latest, check, shown, indexed, certVars>>

\* Taken out of the page: what is under way goes on.
Remove ==
    /\ tool = "widget" /\ present
    /\ present' = FALSE
    /\ UNCHANGED <<tool, url, pin, latest, check, shown, indexed, certVars>>

ToolStep ==
    \/ \E n \in Checks :
        Load(n) \/ CannotLoad(n) \/ Read(n) \/ NotIndexed(n) \/ NoMirror(n)
    \/ Run \/ Remove
    \/ \E s \in Settings : SetAttribute(s[1], s[2])

\* The mirror node shows the next message.
Index ==
    /\ indexed < Len(topic) /\ indexed' = indexed + 1
    /\ UNCHANGED <<certVars, toolVars>>

Init == CertInit /\ ToolInit
Next == ToolStep \/ Index \/ (CertStep /\ UNCHANGED <<indexed, toolVars>>)
Spec == Init /\ [][Next]_vars

-----------------------------------------------------------------------------
\* A tool that says verified is right about the ledger, by its own arithmetic:
\* the topic that was asked for, and no other where one was asked for, holds a
\* commitment to the very certificate shown.
VerifiedIsAnchored ==
    shown.verdict = "verified" =>
        /\ MessageAt(shown.bundle) = shown.bundle.cert
        /\ shown.pin # None => shown.bundle.topic = shown.pin
        /\ tool # "poll" => shown.bundle.commitment = shown.bundle.cert

\* The element never shows the outcome for attributes it no longer has, however
\* its verifications overtake each other and wherever it is moved meanwhile.
ShownIsCurrent ==
    tool = "widget" /\ present /\ shown # Nothing =>
        shown.url = url /\ shown.pin = pin

\* Certificates written before their job: a cart's child that the Reaper has
\* delivered has none, and two jobs may build two.
BuiltFirst == Legacy \cup (Batched \ Aged)

\* No false alarm: of a licence whose certificate was written before its job
\* and has the form the tool knows, no tool ever says that it failed.
HonestNeverFails ==
    shown.verdict = "failed" /\ shown.url \in BuiltFirst =>
        tool # "poll" /\ ~WellFormed(shown.bundle.cert)

=============================================================================
