--------------------------- MODULE PayoutsProofs ---------------------------
(***************************************************************************)
(* What Payouts keeps for any shares, designers, assets, jobs, sweeps and  *)
(* crashes.                                                                *)
(***************************************************************************)
EXTENDS Payouts, TLAPS

\* Attempts have the ref of their run, and only an idle runner has no job.
Named ==
    /\ \A p \in Shares : attempt[p] # "none" => ref[p] \in Refs
    /\ pc # "idle" => run \in Jobs
    /\ pc \in {"pay", "sent", "record"} => \A p \in loaded : ref[p] \in Refs

Typed == TypeOK /\ Named

LEMMA TypeInit == Init => Typed
<1> USE Typing DEF Init
<1>1. Init => /\ attempt \in [Shares -> Statuses]
              /\ error \in [Shares -> Errors]
              /\ ref \in [Shares -> Refs \cup {None}]
              /\ moved \in [Shares -> 0 .. MaxMoved]
    BY DEF Statuses, Errors
<1>2. Init => Named
    BY DEF Named
<1>3. Init => crashes \in 0 .. MaxCrashes /\ ready \subseteq Designers
    OBVIOUS
<1>4. QED
    BY <1>1, <1>2, <1>3 DEF TypeOK, Typed

\* A run that begins has the shape of a job, whether or not it is one.
LEMMA TypeBegin ==
    ASSUME Typed, NEW j \in Jobs, Begin(j), UNCHANGED jobs \/ jobs' = jobs \ {j}
    PROVE  TypeOK'
    BY DEF Typed, TypeOK, Begin, Eligible, Owed, ledger, attempts, hedera

LEMMA TypeRun ==
    ASSUME Typed, RunStep
    PROVE  TypeOK'
<1> USE Typing DEF Typed, TypeOK, Statuses, Errors, Refs, ledger, attempts, queue,
        runner, hedera, Stop
<1>1. CASE Start
    BY <1>1 DEF Start, Mark, Jobs, Idle
<1>2. CASE \E a \in Assets, lands \in BOOLEAN : Send(a, lands)
    <2>1. PICK a \in Assets, lands \in BOOLEAN : Send(a, lands)
        BY <1>2
    <2>2. moved' \in [Shares -> 0 .. MaxMoved]
        BY <2>1 DEF Send
    <2>3. QED
        BY <2>1, <2>2 DEF Send
<1>3. CASE Succeeded
    BY <1>3 DEF Succeeded
<1>4. CASE Record
    BY <1>4 DEF Record, Mark, Entries
<1>5. CASE RecordFailed
    BY <1>5 DEF RecordFailed, Mark
<1>6. CASE Unavailable
    <2>1. raised' \subseteq Jobs
        BY <1>6 DEF Unavailable, Automatic, Idle
    <2>2. QED
        BY <1>6, <2>1 DEF Unavailable, Mark
<1>7. CASE Ambiguous
    BY <1>7 DEF Ambiguous, MarkRun
<1>8. CASE Rejected
    BY <1>8 DEF Rejected, MarkRun
<1>9. CASE Finish
    BY <1>9 DEF Finish
<1>10. QED
    BY <1>1, <1>2, <1>3, <1>4, <1>5, <1>6, <1>7, <1>8, <1>9 DEF RunStep

LEMMA TypeRest ==
    ASSUME Typed, Next, ~RunStep
    PROVE  TypeOK'
<1> USE Typing DEF Typed, TypeOK, Statuses, Errors, Refs, ledger, attempts, queue,
        runner, hedera, Stop
<1>1. CASE \E p \in Shares : Book(p)
    BY <1>1 DEF Book
<1>2. CASE \E p \in Shares : DesignerRetry(p)
    <2>1. PICK p \in Shares : DesignerRetry(p)
        BY <1>2
    <2>2. attempt' \in [Shares -> Statuses]
        BY <2>1 DEF DesignerRetry
    <2>3. jobs' \subseteq Jobs
        <3>1. ref[p] \in Refs
            BY <2>1 DEF DesignerRetry, Named
        <3>2. QED
            BY <2>1, <3>1 DEF DesignerRetry, Owed, Jobs
    <2>4. QED
        BY <2>1, <2>2, <2>3 DEF DesignerRetry
<1>3. CASE \E c \in Checkouts : Enqueue(c)
    BY <1>3 DEF Enqueue, Jobs
<1>4. CASE \E d \in Designers : Activate(d)
    BY <1>4 DEF Activate
<1>5. CASE \E d \in Rechecked : Recheck(d)
    BY <1>5 DEF Recheck
<1>6. CASE \E j \in jobs : BeginJob(j)
    BY <1>6, TypeBegin DEF BeginJob
<1>7. CASE \E j \in raised : JobRetry(j)
    BY <1>7 DEF JobRetry, Jobs
<1>8. CASE \E j \in raised : JobExhaust(j)
    BY <1>8 DEF JobExhaust, Mark
<1>9. CASE \E j \in raised : CrashRaised(j)
    BY <1>9 DEF CrashRaised
<1>10. CASE BeginSweep
    <2>1. \A s \in SweepRefs : [ref |-> s, ids |-> Shares, tries |-> 0] \in Jobs
        BY DEF Jobs
    <2>2. QED
        BY <1>10, <2>1, TypeBegin DEF BeginSweep, Fresh
<1>11. CASE Crash
    <2>1. jobs' \subseteq Jobs
        BY <1>11 DEF Crash, Automatic, Idle
    <2>2. lost' \subseteq shares
        BY <1>11 DEF Crash, Entries
    <2>3. PICK begun \in SUBSET loaded :
             /\ Mark(begun, "processing", "none")
             /\ ref' = [p \in Shares |-> IF p \in begun THEN run.ref ELSE ref[p]]
        BY <1>11 DEF Crash
    <2>4. pc # "idle" /\ crashes' \in 0 .. MaxCrashes
        BY <1>11 DEF Crash
    <2>5. run.ref \in Refs
        BY <2>4 DEF Named, Jobs
    <2>6. QED
        BY <1>11, <2>1, <2>2, <2>3, <2>4, <2>5 DEF Crash, Mark
<1>12. QED
    BY <1>1, <1>2, <1>3, <1>4, <1>5, <1>6, <1>7, <1>8, <1>9, <1>10, <1>11
       DEF Next

\* Refs are only handed from a run to the attempts it starts.
LEMMA NamedStep ==
    ASSUME Typed, Next
    PROVE  Named'
<1> USE Typing DEF Typed, TypeOK, Named, attempts, queue, runner, Stop, Mark
<1>1. CASE Start
    <2>1. run.ref \in Refs
        BY <1>1 DEF Start, Jobs
    <2>2. QED
        BY <1>1, <2>1 DEF Start
<1>2. CASE Crash
    <2>1. run.ref \in Refs
        BY <1>2 DEF Crash, Jobs
    <2>2. QED
        BY <1>2, <2>1 DEF Crash
<1>3. CASE RunStep /\ ~Start
    <2>1. CASE Record \/ RecordFailed
        BY <2>1 DEF Record, RecordFailed, Entries
    <2>2. CASE Unavailable
        BY <2>2 DEF Unavailable, Remaining
    <2>3. CASE Ambiguous \/ Rejected
        BY <2>3 DEF Ambiguous, Rejected, MarkRun, Entries, Remaining
    <2>4. CASE Finish
        BY <2>4 DEF Finish, Unresolved
    <2>5. CASE Succeeded \/ \E a \in Assets, lands \in BOOLEAN : Send(a, lands)
        BY <2>5 DEF Succeeded, Send
    <2>6. QED
        BY <1>3, <2>1, <2>2, <2>3, <2>4, <2>5 DEF RunStep
<1>4. CASE \E p \in Shares : DesignerRetry(p)
    BY <1>4 DEF DesignerRetry
<1>5. CASE \/ \E j \in jobs : BeginJob(j)
           \/ BeginSweep
    <2>1. \A s \in SweepRefs : [ref |-> s, ids |-> Shares, tries |-> 0] \in Jobs
        BY DEF Jobs, Refs
    <2>2. QED
        BY <1>5, <2>1 DEF BeginJob, BeginSweep, Begin, Fresh
<1>6. CASE \E j \in raised : JobRetry(j) \/ JobExhaust(j) \/ CrashRaised(j)
    BY <1>6 DEF JobRetry, JobExhaust, CrashRaised
<1>7. CASE \/ \E p \in Shares : Book(p)
           \/ \E c \in Checkouts : Enqueue(c)
           \/ \E d \in Designers : Activate(d) \/ Recheck(d)
    BY <1>7 DEF Book, Enqueue, Activate, Recheck
<1>8. QED
    BY <1>1, <1>2, <1>3, <1>4, <1>5, <1>6, <1>7 DEF Next

LEMMA TypeStep == Typed /\ [Next]_vars => Typed'
<1>1. CASE UNCHANGED vars
    BY <1>1 DEF Typed, Named, TypeOK, vars, ledger, attempts, queue, runner, hedera
<1>2. QED
    BY <1>1, TypeRun, TypeRest, NamedStep DEF Typed

\* Every reachable state of the payouts is well typed: a run never loads a
\* share that is not owed to anyone, and no job is tried more than MaxTries times.
THEOREM TypeCorrect == Spec => []TypeOK
    <1>1. Typed => TypeOK
    BY DEF Typed
<1>2. QED
    BY <1>1, TypeInit, TypeStep, PTL DEF Spec

-----------------------------------------------------------------------------
(* The ledger.  What a run has loaded stays unpaid until it records it, and  *)
(* it records a transfer only while it knows that it landed.                 *)

RunInv ==
    /\ pc = "idle" => loaded = {}
    /\ landed => pc \in {"sent", "record"}
    /\ pc = "record" => landed
    /\ landed => \A p \in Entries : moved[p] > 0
    /\ loaded \cap paid = {}

LedgerInv == Typed /\ RunInv /\ LedgerIsTrue

LEMMA LedgerInit == Init => LedgerInv
<1>1. Init => RunInv /\ LedgerIsTrue
    BY DEF Init, RunInv, LedgerIsTrue
<1>2. QED
    BY <1>1, TypeInit DEF LedgerInv

LEMMA LedgerRun ==
    ASSUME LedgerInv, RunStep
    PROVE  (RunInv /\ LedgerIsTrue)'
<1> USE Typing DEF LedgerInv, Typed, TypeOK, RunInv, LedgerIsTrue, Entries,
        ledger, attempts, queue, runner, hedera, Stop
<1>1. CASE Start
    BY <1>1 DEF Start, Mark
<1>2. CASE \E a \in Assets, lands \in BOOLEAN : Send(a, lands)
    <2>1. PICK a \in Assets, lands \in BOOLEAN : Send(a, lands)
        BY <1>2
    <2>2. \A p \in Shares : moved[p] > 0 => moved'[p] > 0
        BY <2>1 DEF Send
    <2>3. landed' => \A p \in Entries' : moved'[p] > 0
        BY <2>1 DEF Send
    <2>4. QED
        BY <2>1, <2>2, <2>3 DEF Send
<1>3. CASE Succeeded
    BY <1>3 DEF Succeeded
<1>4. CASE Record
    BY <1>4 DEF Record, Mark
<1>5. CASE RecordFailed
    BY <1>5 DEF RecordFailed, Mark
<1>6. CASE Unavailable
    BY <1>6 DEF Unavailable, Mark, Remaining
<1>7. CASE Ambiguous
    BY <1>7 DEF Ambiguous, MarkRun, Remaining
<1>8. CASE Rejected
    BY <1>8 DEF Rejected, MarkRun, Remaining
<1>9. CASE Finish
    BY <1>9 DEF Finish
<1>10. QED
    BY <1>1, <1>2, <1>3, <1>4, <1>5, <1>6, <1>7, <1>8, <1>9 DEF RunStep

LEMMA LedgerRest ==
    ASSUME LedgerInv, Next, ~RunStep
    PROVE  (RunInv /\ LedgerIsTrue)'
<1> USE Typing DEF LedgerInv, Typed, TypeOK, RunInv, LedgerIsTrue, Entries,
        ledger, attempts, queue, runner, hedera, Stop
<1>1. CASE \E p \in Shares : DesignerRetry(p)
    BY <1>1 DEF DesignerRetry
<1>2. CASE Crash
    BY <1>2 DEF Crash, Mark
<1>3. CASE \E j \in raised : JobExhaust(j)
    BY <1>3 DEF JobExhaust, Mark
<1>4. CASE (\E j \in jobs : BeginJob(j)) \/ BeginSweep
    BY <1>4 DEF BeginJob, BeginSweep, Begin, Eligible, Owed
<1>5. CASE \/ \E p \in Shares : Book(p)
           \/ \E c \in Checkouts : Enqueue(c)
           \/ \E d \in Designers : Activate(d) \/ Recheck(d)
           \/ \E j \in raised : JobRetry(j) \/ CrashRaised(j)
    BY <1>5 DEF Book, Enqueue, Activate, Recheck, JobRetry, CrashRaised
<1>6. QED
    BY <1>1, <1>2, <1>3, <1>4, <1>5 DEF Next

LEMMA LedgerStep == LedgerInv /\ [Next]_vars => LedgerInv'
<1>1. CASE UNCHANGED vars
    BY <1>1 DEF LedgerInv, Typed, Named, TypeOK, RunInv, LedgerIsTrue, Entries,
        vars, ledger, attempts, queue, runner, hedera
<1>2. QED
    BY <1>1, TypeStep, LedgerRun, LedgerRest DEF LedgerInv

\* The designer_payout rows and the attempts agree, and neither reports a payout
\* whose transfer did not land: whichever run, retry or exhausted job wrote last.
THEOREM LedgerStaysTrue == Spec => []LedgerIsTrue
<1>1. LedgerInv => LedgerIsTrue
    BY DEF LedgerInv
<1>2. QED
    BY <1>1, LedgerInit, LedgerStep, PTL DEF Spec

-----------------------------------------------------------------------------
(* The money.  For a designer whose verification is never withdrawn, a run   *)
(* loads nothing in doubt and a moved share's designer stays payable, so     *)
(* that reconcile_ref! never takes a share out of reconciliation.            *)

Steady(p) == Owner[p] \notin Rechecked

MoneyInv ==
    /\ LedgerInv
    /\ \A p \in Shares : moved[p] > 0 => p \in shares
    /\ \A p \in loaded : attempt[p] # "reconciliation_required"
    /\ \A p \in Shares : Steady(p) /\ (p \in loaded \/ moved[p] > 0)
                            => Owner[p] \in ready
    /\ MoneyAccounted

LEMMA MoneyInit == Init => MoneyInv
<1>1. ASSUME Init
      PROVE  /\ \A p \in Shares : ~(moved[p] > 0)
             /\ loaded = {} /\ shares = {}
    BY <1>1 DEF Init
<1>2. QED
    BY <1>1, LedgerInit DEF MoneyInv, MoneyAccounted

LEMMA MoneyRun ==
    ASSUME MoneyInv, RunStep, LedgerInv'
    PROVE  MoneyInv'
<1> USE Typing DEF MoneyInv, LedgerInv, Typed, TypeOK, RunInv, MoneyAccounted,
        InDoubt, InHand, Entries, Steady, ledger, attempts, queue, runner, hedera,
        Stop
<1>1. CASE Start
    BY <1>1 DEF Start, Mark
<1>2. CASE \E a \in Assets, lands \in BOOLEAN : Send(a, lands)
    <2>1. PICK a \in Assets, lands \in BOOLEAN : Send(a, lands)
        BY <1>2
    <2>2. loaded' = loaded /\ asset' = a /\ landed' = lands /\ ~landed
        BY <2>1 DEF Send
    <2>3. \A p \in Shares : moved'[p] # moved[p] =>
             p \in Entries' /\ lands /\ moved'[p] = moved[p] + 1
        BY <2>1, <2>2 DEF Send
    <2>4. \A p \in loaded \ lost : Steady(p) => moved[p] = 0
        BY <2>2
    <2>5. QED
        BY <2>1, <2>2, <2>3, <2>4 DEF Send
<1>3. CASE Succeeded
    BY <1>3 DEF Succeeded
<1>4. CASE Record
    BY <1>4 DEF Record, Mark
<1>5. CASE RecordFailed
    BY <1>5 DEF RecordFailed, Mark
<1>6. CASE Unavailable
    BY <1>6 DEF Unavailable, Mark, Remaining
<1>7. CASE Ambiguous
    BY <1>7 DEF Ambiguous, MarkRun, Remaining
<1>8. CASE Rejected
    BY <1>8 DEF Rejected, MarkRun, Remaining
<1>9. CASE Finish
    BY <1>9 DEF Finish
<1>10. QED
    BY <1>1, <1>2, <1>3, <1>4, <1>5, <1>6, <1>7, <1>8, <1>9 DEF RunStep

LEMMA MoneyRest ==
    ASSUME MoneyInv, Next, ~RunStep, LedgerInv'
    PROVE  MoneyInv'
<1> USE Typing DEF MoneyInv, LedgerInv, Typed, TypeOK, RunInv, MoneyAccounted,
        InDoubt, InHand, Entries, Steady, ledger, attempts, queue, runner, hedera,
        Stop
<1>1. CASE \E p \in Shares : DesignerRetry(p)
    BY <1>1 DEF DesignerRetry
<1>2. CASE Crash
    BY <1>2 DEF Crash, Mark
<1>3. CASE \E j \in raised : JobExhaust(j)
    BY <1>3 DEF JobExhaust, Mark
<1>4. CASE (\E j \in jobs : BeginJob(j)) \/ BeginSweep
    BY <1>4 DEF BeginJob, BeginSweep, Begin, Eligible, Owed
<1>5. CASE \E d \in Rechecked : Recheck(d)
    BY <1>5 DEF Recheck
<1>6. CASE \/ \E p \in Shares : Book(p)
           \/ \E c \in Checkouts : Enqueue(c)
           \/ \E d \in Designers : Activate(d)
           \/ \E j \in raised : JobRetry(j) \/ CrashRaised(j)
    BY <1>6 DEF Book, Enqueue, Activate, JobRetry, CrashRaised
<1>7. QED
    BY <1>1, <1>2, <1>3, <1>4, <1>5, <1>6 DEF Next

LEMMA MoneyStep == MoneyInv /\ [Next]_vars => MoneyInv'
<1>1. CASE UNCHANGED vars
    BY <1>1 DEF MoneyInv, LedgerInv, Typed, Named, TypeOK, RunInv, LedgerIsTrue,
        MoneyAccounted, InDoubt, InHand, Entries, Steady, vars, ledger, attempts,
        queue, runner, hedera
<1>2. QED
    BY <1>1, LedgerStep, MoneyRun, MoneyRest DEF MoneyInv

\* No share is transferred twice and money in doubt is kept out of every later
\* run, whatever the sidecar answers, unless the run died before it could say so
\* or the designer's verification was withdrawn.
THEOREM MoneyIsAccounted == Spec => []MoneyAccounted
<1>1. MoneyInv => MoneyAccounted
    BY DEF MoneyInv
<1>2. QED
    BY <1>1, MoneyInit, MoneyStep, PTL DEF Spec

-----------------------------------------------------------------------------
(* Promises.  A share that is "retrying" has a job of its ref.  What can     *)
(* break this is a share left "processing" by a run that is gone, which a    *)
(* later run of the same ref marks "retrying" although its job is not about  *)
(* it: so nothing may come of such a ref any more.                           *)

Working    == jobs \cup raised \cup {run}
Paying     == pc \in {"pay", "sent", "record"}
Multi(j)   == \E p, q \in j.ids : AssetOf[p] # AssetOf[q]
\* A designer is offered a retry of some share of this ref.
Offered(x) == \E q \in Shares : /\ attempt[q] = "failed" /\ error[q] \in Retryable
                                /\ ref[q] = x

\* A run pays what its job is about.
InRun ==
    /\ loaded \subseteq run.ids
    /\ pc = "idle" => run = Idle
    /\ Paying => \A p \in loaded : attempt[p] = "processing" /\ ref[p] = run.ref
    /\ pc \in {"sent", "record"} => Entries # {}

\* Attempts are made for shares in the ledger, of designers whose account was
\* verified; a checkout's ref is in use only once its job was queued.
Known ==
    /\ \A p \in Shares : attempt[p] # "none" =>
          /\ p \in shares
          /\ Steady(p) => Owner[p] \in ready
          /\ ref[p] \in Checkouts => ref[p] \in queuedFor
    /\ \A j \in Working : j.ref \in Checkouts => j.ref \in queuedFor

\* The ref of a share left behind in "processing" is spent.
Left ==
    \A p \in Shares : attempt[p] = "processing" =>
        \/ Paying /\ p \in loaded
        \/ ~Offered(ref[p]) /\ \A j \in Working : j.ref # ref[p]

\* A job that pays in two assets, and so may leave a share behind, is the only
\* one of its ref.
Only ==
    \A j \in Working : Multi(j) =>
        /\ \A k \in Working : k.ref = j.ref => k = j
        /\ j \in jobs => j \notin raised
        /\ j = run => j \notin jobs \cup raised
        /\ ~Offered(j.ref)

Promised ==
    \A p \in Shares : attempt[p] = "retrying" /\ Steady(p) =>
        /\ \E j \in Working : p \in j.ids /\ j.ref = ref[p]
        /\ p \in run.ids => pc = "start" /\ p \in loaded

Calm == InRun /\ Known /\ Left /\ Only /\ Promised

\* What all of the following steps need to know of the types.
LEMMA Types ==
    ASSUME MoneyInv
    PROVE  /\ run \in Jobs \cup {Idle} /\ jobs \subseteq Jobs /\ raised \subseteq Jobs
           /\ attempt \in [Shares -> Statuses] /\ error \in [Shares -> Errors]
           /\ ref \in [Shares -> Refs \cup {None}]
           /\ loaded \subseteq shares /\ shares \subseteq Shares /\ loaded \cap paid = {}
           /\ \A p \in loaded : Steady(p) => Owner[p] \in ready
           /\ pc # "idle" => run \in Jobs
           /\ \A p \in Shares : attempt[p] # "none" => ref[p] \in Refs
           /\ \A p \in Shares : p \in paid <=> attempt[p] = "succeeded"
           /\ \A j \in Jobs : j.ref \in Refs /\ j.ids \subseteq Shares /\ j.tries \in Nat
           /\ None \notin Refs /\ Idle.ref = None /\ Idle.ids = {} /\ Idle.tries = 0
<1>1. \A j \in Jobs : j.ref \in Refs /\ j.ids \subseteq Shares /\ j.tries \in Nat
    BY Typing DEF Jobs
<1>2. None \notin Refs /\ Idle.ref = None /\ Idle.ids = {} /\ Idle.tries = 0
    BY Typing DEF Refs, Idle
<1>3. QED
    BY <1>1, <1>2 DEF MoneyInv, LedgerInv, Typed, Named, TypeOK, RunInv, LedgerIsTrue

LEMMA CalmStart ==
    ASSUME MoneyInv, Calm, Start
    PROVE  Calm'
<1> USE Types DEF Calm
<1>1. /\ pc = "start" /\ pc' = "pay"
      /\ \A p \in Shares :
            /\ attempt'[p] = IF p \in loaded THEN "processing" ELSE attempt[p]
            /\ error'[p] = IF p \in loaded THEN "none" ELSE error[p]
            /\ ref'[p] = IF p \in loaded THEN run.ref ELSE ref[p]
      /\ UNCHANGED <<ledger, ready, queue, run, loaded, asset>>
    BY DEF Start, Mark
<1>2. InRun'
    BY <1>1 DEF InRun, Paying
<1>3. Known'
    BY <1>1 DEF Known, Working, queue, ledger, Steady
<1>4. Left'
    BY <1>1 DEF Left, Working, queue, Offered, Paying, Retryable
<1>5. Only'
    BY <1>1 DEF Only, Working, queue, Offered, Multi, Retryable
<1>6. Promised'
    BY <1>1 DEF Promised, Working, queue, Steady
<1>7. QED
    BY <1>2, <1>3, <1>4, <1>5, <1>6

LEMMA CalmSend ==
    ASSUME MoneyInv, Calm, NEW a, NEW lands, Send(a, lands)
    PROVE  Calm'
<1> USE Types DEF Calm
<1>1. /\ pc = "pay" /\ pc' = "sent" /\ asset' = a
      /\ \E p \in loaded : AssetOf[p] = a
      /\ UNCHANGED <<ledger, attempts, ready, queue, run, loaded>>
    BY DEF Send
<1>2. InRun'
    BY <1>1 DEF InRun, Paying, Entries, attempts
<1>3. QED
    BY <1>1, <1>2 DEF Known, Left, Only, Promised, Working, Paying, Multi, Offered,
        Steady, ledger, attempts, queue

LEMMA CalmSucceeded ==
    ASSUME MoneyInv, Calm, Succeeded
    PROVE  Calm'
<1>1. /\ pc = "sent" /\ pc' = "record"
      /\ UNCHANGED <<ledger, attempts, ready, queue, run, loaded, asset>>
    BY DEF Succeeded
<1>2. QED
    BY <1>1 DEF Calm, InRun, Known, Left, Only, Promised, Working, Paying, Multi,
        Offered, Steady, Entries, ledger, attempts, queue

LEMMA CalmRecord ==
    ASSUME MoneyInv, Calm, Record
    PROVE  Calm'
<1> USE Types DEF Calm
<1>1. /\ pc = "record" /\ pc' = "pay"
      /\ \A p \in Shares :
            /\ attempt'[p] = IF p \in Entries THEN "succeeded" ELSE attempt[p]
            /\ error'[p] = IF p \in Entries THEN "none" ELSE error[p]
      /\ loaded' = loaded \ Entries
      /\ UNCHANGED <<shares, ref, ready, queue, run>>
    BY DEF Record, Mark
<1>2. InRun'
    BY <1>1 DEF InRun, Paying
<1>3. Known'
    BY <1>1 DEF Known, InRun, Paying, Working, queue, Steady, Entries
<1>4. Left'
    BY <1>1 DEF Left, Working, queue, Offered, Paying
<1>5. Only'
    BY <1>1 DEF Only, Working, queue, Offered, Multi
<1>6. Promised'
    BY <1>1 DEF Promised, Working, queue, Steady
<1>7. QED
    BY <1>2, <1>3, <1>4, <1>5, <1>6

\* The end of a run whose shares are marked for good or offered again.
LEMMA CalmStop ==
    ASSUME MoneyInv, Calm, Paying, Stop,
           UNCHANGED <<shares, ref, ready, queue>>,
           NEW Ended \in SUBSET Shares,
           \A p \in Shares : attempt'[p] \in Statuses,
           \A p \in Shares \ Ended : attempt'[p] = attempt[p] /\ error'[p] = error[p],
           \A p \in Ended : /\ attempt[p] # "none"
                            /\ attempt'[p] \notin {"none", "processing", "retrying"},
           \* offered again: the run leaves nothing behind, or offers nothing
           \/ /\ \A p \in Ended : attempt'[p] # "failed" \/ ref[p] = run.ref
              /\ loaded \subseteq Ended
           \/ /\ \A p \in Ended : attempt'[p] # "failed" \/ error'[p] \notin Retryable
              /\ loaded \subseteq Ended \/ Multi(run)
    PROVE  Calm'
<1> USE Types DEF Calm
<1>1. pc' = "idle" /\ run' = Idle /\ loaded' = {}
    BY DEF Stop
<1>2. InRun'
    BY <1>1 DEF InRun, Paying, Entries
<1>3. Known'
    BY <1>1 DEF Known, Working, queue, Steady, Refs
<1>4. Working' \subseteq Working \cup {Idle}
    BY <1>1 DEF Working, queue
<1>5. \A j \in Working' : Multi(j) => j.ref # run.ref /\ j \in Working
    <2>1. ASSUME NEW j \in Working', Multi(j)
          PROVE  j.ref # run.ref /\ j \in Working
        <3>1. j \in jobs \cup raised /\ j \in Working
            BY <1>1, <1>4, <2>1 DEF Working, Multi, queue
        <3>2. CASE j.ref = run.ref
            BY <2>1, <3>1, <3>2 DEF Only, Working
        <3>3. QED
            BY <3>1, <3>2
    <2>2. QED
        BY <2>1
<1>6. \A x : Offered(x)' => Offered(x) \/ (x = run.ref /\ loaded \subseteq Ended)
    BY DEF Offered
<1>7. Only'
    BY <1>1, <1>4, <1>5, <1>6 DEF Only, Working, queue, Multi
<1>8. Left'
    <2> SUFFICES ASSUME NEW p \in Shares, attempt'[p] = "processing"
                 PROVE  ~Offered(ref[p])' /\ \A j \in Working' : j.ref # ref[p]
        BY DEF Left
    <2>1. p \notin Ended /\ attempt[p] = "processing" /\ ref[p] \in Refs
        OBVIOUS
    <2>2. CASE p \in loaded
        <3>1. Multi(run) /\ ref[p] = run.ref /\ ~Offered(run.ref) /\ run \in Working
            BY <2>1, <2>2 DEF InRun, Only, Working
        <3>2. \A j \in jobs \cup raised : j.ref # run.ref
            BY <3>1 DEF Only, Working
        <3>3. QED
            BY <1>1, <1>6, <2>1, <2>2, <3>1, <3>2 DEF Working, queue
    <2>3. CASE p \notin loaded
        <3>1. ~Offered(ref[p]) /\ \A j \in Working : j.ref # ref[p]
            BY <2>1, <2>3 DEF Left
        <3>2. ref[p] # run.ref
            BY <3>1 DEF Working
        <3>3. QED
            BY <1>4, <1>6, <2>1, <3>1, <3>2
    <2>4. QED
        BY <2>2, <2>3
<1>9. Promised'
    <2> SUFFICES ASSUME NEW p \in Shares, attempt'[p] = "retrying", Steady(p)
                 PROVE  \E j \in Working' : p \in j.ids /\ j.ref = ref[p]
        BY <1>1 DEF Promised, Steady
    <2>1. attempt[p] = "retrying"
        OBVIOUS
    <2>2. p \notin run.ids
        BY <2>1 DEF Promised, Paying
    <2>3. QED
        BY <2>1, <2>2 DEF Promised, Working, queue
<1>10. QED
    BY <1>2, <1>3, <1>7, <1>8, <1>9

LEMMA CalmRecordFailed ==
    ASSUME MoneyInv, Calm, RecordFailed
    PROVE  Calm'
<1> USE Types DEF Calm
<1>1. /\ pc = "record" /\ Stop
      /\ \A p \in Shares :
            /\ attempt'[p] = IF p \in Entries THEN "reconciliation_required" ELSE attempt[p]
            /\ error'[p] = IF p \in Entries THEN "final" ELSE error[p]
      /\ UNCHANGED <<shares, ref, ready, queue>>
    BY DEF RecordFailed, Mark, ledger
<1>2. Entries \subseteq loaded /\ \A p \in Entries : attempt[p] = "processing"
    BY <1>1 DEF Entries, InRun, Paying
<1>3. loaded \subseteq Entries \/ Multi(run)
    BY <1>1 DEF InRun, Entries, Multi
<1>4. "reconciliation_required" \in Statuses
    BY DEF Statuses
<1>5. Paying /\ Entries \in SUBSET Shares
    BY <1>1, <1>2 DEF Paying
<1>6. QED
    BY <1>1, <1>2, <1>3, <1>4, <1>5, CalmStop

LEMMA CalmMarkRun ==
    ASSUME MoneyInv, Calm, Ambiguous \/ Rejected
    PROVE  Calm'
<1> USE Types DEF Calm
<1> DEFINE Ended == Entries \cup Remaining
<1>1. /\ pc = "sent" /\ Stop
      /\ \A p \in Shares \ Ended : attempt'[p] = attempt[p] /\ error'[p] = error[p]
      /\ \A p \in Ended : attempt'[p] \in {"reconciliation_required", "failed"}
      /\ UNCHANGED <<shares, ref, ready, queue>>
    BY DEF Ambiguous, Rejected, MarkRun, ledger, Entries, Remaining
<1>2. /\ Ended \in SUBSET Shares /\ loaded \subseteq Ended
      /\ \A p \in Ended : attempt[p] = "processing" /\ ref[p] = run.ref
    BY <1>1 DEF Entries, Remaining, InRun, Paying
<1>3. \A p \in Shares : attempt'[p] \in Statuses
    BY <1>1 DEF Statuses
<1>4. Paying
    BY <1>1 DEF Paying
<1>5. QED
    <2> HIDE DEF Ended
    <2>1. QED
        BY <1>1, <1>2, <1>3, <1>4, CalmStop

LEMMA CalmFinish ==
    ASSUME MoneyInv, Calm, Finish
    PROVE  Calm'
<1> USE Types DEF Calm
<1> DEFINE mine == {p \in Shares : ref[p] = run.ref /\ attempt[p] \in Unresolved}
           done == mine \cap paid
           unready == {p \in mine \ done : Owner[p] \notin ready}
           Ended == done \cup unready
<1>1. /\ pc = "pay" /\ Stop /\ loaded = {}
      /\ \A p \in Shares :
            /\ attempt'[p] = IF p \in done THEN "succeeded"
                             ELSE IF p \in unready THEN "failed" ELSE attempt[p]
            /\ error'[p] = IF p \in done THEN "none"
                           ELSE IF p \in unready THEN "final" ELSE error[p]
      /\ UNCHANGED <<shares, ref, ready, queue>>
    BY DEF Finish, ledger
<1>2. Ended \in SUBSET Shares /\ \A p \in Ended : attempt[p] # "none"
    BY DEF Unresolved
<1>3. /\ \A p \in Shares \ Ended : attempt'[p] = attempt[p] /\ error'[p] = error[p]
      /\ \A p \in Ended : attempt'[p] \in {"succeeded", "failed"}
      /\ \A p \in Ended : attempt'[p] # "failed" \/ error'[p] = "final"
    BY <1>1
<1>4. \A p \in Shares : attempt'[p] \in Statuses
    BY <1>2, <1>3 DEF Statuses
<1>5. Paying /\ "final" \notin Retryable
    BY <1>1 DEF Paying, Retryable
<1>6. QED
    <2> HIDE DEF Ended
    <2>1. QED
        BY <1>1, <1>2, <1>3, <1>4, <1>5, CalmStop


LEMMA CalmUnavailable ==
    ASSUME MoneyInv, Calm, Unavailable
    PROVE  Calm'
<1> USE Types DEF Calm
<1>1. /\ pc = "sent" /\ pc' = "idle" /\ run' = Idle /\ loaded' = {} /\ run \in Jobs
      /\ UNCHANGED <<shares, ref, ready, queuedFor, jobs>>
    BY DEF Unavailable, Stop, ledger
<1>2. \A p \in Remaining : p \in loaded
    BY DEF Remaining, Left, Working
<1>3. loaded \subseteq Remaining
    BY <1>1 DEF Remaining, InRun, Paying
<1>4. CASE Automatic
    <2>1. /\ \A p \in Shares :
                /\ attempt'[p] = IF p \in Remaining THEN "retrying" ELSE attempt[p]
                /\ error'[p] = IF p \in Remaining THEN "service_unavailable" ELSE error[p]
          /\ raised' = raised \cup {run}
        BY <1>4 DEF Unavailable, Mark
    <2>2. Working' = Working \cup {Idle}
        BY <1>1, <2>1 DEF Working
    <2>3. InRun'
        BY <1>1 DEF InRun, Paying, Entries
    <2>4. Known'
        BY <1>1, <2>1, <2>2 DEF Known, Remaining, Refs
    <2>5. \A x : Offered(x)' => Offered(x)
        BY <1>1, <2>1 DEF Offered
    <2>6. Left'
        BY <1>1, <1>3, <2>1, <2>2, <2>5 DEF Left
    <2>7. Only'
        BY <1>1, <2>1, <2>2, <2>5 DEF Only, Working, Multi
    <2>8. Promised'
        <3> SUFFICES ASSUME NEW p \in Shares, attempt'[p] = "retrying", Steady(p)
                     PROVE  \E j \in Working' : p \in j.ids /\ j.ref = ref[p]
            BY <1>1 DEF Promised, Steady
        <3>1. CASE p \in Remaining
            <4>1. p \in run.ids /\ ref[p] = run.ref
                BY <1>2, <3>1 DEF InRun, Remaining
            <4>2. run \in Working'
                BY <2>2 DEF Working
            <4>3. QED
                BY <4>1, <4>2
        <3>2. CASE p \notin Remaining
            BY <2>1, <2>2, <3>2 DEF Promised
        <3>3. QED
            BY <3>1, <3>2
    <2>9. QED
        BY <2>3, <2>4, <2>6, <2>7, <2>8
<1>5. CASE ~Automatic
    <2>1. /\ Paying /\ Stop /\ UNCHANGED queue
          /\ Remaining \in SUBSET Shares /\ "failed" \in Statuses
        BY <1>5 DEF Unavailable, Remaining, Paying, Statuses, queue
    <2>2. \A p \in Shares :
              /\ attempt'[p] = IF p \in Remaining THEN "failed" ELSE attempt[p]
              /\ error'[p] = IF p \in Remaining THEN "service_unavailable" ELSE error[p]
        BY <1>5 DEF Unavailable, Mark
    <2>3. \A p \in Remaining : attempt[p] = "processing" /\ ref[p] = run.ref
        BY DEF Remaining
    <2>4. QED
        BY <1>1, <1>3, <2>1, <2>2, <2>3, CalmStop
<1>6. QED
    BY <1>4, <1>5

LEMMA CalmBegin ==
    ASSUME MoneyInv, Calm, NEW j \in Jobs, Begin(j),
           j.ref \in Checkouts => j.ref \in queuedFor,
           \/ j \in jobs /\ jobs' = jobs \ {j}
           \/ /\ UNCHANGED jobs /\ \A k \in jobs \cup raised : k.ref # j.ref
              /\ \A p \in Shares : ref[p] = j.ref => attempt[p] = "succeeded"
    PROVE  Calm'
<1> USE Types DEF Calm
<1>1. /\ pc = "idle" /\ pc' = "start" /\ run = Idle /\ run' = j
      /\ loaded' = Eligible(j.ids)
      /\ UNCHANGED <<shares, paid, attempt, error, ref, ready, queuedFor, raised>>
    BY DEF Begin, InRun, ledger, attempts
<1>2. InRun'
    BY <1>1 DEF InRun, Paying, Eligible
<1>3. \A k \in Working' : k \in Working \/ k = j
    BY <1>1 DEF Working
<1>4. Known'
    BY <1>1, <1>3 DEF Known
<1>5. \A x : Offered(x)' = Offered(x)
    BY <1>1 DEF Offered
<1>6. Left'
    <2> SUFFICES ASSUME NEW p \in Shares, attempt[p] = "processing"
                 PROVE  ~Offered(ref[p]) /\ \A k \in Working' : k.ref # ref[p]
        BY <1>1, <1>5 DEF Left
    <2>1. ~Offered(ref[p]) /\ \A k \in Working : k.ref # ref[p]
        BY <1>1 DEF Left, Paying
    <2>2. j.ref # ref[p]
        BY <2>1 DEF Working
    <2>3. QED
        BY <1>3, <2>1, <2>2
<1>7. Only'
    <2>1. ASSUME NEW k \in Working', Multi(k), k # j
          PROVE  /\ \A l \in Working' : l.ref = k.ref => l = k
                 /\ k \in jobs' => k \notin raised'
                 /\ k = run' => k \notin jobs' \cup raised'
                 /\ ~Offered(k.ref)'
        BY <1>1, <1>3, <1>5, <2>1 DEF Only, Working
    <2>2. ASSUME Multi(j)
          PROVE  /\ \A l \in Working' : l.ref = j.ref => l = j
                 /\ j \notin jobs' \cup raised'
                 /\ ~Offered(j.ref)'
        <3>1. CASE j \in jobs /\ jobs' = jobs \ {j}
            BY <1>1, <1>3, <1>5, <2>2, <3>1 DEF Only, Working
        <3>2. CASE /\ UNCHANGED jobs /\ \A k \in jobs \cup raised : k.ref # j.ref
                   /\ \A p \in Shares : ref[p] = j.ref => attempt[p] = "succeeded"
            <4>1. ~Offered(j.ref)
                BY <3>2 DEF Offered
            <4>2. QED
                BY <1>1, <1>3, <1>5, <3>2, <4>1 DEF Working
        <3>3. QED
            BY <3>1, <3>2
    <2>3. QED
        BY <1>1, <2>1, <2>2 DEF Only, Multi
<1>8. Promised'
    <2> SUFFICES ASSUME NEW p \in Shares, attempt[p] = "retrying", Steady(p)
                 PROVE  /\ \E k \in Working' : p \in k.ids /\ k.ref = ref[p]
                        /\ p \in j.ids => p \in loaded'
        BY <1>1 DEF Promised, Steady
    <2>1. PICK k \in Working : p \in k.ids /\ k.ref = ref[p]
        BY DEF Promised
    <2>2. k \in Working'
        BY <1>1, <2>1 DEF Working
    <2>3. p \in shares /\ p \notin paid /\ Owner[p] \in ready
        BY DEF Known
    <2>4. p \in j.ids => p \in loaded'
        BY <1>1, <2>3 DEF Eligible, Owed
    <2>5. QED
        BY <2>1, <2>2, <2>4
<1>9. QED
    BY <1>2, <1>4, <1>6, <1>7, <1>8


LEMMA CalmBegins ==
    ASSUME MoneyInv, Calm, (\E j \in jobs : BeginJob(j)) \/ BeginSweep
    PROVE  Calm'
<1> USE Types
<1>1. CASE \E j \in jobs : BeginJob(j)
    <2>1. PICK j \in jobs : Begin(j) /\ jobs' = jobs \ {j}
        BY <1>1 DEF BeginJob
    <2>2. j \in Jobs /\ (j.ref \in Checkouts => j.ref \in queuedFor)
        BY DEF Calm, Known, Working
    <2>3. QED
        BY <2>1, <2>2, CalmBegin
<1>2. CASE BeginSweep
    <2>1. PICK s \in Fresh : Begin([ref |-> s, ids |-> Shares, tries |-> 0])
        BY <1>2 DEF BeginSweep
    <2> DEFINE j == [ref |-> s, ids |-> Shares, tries |-> 0]
    <2>2. /\ s \in SweepRefs /\ UNCHANGED jobs
          /\ \A k \in jobs \cup raised : k.ref # s
          /\ \A p \in Shares : ref[p] = s => attempt[p] = "succeeded"
        BY <1>2 DEF Fresh, BeginSweep
    <2>3. j \in Jobs /\ j.ref = s /\ s \notin Checkouts
        BY <2>2, Typing DEF Jobs, Refs
    <2>4. QED
        <3> HIDE DEF j
        <3>1. Begin(j)
            BY <2>1 DEF j
        <3>2. QED
            BY <2>2, <2>3, <3>1, CalmBegin
<1>3. QED
    BY <1>1, <1>2

LEMMA CalmEnqueue ==
    ASSUME MoneyInv, Calm, NEW c \in Checkouts, Enqueue(c)
    PROVE  Calm'
<1> USE Types DEF Calm
<1> DEFINE j == [ref |-> c, ids |-> {p \in Shares : CheckoutOf[p] = c}, tries |-> 1]
<1>1. /\ c \notin queuedFor /\ queuedFor' = queuedFor \cup {c}
      /\ jobs' = jobs \cup {j}
      /\ UNCHANGED <<ledger, attempts, ready, raised, runner>>
    BY DEF Enqueue
<1>2. j.ref = c /\ \A k \in Working : k.ref # c
    BY <1>1 DEF Known
<1>3. \A p \in Shares : attempt[p] # "none" => ref[p] # c
    BY <1>1 DEF Known
<1>4. Working' = Working \cup {j} /\ j \notin Working
    BY <1>1, <1>2 DEF Working, runner
<1> HIDE DEF j
<1>5. \A x : Offered(x)' = Offered(x)
    BY <1>1 DEF Offered, attempts
<1>6. ~Offered(c)
    BY <1>3 DEF Offered
<1>7. InRun'
    BY <1>1 DEF InRun, Paying, Entries, runner, attempts
<1>8. Known'
    BY <1>1, <1>2, <1>4 DEF Known, ledger, attempts
<1>9. Left'
    BY <1>1, <1>2, <1>3, <1>4, <1>5 DEF Left, Paying, attempts, runner
<1>10. Only'
    BY <1>1, <1>2, <1>4, <1>5, <1>6 DEF Only, Working, Multi, runner
<1>11. Promised'
    BY <1>1, <1>4 DEF Promised, Steady, attempts, runner
<1>12. QED
    BY <1>7, <1>8, <1>9, <1>10, <1>11

LEMMA CalmDesignerRetry ==
    ASSUME MoneyInv, Calm, NEW d \in Shares, DesignerRetry(d)
    PROVE  Calm'
<1> USE Types DEF Calm
<1> DEFINE group == {q \in Shares : /\ Owner[q] = Owner[d] /\ ref[q] = ref[d]
                                    /\ AssetOf[q] = AssetOf[d]
                                    /\ attempt[q] = "failed" /\ error[q] = error[d]}
           j == [ref |-> ref[d], ids |-> group \cap Owed, tries |-> 1]
<1>1. /\ pc = "idle" /\ run = Idle
      /\ attempt[d] = "failed" /\ error[d] \in Retryable
      /\ \A q \in Shares : attempt'[q] = IF q \in group THEN "retrying" ELSE attempt[q]
      /\ jobs' = jobs \cup {j}
      /\ UNCHANGED <<ledger, error, ref, ready, queuedFor, raised, runner>>
    BY DEF DesignerRetry, InRun
<1>2. /\ \A q \in group : q \in Shares /\ q \in j.ids /\ ref[q] = j.ref
                          /\ attempt[q] = "failed"
      /\ j.ref = ref[d] /\ ~Multi(j)
    <2>1. \A q \in group : q \in Owed
        BY DEF Owed, Known
    <2>2. QED
        BY <2>1 DEF Multi
<1> HIDE DEF j, group
<1>3. Working' = Working \cup {j}
    BY <1>1 DEF Working, runner
<1>4. Offered(ref[d])
    BY <1>1 DEF Offered
<1>5. \A x : Offered(x)' => Offered(x)
    BY <1>1 DEF Offered
<1>6. \A k \in Working : Multi(k) => k.ref # ref[d]
    BY <1>4 DEF Only
<1>7. InRun'
    BY <1>1 DEF InRun, Paying, Entries, runner
<1>8. Known'
    BY <1>1, <1>2, <1>3 DEF Known, ledger
<1>9. Left'
    BY <1>1, <1>2, <1>3, <1>4, <1>5 DEF Left, Paying, runner
<1>10. Only'
    BY <1>1, <1>2, <1>3, <1>5, <1>6 DEF Only, Working, Multi, runner
<1>11. Promised'
    BY <1>1, <1>2, <1>3 DEF Promised, Steady, runner
<1>12. QED
    BY <1>7, <1>8, <1>9, <1>10, <1>11

LEMMA CalmJobRetry ==
    ASSUME MoneyInv, Calm, NEW j \in raised, JobRetry(j)
    PROVE  Calm'
<1> USE Types DEF Calm
<1> DEFINE k == [j EXCEPT !.tries = @ + 1]
<1>1. /\ raised' = raised \ {j} /\ jobs' = jobs \cup {k}
      /\ UNCHANGED <<ledger, attempts, ready, queuedFor, runner>>
    BY DEF JobRetry
<1>2. k.ref = j.ref /\ k.ids = j.ids /\ k # j /\ j \in Working
    <2>1. j \in Jobs
        OBVIOUS
    <2>2. k.tries = j.tries + 1 /\ j.tries \in Nat
        BY <2>1 DEF Jobs
    <2>3. QED
        BY <2>1, <2>2 DEF Jobs, Working
<1> HIDE DEF k
<1>3. /\ Working' \subseteq Working \cup {k} /\ k \in Working'
      /\ \A l \in Working : l # j => l \in Working'
    BY <1>1 DEF Working, runner
<1>4. \A x : Offered(x)' = Offered(x)
    BY <1>1 DEF Offered, attempts
<1>5. InRun'
    BY <1>1 DEF InRun, Paying, Entries, runner, attempts
<1>6. Known'
    BY <1>1, <1>2, <1>3 DEF Known, ledger, attempts
<1>7. Left'
    BY <1>1, <1>2, <1>3, <1>4 DEF Left, Paying, attempts, runner
<1>8. Only'
    <2>1. CASE Multi(j)
        <3>1. Multi(k) /\ j \notin jobs /\ j # run
                  /\ \A l \in Working : l.ref = j.ref => l = j
            BY <1>2, <2>1 DEF Only, Multi, Working
        <3>2. j \notin Working' /\ k \notin Working
            BY <1>1, <1>2, <3>1 DEF Working, runner
        <3>3. QED
            BY <1>1, <1>2, <1>3, <1>4, <2>1, <3>1, <3>2 DEF Only, Working, Multi, runner
    <2>2. CASE ~Multi(j)
        <3>1. ~Multi(k)
            BY <1>2, <2>2 DEF Multi
        <3>2. \A l \in Working : Multi(l) => l.ref # k.ref
            BY <1>2, <2>2 DEF Only
        <3>3. QED
            BY <1>1, <1>3, <1>4, <3>1, <3>2 DEF Only, Working, Multi, runner
    <2>3. QED
        BY <2>1, <2>2
<1>9. Promised'
    BY <1>1, <1>2, <1>3 DEF Promised, Steady, attempts, runner
<1>10. QED
    BY <1>5, <1>6, <1>7, <1>8, <1>9

LEMMA CalmJobExhaust ==
    ASSUME MoneyInv, Calm, NEW j \in raised, JobExhaust(j)
    PROVE  Calm'
<1> USE Types DEF Calm
<1> DEFINE given == {p \in Shares : ref[p] = j.ref /\ attempt[p] = "retrying"}
<1>1. /\ raised' = raised \ {j}
      /\ \A p \in Shares :
            /\ attempt'[p] = IF p \in given THEN "failed" ELSE attempt[p]
            /\ error'[p] = IF p \in given THEN "service_unavailable" ELSE error[p]
      /\ UNCHANGED <<ledger, ref, ready, queuedFor, jobs, runner>>
    BY DEF JobExhaust, Mark
<1>2. \A p \in Shares : p \in given => ref[p] = j.ref /\ attempt[p] = "retrying"
    OBVIOUS
<1>3. \A p \in Shares : attempt'[p] = "retrying" => attempt[p] = "retrying" /\ ref[p] # j.ref
    BY <1>1
<1> HIDE DEF given
<1>4. /\ Working' \subseteq Working /\ j \in Working
      /\ \A l \in Working : l # j => l \in Working'
    BY <1>1 DEF Working, runner
<1>5. \A x : Offered(x)' => Offered(x) \/ x = j.ref
    BY <1>1, <1>2 DEF Offered
<1>6. InRun'
    BY <1>1, <1>2 DEF InRun, Paying, Entries, runner
<1>7. Known'
    BY <1>1, <1>2, <1>4 DEF Known, ledger
<1>8. Left'
    BY <1>1, <1>2, <1>4, <1>5 DEF Left, Paying, runner
<1>9. Only'
    <2>1. \A k \in Working' : Multi(k) => k.ref # j.ref
        BY <1>1, <1>4 DEF Only, Working, runner
    <2>2. QED
        BY <1>1, <1>4, <1>5, <2>1 DEF Only, Working, Multi, runner
<1>10. Promised'
    BY <1>1, <1>3, <1>4 DEF Promised, Steady, runner
<1>11. QED
    BY <1>6, <1>7, <1>8, <1>9, <1>10

LEMMA CalmAround ==
    ASSUME MoneyInv, Calm,
           \/ \E p \in Shares : Book(p)
           \/ \E d \in Designers : Activate(d)
           \/ \E d \in Rechecked : Recheck(d)
    PROVE  Calm'
<1> USE Types DEF Calm
<1>1. /\ UNCHANGED <<attempts, queue, runner>>
      /\ shares \subseteq shares'
      /\ \A d \in ready : d \in Rechecked \/ d \in ready'
    BY DEF Book, Activate, Recheck, ledger
<1>2. Known'
    BY <1>1 DEF Known, Working, Steady, attempts, queue, runner
<1>3. QED
    BY <1>1, <1>2 DEF InRun, Left, Only, Promised, Working, Paying, Multi, Offered,
        Entries, Steady, attempts, queue, runner

RetryInv == crashes = 0 => Calm

LEMMA RetryNext == MoneyInv /\ RetryInv /\ [Next]_vars => RetryInv'
<1> SUFFICES ASSUME MoneyInv, RetryInv, [Next]_vars, crashes' = 0
             PROVE  Calm'
    BY DEF RetryInv
<1>1. CASE UNCHANGED vars
    BY <1>1 DEF RetryInv, Calm, InRun, Known, Left, Only, Promised, Working, Paying,
        Multi, Offered, Entries, Steady, vars, ledger, attempts, queue, runner
<1>2. CASE Crash \/ \E j \in raised : CrashRaised(j)
    <2>1. crashes \in Nat /\ crashes' = crashes + 1
        BY <1>2, Typing DEF Crash, CrashRaised, MoneyInv, LedgerInv, Typed, TypeOK
    <2>2. QED
        BY <2>1
<1>3. CASE Next /\ ~Crash /\ ~\E j \in raised : CrashRaised(j)
    <2>1. crashes = 0
        BY ONLY <1>3, crashes' = 0
           DEF Next, RunStep, Book, DesignerRetry, Enqueue, Activate, Recheck,
            BeginJob, BeginSweep, Begin, JobRetry, JobExhaust, Start, Send,
            Succeeded, Record, RecordFailed, Unavailable, Ambiguous, Rejected, Finish
    <2>2. Calm
        BY <2>1 DEF RetryInv
    <2>3. QED
        BY <1>3, <2>2, CalmStart, CalmSend, CalmSucceeded, CalmRecord,
           CalmRecordFailed, CalmMarkRun, CalmFinish, CalmUnavailable, CalmBegins,
           CalmEnqueue, CalmDesignerRetry, CalmJobRetry, CalmJobExhaust, CalmAround
           DEF Next, RunStep
<1>4. QED
    BY <1>1, <1>2, <1>3

LEMMA RetryInit == Init => RetryInv
<1>1. ASSUME Init
      PROVE  Calm
    <2>1. /\ Working = {Idle} /\ \A p \in Shares : attempt[p] = "none"
          /\ pc = "idle" /\ run = Idle /\ loaded = {} /\ jobs = {} /\ raised = {}
        BY <1>1 DEF Init, Working
    <2>2. Idle.ref = None /\ Idle.ids = {} /\ None \notin Checkouts
        BY Typing DEF Idle
    <2>3. QED
        BY <2>1, <2>2 DEF Calm, InRun, Known, Left, Only, Promised, Paying, Multi
<1>2. QED
    BY <1>1 DEF RetryInv

\* While no process dies and the designer's account stays verified, a share that
\* is said to be retried has a job that will: no overlapping job, sweep, designer's
\* retry or discarded job takes it away.
THEOREM RetryingIsPromised == Spec => []RetryingHasJob
<1>1. RetryInv => RetryingHasJob
    <2>1. ASSUME Calm
          PROVE  \A p \in Shares : attempt[p] = "retrying" /\ Steady(p) =>
                    \E j \in Working : p \in j.ids
        BY <2>1 DEF Calm, Promised
    <2>2. QED
        BY <2>1 DEF RetryInv, RetryingHasJob, Working, Steady
<1>2. QED
    BY <1>1, MoneyInit, MoneyStep, RetryInit, RetryNext, PTL DEF Spec


=============================================================================
