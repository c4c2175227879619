------------------------------ MODULE Payouts ------------------------------
(***************************************************************************)
(* Paying designers what the treasury holds for them.                      *)
(*                                                                         *)
(* A sale settled to the treasury leaves a designer_share in the ledger.   *)
(* Ledger::PayoutRunner reads the shares still owed, has the signing       *)
(* sidecar move one batched transfer per asset, and writes a               *)
(* designer_payout row for each share it covered; PayoutAttempt keeps the  *)
(* fate of each share's latest attempt.  A run is a DesignerPayoutJob for  *)
(* one checkout, retried when the sidecar is unavailable, or a sweep by an *)
(* operator over everything owed.  An advisory lock lets one run go on at  *)
(* a time; whether a transfer landed is known to the run only by the       *)
(* sidecar's answer.                                                       *)
(***************************************************************************)
EXTENDS Naturals, FiniteSets

CONSTANTS
    Shares,     \* purchases whose designer_share the treasury received
    Designers,
    Assets,
    Checkouts,  \* a single purchase or a batch: what one job pays for
    SweepRefs,  \* "sweep-<uuid>": enough of them for one to be fresh
    Owner,      \* the designer of a share
    AssetOf,    \* the asset of a share
    CheckoutOf, \* the checkout of a share
    Rechecked,  \* designers whose verified account an admin may find wanting
    MaxTries,   \* retry_on ... attempts: 10
    MaxQueued,  \* bound: jobs in the queue at once
    MaxMoved,   \* bound: transfers of one share are counted up to here
    MaxCrashes, \* bound: how often a run may die, or lose an answer unrescued
    None

ASSUME Typing ==
    /\ Owner \in [Shares -> Designers]
    /\ AssetOf \in [Shares -> Assets]
    /\ CheckoutOf \in [Shares -> Checkouts]
    /\ Rechecked \subseteq Designers
    /\ MaxTries \in Nat \ {0}
    /\ MaxQueued \in Nat
    /\ MaxMoved \in Nat \ {0}
    /\ MaxCrashes \in Nat
    /\ Checkouts \cap SweepRefs = {}
    /\ None \notin Checkouts \cup SweepRefs \cup Assets

VARIABLES
    \* ledger_entries: designer_share rows and designer_payout rows
    shares, paid,
    \* payout_attempts: at most one row a share
    attempt, error, ref,
    \* designers whose payout account is verified
    ready,
    \* DesignerPayoutJobs: checkouts that have had theirs, jobs in the queue,
    \* and jobs that raised Unavailable and have not been queued again yet
    queuedFor, jobs, raised,
    \* the run that holds the advisory lock: where it is, its job, the shares
    \* it loaded and has not settled, the asset it is paying
    pc, run, loaded, asset,
    \* Hedera: did the transfer just sent land; how often did each share
    landed, moved,
    \* history: shares whose transfer landed with no one left to note it
    lost, crashes

ledger   == <<shares, paid>>
attempts == <<attempt, error, ref>>
queue    == <<queuedFor, jobs, raised>>
runner   == <<pc, run, loaded, asset>>
hedera   == <<landed, moved>>
vars     == <<ledger, attempts, ready, queue, runner, hedera, lost, crashes>>

-----------------------------------------------------------------------------
Refs       == Checkouts \cup SweepRefs
Statuses   == {"none", "processing", "retrying", "failed",
               "reconciliation_required", "succeeded"}
Unresolved == {"processing", "retrying", "failed", "reconciliation_required"}
\* "final" stands for transfer_rejected, ambiguous_result,
\* ledger_recording_failed and destination_not_ready: no retry is offered.
Errors     == {"none", "service_unavailable", "not_submitted",
               "final"}
Retryable  == {"service_unavailable", "not_submitted"}

\* `tries` counts the executions of a job; a sweep is no job and has none.
Jobs == [ref : Refs, ids : SUBSET Shares, tries : 0 .. MaxTries]
Idle == [ref |-> None, ids |-> {}, tries |-> 0]
Automatic == run.tries > 0

TypeOK ==
    /\ shares \subseteq Shares
    /\ paid \subseteq shares
    /\ attempt \in [Shares -> Statuses]
    /\ error \in [Shares -> Errors]
    /\ ref \in [Shares -> Refs \cup {None}]
    /\ ready \subseteq Designers
    /\ queuedFor \subseteq Checkouts
    /\ jobs \subseteq Jobs
    /\ raised \subseteq Jobs
    /\ pc \in {"idle", "start", "pay", "sent", "record"}
    /\ run \in Jobs \cup {Idle}
    /\ loaded \subseteq shares
    /\ asset \in Assets \cup {None}
    /\ landed \in BOOLEAN
    /\ moved \in [Shares -> 0 .. MaxMoved]
    /\ lost \subseteq shares
    /\ crashes \in 0 .. MaxCrashes

Init ==
    /\ shares = {}
    /\ paid = {}
    /\ attempt = [p \in Shares |-> "none"]
    /\ error = [p \in Shares |-> "none"]
    /\ ref = [p \in Shares |-> None]
    /\ ready \in SUBSET Designers
    /\ queuedFor = {}
    /\ jobs = {}
    /\ raised = {}
    /\ pc = "idle"
    /\ run = Idle
    /\ loaded = {}
    /\ asset = None
    /\ landed = FALSE
    /\ moved = [p \in Shares |-> 0]
    /\ lost = {}
    /\ crashes = 0

-----------------------------------------------------------------------------
(* A checkout, and its designer's account.                                 *)

\* LedgerEntry.record_settle!: the shares of a purchase that settled.
Book(p) ==
    /\ p \notin shares
    /\ shares' = shares \cup {p}
    /\ UNCHANGED <<paid, attempts, ready, queue, runner, hedera, lost, crashes>>

Room == Cardinality(jobs \cup raised) < MaxQueued

\* Delivery enqueues one job for the checkout (never, if it crashes first).
Enqueue(c) ==
    LET basket == {p \in Shares : CheckoutOf[p] = c} IN
    /\ c \notin queuedFor /\ basket # {} /\ basket \subseteq shares
    /\ Room
    /\ queuedFor' = queuedFor \cup {c}
    /\ jobs' = jobs \cup {[ref |-> c, ids |-> basket, tries |-> 1]}
    /\ UNCHANGED <<ledger, attempts, ready, raised, runner, hedera, lost, crashes>>

\* Designer#verify_payout_account!: the recheck of an active account failed.
Recheck(d) ==
    /\ d \in ready
    /\ ready' = ready \ {d}
    /\ UNCHANGED <<ledger, attempts, queue, runner, hedera, lost, crashes>>

\* PayoutDestination.activate_locked!
Activate(d) ==
    /\ d \notin ready
    /\ ready' = ready \cup {d}
    /\ UNCHANGED <<ledger, attempts, queue, runner, hedera, lost, crashes>>

-----------------------------------------------------------------------------
(* PayoutAttempt's updates.                                                *)

\* fail_entries! and, with an error of "none", start! and succeed!
Mark(S, status, why) ==
    /\ attempt' = [p \in Shares |-> IF p \in S THEN status ELSE attempt[p]]
    /\ error' = [p \in Shares |-> IF p \in S THEN why ELSE error[p]]

\* fail_remaining!: whatever of this ref is still being processed.
Remaining == {p \in Shares : ref[p] = run.ref /\ attempt[p] = "processing"}

\* The shares the current transfer covers.
Entries == {p \in loaded : AssetOf[p] = asset}

\* The entries get one verdict, the rest of the run another.
MarkRun(status, why) ==
    /\ attempt' = [p \in Shares |-> IF p \in Entries THEN status
                                    ELSE IF p \in Remaining THEN "failed"
                                    ELSE attempt[p]]
    /\ error' = [p \in Shares |-> IF p \in Entries THEN why
                                  ELSE IF p \in Remaining THEN "not_submitted"
                                  ELSE error[p]]

-----------------------------------------------------------------------------
(* A run of Ledger::PayoutRunner.                                          *)

\* As a bug would have it: a share stays owed although its designer_payout row exists.
OwedForEver == shares

\* LedgerEntry.owed
Owed == shares \ paid

\* As a bug would have it: what awaits reconciliation is paid like everything owed.
EligibleInDoubt(ids) == {p \in Owed \cap ids : Owner[p] \in ready}

\* As a bug would have it: what another run seems to be processing is left alone.
EligibleUntouched(ids) ==
    {p \in Owed \cap ids :
        /\ attempt[p] \notin {"reconciliation_required", "processing"}
        /\ Owner[p] \in ready}

\* A run under the lock reads what it may pay: owed, in its scope, not in
\* reconciliation, to a designer whose account is verified.
Eligible(ids) ==
    {p \in Owed \cap ids : /\ attempt[p] # "reconciliation_required"
                           /\ Owner[p] \in ready}

Begin(j) ==
    /\ pc = "idle"
    /\ run' = j
    /\ loaded' = Eligible(j.ids)
    /\ pc' = "start"
    /\ UNCHANGED <<ledger, attempts, ready, queuedFor, raised, asset, hedera,
                   lost, crashes>>

BeginJob(j) == j \in jobs /\ Begin(j) /\ jobs' = jobs \ {j}

\* ref = "sweep-#{SecureRandom.uuid}": one that names nothing unresolved.
Fresh == {s \in SweepRefs : /\ \A p \in Shares :
                                   ref[p] = s => attempt[p] = "succeeded"
                            /\ \A j \in jobs \cup raised : j.ref # s}
BeginSweep ==
    /\ Fresh # {}
    /\ Begin([ref |-> CHOOSE s \in Fresh : TRUE, ids |-> Shares, tries |-> 0])
    /\ UNCHANGED jobs

Start ==
    /\ pc = "start"
    /\ Mark(loaded, "processing", "none")
    /\ ref' = [p \in Shares |-> IF p \in loaded THEN run.ref ELSE ref[p]]
    /\ pc' = "pay"
    /\ UNCHANGED <<ledger, ready, queue, run, loaded, asset, hedera, lost, crashes>>

\* SidecarClient#payout for the next asset.  Nothing in Rails sees when the
\* transfer lands, so whether it will is settled here.
Send(a, lands) ==
    LET covered == {p \in loaded : AssetOf[p] = a} IN
    /\ pc = "pay" /\ covered # {}
    /\ asset' = a
    /\ landed' = lands
    /\ moved' = [p \in Shares |->
                    IF lands /\ p \in covered /\ moved[p] < MaxMoved
                      THEN moved[p] + 1 ELSE moved[p]]
    /\ pc' = "sent"
    /\ UNCHANGED <<ledger, attempts, ready, queue, run, loaded, lost, crashes>>

\* The run is over and the lock released.
Stop ==
    /\ pc' = "idle"
    /\ run' = Idle
    /\ loaded' = {}
    /\ asset' = None
    /\ landed' = FALSE

Succeeded ==
    /\ pc = "sent" /\ landed
    /\ pc' = "record"
    /\ UNCHANGED <<ledger, attempts, ready, queue, run, loaded, asset, hedera,
                   lost, crashes>>

\* The designer_payout rows and succeed!, in one transaction.
Record ==
    /\ pc = "record"
    /\ paid' = paid \cup Entries
    /\ Mark(Entries, "succeeded", "none")
    /\ loaded' = loaded \ Entries
    /\ pc' = "pay" /\ asset' = None /\ landed' = FALSE
    /\ UNCHANGED <<shares, ref, ready, queue, run, moved, lost, crashes>>

RecordFailed ==
    /\ pc = "record"
    /\ Mark(Entries, "reconciliation_required", "final")
    /\ Stop
    /\ UNCHANGED <<ledger, ref, ready, queue, moved, lost, crashes>>

\* No connection, or a sidecar without a treasury: nothing was submitted.  A
\* job raises and is tried again, a sweep leaves it to the designer.
Unavailable ==
    /\ pc = "sent" /\ ~landed
    /\ Mark(Remaining, IF Automatic THEN "retrying" ELSE "failed",
            "service_unavailable")
    /\ raised' = IF Automatic THEN raised \cup {run} ELSE raised
    /\ Stop
    /\ UNCHANGED <<ledger, ref, ready, queuedFor, jobs, moved, lost, crashes>>

\* hedera_error, a read timeout, a reset or a garbled answer.
Ambiguous ==
    /\ pc = "sent"
    /\ MarkRun("reconciliation_required", "final")
    /\ Stop
    /\ UNCHANGED <<ledger, ref, ready, queue, moved, lost, crashes>>

Rejected ==
    /\ pc = "sent" /\ ~landed
    /\ MarkRun("failed", "final")
    /\ Stop
    /\ UNCHANGED <<ledger, ref, ready, queue, moved, lost, crashes>>

\* PayoutAttempt.reconcile_ref!, when every asset is done: attempts of this
\* ref, of whichever designer, that are not resolved.
Finish ==
    /\ pc = "pay" /\ loaded = {}
    /\ LET mine == {p \in Shares : ref[p] = run.ref /\ attempt[p] \in Unresolved}
           done == mine \cap paid
           unready == {p \in mine \ done : Owner[p] \notin ready}
       IN  /\ attempt' = [p \in Shares |-> IF p \in done THEN "succeeded"
                                           ELSE IF p \in unready THEN "failed"
                                           ELSE attempt[p]]
           /\ error' = [p \in Shares |-> IF p \in done THEN "none"
                                         ELSE IF p \in unready
                                           THEN "final"
                                         ELSE error[p]]
    /\ Stop
    /\ UNCHANGED <<ledger, ref, ready, queue, moved, lost, crashes>>

\* The process dies, or the connection is closed without an answer (EOFError,
\* EPIPE), which SidecarClient does not rescue.  Of the attempts it was about
\* to start, some are.  A worker told to shut down gives its job back.
Crash ==
    /\ pc # "idle" /\ crashes < MaxCrashes
    /\ crashes' = crashes + 1
    /\ lost' = IF landed THEN lost \cup Entries ELSE lost
    /\ \E begun \in SUBSET (IF pc = "start" THEN loaded ELSE {}) :
          /\ Mark(begun, "processing", "none")
          /\ ref' = [p \in Shares |-> IF p \in begun THEN run.ref ELSE ref[p]]
    /\ jobs' = jobs \/ (Automatic /\ jobs' = jobs \cup {run})
    /\ Stop
    /\ UNCHANGED <<ledger, ready, queuedFor, raised, moved>>

\* The same between a job's Unavailable and its return to the queue.
CrashRaised(j) ==
    /\ j \in raised /\ crashes < MaxCrashes
    /\ crashes' = crashes + 1
    /\ raised' = raised \ {j}
    /\ jobs' = jobs \/ jobs' = jobs \cup {j}
    /\ UNCHANGED <<ledger, attempts, ready, queuedFor, runner, hedera, lost>>

-----------------------------------------------------------------------------
(* After a run.                                                            *)

\* As a bug would have it: one execution more than retry_on's attempts.
JobRetryOnceMore(j) ==
    /\ j \in raised /\ j.tries <= MaxTries
    /\ raised' = raised \ {j}
    /\ jobs' = jobs \cup {[j EXCEPT !.tries = @ + 1]}
    /\ UNCHANGED <<ledger, attempts, ready, queuedFor, runner, hedera, lost, crashes>>

\* retry_on SidecarClient::Unavailable: the job goes back into the queue ...
JobRetry(j) ==
    /\ j \in raised /\ j.tries < MaxTries
    /\ raised' = raised \ {j}
    /\ jobs' = jobs \cup {[j EXCEPT !.tries = @ + 1]}
    /\ UNCHANGED <<ledger, attempts, ready, queuedFor, runner, hedera, lost, crashes>>

\* As a bug would have it: the job is discarded and its attempts are forgotten.
JobExhaustSilently(j) ==
    /\ j \in raised /\ j.tries = MaxTries
    /\ raised' = raised \ {j}
    /\ UNCHANGED <<ledger, attempts, ready, queuedFor, jobs, runner, hedera,
                   lost, crashes>>

\* ... until its attempts are used up: PayoutAttempt.exhaust!, without the lock.
JobExhaust(j) ==
    /\ j \in raised /\ j.tries = MaxTries
    /\ raised' = raised \ {j}
    /\ Mark({p \in Shares : ref[p] = j.ref /\ attempt[p] = "retrying"},
            "failed", "service_unavailable")
    /\ UNCHANGED <<ledger, ref, ready, queuedFor, jobs, runner, hedera, lost, crashes>>

\* Designer::PayoutAttemptsController#retry, under the lock: the attempts that
\* failed together are queued as one job with their ref.  (Its other branch, for
\* failed attempts whose shares are paid, is never taken: LedgerIsTrue.)
DesignerRetry(p) ==
    LET group == {q \in Shares : /\ Owner[q] = Owner[p] /\ ref[q] = ref[p]
                                 /\ AssetOf[q] = AssetOf[p]
                                 /\ attempt[q] = "failed" /\ error[q] = error[p]}
    IN
    /\ pc = "idle"
    /\ attempt[p] = "failed" /\ error[p] \in Retryable
    /\ group \cap Owed # {} /\ Room
    /\ attempt' = [q \in Shares |-> IF q \in group THEN "retrying" ELSE attempt[q]]
    /\ jobs' = jobs \cup {[ref |-> ref[p], ids |-> group \cap Owed, tries |-> 1]}
    /\ UNCHANGED <<ledger, error, ref, ready, queuedFor, raised, runner, hedera,
                   lost, crashes>>

-----------------------------------------------------------------------------
RunStep ==
    \/ Start \/ Succeeded \/ Record \/ RecordFailed
    \/ Unavailable \/ Ambiguous \/ Rejected \/ Finish
    \/ \E a \in Assets, lands \in BOOLEAN : Send(a, lands)

Next ==
    \/ \E p \in Shares : Book(p) \/ DesignerRetry(p)
    \/ \E c \in Checkouts : Enqueue(c)
    \/ \E d \in Designers : Activate(d)
    \/ \E d \in Rechecked : Recheck(d)
    \/ \E j \in jobs : BeginJob(j)
    \/ \E j \in raised : JobRetry(j) \/ JobExhaust(j) \/ CrashRaised(j)
    \/ BeginSweep \/ RunStep \/ Crash

Spec == Init /\ [][Next]_vars

\* A run goes on; an operator sweeps again and again; the queue is worked off;
\* and the sidecar is not out of order for one asset for ever.
Fairness ==
    /\ WF_vars(RunStep)
    /\ SF_vars(BeginSweep)
    /\ SF_vars(\E j \in jobs : BeginJob(j))
    /\ WF_vars(\E j \in raised : JobRetry(j) \/ JobExhaust(j))
    /\ \A a \in Assets : SF_vars(Send(a, TRUE))

FairSpec == Spec /\ Fairness

-----------------------------------------------------------------------------
\* Shares whose transfer landed and that no ledger row covers: money that the
\* run that sent it must not leave to the next one.
InDoubt == {p \in shares \ paid : moved[p] > 0}
InHand  == IF landed THEN Entries ELSE {}

\* Money in doubt is in the hands of the run that moved it or kept out of every
\* later run, so that no share is transferred twice -- unless the run died
\* before it could say so, or the designer's verification was withdrawn.
MoneyAccounted ==
    \A p \in shares \ lost : Owner[p] \notin Rechecked =>
        /\ moved[p] <= 1
        /\ p \in InDoubt \ InHand => attempt[p] = "reconciliation_required"

\* The ledger and the attempts agree, and neither reports a payout that did
\* not happen: whichever run, retry or exhausted job wrote last.
LedgerIsTrue ==
    \A p \in Shares :
        /\ p \in paid <=> attempt[p] = "succeeded"
        /\ p \in paid => moved[p] > 0

\* "retrying" is a promise: a job that will try this share is queued, running
\* or about to be queued again, or its process died.
RetryingHasJob ==
    \A p \in Shares :
        attempt[p] = "retrying" /\ crashes = 0 /\ Owner[p] \notin Rechecked =>
            \E j \in jobs \cup raised \cup {run} : p \in j.ids

\* What is owed to a designer who can be paid is paid in the end, or waits for
\* an operator's reconciliation: however many runs, jobs and attempts fail.
OwedIsPaid ==
    \A p \in Shares :
        (p \in Owed /\ Owner[p] \in ready)
            ~> \/ p \in paid \/ attempt[p] = "reconciliation_required"
               \/ Owner[p] \notin ready

-----------------------------------------------------------------------------
(* What the code's comments say and the code does not keep.                *)

\* "... make a second payout for the same purchase impossible."
PaidOnce == \A p \in Shares : moved[p] <= 1

=============================================================================
