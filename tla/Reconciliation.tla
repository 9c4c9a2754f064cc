--------------------------- MODULE Reconciliation ---------------------------
(***************************************************************************)
(* Reconciliation runs: the scheduled job and the admin's button, which may *)
(* run at once.  A run reads the newest successful run, lists the provider's *)
(* balance transactions since then (newest first, page by page, while more   *)
(* settle), posts the fee of each, reports the charges the ledger does not   *)
(* have, and records itself.  It can fail or die at every step.              *)
(*                                                                         *)
(* Transaction k is the k-th the provider settles.  Charges reach the ledger *)
(* from the webhook (PaymentPipeline), each in a transaction of its own.     *)
(***************************************************************************)
EXTENDS Naturals, Sequences, FiniteSetsExt

CONSTANTS
    Runners,      \* runs that can be in flight at once
    N,            \* bound: balance transactions that settle
    Free,         \* those without a fee
    Direct,       \* those without a payment intent
    Payouts,      \* those that are no settlement
    Differing,    \* those whose amount or currency is not the ledger's
    PageSize, MaxPages,
    Overlap,      \* WATERMARK_OVERLAP_S
    MaxRun,       \* assumed: the longest a run takes from its listing to its record
    MaxTime,      \* bound: the clock
    MaxFailures   \* bound: runs that fail or die

Txns == 1..N

ASSUME ConstantsAssumption ==
    /\ N \in Nat /\ Free \subseteq Txns /\ Direct \subseteq Txns /\ Payouts \subseteq Txns
    /\ Differing \subseteq Txns
    /\ PageSize \in Nat \ {0} /\ MaxPages \in Nat \ {0}
    /\ Overlap \in Nat /\ MaxRun \in Nat /\ MaxTime \in Nat \ {0}
    /\ MaxFailures \in Nat

VARIABLES
    now,        \* seconds, of the provider and of the database
    created,    \* the time each transaction settled, in order
    charged,    \* the transactions whose charge is in the ledger
    fees,       \* how many fee entries the ledger has for each transaction
    reported,   \* how many successful runs counted that fee in their row
    lastOk,     \* ran_at of the newest successful run, 0 if there is none
    seeded,     \* how many there were for a successful run with no window
    reconciled, \* the transactions some successful run went through
    row,        \* the newest row each runner wrote
    run,        \* the runs in flight
    failures

ledger  == <<charged, fees>>
history == <<reported, lastOk, seeded, reconciled, row>>
vars == <<now, created, ledger, history, run, failures>>

\* since: the watermark the run read; low and next: the oldest transaction of its
\* window and the newest it has not listed; top: how many there were when it
\* began to list; todo: what it has yet to go through.
Run ==
    [pc : {"idle", "list", "page", "fee", "check", "record", "failing"},
     since : 0..MaxTime, began : 0..MaxTime, top : 0..N, low : 0..(N + 1), next : 0..N,
     pages : 0..MaxPages, listed : SUBSET Txns, todo : SUBSET Txns,
     posted : SUBSET Txns, missing : SUBSET Txns]

Idle == [pc |-> "idle", since |-> 0, began |-> 0, top |-> 0, low |-> 0, next |-> 0,
         pages |-> 0, listed |-> {}, todo |-> {}, posted |-> {}, missing |-> {}]

Row == [status : {"none", "ok", "failed"}, checked : SUBSET Txns, missing : SUBSET Txns]

Settled == 1..Len(created)

TypeOK ==
    /\ now \in 1..MaxTime
    /\ created \in Seq(1..MaxTime) /\ Len(created) <= N
    /\ charged \subseteq Txns
    /\ fees \in [Txns -> Nat]
    /\ reported \in [Txns -> Nat]
    /\ lastOk \in 0..MaxTime
    /\ seeded \in 0..N
    /\ reconciled \subseteq Txns
    /\ row \in [Runners -> Row]
    /\ run \in [Runners -> Run]
    /\ failures \in 0..MaxFailures

Init ==
    /\ now = 1
    /\ created = <<>>
    /\ charged = {}
    /\ fees = [k \in Txns |-> 0]
    /\ reported = [k \in Txns |-> 0]
    /\ lastOk = 0
    /\ seeded = 0
    /\ reconciled = {}
    /\ row = [r \in Runners |-> [status |-> "none", checked |-> {}, missing |-> {}]]
    /\ run = [r \in Runners |-> Idle]
    /\ failures = 0

-----------------------------------------------------------------------------
(* The provider, the webhook, and the clock, which waits for no run longer   *)
(* than MaxRun.                                                              *)

Settle ==
    /\ Len(created) < N
    /\ created' = Append(created, now)
    /\ UNCHANGED <<now, ledger, history, run, failures>>

\* The webhook posts the charge, before or after it settles.
Charge(k) ==
    /\ k \notin charged \cup Direct \cup Payouts
    /\ charged' = charged \cup {k}
    /\ UNCHANGED <<now, created, fees, history, run, failures>>

Listing(r) == run[r].pc \notin {"idle", "list"}

Tick ==
    /\ now < MaxTime
    /\ \A r \in Runners : Listing(r) => now - run[r].began < MaxRun
    /\ now' = now + 1
    /\ UNCHANGED <<created, ledger, history, run, failures>>

-----------------------------------------------------------------------------
(* A run. *)

Goes(r, from, to) == run[r].pc = from /\ run' = [run EXCEPT ![r] = to]
At(r, pc)         == [run[r] EXCEPT !.pc = pc]

\* The watermark: ran_at of the newest successful run.
Start(r) ==
    /\ Goes(r, "idle", [Idle EXCEPT !.pc = "list", !.since = lastOk])
    /\ UNCHANGED <<now, created, ledger, history, failures>>

\* The oldest transaction of the window.  Faulty variant: no overlap.
OldestSince(t) == Min({k \in Settled : created[k] >= t} \cup {Len(created) + 1})
NoOverlap(since)   == OldestSince(since)
WindowStart(since) == OldestSince(IF since > Overlap THEN since - Overlap ELSE 0)

\* The page that ends at `next`, newest first, and the run once it has it.
PageOf(next, low) == {k \in low..next : next - k < PageSize}

WithPage(t, page) ==
    [t EXCEPT !.next = IF page = {} THEN t.next ELSE Min(page) - 1,
              !.pages = t.pages + 1,
              !.listed = t.listed \cup (page \ Payouts),
              !.todo = t.todo \cup (page \ Payouts)]

HasMore(t) == t.next >= t.low /\ t.since # 0   \* the first run stops at a page

Listed(t) ==
    [t EXCEPT !.pc = IF HasMore(t) THEN "page" ELSE IF t.todo = {} THEN "record" ELSE "fee"]

List(r) ==
    LET low   == WindowStart(run[r].since)
        fresh == [run[r] EXCEPT !.began = now, !.top = Len(created), !.low = low,
                                !.next = Len(created)]
    IN  /\ Goes(r, "list", Listed(WithPage(fresh, PageOf(Len(created), low))))
        /\ UNCHANGED <<now, created, ledger, history, failures>>

\* The loud bound.  Faulty variant: it lets one page more through.
TooManyPagesRead(t) == t.pages > MaxPages
TooManyPages(t)     == t.pages >= MaxPages

\* starting_after the last of the page: what settles meanwhile moves nothing.
Page(r) ==
    /\ Goes(r, "page",
            IF TooManyPages(run[r]) THEN At(r, "failing")
            ELSE Listed(WithPage(run[r], PageOf(run[r].next, run[r].low))))
    /\ UNCHANGED <<now, created, ledger, history, failures>>

Current(r) == Max(run[r].todo)

\* The fee, in a transaction of its own: posted unless some run has posted it.
Unposted(k) == fees[k] = 0
\* Faulty variant: no unique key to conflict with.
AlwaysUnposted(k) == TRUE
Postable(k) == Unposted(k)

\* Faulty variant: the run counts the fee whether or not it posted it.
CountEvery(r, k) == {k} \ Free
Counted(r, k)    == IF Postable(k) THEN {k} \ Free ELSE {}

Fee(r) ==
    LET k == Current(r)
    IN  /\ Goes(r, "fee", [At(r, "check") EXCEPT !.posted = @ \cup Counted(r, k)])
        /\ fees' = IF k \notin Free /\ Postable(k) THEN [fees EXCEPT ![k] = @ + 1] ELSE fees
        /\ UNCHANGED <<now, created, charged, history, failures>>

\* The charge.  Faulty variant: only for fees this run has posted.
Unbooked(k)           == k \notin Direct /\ (k \notin charged \/ k \in Differing)
MissingIfPosted(r, k) == k \in run[r].posted /\ Unbooked(k)
Missing(r, k)         == Unbooked(k)

Check(r) ==
    LET k    == Current(r)
        left == run[r].todo \ {k}
    IN  /\ Goes(r, "check",
                [At(r, IF left = {} THEN "record" ELSE "fee") EXCEPT
                    !.todo = left,
                    !.missing = @ \cup (IF Missing(r, k) THEN {k} ELSE {})])
        /\ UNCHANGED <<now, created, ledger, history, failures>>

\* The row of a successful run is the next run's watermark.
Record(r) ==
    /\ Goes(r, "record", Idle)
    /\ row' = [row EXCEPT ![r] = [status |-> "ok", checked |-> run[r].listed,
                                  missing |-> run[r].missing]]
    /\ reported' = [k \in Txns |-> reported[k] + (IF k \in run[r].posted THEN 1 ELSE 0)]
    /\ lastOk' = now
    /\ seeded' = IF run[r].since = 0 THEN Max({seeded, run[r].top}) ELSE seeded
    /\ reconciled' = reconciled \cup run[r].listed
    /\ UNCHANGED <<now, created, ledger, failures>>

\* The row of a failed run.  Faulty variant: it moves the watermark too.
RecordsFailure(r, watermark) ==
    /\ Goes(r, "failing", Idle)
    /\ row' = [row EXCEPT ![r] = [status |-> "failed", checked |-> {}, missing |-> {}]]
    /\ lastOk' = watermark
    /\ UNCHANGED <<now, created, ledger, reported, seeded, reconciled, failures>>

FailureIsWatermark(r) == RecordsFailure(r, now)
RecordFailed(r)       == RecordsFailure(r, lastOk)

\* The provider or the database throws; the process dies, or cannot even record.
Fails(r) ==
    /\ run[r].pc \notin {"idle", "failing"} /\ failures < MaxFailures
    /\ \E to \in {At(r, "failing"), Idle} : run' = [run EXCEPT ![r] = to]
    /\ failures' = failures + 1
    /\ UNCHANGED <<now, created, ledger, history>>

Works(r) == List(r) \/ Page(r) \/ Fee(r) \/ Check(r) \/ Record(r) \/ RecordFailed(r)

Next ==
    \/ Settle \/ Tick
    \/ \E k \in Txns : Charge(k)
    \/ \E r \in Runners : Start(r) \/ Works(r) \/ Fails(r)

Spec == Init /\ [][Next]_vars

\* The scheduler starts a run every day, and a run that is started goes on.
FairSpec == Spec /\ \A r \in Runners : WF_vars(Start(r)) /\ WF_vars(Works(r))

-----------------------------------------------------------------------------
\* A fee is in the ledger once, whatever runs overlap, fail half way or read the
\* same hour again.
FeePostedOnce == \A k \in Txns : fees[k] <= 1

\* Added up over the history, fees_posted_minor never says more than the ledger:
\* a fee two runs meet, or one failed run has left behind, is counted once.
FeesNotOverstated == \A k \in Txns : reported[k] <= fees[k]

\* Nothing falls between two windows: what settled before the next run's window
\* has been gone through by a run that succeeded.  What was there for a first run,
\* which reads one page, is "a manual concern, accepted deliberately".
NothingSkipped ==
    \A k \in Settled \ Payouts :
        lastOk # 0 /\ k > seeded /\ k < WindowStart(lastOk) => k \in reconciled

\* A charge that a successful run has gone through and not reported is in the
\* ledger and agrees with it: "a settled charge must have a ledger charge".
CleanMeansCharged ==
    \A r \in Runners, k \in Txns \ Direct :
        k \in row[r].checked \ row[r].missing => k \in charged \ Differing

\* Once there is a watermark, each settlement is gone through by some run that
\* succeeds, although runs fail and die.
EverySettlementReconciled ==
    \A k \in Txns \ Payouts :
        lastOk # 0 /\ k \in Settled /\ k > seeded ~> k \in reconciled

\* A window of more transactions than MAX_PAGES pages hold, and no run under way that
\* could still succeed: each has listed, or will list, more than that.
Capacity == MaxPages * PageSize

Oversized == lastOk # 0 /\ Len(created) + 1 - WindowStart(lastOk) > Capacity

CanSucceed(r) ==
    /\ run[r].pc \notin {"idle", "failing"}
    /\ run[r].since = 0 \/ (run[r].pc # "list" /\ run[r].top + 1 - run[r].low <= Capacity)

Stuck == Oversized /\ \A r \in Runners : ~CanSucceed(r)

\* The loud bound is final: the failed run does not move the watermark, so the next
\* one reads the same window and more, and no run ever succeeds again.  It is not so
\* that "the next day's run self-heals the scan window".
OverflowIsFinal == [][Stuck => Stuck' /\ \A r \in Runners : ~Record(r)]_vars
=============================================================================
