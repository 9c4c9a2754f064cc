--------------------------- MODULE EmailDelivery ---------------------------
(***************************************************************************)
(* E-mail: the routes enqueue jobs; workers claim a row of email_dispatches, *)
(* apply the daily cap, send and mark; the queue retries what fails, dies or  *)
(* takes too long.  Bounces come back from the provider, at least once, and  *)
(* suppress the address.  A daily purge forgets old notifications.            *)
(*                                                                         *)
(* Each await of deliverEmail is an action.  Two attempts of one job can      *)
(* overlap, when the queue gives up on one that is still running.             *)
(***************************************************************************)
EXTENDS Naturals, FiniteSets

CONSTANTS
    Jobs,         \* ids that can be given to jobs
    Workers,      \* processes that work on the queue
    Addresses,    \* of accounts, one each
    Notices,      \* notifications the provider publishes
    To,           \* the address each job is for
    About,        \* the address each notification is about
    Bounces,      \* those that are bounces or complaints
    None,
    DAILY_EMAIL_CAP,
    RetryLimit,
    MaxDay        \* bound: the calendar

ASSUME ConstantsAssumption ==
    /\ To \in [Jobs -> Addresses] /\ About \in [Notices -> Addresses]
    /\ Bounces \subseteq Notices
    /\ None \notin Jobs
    /\ DAILY_EMAIL_CAP \in Nat /\ RetryLimit \in Nat /\ MaxDay \in Nat \ {0}
    /\ IsFiniteSet(Jobs) /\ IsFiniteSet(Workers)

VARIABLES
    day,
    gone,        \* the accounts deleted since
    job, tries,  \* the state of each job in the queue, and its retries
    accountless, \* the jobs with no userId
    outcome,     \* what the attempt that completed a job answered
    row,         \* email_dispatches
    sent,        \* how often the mail server has taken each message
    hook,        \* the notifications whose transaction is open
    inbox,       \* processed_sns_messages: the day each was received, 0 if it is not there
    suppressed,  \* email_suppressions
    answered,    \* notifications answered with 200
    worker,
    faults,      \* how often an attempt was lost with its message perhaps sent
    uncapped,    \* jobs not counted against the day they were claimed on
    tainted      \* jobs enqueued after a bounce of their address was answered

queue   == <<job, tries, accountless, outcome>>
notices == <<hook, inbox, suppressed, answered>>
history == <<faults, uncapped, tainted>>
vars == <<day, gone, queue, row, sent, notices, worker, history>>

Row == [state : {"claimed", "sent"}, day : 1..MaxDay, owned : BOOLEAN]
NoRow == [state |-> "none", day |-> 0, owned |-> FALSE]

\* stale: the queue has given up on the attempt; holds: the row it knows is there.
Attempt ==
    [pc : {"idle", "check", "claim", "count", "withdraw", "lookup", "send", "mark",
           "sent", "skipped_duplicate", "skipped_capped", "skipped_suppressed"},
     job : Jobs \cup {None}, stale : BOOLEAN, holds : BOOLEAN]
Idle == [pc |-> "idle", job |-> None, stale |-> FALSE, holds |-> FALSE]

Outcomes == {"sent", "skipped_duplicate", "skipped_capped", "skipped_suppressed"}

\* Every variable has its type; a row is whole, or is not there, whichever attempt
\* of its job wrote last (email_dispatches).
TypeOK ==
    /\ day \in 1..MaxDay
    /\ gone \subseteq Addresses
    /\ job \in [Jobs -> {"none", "queued", "active", "done", "failed"}]
    /\ tries \in [Jobs -> 0..RetryLimit]
    /\ accountless \subseteq Jobs
    /\ outcome \in [Jobs -> Outcomes \cup {"none"}]
    /\ row \in [Jobs -> Row \cup {NoRow}]
    /\ sent \in [Jobs -> 0..(RetryLimit + 1)]
    /\ hook \subseteq Notices /\ inbox \in [Notices -> 0..MaxDay]
    /\ suppressed \subseteq Addresses
    /\ answered \subseteq Notices
    /\ worker \in [Workers -> Attempt]
    /\ faults \in [Jobs -> 0..(RetryLimit + 1)]
    /\ uncapped \subseteq Jobs
    /\ tainted \subseteq Jobs

Init ==
    /\ day = 1 /\ gone = {}
    /\ job = [j \in Jobs |-> "none"]
    /\ tries = [j \in Jobs |-> 0]
    /\ accountless = {}
    /\ outcome = [j \in Jobs |-> "none"]
    /\ row = [j \in Jobs |-> NoRow]
    /\ sent = [j \in Jobs |-> 0]
    /\ hook = {} /\ inbox = [n \in Notices |-> 0]
    /\ suppressed = {} /\ answered = {}
    /\ worker = [w \in Workers |-> Idle]
    /\ faults = [j \in Jobs |-> 0]
    /\ uncapped = {} /\ tainted = {}

-----------------------------------------------------------------------------
(* The routes, the calendar and the queue. *)

\* The address has bounced, and the provider has been told that it is known.
Answered(a) == \E n \in answered \cap Bounces : About[n] = a

\* toDeliveryJob: a dedupe key of its own.  The notice of a deletion has no userId;
\* a request that overlaps the deletion names the account that is gone.
Enqueue(j, owned) ==
    /\ job[j] = "none"
    /\ ~owned => To[j] \in gone
    /\ accountless' = IF owned THEN accountless ELSE accountless \cup {j}
    /\ job' = [job EXCEPT ![j] = "queued"]
    /\ tainted' = IF Answered(To[j]) THEN tainted \cup {j} ELSE tainted
    /\ UNCHANGED <<day, gone, tries, outcome, row, sent, notices, worker, faults, uncapped>>

Midnight ==
    /\ day < MaxDay /\ day' = day + 1
    /\ UNCHANGED <<gone, queue, row, sent, notices, worker, history>>

\* DELETE /account: user_id is set to NULL.
DeleteAccount(a) ==
    /\ a \notin gone
    /\ gone' = gone \cup {a}
    /\ row' = [j \in Jobs |-> IF To[j] = a THEN [row[j] EXCEPT !.owned = FALSE] ELSE row[j]]
    /\ UNCHANGED <<day, queue, sent, notices, worker, history>>

Take(w, j) ==
    /\ worker[w] = Idle /\ job[j] = "queued"
    /\ worker' = [worker EXCEPT ![w] = [Idle EXCEPT !.pc = "check", !.job = j, !.holds = TRUE]]
    /\ job' = [job EXCEPT ![j] = "active"]
    /\ UNCHANGED <<day, gone, tries, accountless, outcome, row, sent, notices, history>>

\* Not taken within the hour: the queue drops it.
Lapse(j) ==
    /\ job[j] = "queued"
    /\ job' = [job EXCEPT ![j] = "failed"]
    /\ UNCHANGED <<day, gone, tries, accountless, outcome, row, sent, notices, worker, history>>

Running(j) == {w \in Workers : worker[w].job = j /\ ~worker[w].stale}

\* Retried after a delay, until the limit.
Retried(j) ==
    /\ job' = [job EXCEPT ![j] = IF tries[j] < RetryLimit THEN "queued" ELSE "failed"]
    /\ tries' = [tries EXCEPT ![j] = IF @ < RetryLimit THEN @ + 1 ELSE @]

Fault(j) == faults' = [faults EXCEPT ![j] = @ + 1]

\* The queue's own timeout: the worker is dead, or slow and goes on.
Expire(j) ==
    /\ job[j] = "active"
    /\ Retried(j)
    /\ worker' = [w \in Workers |->
                     IF w \in Running(j) THEN [worker[w] EXCEPT !.stale = TRUE] ELSE worker[w]]
    /\ IF Running(j) # {} THEN Fault(j) ELSE UNCHANGED faults
    /\ UNCHANGED <<day, gone, accountless, outcome, row, sent, notices, uncapped, tainted>>

\* The process dies; the queue finds out by Expire.
Crash(w) ==
    /\ worker[w].pc # "idle"
    /\ worker' = [worker EXCEPT ![w] = Idle]
    /\ IF worker[w].pc = "mark" /\ ~worker[w].stale
       THEN Fault(worker[w].job) ELSE UNCHANGED faults
    /\ UNCHANGED <<day, gone, queue, row, sent, notices, uncapped, tainted>>

-----------------------------------------------------------------------------
(* deliverEmail. *)

Goes(w, from, to) ==
    worker[w].pc = from /\ worker' = [worker EXCEPT ![w].pc = to]

\* isSuppressed.  Faulty variant: by the notification, not by the address.
Checks(w, bad) ==
    /\ worker[w].pc = "check"
    /\ Goes(w, "check", IF To[worker[w].job] \in bad THEN "skipped_suppressed" ELSE "claim")
    /\ UNCHANGED <<day, gone, queue, row, sent, notices, history>>
CheckNotices(w) == Checks(w, {About[n] : n \in {m \in Bounces : inbox[m] # 0}})
Check(w) == Checks(w, suppressed)

\* INSERT ... ON CONFLICT DO NOTHING; the foreign key wants the account.
Claim(w) ==
    LET j == worker[w].job
    IN  /\ worker[w].pc = "claim"
        /\ row[j].state = "none" => j \in accountless \/ To[j] \notin gone
        /\ Goes(w, "claim", IF row[j].state # "none" THEN "lookup"
                            ELSE IF j \in accountless THEN "send" ELSE "count")
        /\ row' = IF row[j].state # "none" THEN row
                  ELSE [row EXCEPT ![j] = [state |-> "claimed", day |-> day,
                                           owned |-> j \notin accountless]]
        /\ UNCHANGED <<day, gone, queue, sent, notices, history>>

\* The rows of the account made today.  Faulty variant: those already sent.
RowsToday(a)     == {j \in Jobs : row[j].owned /\ To[j] = a /\ row[j].day = day}
SentToday(a)     == {j \in RowsToday(a) : row[j].state = "sent"}
CountedToday(a)  == RowsToday(a)

Count(w) ==
    LET j == worker[w].job
    IN  /\ worker[w].pc = "count"
        /\ Goes(w, "count", IF Cardinality(CountedToday(To[j])) > DAILY_EMAIL_CAP
                            THEN "withdraw" ELSE "send")
        /\ uncapped' = IF row[j].day = day THEN uncapped ELSE uncapped \cup {j}
        /\ UNCHANGED <<day, gone, queue, row, sent, notices, faults, tainted>>

\* DELETE: an overlapping attempt that has looked the row up is left without it.
Withdraw(w) ==
    /\ worker[w].pc = "withdraw"
    /\ worker' = [v \in Workers |->
                     IF v = w THEN [worker[v] EXCEPT !.pc = "skipped_capped"]
                     ELSE IF worker[v].job = worker[w].job /\ worker[v].pc \in {"send", "mark"}
                     THEN [worker[v] EXCEPT !.holds = FALSE] ELSE worker[v]]
    /\ row' = [row EXCEPT ![worker[w].job] = NoRow]
    /\ UNCHANGED <<day, gone, queue, sent, notices, history>>

\* A prior attempt's row: sent, or left behind.
Resumes(w, to) ==
    /\ Goes(w, "lookup", to)
    /\ row[worker[w].job].state # "none"
    /\ uncapped' = uncapped \cup {worker[w].job}
    /\ UNCHANGED <<day, gone, queue, row, sent, notices, faults, tainted>>

\* Faulty variant: it is sent again whatever the row says.
LookupResends(w) == Resumes(w, "send")
Lookup(w) ==
    worker[w].pc = "lookup" /\ Resumes(w, IF row[worker[w].job].state = "sent" THEN "skipped_duplicate" ELSE "send")

Send(w) ==
    /\ Goes(w, "send", "mark")
    /\ sent' = [sent EXCEPT ![worker[w].job] = @ + 1]
    /\ UNCHANGED <<day, gone, queue, row, notices, history>>

\* UPDATE by the id of the row.  Faulty variant: the row is there whatever happened.
Marks(w, there) ==
    /\ worker[w].pc = "mark"
    /\ Goes(w, "mark", "sent")
    /\ row' = IF there THEN [row EXCEPT ![worker[w].job].state = "sent"] ELSE row
    /\ UNCHANGED <<day, gone, queue, sent, notices, history>>
MarkAnyway(w) == Marks(w, TRUE)
Mark(w) == Marks(w, worker[w].holds)

\* The handler returns: the queue completes the job, unless it has given up on it.
Complete(w) ==
    LET j == worker[w].job
    IN  /\ worker[w].pc \in Outcomes
        /\ worker' = [worker EXCEPT ![w] = Idle]
        /\ IF worker[w].stale THEN UNCHANGED <<job, outcome>>
           ELSE /\ job' = [job EXCEPT ![j] = "done"]
                /\ outcome' = [outcome EXCEPT ![j] = worker[w].pc]
        /\ UNCHANGED <<day, gone, tries, accountless, row, sent, notices, history>>

\* A statement throws, or the mail server: it has refused the message, or taken it
\* and not said so.
Throws(w) ==
    LET j == worker[w].job
    IN  /\ worker[w].pc \notin Outcomes \cup {"idle"}
        /\ \E taken \in {FALSE} \cup (IF worker[w].pc = "send" THEN {TRUE} ELSE {}) :
              /\ sent' = IF taken THEN [sent EXCEPT ![j] = @ + 1] ELSE sent
              /\ IF (taken \/ worker[w].pc = "mark") /\ ~worker[w].stale
                 THEN Fault(j) ELSE UNCHANGED faults
        /\ worker' = [worker EXCEPT ![w] = Idle]
        /\ IF worker[w].stale THEN UNCHANGED <<job, tries>> ELSE Retried(j)
        /\ UNCHANGED <<day, gone, accountless, outcome, row, notices, uncapped, tainted>>

-----------------------------------------------------------------------------
(* POST /ses-notifications: one transaction, and the purge. *)

Rest == <<day, gone, queue, row, sent, worker, history>>

\* INSERT of the id ON CONFLICT DO NOTHING: a second delivery waits for the first
\* and is answered.  Faulty variant: the id is committed at once.
Claimed(n) ==
    /\ inbox[n] # 0 /\ n \notin hook
    /\ answered' = answered \cup {n}
    /\ UNCHANGED <<Rest, hook, inbox, suppressed>>
NotifyAutocommit(n) ==
    \/ Claimed(n)
    \/ /\ inbox[n] = 0
       /\ hook' = hook \cup {n} /\ inbox' = [inbox EXCEPT ![n] = day]
       /\ UNCHANGED <<Rest, suppressed, answered>>
Notify(n) ==
    \/ Claimed(n)
    \/ /\ inbox[n] = 0 /\ n \notin hook
       /\ hook' = hook \cup {n}
       /\ UNCHANGED <<Rest, inbox, suppressed, answered>>

\* suppressAddress for a bounce or a complaint, the commit, 200.
NotifyCommits(n) ==
    /\ n \in hook /\ hook' = hook \ {n}
    /\ inbox' = [inbox EXCEPT ![n] = day]
    /\ suppressed' = suppressed \cup (IF n \in Bounces THEN {About[n]} ELSE {})
    /\ answered' = answered \cup {n}
    /\ UNCHANGED Rest

\* Rolled back: the provider delivers it again.
NotifyFails(n) ==
    /\ n \in hook /\ hook' = hook \ {n}
    /\ UNCHANGED <<Rest, inbox, suppressed, answered>>

\* purgeExpired drops the ids received more than the retention ago.
Purge ==
    /\ inbox' = [n \in Notices |-> IF inbox[n] < day THEN 0 ELSE inbox[n]]
    /\ UNCHANGED <<Rest, hook, suppressed, answered>>

Attempts(w) ==
    Check(w) \/ Claim(w) \/ Count(w) \/ Withdraw(w) \/ Lookup(w) \/ Send(w) \/ Mark(w)
    \/ Complete(w) \/ Throws(w)

Next ==
    \/ Midnight \/ Purge
    \/ \E a \in Addresses : DeleteAccount(a)
    \/ \E j \in Jobs :
          \/ \E owned \in BOOLEAN : Enqueue(j, owned)
          \/ \E w \in Workers : Take(w, j)
          \/ Expire(j) \/ Lapse(j)
    \/ \E w \in Workers : Attempts(w) \/ Crash(w)
    \/ \E n \in Notices : Notify(n) \/ NotifyCommits(n) \/ NotifyFails(n)

Spec == Init /\ [][Next]_vars

-----------------------------------------------------------------------------

\* A message is taken by the mail server at most once more than attempts were lost
\* while it may have been taken, and a job that ended as sent, or as a duplicate of
\* what was sent, was sent (deliverEmail's claim and sent_at, under the queue's
\* retries).
DeliveredOnce ==
    \A j \in Jobs :
        /\ sent[j] <= 1 + faults[j]
        /\ outcome[j] \in {"sent", "skipped_duplicate"} => sent[j] > 0

\* An account is sent no more than the cap in a day, however many workers count at
\* once.  A job that resumed a row of an earlier attempt, or was claimed before
\* midnight and counted after it, is not counted (deliverEmail).
CapHolds ==
    \A a \in Addresses \ gone, d \in 1..MaxDay :
        Cardinality({j \in Jobs \ uncapped :
                        To[j] = a /\ row[j].owned /\ row[j].day = d /\ sent[j] > 0})
            <= DAILY_EMAIL_CAP

\* A message asked for after a bounce of its address was acknowledged is never sent,
\* though the purge forgets the notification and the provider repeats it
\* (isSuppressed, suppressAddress, purgeExpired).
BouncedIsNeverMailed == \A j \in tainted : sent[j] = 0
=============================================================================
