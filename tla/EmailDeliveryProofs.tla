------------------------ MODULE EmailDeliveryProofs ------------------------
(***************************************************************************)
(* EmailDelivery is correct for every number of jobs, workers, addresses and  *)
(* notifications, every retry limit, cap and calendar.                       *)
(***************************************************************************)
EXTENDS EmailDelivery, FiniteSetTheorems, TLAPS

Shaped(t) == (t.pc = "idle" => t = Idle) /\ (t.pc # "idle" => t.job \in Jobs)

DataOK ==
    /\ day \in 1..MaxDay
    /\ gone \subseteq Addresses
    /\ job \in [Jobs -> {"none", "queued", "active", "done", "failed"}]
    /\ tries \in [Jobs -> 0..RetryLimit]
    /\ accountless \subseteq Jobs
    /\ outcome \in [Jobs -> Outcomes \cup {"none"}]
    /\ sent \in [Jobs -> Nat] /\ faults \in [Jobs -> Nat]
    /\ hook \subseteq Notices /\ inbox \in [Notices -> 0..MaxDay]
    /\ suppressed \subseteq Addresses
    /\ answered \subseteq Notices
    /\ worker \in [Workers -> Attempt] /\ \A w \in Workers : Shaped(worker[w])
    /\ uncapped \subseteq Jobs
    /\ tainted \subseteq Jobs

\* One attempt at most runs, and only while the queue has the job as active.
QueueInv(j) ==
    /\ job[j] = "none" => \A w \in Workers : worker[w].job # j
    /\ job[j] # "active" => Running(j) = {}
    /\ \A v, w \in Running(j) : v = w

\* Only the attempt that has inserted the row can withdraw it, and the attempts that
\* know the row find it.
Counting == {"count", "withdraw"}
Sending  == {"send", "mark"}
Before   == {"check", "claim", "count", "withdraw", "lookup"}

RowInv ==
    /\ row \in [Jobs -> Row \cup {NoRow}]
    /\ \A w \in Workers : worker[w].pc \in Before => worker[w].holds
    /\ \A w \in Workers :
          worker[w].pc \in Counting \/ (worker[w].pc \in Sending /\ worker[w].holds)
             => row[worker[w].job].state # "none"
    /\ \A v, w \in Workers :
          worker[v].pc \in Counting /\ worker[w].pc \in Counting /\ worker[v].job = worker[w].job
             => v = w

\* What says that a message was sent is true.
SentInv ==
    /\ \A w \in Workers : worker[w].pc \in {"mark", "sent", "skipped_duplicate"}
                             => sent[worker[w].job] > 0
    /\ \A j \in Jobs : row[j].state = "sent" \/ outcome[j] \in {"sent", "skipped_duplicate"}
                             => sent[j] > 0

\* The attempts that the queue has begun, and those that have yet to send.
Begun(j) ==
    CASE job[j] = "none"               -> 0
      [] job[j] = "queued"             -> tries[j]
      [] job[j] \in {"active", "done"} -> tries[j] + 1
      [] OTHER                         -> RetryLimit + 1

Pending       == Before \cup {"send"}
Unsent(j)      == {w \in Workers : worker[w].job = j /\ worker[w].pc \in Pending}
StaleUnsent(j) == {w \in Unsent(j) : worker[w].stale}

AttemptsInv(j) ==
    /\ sent[j] + Cardinality(Unsent(j)) <= Begun(j)
    /\ faults[j] + Cardinality(Running(j)) <= Begun(j)

\* A fault pays for one message, sent by an attempt that is lost or that may still
\* send.  One message is free: while its attempt is about to mark it, while the row
\* says it was sent and no attempt is on its way past the row, or when the job is done.
Free(j) ==
    \/ job[j] = "done"
    \/ \E w \in Running(j) : worker[w].pc = "mark" /\ worker[w].holds
    \/ /\ row[j].state = "sent"
       /\ \A w \in Running(j) : worker[w].pc \notin Counting \cup Sending

Excess(j) == sent[j] + Cardinality(StaleUnsent(j)) - faults[j]

PaidInv(j) ==
    /\ Excess(j) <= 1
    /\ ~Free(j) => Excess(j) <= 0
    /\ \A w \in Running(j) : worker[w].pc = "send" /\ ~worker[w].holds => Excess(j) < 0

\* A job that was counted and sent, or is about to be, keeps the row it was counted by.
Passed(j) == sent[j] > 0 \/ \E w \in Workers : worker[w].job = j /\ worker[w].pc \in Sending
Capped(a, d) ==
    {j \in Jobs \ uncapped : To[j] = a /\ row[j].owned /\ row[j].day = d /\ Passed(j)}

CapInv ==
    /\ \A j \in Jobs \ uncapped : Passed(j) =>
          /\ row[j].state # "none"
          /\ \A w \in Workers : worker[w].job = j => worker[w].pc \notin Counting
    /\ \A a \in Addresses, d \in 1..MaxDay : Cardinality(Capped(a, d)) <= DAILY_EMAIL_CAP

\* A notification that is known or answered has suppressed its address, and what was
\* asked for after that gets no further than the check.
BounceInv ==
    /\ \A n \in Bounces : inbox[n] # 0 \/ n \in answered => About[n] \in suppressed
    /\ \A j \in tainted : To[j] \in suppressed /\ sent[j] = 0 /\ job[j] # "none"
    /\ \A w \in Workers : worker[w].job \in tainted
                             => worker[w].pc \in {"check", "skipped_suppressed"}

MailInv ==
    /\ DataOK /\ RowInv /\ SentInv /\ CapInv /\ BounceInv
    /\ \A j \in Jobs : QueueInv(j) /\ AttemptsInv(j) /\ PaidInv(j)

-----------------------------------------------------------------------------
(* The steps of an attempt, and types. *)

Pcs == {"check", "claim", "count", "withdraw", "lookup", "send", "mark"} \cup Outcomes

LEMMA IdleIsAttempt ==
    /\ Idle \in Attempt /\ Idle.pc = "idle" /\ Idle.job = None /\ ~Idle.stale /\ Shaped(Idle)
    /\ None \notin Jobs
  BY ConstantsAssumption DEF Idle, Attempt, Shaped

\* The attempt of w becomes u, and the others stay.
Becomes(w, u) ==
    /\ worker' \in [Workers -> Attempt] /\ (\A v \in Workers : Shaped(worker'[v]))
    /\ worker'[w] = u
    /\ \A v \in Workers \ {w} : worker'[v] = worker[v]

LEMMA MovedWorker ==
    ASSUME DataOK, NEW w \in Workers, NEW u \in Attempt, Shaped(u),
           worker' = [worker EXCEPT ![w] = u]
    PROVE  Becomes(w, u)
  BY DEF DataOK, Becomes

LEMMA BusyHasJob ==
    ASSUME DataOK, NEW w \in Workers, worker[w].pc # "idle"
    PROVE  worker[w] \in Attempt /\ worker[w].job \in Jobs /\ worker[w].stale \in BOOLEAN
  BY DEF DataOK, Shaped, Attempt

\* An attempt that goes on keeps its job, and what it knows of the row.
GoesOn(w, to) ==
    \E u \in Attempt : /\ Becomes(w, u) /\ u.pc = to
                       /\ u.job = worker[w].job /\ u.stale = worker[w].stale
                       /\ u.holds = worker[w].holds

LEMMA GoesStep ==
    ASSUME DataOK, NEW w \in Workers, NEW from \in Pcs, NEW to \in Pcs, Goes(w, from, to)
    PROVE  GoesOn(w, to) /\ worker[w].pc = from /\ worker[w].job \in Jobs
  <1> DEFINE u == [worker[w] EXCEPT !.pc = to]
  <1>1. worker[w].pc = from /\ from # "idle" /\ to # "idle"
    BY DEF Goes, Pcs, Outcomes
  <1>2. worker[w] \in Attempt /\ worker[w].job \in Jobs
    BY <1>1, BusyHasJob
  <1>3. /\ u \in Attempt /\ u.pc = to /\ u.job = worker[w].job /\ u.stale = worker[w].stale
        /\ u.holds = worker[w].holds
    BY <1>2 DEF Attempt, Pcs, Outcomes
  <1>4. worker' = [worker EXCEPT ![w] = u]
    BY DEF Goes
  <1> HIDE DEF u
  <1>5. Shaped(u)
    BY <1>1, <1>2, <1>3 DEF Shaped
  <1>6. Becomes(w, u)
    BY <1>3, <1>4, <1>5, MovedWorker
  <1> QED BY <1>1, <1>2, <1>3, <1>6 DEF GoesOn

\* The steps of deliverEmail that end no attempt and withdraw no row.
LEMMA DeliverStep ==
    ASSUME DataOK, NEW w \in Workers
    PROVE  /\ Check(w) => worker[w].pc = "check" /\ worker[w].job \in Jobs /\
                 IF To[worker[w].job] \in suppressed THEN GoesOn(w, "skipped_suppressed")
                                                    ELSE GoesOn(w, "claim")
           /\ Claim(w) => worker[w].pc = "claim" /\ worker[w].job \in Jobs /\
                 IF row[worker[w].job].state # "none" THEN GoesOn(w, "lookup")
                 ELSE IF worker[w].job \in accountless THEN GoesOn(w, "send") ELSE GoesOn(w, "count")
           /\ Count(w) => worker[w].pc = "count" /\ worker[w].job \in Jobs /\
                 IF Cardinality(CountedToday(To[worker[w].job])) > DAILY_EMAIL_CAP
                 THEN GoesOn(w, "withdraw") ELSE GoesOn(w, "send")
           /\ Lookup(w) => worker[w].pc = "lookup" /\ worker[w].job \in Jobs /\
                 IF row[worker[w].job].state = "sent" THEN GoesOn(w, "skipped_duplicate")
                                                     ELSE GoesOn(w, "send")
           /\ Send(w) => worker[w].pc = "send" /\ worker[w].job \in Jobs /\ GoesOn(w, "mark")
           /\ Mark(w) => worker[w].pc = "mark" /\ worker[w].job \in Jobs /\ GoesOn(w, "sent")
  <1>1. \A from, to \in Pcs : Goes(w, from, to)
           => GoesOn(w, to) /\ worker[w].pc = from /\ worker[w].job \in Jobs
    BY GoesStep
  <1>2. /\ "check" \in Pcs /\ "claim" \in Pcs /\ "count" \in Pcs /\ "withdraw" \in Pcs
        /\ "lookup" \in Pcs /\ "send" \in Pcs /\ "mark" \in Pcs /\ "sent" \in Pcs
        /\ "skipped_duplicate" \in Pcs /\ "skipped_suppressed" \in Pcs
    BY DEF Pcs, Outcomes
  <1> QED BY <1>1, <1>2 DEF Check, Checks, Claim, Count, Lookup, Resumes, Send, Mark, Marks

\* The steps that end an attempt, and the ones that begin it.
LEMMA EndStep ==
    ASSUME DataOK, NEW w \in Workers, Crash(w) \/ Complete(w) \/ Throws(w)
    PROVE  Becomes(w, Idle) /\ worker[w].job \in Jobs /\ worker[w].pc # "idle"
  <1>1. worker[w].pc # "idle" /\ worker' = [worker EXCEPT ![w] = Idle]
    BY DEF Crash, Complete, Throws, Outcomes
  <1> QED BY <1>1, BusyHasJob, IdleIsAttempt, MovedWorker

LEMMA TakeStep ==
    ASSUME DataOK, NEW w \in Workers, NEW j \in Jobs, Take(w, j)
    PROVE  \E u \in Attempt : /\ Becomes(w, u) /\ u.pc = "check" /\ u.job = j /\ ~u.stale
                              /\ u.holds /\ worker[w] = Idle
  <1> DEFINE u == [Idle EXCEPT !.pc = "check", !.job = j, !.holds = TRUE]
  <1>1. u \in Attempt /\ u.pc = "check" /\ u.job = j /\ ~u.stale /\ u.holds /\ Shaped(u)
    BY DEF Idle, Attempt, Shaped
  <1>2. worker' = [worker EXCEPT ![w] = u] /\ worker[w] = Idle
    BY DEF Take
  <1> HIDE DEF u
  <1> QED BY <1>1, <1>2, MovedWorker

LEMMA WithdrawStep ==
    ASSUME DataOK, NEW w \in Workers, Withdraw(w)
    PROVE  /\ worker' \in [Workers -> Attempt] /\ (\A v \in Workers : Shaped(worker'[v]))
           /\ worker[w].pc = "withdraw" /\ worker[w].job \in Jobs
           /\ worker'[w].pc = "skipped_capped"
           /\ \A v \in Workers : worker'[v].job = worker[v].job /\ worker'[v].stale = worker[v].stale
           /\ \A v \in Workers \ {w} :
                 /\ worker'[v].pc = worker[v].pc
                 /\ worker'[v].holds = (worker[v].holds /\ ~(worker[v].job = worker[w].job
                                                             /\ worker[v].pc \in Sending))
  <1>1. worker[w].pc = "withdraw" /\ worker[w].job \in Jobs
    BY BusyHasJob DEF Withdraw
  <1>2. \A v \in Workers : worker[v] \in Attempt /\ Shaped(worker[v])
    BY DEF DataOK
  <1>3. \A v \in Workers : worker'[v] =
           IF v = w THEN [worker[v] EXCEPT !.pc = "skipped_capped"]
           ELSE IF worker[v].job = worker[w].job /\ worker[v].pc \in Sending
           THEN [worker[v] EXCEPT !.holds = FALSE] ELSE worker[v]
    BY DEF Withdraw, Sending
  <1>4. ASSUME NEW v \in Workers
        PROVE  /\ worker'[v] \in Attempt
               /\ worker'[v].job = worker[v].job /\ worker'[v].stale = worker[v].stale
               /\ v = w => worker'[v].pc = "skipped_capped"
               /\ v # w => /\ worker'[v].pc = worker[v].pc
                           /\ worker'[v].holds = (worker[v].holds /\ ~(worker[v].job = worker[w].job
                                                             /\ worker[v].pc \in Sending))
    <2>1. CASE v = w
      BY <1>2, <1>3, <2>1 DEF Attempt
    <2>2. CASE v # w /\ worker[v].job = worker[w].job /\ worker[v].pc \in Sending
      BY ZenonT(60), <1>2, <1>3, <2>2 DEF Attempt
    <2>3. CASE v # w /\ ~(worker[v].job = worker[w].job /\ worker[v].pc \in Sending)
      <3>1. worker'[v] = worker[v] /\ worker[v].holds \in BOOLEAN
        BY <1>2, <1>3, <2>3, Zenon DEF Attempt
      <3> QED BY <1>2, <2>3, <3>1
    <2> QED BY <2>1, <2>2, <2>3
  <1>5. ASSUME NEW v \in Workers PROVE Shaped(worker'[v])
    <2>1. CASE worker[v].pc = "idle"
      BY <1>1, <1>2, <1>3, <2>1, IdleIsAttempt DEF Shaped, Sending
    <2>2. CASE worker[v].pc # "idle"
      BY <1>2, <1>4, <2>2 DEF Shaped
    <2> QED BY <2>1, <2>2
  <1>6. worker' = [v \in Workers |-> worker'[v]]
    BY DEF Withdraw
  <1> QED BY <1>1, <1>4, <1>5, <1>6

\* Who is running when the queue gives up on the job.
LEMMA ExpireStep ==
    ASSUME DataOK, NEW j \in Jobs, QueueInv(j), Expire(j)
    PROVE  \/ Running(j) = {} /\ worker' = worker /\ faults' = faults
           \/ \E w \in Workers, u \in Attempt :
                 /\ Running(j) = {w} /\ Becomes(w, u) /\ u.pc = worker[w].pc
                 /\ u.job = j /\ u.stale /\ u.holds = worker[w].holds
                 /\ faults' = [faults EXCEPT ![j] = faults[j] + 1]
  <1>0. worker \in [Workers -> Attempt]
    BY DEF DataOK
  <1>1. CASE Running(j) = {}
    <2>1. worker' = [w \in Workers |-> worker[w]]
      BY <1>1 DEF Expire
    <2> QED BY <1>0, <1>1, <2>1 DEF Expire
  <1>2. CASE Running(j) # {}
    <2>1. PICK w \in Running(j) : TRUE
      BY <1>2
    <2>2. w \in Workers /\ Running(j) = {w} /\ worker[w].job = j
      BY <2>1 DEF QueueInv, Running
    <2> DEFINE u == [worker[w] EXCEPT !.stale = TRUE]
    <2>3. /\ u \in Attempt /\ u.pc = worker[w].pc /\ u.job = j /\ u.stale /\ u.holds = worker[w].holds
      BY <1>0, <2>2 DEF Attempt
    <2>4. worker' = [worker EXCEPT ![w] = u]
      BY <1>0, <2>2 DEF Expire
    <2>5. worker[w].pc # "idle"
      BY <1>0, <2>2, IdleIsAttempt DEF DataOK, Shaped
    <2> HIDE DEF u
    <2>6. Becomes(w, u)
      BY <2>2, <2>3, <2>4, <2>5, MovedWorker DEF Shaped
    <2> QED BY <1>2, <2>2, <2>3, <2>6 DEF Expire, Fault
  <1> QED BY <1>1, <1>2

-----------------------------------------------------------------------------
(* Types are kept. *)

Working ==
    \/ \E j \in Jobs : Expire(j) \/ \E w \in Workers : Take(w, j)
    \/ \E w \in Workers : Attempts(w) \/ Crash(w)

LEMMA WorkersNext ==
    ASSUME DataOK, \A j \in Jobs : QueueInv(j), [Next]_vars
    PROVE  worker' \in [Workers -> Attempt] /\ \A w \in Workers : Shaped(worker'[w])
  <1>1. CASE worker' = worker
    BY <1>1 DEF DataOK
  <1>2. ASSUME NEW w \in Workers, NEW to, GoesOn(w, to)
        PROVE  worker' \in [Workers -> Attempt] /\ \A v \in Workers : Shaped(worker'[v])
    BY <1>2 DEF GoesOn, Becomes
  <1>3. ASSUME NEW w \in Workers, Check(w) \/ Claim(w) \/ Count(w) \/ Lookup(w) \/ Send(w) \/ Mark(w)
        PROVE  worker' \in [Workers -> Attempt] /\ \A v \in Workers : Shaped(worker'[v])
    BY <1>2, <1>3, DeliverStep
  <1>4. ASSUME NEW w \in Workers, Crash(w) \/ Complete(w) \/ Throws(w)
        PROVE  worker' \in [Workers -> Attempt] /\ \A v \in Workers : Shaped(worker'[v])
    BY <1>4, EndStep DEF Becomes
  <1>5. ASSUME NEW w \in Workers, NEW j \in Jobs, Take(w, j)
        PROVE  worker' \in [Workers -> Attempt] /\ \A v \in Workers : Shaped(worker'[v])
    BY <1>5, TakeStep DEF Becomes
  <1>6. ASSUME NEW j \in Jobs, Expire(j)
        PROVE  worker' \in [Workers -> Attempt] /\ \A v \in Workers : Shaped(worker'[v])
    BY <1>1, <1>6, ExpireStep DEF Becomes
  <1>7. ASSUME NEW w \in Workers, Withdraw(w)
        PROVE  worker' \in [Workers -> Attempt] /\ \A v \in Workers : Shaped(worker'[v])
    BY <1>7, WithdrawStep
  <1>8. Working \/ worker' = worker
    BY DEF Working, Next, vars, Midnight, Purge, DeleteAccount, Enqueue, Lapse, Notify, Claimed,
           NotifyCommits, NotifyFails, Rest
  <1> QED BY <1>1, <1>3, <1>4, <1>5, <1>6, <1>7, <1>8 DEF Working, Attempts

LEMMA DataNext ==
    ASSUME DataOK, \A j \in Jobs : QueueInv(j), [Next]_vars
    PROVE  DataOK'
  <1>w. worker' \in [Workers -> Attempt] /\ \A w \in Workers : Shaped(worker'[w])
    BY WorkersNext
  <1>1. CASE UNCHANGED <<day, gone, queue, sent, notices, history>>
    BY <1>1, <1>w DEF DataOK, queue, notices, history
  <1>r. ASSUME NEW j \in Jobs, Retried(j)
        PROVE  /\ job' \in [Jobs -> {"none", "queued", "active", "done", "failed"}]
               /\ tries' \in [Jobs -> 0..RetryLimit]
    BY <1>r, ConstantsAssumption DEF DataOK, Retried
  <1>2. ASSUME NEW j \in Jobs, Expire(j) PROVE DataOK'
    <2>1. faults' \in [Jobs -> Nat]
      BY <1>2 DEF Expire, Fault, DataOK
    <2> QED BY <1>2, <1>r, <1>w, <2>1 DEF Expire, DataOK, notices
  <1>3. ASSUME NEW w \in Workers, Crash(w) \/ Complete(w) \/ Throws(w) PROVE DataOK'
    <2>0. worker[w].job \in Jobs
      BY <1>3, EndStep
    <2>1. CASE Crash(w)
      <3>1. faults' \in [Jobs -> Nat]
        BY <2>0, <2>1 DEF Crash, Fault, DataOK
      <3> QED BY <2>1, <1>w, <3>1 DEF Crash, DataOK, queue, notices
    <2>2. CASE Complete(w)
      BY <2>0, <2>2, <1>w DEF Complete, DataOK, notices, history
    <2>3. CASE Throws(w)
      <3>1. faults' \in [Jobs -> Nat] /\ sent' \in [Jobs -> Nat]
        BY <2>0, <2>3 DEF Throws, Fault, DataOK
      <3>2. /\ job' \in [Jobs -> {"none", "queued", "active", "done", "failed"}]
            /\ tries' \in [Jobs -> 0..RetryLimit]
        BY <2>0, <2>3, <1>r DEF Throws, DataOK
      <3> QED BY <2>3, <1>w, <3>1, <3>2 DEF Throws, DataOK, notices
    <2> QED BY <1>3, <2>1, <2>2, <2>3
  <1>4. ASSUME NEW w \in Workers, Check(w) \/ Claim(w) \/ Withdraw(w) \/ Mark(w) PROVE DataOK'
    BY <1>1, <1>4 DEF Check, Checks, Claim, Withdraw, Mark, Marks
  <1>5. ASSUME NEW w \in Workers, Count(w) \/ Lookup(w) \/ Send(w) PROVE DataOK'
    <2>0. worker[w].job \in Jobs
      BY <1>5, DeliverStep
    <2>1. CASE Count(w)
      BY <2>0, <2>1, <1>w DEF Count, DataOK, queue, notices
    <2>2. CASE Lookup(w)
      BY <2>0, <2>2, <1>w DEF Lookup, Resumes, DataOK, queue, notices
    <2>3. CASE Send(w)
      <3>1. sent' \in [Jobs -> Nat]
        BY <2>0, <2>3 DEF Send, DataOK
      <3> QED BY <2>3, <1>w, <3>1 DEF Send, DataOK, queue, notices, history
    <2> QED BY <1>5, <2>1, <2>2, <2>3
  <1>6. ASSUME NEW j \in Jobs, Lapse(j) \/ (\E owned \in BOOLEAN : Enqueue(j, owned))
                               \/ (\E w \in Workers : Take(w, j))
        PROVE  DataOK'
    <2>1. CASE Lapse(j)
      BY <2>1 DEF Lapse, DataOK, notices, history
    <2>2. ASSUME NEW owned \in BOOLEAN, Enqueue(j, owned) PROVE DataOK'
      BY <2>2 DEF Enqueue, DataOK, notices
    <2>3. ASSUME NEW w \in Workers, Take(w, j) PROVE DataOK'
      BY <2>3, <1>w DEF Take, DataOK, notices, history
    <2> QED BY <1>6, <2>1, <2>2, <2>3
  <1>7. ASSUME Midnight \/ (\E a \in Addresses : DeleteAccount(a)) PROVE DataOK'
    <2>1. CASE Midnight
      <3>1. day' \in 1..MaxDay
        BY <2>1, ConstantsAssumption DEF Midnight, DataOK
      <3> QED BY <2>1, <3>1 DEF Midnight, DataOK, queue, notices, history
    <2>2. ASSUME NEW a \in Addresses, DeleteAccount(a) PROVE DataOK'
      BY <2>2 DEF DeleteAccount, DataOK, queue, notices, history
    <2> QED BY <1>7, <2>1, <2>2
  <1>8. CASE Purge
    <2>0. MaxDay \in Nat /\ inbox \in [Notices -> 0..MaxDay]
      BY ConstantsAssumption DEF DataOK
    <2>1. inbox' \in [Notices -> 0..MaxDay]
      BY <1>8, <2>0 DEF Purge
    <2> QED BY <1>8, <2>1 DEF Purge, DataOK, Rest, queue, history
  <1>9. ASSUME NEW n \in Notices, Notify(n) \/ NotifyCommits(n) \/ NotifyFails(n) PROVE DataOK'
    <2>1. CASE Notify(n) \/ NotifyFails(n)
      BY <2>1 DEF Notify, Claimed, NotifyFails, DataOK, Rest, queue, history
    <2>2. CASE NotifyCommits(n)
      <3>1. inbox' \in [Notices -> 0..MaxDay]
        BY <2>2 DEF NotifyCommits, DataOK
      <3>2. About[n] \in Addresses
        BY ConstantsAssumption
      <3> QED BY <2>2, <3>1, <3>2 DEF NotifyCommits, DataOK, Rest, queue, history
    <2> QED BY <1>9, <2>1, <2>2
  <1>10. CASE UNCHANGED vars
    BY <1>1, <1>10 DEF vars
  <1> QED BY <1>2, <1>3, <1>4, <1>5, <1>6, <1>7, <1>8, <1>9, <1>10 DEF Next, Attempts

-----------------------------------------------------------------------------
(* The attempts of a job that a step is not about. *)

One(b) == IF b THEN 1 ELSE 0

Alone(i) ==
    /\ job'[i] = job[i] /\ tries'[i] = tries[i] /\ sent'[i] = sent[i] /\ faults'[i] = faults[i]
    /\ row'[i].state = row[i].state
    /\ \A w \in Workers : worker[w].job = i \/ worker'[w].job = i => worker'[w] = worker[w]

LEMMA AloneKeeps ==
    ASSUME NEW i \in Jobs, Alone(i), QueueInv(i), AttemptsInv(i), PaidInv(i)
    PROVE  QueueInv(i)' /\ AttemptsInv(i)' /\ PaidInv(i)'
  <1>1. Running(i)' = Running(i) /\ Unsent(i)' = Unsent(i) /\ StaleUnsent(i)' = StaleUnsent(i)
    BY DEF Alone, Running, Unsent, StaleUnsent
  <1>2. \A w \in Running(i) : worker'[w] = worker[w]
    BY DEF Alone, Running
  <1>3. QueueInv(i)'
    BY <1>1 DEF Alone, QueueInv
  <1>4. Begun(i)' = Begun(i) /\ Excess(i)' = Excess(i)
    BY <1>1 DEF Begun, Excess, Alone
  <1>5. AttemptsInv(i)'
    BY <1>1, <1>4 DEF AttemptsInv, Alone
  <1>6. Free(i)' <=> Free(i)
    BY <1>1, <1>2 DEF Free, Alone
  <1>7. PaidInv(i)'
    BY <1>1, <1>2, <1>4, <1>6 DEF PaidInv
  <1> QED BY <1>3, <1>5, <1>7

\* Only the job of its attempt is touched when one worker moves.
LEMMA OthersAlone ==
    ASSUME DataOK, NEW w \in Workers, NEW u \in Attempt, Becomes(w, u), NEW i \in Jobs,
           worker[w].job # i, u.job # i,
           job'[i] = job[i], tries'[i] = tries[i], sent'[i] = sent[i], faults'[i] = faults[i],
           row'[i].state = row[i].state
    PROVE  Alone(i)
  BY DEF Alone, Becomes

-----------------------------------------------------------------------------
(* Counting attempts. *)

LEMMA OneMoves ==
    ASSUME IsFiniteSet(Workers), NEW S \in SUBSET Workers, NEW T \in SUBSET Workers,
           NEW w \in Workers, \A v \in Workers \ {w} : v \in S <=> v \in T
    PROVE  /\ Cardinality(S) \in Nat /\ Cardinality(T) \in Nat
           /\ Cardinality(T) + One(w \in S) = Cardinality(S) + One(w \in T)
  <1> DEFINE R == S \ {w}
  <1>1. IsFiniteSet(S) /\ IsFiniteSet(T) /\ IsFiniteSet(R)
    BY FS_Subset
  <1>2. Cardinality(S) \in Nat /\ Cardinality(T) \in Nat /\ Cardinality(R) \in Nat
    BY <1>1, FS_CardinalityType
  <1>3. S = IF w \in S THEN R \cup {w} ELSE R
    OBVIOUS
  <1>4. T = IF w \in T THEN R \cup {w} ELSE R
    OBVIOUS
  <1>5. Cardinality(R \cup {w}) = Cardinality(R) + 1
    <2>1. w \notin R
      OBVIOUS
    <2> QED BY <1>1, <2>1, FS_AddElement
  <1> HIDE DEF R
  <1>6. Cardinality(S) = Cardinality(R) + One(w \in S)
    <2>1. CASE w \in S
      <3>1. S = R \cup {w} /\ One(w \in S) = 1
        BY <1>3, <2>1 DEF One
      <3> QED BY <1>5, <3>1
    <2>2. CASE w \notin S
      <3>1. S = R /\ One(w \in S) = 0
        BY <1>3, <2>2 DEF One
      <3> QED BY <1>2, <3>1
    <2> QED BY <2>1, <2>2
  <1>7. Cardinality(T) = Cardinality(R) + One(w \in T)
    <2>1. CASE w \in T
      <3>1. T = R \cup {w} /\ One(w \in T) = 1
        BY <1>4, <2>1 DEF One
      <3> QED BY <1>5, <3>1
    <2>2. CASE w \notin T
      <3>1. T = R /\ One(w \in T) = 0
        BY <1>4, <2>2 DEF One
      <3> QED BY <1>2, <3>1
    <2> QED BY <2>1, <2>2
  <1> QED BY <1>2, <1>6, <1>7 DEF One

LEMMA Counts ==
    ASSUME NEW j \in Jobs
    PROVE  /\ Cardinality(Unsent(j)) \in Nat /\ Cardinality(StaleUnsent(j)) \in Nat
           /\ Cardinality(Running(j)) \in Nat
  <1>1. Unsent(j) \in SUBSET Workers /\ StaleUnsent(j) \in SUBSET Workers /\ Running(j) \in SUBSET Workers
    BY DEF Unsent, StaleUnsent, Running
  <1> QED BY <1>1, ConstantsAssumption, FS_Subset, FS_CardinalityType

LEMMA OneMovesUnsent ==
    ASSUME NEW j \in Jobs, NEW w \in Workers, NEW u, Becomes(w, u)
    PROVE  /\ Cardinality(Unsent(j)') \in Nat
           /\ Cardinality(Unsent(j)') + One(w \in Unsent(j))
                = Cardinality(Unsent(j)) + One(u.job = j /\ u.pc \in Pending)
  <1>1. Unsent(j) \in SUBSET Workers /\ Unsent(j)' \in SUBSET Workers
    BY DEF Unsent
  <1>2. \A v \in Workers \ {w} : v \in Unsent(j) <=> v \in Unsent(j)'
    BY DEF Unsent, Becomes
  <1>3. (w \in Unsent(j)') <=> (u.job = j /\ u.pc \in Pending)
    BY DEF Unsent, Becomes
  <1>4. /\ Cardinality(Unsent(j)') \in Nat
        /\ Cardinality(Unsent(j)') + One(w \in Unsent(j)) = Cardinality(Unsent(j)) + One(w \in Unsent(j)')
    BY <1>1, <1>2, OneMoves, ConstantsAssumption
  <1> QED BY <1>3, <1>4 DEF One

LEMMA OneMovesStale ==
    ASSUME NEW j \in Jobs, NEW w \in Workers, NEW u, Becomes(w, u)
    PROVE  /\ Cardinality(StaleUnsent(j)') \in Nat
           /\ Cardinality(StaleUnsent(j)') + One(w \in StaleUnsent(j))
                = Cardinality(StaleUnsent(j)) + One(u.job = j /\ u.pc \in Pending /\ u.stale)
  <1>1. StaleUnsent(j) \in SUBSET Workers /\ StaleUnsent(j)' \in SUBSET Workers
    BY DEF StaleUnsent, Unsent
  <1>2. \A v \in Workers \ {w} : v \in StaleUnsent(j) <=> v \in StaleUnsent(j)'
    BY DEF StaleUnsent, Unsent, Becomes
  <1>3. (w \in StaleUnsent(j)') <=> (u.job = j /\ u.pc \in Pending /\ u.stale)
    BY DEF StaleUnsent, Unsent, Becomes
  <1>4. /\ Cardinality(StaleUnsent(j)') \in Nat
        /\ Cardinality(StaleUnsent(j)') + One(w \in StaleUnsent(j))
             = Cardinality(StaleUnsent(j)) + One(w \in StaleUnsent(j)')
    BY <1>1, <1>2, OneMoves, ConstantsAssumption
  <1> QED BY <1>3, <1>4 DEF One

LEMMA OneMovesRunning ==
    ASSUME NEW j \in Jobs, NEW w \in Workers, NEW u, Becomes(w, u)
    PROVE  /\ Cardinality(Running(j)') \in Nat
           /\ Cardinality(Running(j)') + One(w \in Running(j))
                = Cardinality(Running(j)) + One(u.job = j /\ ~u.stale)
  <1>1. Running(j) \in SUBSET Workers /\ Running(j)' \in SUBSET Workers
    BY DEF Running
  <1>2. \A v \in Workers \ {w} : v \in Running(j) <=> v \in Running(j)'
    BY DEF Running, Becomes
  <1>3. (w \in Running(j)') <=> (u.job = j /\ ~u.stale)
    BY DEF Running, Becomes
  <1>4. /\ Cardinality(Running(j)') \in Nat
        /\ Cardinality(Running(j)') + One(w \in Running(j)) = Cardinality(Running(j)) + One(w \in Running(j)')
    BY <1>1, <1>2, OneMoves, ConstantsAssumption
  <1> QED BY <1>3, <1>4 DEF One

-----------------------------------------------------------------------------
(* The queue runs one attempt of a job at a time. *)

LEMMA QueueKept ==
    ASSUME NEW i \in Jobs, QueueInv(i),
           \A w \in Workers : worker'[w].job = i =>
               worker[w].job = i /\ worker'[w].stale = worker[w].stale,
           job'[i] = "none" => job[i] = "none",
           job'[i] # "active" => job[i] # "active" \/ Running(i)' = {}
    PROVE  QueueInv(i)'
  <1>1. Running(i)' \subseteq Running(i)
    BY DEF Running
  <1> QED BY <1>1 DEF QueueInv

LEMMA GoesQueue ==
    ASSUME \A i \in Jobs : QueueInv(i), NEW w \in Workers, NEW to, GoesOn(w, to), job' = job
    PROVE  \A i \in Jobs : QueueInv(i)'
  <1> SUFFICES ASSUME NEW i \in Jobs PROVE QueueInv(i)'
    OBVIOUS
  <1>1. \A v \in Workers : worker'[v].job = worker[v].job /\ worker'[v].stale = worker[v].stale
    BY DEF GoesOn, Becomes
  <1> QED BY <1>1, QueueKept

LEMMA EndQueue ==
    ASSUME DataOK, \A i \in Jobs : QueueInv(i), NEW w \in Workers,
           Crash(w) \/ Complete(w) \/ Throws(w)
    PROVE  \A i \in Jobs : QueueInv(i)'
  <1> SUFFICES ASSUME NEW i \in Jobs PROVE QueueInv(i)'
    OBVIOUS
  <1>1. Becomes(w, Idle) /\ worker[w].job \in Jobs
    BY EndStep
  <1>2. \A v \in Workers : worker'[v].job = i =>
            worker[v].job = i /\ worker'[v].stale = worker[v].stale
    BY <1>1, IdleIsAttempt DEF Becomes
  <1>3. job'[i] = job[i] \/ (i = worker[w].job /\ ~worker[w].stale /\ job'[i] # "none")
    BY <1>1 DEF Crash, Complete, Throws, Retried, DataOK, queue
  <1>4. ASSUME i = worker[w].job, ~worker[w].stale PROVE Running(i)' = {}
    <2>1. \A v \in Running(i) : v = w
      BY <1>4 DEF QueueInv, Running
    <2> QED BY <1>1, <1>2, <2>1, IdleIsAttempt DEF Running, Becomes
  <1> QED BY <1>2, <1>3, <1>4, QueueKept

LEMMA ExpireQueue ==
    ASSUME DataOK, \A i \in Jobs : QueueInv(i), NEW j \in Jobs, Expire(j)
    PROVE  \A i \in Jobs : QueueInv(i)'
  <1> SUFFICES ASSUME NEW i \in Jobs PROVE QueueInv(i)'
    OBVIOUS
  <1>1. job' = [job EXCEPT ![j] = job'[j]] /\ job'[j] # "none"
    BY DEF Expire, Retried, DataOK
  <1>2. CASE Running(j) = {} /\ worker' = worker
    <2>1. Running(j)' = {}
      BY <1>2 DEF Running
    <2> QED BY <1>1, <1>2, <2>1, QueueKept DEF DataOK
  <1>3. ASSUME NEW w \in Workers, NEW u \in Attempt, Running(j) = {w}, Becomes(w, u),
               u.job = j, u.stale
        PROVE  QueueInv(i)'
    <2>1. worker[w].job = j
      BY <1>3 DEF Running
    <2>2. Running(j)' = {}
      BY <1>3 DEF Running, Becomes
    <2>3. CASE i = j
      BY <1>1, <2>2, <2>3 DEF QueueInv, DataOK
    <2>4. CASE i # j
      BY <1>1, <1>3, <2>1, <2>4, QueueKept DEF Becomes, DataOK
    <2> QED BY <2>3, <2>4
  <1> QED BY <1>2, <1>3, ExpireStep

LEMMA TakeQueue ==
    ASSUME DataOK, \A i \in Jobs : QueueInv(i), NEW w \in Workers, NEW j \in Jobs, Take(w, j)
    PROVE  \A i \in Jobs : QueueInv(i)'
  <1> SUFFICES ASSUME NEW i \in Jobs PROVE QueueInv(i)'
    OBVIOUS
  <1>1. PICK u \in Attempt : Becomes(w, u) /\ u.job = j /\ worker[w] = Idle
    BY TakeStep
  <1>2. job[j] = "queued" /\ job' = [job EXCEPT ![j] = "active"] /\ job \in [Jobs -> {"none", "queued", "active", "done", "failed"}]
    BY DEF Take, DataOK
  <1>3. CASE i = j
    <2>1. Running(j) = {} /\ job'[j] = "active"
      BY <1>2 DEF QueueInv
    <2>2. \A v \in Running(j)' : v = w
      BY <1>1, <2>1 DEF Running, Becomes
    <2> QED BY <1>3, <2>1, <2>2 DEF QueueInv
  <1>4. CASE i # j
    BY <1>1, <1>2, <1>4, IdleIsAttempt, QueueKept DEF Becomes
  <1> QED BY <1>3, <1>4

LEMMA QueueNext ==
    ASSUME DataOK, \A i \in Jobs : QueueInv(i), [Next]_vars
    PROVE  \A i \in Jobs : QueueInv(i)'
  <1>1. CASE worker' = worker /\ job' = job
    BY <1>1 DEF QueueInv, Running
  <1>2. ASSUME NEW w \in Workers, Check(w) \/ Claim(w) \/ Count(w) \/ Lookup(w) \/ Send(w) \/ Mark(w)
        PROVE  \A i \in Jobs : QueueInv(i)'
    <2>1. job' = job
      BY <1>2 DEF Check, Checks, Claim, Count, Lookup, Resumes, Send, Mark, Marks, queue
    <2>2. \E to : GoesOn(w, to)
      BY <1>2, DeliverStep
    <2> QED BY <2>1, <2>2, GoesQueue
  <1>3. ASSUME NEW w \in Workers, Withdraw(w) PROVE \A i \in Jobs : QueueInv(i)'
    <2>1. job' = job
      BY <1>3 DEF Withdraw, queue
    <2>2. \A v \in Workers : worker'[v].job = worker[v].job /\ worker'[v].stale = worker[v].stale
      BY <1>3, WithdrawStep
    <2> QED BY <2>1, <2>2, QueueKept
  <1>4. ASSUME NEW j \in Jobs, Lapse(j) \/ \E owned \in BOOLEAN : Enqueue(j, owned)
        PROVE  \A i \in Jobs : QueueInv(i)'
    <2>1. worker' = worker /\ \A i \in Jobs : job'[i] # job[i] => job[i] # "active" /\ job'[i] # "none"
      BY <1>4 DEF Lapse, Enqueue, DataOK
    <2> QED BY <2>1, QueueKept
  <1>5. \/ worker' = worker /\ job' = job
        \/ \E j \in Jobs : \/ Expire(j) \/ Lapse(j)
                           \/ \E owned \in BOOLEAN : Enqueue(j, owned)
                           \/ \E w \in Workers : Take(w, j)
        \/ \E w \in Workers : Attempts(w) \/ Crash(w)
    BY DEF Next, vars, queue, Midnight, Purge, DeleteAccount, Notify, Claimed, NotifyCommits,
           NotifyFails, Rest
  <1> QED BY <1>1, <1>2, <1>3, <1>4, <1>5, EndQueue, ExpireQueue, TakeQueue DEF Attempts

-----------------------------------------------------------------------------
(* The row of a job, and who knows it. *)

\* The rows after every step.
LEMMA RowTypeNext ==
    ASSUME DataOK, RowInv, [Next]_vars
    PROVE  row' \in [Jobs -> Row \cup {NoRow}]
  <1>1. CASE row' = row
    BY <1>1 DEF RowInv
  <1>2. ASSUME NEW a \in Addresses, DeleteAccount(a) PROVE row' \in [Jobs -> Row \cup {NoRow}]
    <2>1. \A r \in Row \cup {NoRow} : [r EXCEPT !.owned = FALSE] \in Row \cup {NoRow}
      <3>1. \A r \in Row : [r EXCEPT !.owned = FALSE] \in Row
        BY DEF Row
      <3>2. [NoRow EXCEPT !.owned = FALSE] = NoRow
        <4> DEFINE Empty == [state : {"none"}, day : {0}, owned : {FALSE}]
        <4>1. NoRow \in Empty
          BY DEF NoRow
        <4>2. [NoRow EXCEPT !.owned = FALSE] \in Empty
          BY <4>1
        <4>3. \A r \in Empty : r = [state |-> r.state, day |-> r.day, owned |-> r.owned]
          OBVIOUS
        <4>4. \A r \in Empty : r.state = "none" /\ r.day = 0 /\ r.owned = FALSE
          OBVIOUS
        <4> HIDE DEF Empty
        <4>5. \A r \in Empty : r = NoRow
          BY <4>3, <4>4, Zenon DEF NoRow
        <4> QED BY <4>2, <4>5
      <3> QED BY <3>1, <3>2
    <2>2. row' = [j \in Jobs |-> IF To[j] = a THEN [row[j] EXCEPT !.owned = FALSE] ELSE row[j]]
      BY <1>2 DEF DeleteAccount
    <2> QED BY <2>1, <2>2 DEF RowInv
  <1>3. ASSUME NEW w \in Workers, Claim(w) PROVE row' \in [Jobs -> Row \cup {NoRow}]
    <2>1. [state |-> "claimed", day |-> day, owned |-> worker[w].job \notin accountless] \in Row
      BY DEF DataOK, Row
    <2> QED BY <1>1, <1>3, <2>1 DEF Claim, RowInv
  <1>4. ASSUME NEW w \in Workers, Withdraw(w) PROVE row' \in [Jobs -> Row \cup {NoRow}]
    BY <1>4 DEF Withdraw, RowInv
  <1>5. ASSUME NEW w \in Workers, Mark(w) PROVE row' \in [Jobs -> Row \cup {NoRow}]
    <2>1. worker[w].job \in Jobs /\ worker[w].pc = "mark"
      BY <1>5, DeliverStep
    <2>2. CASE worker[w].holds
      <3>1. row[worker[w].job] \in Row
        BY <2>1, <2>2 DEF RowInv, Sending, NoRow
      <3>2. [row[worker[w].job] EXCEPT !.state = "sent"] \in Row
        BY <3>1 DEF Row
      <3>3. row' = [row EXCEPT ![worker[w].job] = [row[worker[w].job] EXCEPT !.state = "sent"]]
        BY <1>5, <2>2 DEF Mark, Marks
      <3> QED BY <3>2, <3>3 DEF RowInv
    <2>3. CASE ~worker[w].holds
      BY SMTT(40), <1>1, <1>5, <2>3 DEF Mark, Marks
    <2> QED BY <2>2, <2>3
  <1>6. \/ row' = row \/ \E a \in Addresses : DeleteAccount(a)
        \/ \E w \in Workers : Claim(w) \/ Withdraw(w) \/ Mark(w)
    BY DEF Next, Attempts, vars, Midnight, Purge, Enqueue, Take, Expire, Lapse, Check, Checks, Count,
           Lookup, Resumes, Send, Complete, Throws, Crash, Notify, Claimed, NotifyCommits,
           NotifyFails, Rest
  <1> QED BY <1>1, <1>2, <1>3, <1>4, <1>5, <1>6

\* Where each step leaves the state of a row.
LEMMA RowStates ==
    ASSUME DataOK, RowInv, NEW w \in Workers
    PROVE  /\ Claim(w) => /\ row'[worker[w].job].state # "none"
                          /\ row[worker[w].job].state # "none" => row' = row
                          /\ row[worker[w].job].state = "none" => row'[worker[w].job].state = "claimed"
                          /\ \A i \in Jobs \ {worker[w].job} : row'[i] = row[i]
           /\ Withdraw(w) => /\ row'[worker[w].job] = NoRow
                             /\ \A i \in Jobs \ {worker[w].job} : row'[i] = row[i]
           /\ Mark(w) => /\ worker[w].holds => row'[worker[w].job].state = "sent"
                         /\ row[worker[w].job].state = "none" => row' = row
                         /\ ~worker[w].holds => row' = row
                         /\ \A i \in Jobs : /\ row'[i].owned = row[i].owned
                                            /\ row'[i].day = row[i].day
                         /\ \A i \in Jobs \ {worker[w].job} : row'[i] = row[i]
  <1>1. ASSUME worker[w].pc # "idle" PROVE worker[w].job \in Jobs
    BY <1>1, BusyHasJob
  <1>2. CASE Claim(w)
    BY <1>1, <1>2 DEF Claim, RowInv, Withdraw, Mark, Marks
  <1>3. CASE Withdraw(w)
    BY <1>1, <1>3 DEF Claim, RowInv, Withdraw, Mark, Marks
  <1>4. CASE Mark(w)
    <2>1. worker[w].pc = "mark" /\ worker[w].job \in Jobs
      BY <1>1, <1>4 DEF Mark, Marks
    <2>2. CASE ~worker[w].holds
      BY <1>4, <2>1, <2>2 DEF Claim, Withdraw, Mark, Marks
    <2>3. CASE worker[w].holds
      <3>1. row[worker[w].job].state # "none" /\ row[worker[w].job] \in Row
        BY <2>1, <2>3 DEF RowInv, Sending, NoRow
      <3>2. row' = [row EXCEPT ![worker[w].job] = [row[worker[w].job] EXCEPT !.state = "sent"]]
        BY <1>4, <2>3 DEF Mark, Marks
      <3>3. row'[worker[w].job] = [row[worker[w].job] EXCEPT !.state = "sent"]
        BY <2>1, <3>2 DEF RowInv
      <3>4. /\ row'[worker[w].job].state = "sent"
            /\ row'[worker[w].job].owned = row[worker[w].job].owned
            /\ row'[worker[w].job].day = row[worker[w].job].day
        BY <3>1, <3>3 DEF Row
      <3>5. \A i \in Jobs \ {worker[w].job} : row'[i] = row[i]
        BY <3>2 DEF RowInv
      <3> QED BY <2>1, <2>3, <3>1, <3>4, <3>5 DEF Claim, Withdraw
    <2> QED BY <2>2, <2>3
  <1> QED BY <1>2, <1>3, <1>4

LEMMA RowKept ==
    ASSUME RowInv, row' \in [Jobs -> Row \cup {NoRow}],
           NEW w \in Workers, \A v \in Workers \ {w} : worker'[v] = worker[v],
           \A i \in Jobs : row'[i].state = "none" => row[i].state = "none",
           \A v \in Workers : worker[v].pc \in Counting \cup Sending => worker[v].job \in Jobs,
           worker'[w].pc \in Before => worker'[w].holds,
           worker'[w].pc \in Counting \/ (worker'[w].pc \in Sending /\ worker'[w].holds)
              => row'[worker'[w].job].state # "none",
           worker'[w].pc \in Counting => worker'[w].job = worker[w].job /\
              (worker[w].pc \in Counting \/ row[worker[w].job].state = "none")
    PROVE  RowInv'
  <1>1. \A v \in Workers \ {w} :
           worker[v].pc \in Counting \/ (worker[v].pc \in Sending /\ worker[v].holds)
             => row'[worker[v].job].state # "none"
    BY DEF RowInv
  <1>2. ASSUME NEW v \in Workers \ {w}, worker'[v].pc \in Counting, worker'[w].pc \in Counting,
               worker'[v].job = worker'[w].job
        PROVE  FALSE
    <2>1. worker[v].pc \in Counting /\ worker[v].job = worker[w].job
      BY <1>2
    <2>2. row[worker[v].job].state # "none"
      BY <2>1 DEF RowInv
    <2> QED BY <1>2, <2>1, <2>2 DEF RowInv
  <1>3. \A u, v \in Workers :
          worker'[u].pc \in Counting /\ worker'[v].pc \in Counting /\ worker'[u].job = worker'[v].job
             => u = v
    BY <1>2 DEF RowInv
  <1>4. \A v \in Workers : worker'[v].pc \in Before => worker'[v].holds
    BY DEF RowInv
  <1>5. \A v \in Workers :
          worker'[v].pc \in Counting \/ (worker'[v].pc \in Sending /\ worker'[v].holds)
             => row'[worker'[v].job].state # "none"
    BY <1>1
  <1> QED BY <1>3, <1>4, <1>5 DEF RowInv

LEMMA RowNext ==
    ASSUME DataOK, \A i \in Jobs : QueueInv(i), RowInv, [Next]_vars
    PROVE  RowInv'
  <1>t. row' \in [Jobs -> Row \cup {NoRow}]
    BY RowTypeNext
  <1>j. \A v \in Workers : worker[v].pc # "idle" => worker[v].job \in Jobs
    BY BusyHasJob
  <1>b. \A v \in Workers : worker[v].pc \in Counting \cup Sending => worker[v].job \in Jobs
    BY <1>j DEF Counting, Sending
  <1>1. CASE worker' = worker /\ \A i \in Jobs : row'[i].state = row[i].state
    BY <1>t, <1>1, <1>b DEF RowInv
  <1>2. ASSUME NEW w \in Workers, Check(w) \/ Claim(w) \/ Count(w) \/ Lookup(w) \/ Send(w) \/ Mark(w)
        PROVE  RowInv'
    <2>1. /\ worker[w].job \in Jobs
          /\ \E to : GoesOn(w, to) /\
                \/ Check(w) /\ worker[w].pc = "check" /\ to \in {"claim", "skipped_suppressed"}
                \/ Claim(w) /\ worker[w].pc = "claim" /\ to \in {"lookup", "send", "count"} /\
                     (to = "count" => row[worker[w].job].state = "none")
                \/ Count(w) /\ worker[w].pc = "count" /\ to \in {"withdraw", "send"}
                \/ Lookup(w) /\ worker[w].pc = "lookup" /\ to \in {"skipped_duplicate", "send"}
                \/ Send(w) /\ worker[w].pc = "send" /\ to = "mark"
                \/ Mark(w) /\ worker[w].pc = "mark" /\ to = "sent"
      BY <1>2, DeliverStep
    <2>2. PICK to : GoesOn(w, to) /\
                \/ Check(w) /\ worker[w].pc = "check" /\ to \in {"claim", "skipped_suppressed"}
                \/ Claim(w) /\ worker[w].pc = "claim" /\ to \in {"lookup", "send", "count"} /\
                     (to = "count" => row[worker[w].job].state = "none")
                \/ Count(w) /\ worker[w].pc = "count" /\ to \in {"withdraw", "send"}
                \/ Lookup(w) /\ worker[w].pc = "lookup" /\ to \in {"skipped_duplicate", "send"}
                \/ Send(w) /\ worker[w].pc = "send" /\ to = "mark"
                \/ Mark(w) /\ worker[w].pc = "mark" /\ to = "sent"
      BY <2>1
    <2>3. /\ \A v \in Workers \ {w} : worker'[v] = worker[v]
          /\ worker'[w].pc = to /\ worker'[w].job = worker[w].job
          /\ worker'[w].holds = worker[w].holds
      BY <2>2 DEF GoesOn, Becomes
    <2>4. row' = row \/ Claim(w) \/ Mark(w)
      BY <1>2 DEF Check, Checks, Count, Lookup, Resumes, Send
    <2>5. \A i \in Jobs : row'[i].state = "none" => row[i].state = "none"
      BY <2>1, <2>4, RowStates
    <2>6. to \in Before => worker[w].pc \in Before
      BY <2>2 DEF Before
    <2>7. to \in Counting => worker[w].pc \in Counting \/ row[worker[w].job].state = "none"
      BY <2>2 DEF Counting
    <2>8. worker[w].pc \in Counting \/ (worker[w].pc \in Sending /\ worker[w].holds)
             => row[worker[w].job].state # "none"
      BY DEF RowInv
    <2>9. to \in Counting \/ (to \in Sending /\ worker[w].holds) => row'[worker[w].job].state # "none"
      <3>1. CASE Claim(w)
        BY <3>1, RowStates
      <3>2. CASE Lookup(w)
        BY <3>2, <2>1, <2>5 DEF Lookup, Resumes
      <3>3. CASE ~Claim(w) /\ ~Lookup(w)
        BY <3>3, <2>1, <2>2, <2>5, <2>8 DEF Counting, Sending
      <3> QED BY <3>1, <3>2, <3>3
    <2>10. worker'[w].pc \in Before => worker'[w].holds
      BY <2>3, <2>6 DEF RowInv
    <2> QED BY <1>t, <1>b, <2>3, <2>5, <2>7, <2>9, <2>10, RowKept
  <1>3. ASSUME NEW w \in Workers, Withdraw(w) PROVE RowInv'
    <2>1. /\ worker[w].pc = "withdraw" /\ worker[w].job \in Jobs
          /\ worker'[w].pc = "skipped_capped"
          /\ \A v \in Workers : worker'[v].job = worker[v].job
          /\ \A v \in Workers \ {w} :
                 /\ worker'[v].pc = worker[v].pc
                 /\ worker'[v].holds = (worker[v].holds /\ ~(worker[v].job = worker[w].job
                                                             /\ worker[v].pc \in Sending))
      BY <1>3, WithdrawStep
    <2>2. \A i \in Jobs \ {worker[w].job} : row'[i] = row[i]
      BY <1>3, RowStates
    <2>3. ASSUME NEW v \in Workers PROVE worker'[v].pc \in Before => worker'[v].holds
      <3>1. v # w /\ worker[v].pc \in Before => worker[v].holds /\ worker[v].pc \notin Sending
        BY DEF RowInv, Before, Sending
      <3>2. CASE v = w
        BY <2>1, <3>2 DEF Before
      <3>3. CASE v # w /\ worker[v].pc \in Before
        BY <2>1, <3>1, <3>3
      <3> QED BY <2>1, <3>2, <3>3
    <2>4. ASSUME NEW v \in Workers,
                 worker'[v].pc \in Counting \/ (worker'[v].pc \in Sending /\ worker'[v].holds)
          PROVE  row'[worker'[v].job].state # "none"
      <3>1. v # w
        BY <2>1, <2>4 DEF Counting, Sending
      <3>2. worker[v].pc \in Counting \/ (worker[v].pc \in Sending /\ worker[v].holds)
        BY <2>1, <2>4, <3>1
      <3>3. worker[v].job # worker[w].job
        BY <2>1, <2>4, <3>1 DEF RowInv, Counting, Sending
      <3>4. worker[v].job \in Jobs /\ row[worker[v].job].state # "none"
        BY <1>b, <3>2 DEF RowInv
      <3> QED BY <2>1, <2>2, <3>3, <3>4
    <2>5. \A u, v \in Workers :
            worker'[u].pc \in Counting /\ worker'[v].pc \in Counting /\ worker'[u].job = worker'[v].job
               => u = v
      BY <2>1 DEF RowInv, Counting
    <2> QED BY <1>t, <2>3, <2>4, <2>5 DEF RowInv
  <1>4. ASSUME NEW w \in Workers, Crash(w) \/ Complete(w) \/ Throws(w) PROVE RowInv'
    <2>1. row' = row
      BY <1>4 DEF Crash, Complete, Throws
    <2>2. Becomes(w, Idle)
      BY <1>4, EndStep
    <2> QED BY <1>t, <1>b, <2>1, <2>2, IdleIsAttempt, RowKept DEF Becomes, Counting, Sending, Before
  <1>5. ASSUME NEW j \in Jobs, NEW w \in Workers, Take(w, j) PROVE RowInv'
    <2>1. row' = row
      BY <1>5 DEF Take
    <2>2. PICK u \in Attempt : Becomes(w, u) /\ u.pc = "check" /\ u.holds
      BY <1>5, TakeStep
    <2> QED BY <1>t, <1>b, <2>1, <2>2, RowKept DEF Becomes, Counting, Sending
  <1>6. ASSUME NEW j \in Jobs, Expire(j) PROVE RowInv'
    <2>1. row' = row
      BY <1>6 DEF Expire
    <2>2. ASSUME NEW w \in Workers, NEW u \in Attempt, Running(j) = {w}, Becomes(w, u),
                 u.pc = worker[w].pc, u.job = j, u.holds = worker[w].holds
          PROVE  RowInv'
      <3>1. worker[w].job = j
        BY <2>2 DEF Running
      <3>2. /\ worker[w].pc \in Before => worker[w].holds
            /\ worker[w].pc \in Counting \/ (worker[w].pc \in Sending /\ worker[w].holds)
                  => row[j].state # "none"
        BY <3>1 DEF RowInv
      <3> QED BY <1>t, <1>b, <2>1, <2>2, <3>1, <3>2, RowKept DEF Becomes
    <2> QED BY <1>1, <1>6, <2>1, <2>2, ExpireStep
  <1>7. ASSUME NEW a \in Addresses, DeleteAccount(a) PROVE RowInv'
    <2>1. \A r \in Row \cup {NoRow} : [r EXCEPT !.owned = FALSE].state = r.state
      BY DEF Row, NoRow
    <2>2. worker' = worker /\
            row' = [j \in Jobs |-> IF To[j] = a THEN [row[j] EXCEPT !.owned = FALSE] ELSE row[j]]
      BY <1>7 DEF DeleteAccount
    <2> QED BY <1>1, <2>1, <2>2 DEF RowInv
  <1>8. \/ worker' = worker /\ row' = row
        \/ \E a \in Addresses : DeleteAccount(a)
        \/ \E j \in Jobs : Expire(j) \/ \E w \in Workers : Take(w, j)
        \/ \E w \in Workers : Attempts(w) \/ Crash(w)
    BY DEF Next, vars, Midnight, Purge, Enqueue, Lapse, Notify, Claimed, NotifyCommits,
           NotifyFails, Rest
  <1> QED BY <1>1, <1>2, <1>3, <1>4, <1>5, <1>6, <1>7, <1>8 DEF Attempts

-----------------------------------------------------------------------------
(* What says that a message was sent is true. *)

LEMMA SentGrows ==
    ASSUME DataOK, [Next]_vars
    PROVE  \A i \in Jobs : /\ sent[i] \in Nat /\ sent'[i] \in Nat /\ sent'[i] >= sent[i]
                           /\ sent'[i] # sent[i] =>
                                \E w \in Workers : worker[w].job = i /\ worker[w].pc = "send"
  <1>1. CASE sent' = sent
    BY <1>1 DEF DataOK
  <1>2. ASSUME NEW w \in Workers, Send(w) \/ Throws(w), sent' # sent
        PROVE  worker[w].pc = "send" /\ sent' = [sent EXCEPT ![worker[w].job] = @ + 1]
    BY <1>2 DEF Send, Goes, Throws
  <1>3. sent' = sent \/ \E w \in Workers : Send(w) \/ Throws(w)
    BY DEF Next, Attempts, vars, Midnight, Purge, DeleteAccount, Enqueue, Take, Expire, Lapse, Check,
           Checks, Claim, Count, Lookup, Resumes, Withdraw, Mark, Marks, Complete, Crash, Notify,
           Claimed, NotifyCommits, NotifyFails, Rest
  <1> QED BY <1>1, <1>2, <1>3 DEF DataOK

LEMMA SentKept ==
    ASSUME DataOK, SentInv, [Next]_vars, NEW w \in Workers,
           \A v \in Workers \ {w} : worker'[v].pc = worker[v].pc /\ worker'[v].job = worker[v].job,
           worker'[w].pc \in {"mark", "sent", "skipped_duplicate"} =>
              worker'[w].job \in Jobs /\ sent'[worker'[w].job] > 0,
           \A i \in Jobs : row'[i].state = "sent" => row[i].state = "sent" \/ sent'[i] > 0,
           \A i \in Jobs : outcome'[i] = outcome[i] \/
              (outcome'[i] \in {"sent", "skipped_duplicate"} => sent'[i] > 0)
    PROVE  SentInv'
  <1>1. \A i \in Jobs : sent[i] \in Nat /\ sent'[i] \in Nat /\ (sent[i] > 0 => sent'[i] > 0)
    BY SentGrows
  <1>2. ASSUME NEW v \in Workers, worker'[v].pc \in {"mark", "sent", "skipped_duplicate"}
        PROVE  sent'[worker'[v].job] > 0
    <2>1. CASE v = w
      BY <1>2, <2>1
    <2>2. CASE v # w
      <3>1. worker[v].pc \in {"mark", "sent", "skipped_duplicate"} /\ worker[v].job = worker'[v].job
        BY <1>2, <2>2
      <3>2. worker[v].job \in Jobs
        BY <3>1, BusyHasJob
      <3>3. sent[worker[v].job] > 0
        BY <3>1 DEF SentInv
      <3> QED BY <1>1, <3>1, <3>2, <3>3
    <2> QED BY <2>1, <2>2
  <1>3. \A i \in Jobs : row'[i].state = "sent" => sent'[i] > 0
    BY <1>1 DEF SentInv
  <1>4. \A i \in Jobs : outcome'[i] \in {"sent", "skipped_duplicate"} => sent'[i] > 0
    BY <1>1 DEF SentInv
  <1> QED BY <1>2, <1>3, <1>4 DEF SentInv

LEMMA SentNext ==
    ASSUME DataOK, \A i \in Jobs : QueueInv(i), RowInv, SentInv, [Next]_vars
    PROVE  SentInv'
  <1>1. \A i \in Jobs : sent[i] \in Nat /\ sent'[i] \in Nat /\ (sent[i] > 0 => sent'[i] > 0)
    BY SentGrows
  <1>j. \A v \in Workers : worker[v].pc # "idle" => worker[v].job \in Jobs
    BY BusyHasJob
  <1>2. CASE /\ \A v \in Workers : worker'[v].pc = worker[v].pc /\ worker'[v].job = worker[v].job
             /\ \A i \in Jobs : row'[i].state = row[i].state
             /\ outcome' = outcome
    BY <1>1, <1>2, <1>j DEF SentInv
  <1>3. ASSUME NEW w \in Workers, Check(w) \/ Claim(w) \/ Count(w) \/ Lookup(w) \/ Send(w) \/ Mark(w)
        PROVE  SentInv'
    <2>1. /\ worker[w].job \in Jobs
          /\ \E to : GoesOn(w, to) /\
                \/ (Check(w) \/ Claim(w) \/ Count(w) \/ Lookup(w)) /\
                     (to \in {"mark", "sent", "skipped_duplicate"} =>
                         row[worker[w].job].state = "sent")
                \/ Send(w) /\ worker[w].pc = "send"
                \/ Mark(w) /\ worker[w].pc = "mark"
      BY <1>3, DeliverStep
    <2>2. /\ \A v \in Workers \ {w} : worker'[v] = worker[v]
          /\ worker'[w].job = worker[w].job
      BY <2>1 DEF GoesOn, Becomes
    <2>3. worker'[w].pc \in {"mark", "sent", "skipped_duplicate"} => sent'[worker[w].job] > 0
      <3>1. CASE Send(w)
        BY <2>1, <3>1, <1>1 DEF Send, DataOK
      <3>2. CASE Mark(w)
        BY <2>1, <3>2, <1>1 DEF Mark, Marks, SentInv
      <3>3. CASE ~Send(w) /\ ~Mark(w)
        BY <2>1, <3>3, <1>1 DEF GoesOn, Becomes, SentInv
      <3> QED BY <3>1, <3>2, <3>3
    <2>4. outcome' = outcome
      BY <1>3 DEF Check, Checks, Claim, Count, Lookup, Resumes, Send, Mark, Marks, queue
    <2>5. \A i \in Jobs : row'[i].state = "sent" => row[i].state = "sent" \/ sent'[i] > 0
      <3>1. CASE Claim(w)
        BY <2>1, <3>1, RowStates
      <3>2. CASE Mark(w)
        <4>1. sent'[worker[w].job] > 0
          BY <2>1, <3>2, <1>1 DEF Mark, Marks, SentInv
        <4> QED BY <2>1, <3>2, <4>1, RowStates
      <3>3. CASE ~Claim(w) /\ ~Mark(w)
        BY <1>3, <3>3 DEF Check, Checks, Count, Lookup, Resumes, Send
      <3> QED BY <3>1, <3>2, <3>3
    <2> QED BY <2>1, <2>2, <2>3, <2>4, <2>5, SentKept
  <1>4. ASSUME NEW w \in Workers, Withdraw(w) PROVE SentInv'
    <2>1. outcome' = outcome /\ worker'[w].pc = "skipped_capped" /\ worker[w].job \in Jobs
      BY <1>4, WithdrawStep DEF Withdraw, queue
    <2>2. \A v \in Workers \ {w} : worker'[v].pc = worker[v].pc /\ worker'[v].job = worker[v].job
      BY <1>4, WithdrawStep
    <2>3. \A i \in Jobs : row'[i].state = "sent" => row[i].state = "sent"
      BY <1>4, <2>1, RowStates DEF NoRow
    <2> QED BY <2>1, <2>2, <2>3, SentKept
  <1>5. ASSUME NEW w \in Workers, Crash(w) \/ Complete(w) \/ Throws(w) PROVE SentInv'
    <2>1. row' = row
      BY <1>5 DEF Crash, Complete, Throws
    <2>2. Becomes(w, Idle) /\ worker[w].job \in Jobs
      BY <1>5, EndStep
    <2>3. \A i \in Jobs : outcome'[i] = outcome[i] \/
              (outcome'[i] \in {"sent", "skipped_duplicate"} => sent'[i] > 0)
      <3>1. CASE outcome' = outcome
        BY <3>1
      <3>2. CASE outcome' # outcome
        <4>1. outcome' = [outcome EXCEPT ![worker[w].job] = worker[w].pc]
          BY <1>5, <3>2 DEF Crash, Complete, Throws, queue
        <4>2. worker[w].pc \in {"sent", "skipped_duplicate"} => sent'[worker[w].job] > 0
          BY <2>2, <1>1 DEF SentInv
        <4> QED BY <2>2, <4>1, <4>2 DEF DataOK
      <3> QED BY <3>1, <3>2
    <2> QED BY <2>1, <2>2, <2>3, IdleIsAttempt, SentKept DEF Becomes
  <1>6. ASSUME NEW j \in Jobs, NEW w \in Workers, Take(w, j) PROVE SentInv'
    <2>1. row' = row /\ outcome' = outcome
      BY <1>6 DEF Take
    <2>2. PICK u \in Attempt : Becomes(w, u) /\ u.pc = "check"
      BY <1>6, TakeStep
    <2> QED BY <2>1, <2>2, SentKept DEF Becomes
  <1>7. ASSUME NEW j \in Jobs, Expire(j) PROVE SentInv'
    <2>1. row' = row /\ outcome' = outcome
      BY <1>7 DEF Expire
    <2>2. \A v \in Workers : worker'[v].pc = worker[v].pc /\ worker'[v].job = worker[v].job
      <3>1. ASSUME NEW w \in Workers, NEW u \in Attempt, Running(j) = {w}, Becomes(w, u),
                   u.pc = worker[w].pc, u.job = j
            PROVE  \A v \in Workers : worker'[v].pc = worker[v].pc /\ worker'[v].job = worker[v].job
        BY <3>1 DEF Becomes, Running
      <3> QED BY <1>7, <3>1, ExpireStep
    <2> QED BY <1>2, <2>1, <2>2
  <1>8. ASSUME NEW a \in Addresses, DeleteAccount(a) PROVE SentInv'
    <2>1. \A r \in Row \cup {NoRow} : [r EXCEPT !.owned = FALSE].state = r.state
      BY DEF Row, NoRow
    <2>2. worker' = worker /\ outcome' = outcome /\
            row' = [j \in Jobs |-> IF To[j] = a THEN [row[j] EXCEPT !.owned = FALSE] ELSE row[j]]
      BY <1>8 DEF DeleteAccount, queue
    <2> QED BY <1>2, <2>1, <2>2 DEF RowInv
  <1>9. \/ worker' = worker /\ row' = row /\ outcome' = outcome
        \/ \E a \in Addresses : DeleteAccount(a)
        \/ \E j \in Jobs : Expire(j) \/ \E w \in Workers : Take(w, j)
        \/ \E w \in Workers : Attempts(w) \/ Crash(w)
    BY DEF Next, vars, queue, Midnight, Purge, Enqueue, Lapse, Notify, Claimed, NotifyCommits,
           NotifyFails, Rest
  <1> QED BY <1>2, <1>3, <1>4, <1>5, <1>6, <1>7, <1>8, <1>9 DEF Attempts

-----------------------------------------------------------------------------
(* A bounce that was acknowledged is not forgotten. *)

Known(n) == inbox[n] # 0 \/ n \in answered

LEMMA KnownNext ==
    ASSUME DataOK, \A n \in Bounces : Known(n) => About[n] \in suppressed, [Next]_vars
    PROVE  /\ suppressed \subseteq suppressed'
           /\ \A n \in Bounces : Known(n)' => About[n] \in suppressed'
  <1>c. Bounces \subseteq Notices /\ day # 0 /\ inbox \in [Notices -> 0..MaxDay]
    BY ConstantsAssumption DEF DataOK
  <1>1. CASE UNCHANGED <<inbox, suppressed, answered>>
    BY <1>1 DEF Known
  <1>2. ASSUME NEW n \in Notices, Notify(n)
        PROVE  /\ suppressed \subseteq suppressed'
               /\ \A m \in Bounces : Known(m)' => About[m] \in suppressed'
    BY <1>2 DEF Notify, Claimed, Known
  <1>3. ASSUME NEW n \in Notices, NotifyCommits(n)
        PROVE  /\ suppressed \subseteq suppressed'
               /\ \A m \in Bounces : Known(m)' => About[m] \in suppressed'
    <2>1. \A m \in Bounces : Known(m)' => m = n \/ Known(m)
      BY <1>3, <1>c DEF NotifyCommits, Known
    <2> QED BY <1>3, <2>1 DEF NotifyCommits
  <1>4. CASE Purge
    <2>1. \A m \in Bounces : Known(m)' => Known(m)
      BY SMTT(40), <1>4, <1>c DEF Purge, Known
    <2> QED BY <1>4, <2>1 DEF Purge
  <1>5. \/ UNCHANGED <<inbox, suppressed, answered>> \/ Purge
        \/ \E n \in Notices : Notify(n) \/ NotifyCommits(n)
    BY ZenonT(60) DEF Next, Attempts, vars, notices, Midnight, DeleteAccount, Enqueue, Take, Expire, Lapse, Check,
           Checks, Claim, Count, Lookup, Resumes, Send, Withdraw, Mark, Marks, Complete, Throws,
           Crash, NotifyFails, Rest
  <1> QED BY <1>1, <1>2, <1>3, <1>4, <1>5

LEMMA BounceNext ==
    ASSUME DataOK, \A i \in Jobs : QueueInv(i) /\ AttemptsInv(i), BounceInv, [Next]_vars
    PROVE  BounceInv'
  <1>1. /\ suppressed \subseteq suppressed'
        /\ \A n \in Bounces : Known(n)' => About[n] \in suppressed'
    BY KnownNext DEF BounceInv, Known
  <1>2. ASSUME NEW j \in tainted
        PROVE  To[j] \in suppressed' /\ sent'[j] = 0 /\ job'[j] # "none"
    <2>1. j \in Jobs /\ To[j] \in suppressed /\ sent[j] = 0 /\ job[j] # "none"
      BY DEF BounceInv, DataOK
    <2>2. sent'[j] = sent[j]
      BY <2>1, SentGrows DEF BounceInv
    <2>3. job'[j] # "none"
      <3>1. \/ job' = job
            \/ \E i \in Jobs : Retried(i) \/ Lapse(i) \/ (\E owned \in BOOLEAN : Enqueue(i, owned))
                               \/ \E w \in Workers : Take(w, i)
            \/ \E w \in Workers : Complete(w) /\ job' = [job EXCEPT ![worker[w].job] = "done"]
        <4>1. ASSUME NEW w \in Workers, Throws(w), job' # job
              PROVE  worker[w].job \in Jobs /\ Retried(worker[w].job)
          BY <4>1, EndStep DEF Throws
        <4> QED BY <4>1 DEF Next, Attempts, vars, queue, Midnight, Purge, DeleteAccount, Expire, Check,
               Checks, Claim, Count, Lookup, Resumes, Send, Withdraw, Mark, Marks, Complete,
               Crash, Notify, Claimed, NotifyCommits, NotifyFails, Rest
      <3> QED BY <2>1, <3>1 DEF Retried, Lapse, Enqueue, Take, DataOK
    <2> QED BY <1>1, <2>1, <2>2, <2>3
  <1>3. ASSUME NEW j \in Jobs, NEW owned \in BOOLEAN, Enqueue(j, owned) PROVE BounceInv'
    <2>1. worker' = worker /\ job'[j] = "queued" /\ sent'[j] = 0
      <3>1. job[j] = "none" /\ sent' = sent /\ job' = [job EXCEPT ![j] = "queued"] /\ worker' = worker
        BY <1>3 DEF Enqueue
      <3>2. sent[j] = 0
        <4>1. Begun(j) = 0
          BY <3>1 DEF Begun
        <4>2. sent[j] \in Nat /\ Cardinality(Unsent(j)) \in Nat
          BY Counts DEF DataOK
        <4>3. sent[j] + Cardinality(Unsent(j)) <= Begun(j)
          BY DEF AttemptsInv
        <4> QED BY <4>1, <4>2, <4>3
      <3> QED BY <3>1, <3>2 DEF DataOK
    <2>2. tainted' = tainted \/ (tainted' = tainted \cup {j} /\ To[j] \in suppressed)
      BY <1>3 DEF Enqueue, Answered, BounceInv
    <2>3. \A i \in tainted' : To[i] \in suppressed' /\ sent'[i] = 0 /\ job'[i] # "none"
      BY <1>1, <1>2, <2>1, <2>2
    <2>4. \A w \in Workers : worker[w].job # j
      BY <1>3 DEF Enqueue, QueueInv
    <2>5. \A w \in Workers : worker'[w].job \in tainted'
                                => worker'[w].pc \in {"check", "skipped_suppressed"}
      BY <2>1, <2>2, <2>4 DEF BounceInv
    <2> QED BY <1>1, <2>3, <2>5 DEF BounceInv, Known
  <1>4. CASE /\ tainted' = tainted
             /\ \A w \in Workers : worker'[w].job \in tainted
                                      => worker'[w].pc \in {"check", "skipped_suppressed"}
    BY <1>1, <1>2, <1>4 DEF BounceInv, Known
  <1>5. ASSUME NEW w \in Workers, Check(w) \/ Claim(w) \/ Count(w) \/ Lookup(w) \/ Send(w) \/ Mark(w)
        PROVE  BounceInv'
    <2>1. tainted' = tainted
      BY <1>5 DEF Check, Checks, Claim, Count, Lookup, Resumes, Send, Mark, Marks, history
    <2>2. \E to : GoesOn(w, to) /\ (worker[w].job \in tainted => to = "skipped_suppressed")
      BY <1>5, DeliverStep DEF BounceInv
    <2>3. \A v \in Workers : worker'[v].job \in tainted
                                => worker'[v].pc \in {"check", "skipped_suppressed"}
      BY <2>2 DEF GoesOn, Becomes, BounceInv
    <2> QED BY <1>4, <2>1, <2>3
  <1>6. ASSUME NEW w \in Workers, Withdraw(w) PROVE BounceInv'
    <2>1. tainted' = tainted
      BY <1>6 DEF Withdraw, history
    <2>2. \A v \in Workers : worker'[v].job = worker[v].job /\ (v # w => worker'[v].pc = worker[v].pc)
      BY <1>6, WithdrawStep
    <2>3. worker[w].job \notin tainted
      BY <1>6, WithdrawStep DEF BounceInv
    <2>4. \A v \in Workers : worker'[v].job \in tainted
                                => worker'[v].pc \in {"check", "skipped_suppressed"}
      BY <2>2, <2>3 DEF BounceInv
    <2> QED BY <1>4, <2>1, <2>4
  <1>7. ASSUME NEW w \in Workers, Crash(w) \/ Complete(w) \/ Throws(w) PROVE BounceInv'
    <2>1. tainted' = tainted
      BY <1>7 DEF Crash, Complete, Throws, history
    <2>2. Becomes(w, Idle)
      BY <1>7, EndStep
    <2>3. \A v \in Workers : worker'[v].job \in tainted
                                => worker'[v].pc \in {"check", "skipped_suppressed"}
      BY <2>2, IdleIsAttempt DEF Becomes, BounceInv, DataOK
    <2> QED BY <1>4, <2>1, <2>3
  <1>8. ASSUME NEW w \in Workers, NEW j \in Jobs, Take(w, j) PROVE BounceInv'
    <2>1. tainted' = tainted
      BY <1>8 DEF Take, history
    <2>2. PICK u \in Attempt : Becomes(w, u) /\ u.pc = "check"
      BY <1>8, TakeStep
    <2>3. \A v \in Workers : worker'[v].job \in tainted
                                => worker'[v].pc \in {"check", "skipped_suppressed"}
      BY <2>2 DEF Becomes, BounceInv
    <2> QED BY <1>4, <2>1, <2>3
  <1>9. ASSUME NEW j \in Jobs, Expire(j) PROVE BounceInv'
    <2>1. tainted' = tainted
      BY <1>9 DEF Expire
    <2>2. \A v \in Workers : worker'[v].pc = worker[v].pc /\ worker'[v].job = worker[v].job
      <3>1. ASSUME NEW w \in Workers, NEW u \in Attempt, Running(j) = {w}, Becomes(w, u),
                   u.pc = worker[w].pc, u.job = j
            PROVE  \A v \in Workers : worker'[v].pc = worker[v].pc /\ worker'[v].job = worker[v].job
        BY <3>1 DEF Becomes, Running
      <3> QED BY <1>9, <3>1, ExpireStep
    <2> QED BY <1>4, <2>1, <2>2 DEF BounceInv
  <1>10. \/ worker' = worker /\ tainted' = tainted
         \/ \E j \in Jobs : \/ Expire(j) \/ \E owned \in BOOLEAN : Enqueue(j, owned)
                            \/ \E w \in Workers : Take(w, j)
         \/ \E w \in Workers : Attempts(w) \/ Crash(w)
    BY DEF Next, vars, history, Midnight, Purge, DeleteAccount, Lapse, Notify, Claimed, NotifyCommits,
           NotifyFails, Rest
  <1> QED BY <1>3, <1>4, <1>5, <1>6, <1>7, <1>8, <1>9, <1>10 DEF Attempts, BounceInv

-----------------------------------------------------------------------------
(* The cap. *)

CountedBy(i) ==
    row[i].state # "none" /\ \A w \in Workers : worker[w].job = i => worker[w].pc \notin Counting

LEMMA CapFrom ==
    ASSUME CapInv,
           \A i \in Jobs \ uncapped' : Passed(i)' => CountedBy(i)',
           \A a \in Addresses, d \in 1..MaxDay :
              \/ Capped(a, d)' \subseteq Capped(a, d)
              \/ Capped(a, d)' \subseteq RowsToday(a) /\ Cardinality(RowsToday(a)) <= DAILY_EMAIL_CAP
    PROVE  CapInv'
  <1>1. ASSUME NEW a \in Addresses, NEW d \in 1..MaxDay
        PROVE  Cardinality(Capped(a, d)') <= DAILY_EMAIL_CAP
    <2>1. ASSUME NEW S, S \subseteq Jobs, Capped(a, d)' \subseteq S, Cardinality(S) <= DAILY_EMAIL_CAP
          PROVE  Cardinality(Capped(a, d)') <= DAILY_EMAIL_CAP
      <3>1. /\ IsFiniteSet(Capped(a, d)') /\ IsFiniteSet(S)
            /\ Cardinality(Capped(a, d)') <= Cardinality(S)
        BY <2>1, FS_Subset, ConstantsAssumption
      <3>2. Cardinality(Capped(a, d)') \in Nat /\ Cardinality(S) \in Nat
        BY <3>1, FS_CardinalityType
      <3> QED BY <2>1, <3>1, <3>2, ConstantsAssumption
    <2>2. Capped(a, d) \subseteq Jobs /\ RowsToday(a) \subseteq Jobs
      BY DEF Capped, RowsToday
    <2>3. Cardinality(Capped(a, d)) <= DAILY_EMAIL_CAP
      BY DEF CapInv
    <2> QED BY <2>1, <2>2, <2>3
  <1> QED BY <1>1 DEF CapInv, CountedBy

\* A step that lets no job pass keeps the rows by which the jobs that have passed count.
LEMMA CapKept ==
    ASSUME CapInv, uncapped \subseteq uncapped',
           \A i \in Jobs \ uncapped' : Passed(i)' => Passed(i) /\
              (CountedBy(i) => /\ CountedBy(i)'
                               /\ (row'[i].owned => row[i].owned) /\ row'[i].day = row[i].day)
    PROVE  CapInv'
  <1>1. \A i \in Jobs \ uncapped : Passed(i) => CountedBy(i)
    BY DEF CapInv, CountedBy
  <1>2. \A i \in Jobs \ uncapped' : Passed(i)' => /\ Passed(i) /\ CountedBy(i)'
                                                  /\ (row'[i].owned => row[i].owned)
                                                  /\ row'[i].day = row[i].day
    BY <1>1
  <1>3. ASSUME NEW a \in Addresses, NEW d \in 1..MaxDay PROVE Capped(a, d)' \subseteq Capped(a, d)
    BY <1>2 DEF Capped
  <1> QED BY <1>2, <1>3, CapFrom

LEMMA PassedKept ==
    ASSUME DataOK, [Next]_vars, NEW i \in Jobs, Passed(i)',
           \A v \in Workers : worker'[v].job = i /\ worker'[v].pc \in Sending
              => worker[v].job = i /\ worker[v].pc \in Sending
    PROVE  Passed(i)
  <1>1. sent'[i] > 0 => Passed(i)
    <2>1. CASE sent'[i] = sent[i]
      BY <2>1 DEF Passed
    <2>2. CASE sent'[i] # sent[i]
      BY <2>2, SentGrows DEF Passed, Sending
    <2> QED BY <2>1, <2>2
  <1> QED BY <1>1 DEF Passed

\* Nobody gets as far as sending, and no row goes.
LEMMA CapQuiet ==
    ASSUME DataOK, CapInv, [Next]_vars, uncapped' = uncapped,
           \A i \in Jobs : /\ (row'[i].state = "none" => row[i].state = "none")
                           /\ (row'[i].owned => row[i].owned) /\ row'[i].day = row[i].day,
           \A v \in Workers : worker'[v].job \in Jobs =>
              /\ worker'[v].pc \in Sending => worker'[v].job = worker[v].job /\ worker[v].pc \in Sending
              /\ worker'[v].pc \in Counting => worker'[v].job = worker[v].job /\ worker[v].pc \in Counting
    PROVE  CapInv'
  <1>1. ASSUME NEW i \in Jobs, Passed(i)' PROVE Passed(i)
    BY <1>1, PassedKept
  <1>2. ASSUME NEW i \in Jobs, CountedBy(i) PROVE CountedBy(i)'
    BY <1>2 DEF CountedBy
  <1> QED BY <1>1, <1>2, CapKept

LEMMA CapCount ==
    ASSUME DataOK, RowInv, CapInv, [Next]_vars, NEW w \in Workers, Count(w)
    PROVE  CapInv'
  <1>0. PICK j \in Jobs : worker[w].job = j
    BY DeliverStep
  <1>1. /\ worker[w].pc = "count" /\ j \in Jobs /\ To[j] \in Addresses
        /\ IF Cardinality(RowsToday(To[j])) > DAILY_EMAIL_CAP THEN GoesOn(w, "withdraw")
                                                            ELSE GoesOn(w, "send")
    BY <1>0, DeliverStep, ConstantsAssumption DEF CountedToday
  <1>2. /\ row' = row /\ sent' = sent
        /\ uncapped' = IF row[j].day = day THEN uncapped ELSE uncapped \cup {j}
    BY <1>0 DEF Count
  <1>3. PICK to : GoesOn(w, to) /\ to \in {"withdraw", "send"} /\
           (to = "send" => ~(Cardinality(RowsToday(To[j])) > DAILY_EMAIL_CAP))
    BY <1>1
  <1>4. /\ \A v \in Workers \ {w} : worker'[v] = worker[v]
        /\ worker'[w].pc = to /\ worker'[w].job = j
    BY <1>0, <1>3 DEF GoesOn, Becomes
  <1>5. j \notin uncapped => ~Passed(j)
    BY <1>0, <1>1 DEF CapInv, Counting
  <1>6. row[j].state # "none" /\ \A v \in Workers : worker[v].pc \in Counting /\ worker[v].job = j => v = w
    BY <1>0, <1>1 DEF RowInv, Counting
  <1>7. ASSUME NEW i \in Jobs \ {j} PROVE (Passed(i)' <=> Passed(i)) /\ (CountedBy(i)' <=> CountedBy(i))
    BY <1>0, <1>2, <1>4 DEF Passed, CountedBy
  <1>8. CASE to = "withdraw" \/ row[j].day # day
    <2>1. j \in uncapped' \/ ~Passed(j)'
      <3>1. CASE to = "withdraw"
        BY <1>0, <1>1, <1>2, <1>4, <1>5, <3>1 DEF Passed, Sending
      <3>2. CASE row[j].day # day
        BY <1>2, <3>2
      <3> QED BY <1>8, <3>1, <3>2
    <2> QED BY <1>2, <1>7, <2>1, CapKept
  <1>9. CASE to = "send" /\ row[j].day = day
    <2>1. CountedBy(j)'
      BY <1>0, <1>2, <1>4, <1>6, <1>9 DEF CountedBy, Counting
    <2>2. \A i \in Jobs \ uncapped' : Passed(i)' => CountedBy(i)'
      BY <1>0, <1>2, <1>7, <2>1 DEF CapInv, CountedBy
    <2>3. ASSUME NEW a \in Addresses, NEW d \in 1..MaxDay
          PROVE  \/ Capped(a, d)' \subseteq Capped(a, d)
                 \/ Capped(a, d)' \subseteq RowsToday(a) /\ Cardinality(RowsToday(a)) <= DAILY_EMAIL_CAP
      <3>1. CASE a = To[j] /\ d = day
        <4>1. Capped(a, d)' \subseteq RowsToday(a)
          BY <1>0, <1>2, <3>1 DEF Capped, RowsToday
        <4>2. RowsToday(a) \subseteq Jobs
          BY <1>0 DEF RowsToday
        <4>3. Cardinality(RowsToday(a)) \in Nat
          BY <4>2, ConstantsAssumption, FS_Subset, FS_CardinalityType
        <4>4. Cardinality(RowsToday(a)) <= DAILY_EMAIL_CAP
          BY <1>3, <1>9, <3>1, <4>3, ConstantsAssumption
        <4> QED BY <4>1, <4>4
      <3>2. CASE ~(a = To[j] /\ d = day)
        BY <1>0, <1>2, <1>7, <1>9, <3>2 DEF Capped
      <3> QED BY <3>1, <3>2
    <2> QED BY <2>2, <2>3, CapFrom
  <1> QED BY <1>3, <1>8, <1>9

LEMMA CapClaim ==
    ASSUME DataOK, RowInv, CapInv, [Next]_vars, NEW w \in Workers, Claim(w)
    PROVE  CapInv'
  <1>0. PICK j \in Jobs : worker[w].job = j
    BY DeliverStep
  <1>1. /\ worker[w].pc = "claim" /\ j \in Jobs
        /\ IF row[j].state # "none" THEN GoesOn(w, "lookup")
           ELSE IF j \in accountless THEN GoesOn(w, "send") ELSE GoesOn(w, "count")
    BY <1>0, DeliverStep
  <1>2. /\ row'[j].state # "none" /\ (row[j].state # "none" => row' = row)
        /\ \A i \in Jobs \ {j} : row'[i] = row[i]
    BY <1>0, RowStates
  <1>3. sent' = sent /\ uncapped' = uncapped
    BY <1>0 DEF Claim, history
  <1>4. row[j].state = "none" /\ j \in accountless => row'[j].owned = FALSE
    BY <1>0, <1>1 DEF Claim, RowInv
  <1>5. PICK to : GoesOn(w, to) /\ to \in {"lookup", "send", "count"}
                  /\ (to = "lookup" <=> row[j].state # "none") /\ (to = "send" => j \in accountless)
    BY <1>1
  <1>6. /\ \A v \in Workers \ {w} : worker'[v] = worker[v]
        /\ worker'[w].pc = to /\ worker'[w].job = j
    BY <1>0, <1>5 DEF GoesOn, Becomes
  <1>7. row[j].state = "none" => \A v \in Workers : worker[v].job = j => worker[v].pc \notin Counting
    BY <1>0, <1>1 DEF RowInv
  <1>8. ASSUME NEW i \in Jobs \ {j}
        PROVE  (Passed(i)' <=> Passed(i)) /\ (CountedBy(i)' <=> CountedBy(i)) /\ row'[i] = row[i]
    BY <1>0, <1>2, <1>3, <1>6 DEF Passed, CountedBy
  <1>9. CASE to = "lookup"
    <2>1. (Passed(j)' => Passed(j)) /\ (CountedBy(j) => CountedBy(j)') /\ row' = row
      BY <1>0, <1>2, <1>3, <1>5, <1>6, <1>9 DEF Passed, CountedBy, Sending, Counting
    <2> QED BY <1>3, <1>8, <2>1, CapKept
  <1>10. CASE to = "count"
    <2>1. (j \notin uncapped => ~Passed(j)) /\ (Passed(j)' => Passed(j))
      BY <1>0, <1>3, <1>5, <1>6, <1>10 DEF Passed, CapInv, Sending
    <2> QED BY <1>3, <1>8, <2>1, CapKept
  <1>11. CASE to = "send"
    <2>1. CountedBy(j)'
      BY <1>0, <1>2, <1>5, <1>6, <1>7, <1>11 DEF CountedBy, Counting
    <2>2. \A i \in Jobs \ uncapped' : Passed(i)' => CountedBy(i)'
      BY <1>0, <1>3, <1>8, <2>1 DEF CapInv, CountedBy
    <2>3. ~row'[j].owned
      BY <1>4, <1>5, <1>11
    <2>4. ASSUME NEW a \in Addresses, NEW d \in 1..MaxDay PROVE Capped(a, d)' \subseteq Capped(a, d)
      BY <1>0, <1>3, <1>8, <2>3 DEF Capped
    <2> QED BY <2>2, <2>4, CapFrom
  <1> QED BY <1>5, <1>9, <1>10, <1>11

LEMMA CapNext ==
    ASSUME DataOK, \A i \in Jobs : QueueInv(i), RowInv, CapInv, [Next]_vars
    PROVE  CapInv'
  <1>1. CASE worker' = worker /\ uncapped' = uncapped /\
             \A i \in Jobs : /\ row'[i].state = row[i].state
                             /\ (row'[i].owned => row[i].owned) /\ row'[i].day = row[i].day
    BY <1>1, CapQuiet
  <1>2. ASSUME NEW w \in Workers, Check(w) \/ Send(w) \/ Mark(w) PROVE CapInv'
    <2>1. /\ worker[w].job \in Jobs
          /\ \E to : GoesOn(w, to) /\ to \notin Counting /\
                (to \in Sending => worker[w].pc \in Sending)
      BY <1>2, DeliverStep DEF Counting, Sending
    <2>2. uncapped' = uncapped
      BY <1>2 DEF Check, Checks, Send, Mark, Marks, history
    <2>3. \A i \in Jobs : /\ (row'[i].state = "none" => row[i].state = "none")
                          /\ (row'[i].owned => row[i].owned) /\ row'[i].day = row[i].day
      <3>1. CASE row' = row
        BY <3>1
      <3>2. CASE Mark(w)
        BY <2>1, <3>2, RowStates
      <3> QED BY <1>2, <3>1, <3>2 DEF Check, Checks, Send
    <2>4. \A v \in Workers :
              /\ worker'[v].pc \in Sending => worker'[v].job = worker[v].job /\ worker[v].pc \in Sending
              /\ worker'[v].pc \in Counting => worker'[v].job = worker[v].job /\ worker[v].pc \in Counting
      BY <2>1 DEF GoesOn, Becomes
    <2> QED BY <2>2, <2>3, <2>4, CapQuiet
  <1>3. ASSUME NEW w \in Workers, Lookup(w) PROVE CapInv'
    <2>0. PICK j \in Jobs : worker[w].job = j
      BY <1>3, DeliverStep
    <2>1. uncapped' = uncapped \cup {j} /\ row' = row /\ sent' = sent
      BY <1>3, <2>0 DEF Lookup, Resumes
    <2>2. \E to : GoesOn(w, to)
      BY <1>3, DeliverStep
    <2>3. /\ \A v \in Workers \ {w} : worker'[v] = worker[v]
          /\ worker'[w].job = j
      BY <2>0, <2>2 DEF GoesOn, Becomes
    <2>4. ASSUME NEW i \in Jobs \ {j}
          PROVE  (Passed(i)' <=> Passed(i)) /\ (CountedBy(i)' <=> CountedBy(i))
      BY <2>0, <2>1, <2>3 DEF Passed, CountedBy
    <2> QED BY <2>1, <2>4, CapKept
  <1>4. ASSUME NEW w \in Workers, Withdraw(w) PROVE CapInv'
    <2>0. PICK j \in Jobs : worker[w].job = j
      BY <1>4, WithdrawStep
    <2>1. /\ uncapped' = uncapped /\ sent' = sent
          /\ worker[w].pc = "withdraw" /\ j \in Jobs /\ worker'[w].pc = "skipped_capped"
          /\ \A v \in Workers : worker'[v].job = worker[v].job
          /\ \A v \in Workers \ {w} : worker'[v].pc = worker[v].pc
          /\ \A i \in Jobs \ {j} : row'[i] = row[i]
      BY <1>4, <2>0, WithdrawStep, RowStates DEF Withdraw, history
    <2>2. j \notin uncapped => ~Passed(j)
      BY <2>0, <2>1 DEF CapInv, Counting
    <2>3. \A i \in Jobs : Passed(i)' => Passed(i)
      BY <2>0, <2>1 DEF Passed, Sending
    <2>4. \A i \in Jobs \ {j} : CountedBy(i) => CountedBy(i)'
      BY <2>0, <2>1 DEF CountedBy, Counting
    <2> QED BY <2>1, <2>2, <2>3, <2>4, CapKept
  <1>5. ASSUME NEW w \in Workers, Crash(w) \/ Complete(w) \/ Throws(w) PROVE CapInv'
    <2>1. row' = row /\ uncapped' = uncapped
      BY <1>5 DEF Crash, Complete, Throws, history
    <2>2. Becomes(w, Idle)
      BY <1>5, EndStep
    <2>3. \A v \in Workers : worker'[v].job \in Jobs => worker'[v] = worker[v]
      BY <2>2, IdleIsAttempt DEF Becomes
    <2> QED BY <2>1, <2>3, CapQuiet
  <1>6. ASSUME NEW j \in Jobs, NEW w \in Workers, Take(w, j) PROVE CapInv'
    <2>1. row' = row /\ uncapped' = uncapped
      BY <1>6 DEF Take, history
    <2>2. PICK u \in Attempt : Becomes(w, u) /\ u.pc = "check"
      BY <1>6, TakeStep
    <2>3. \A v \in Workers :
              /\ worker'[v].pc \in Sending => worker'[v].job = worker[v].job /\ worker[v].pc \in Sending
              /\ worker'[v].pc \in Counting => worker'[v].job = worker[v].job /\ worker[v].pc \in Counting
      BY <2>2 DEF Becomes, Sending, Counting
    <2> QED BY <2>1, <2>3, CapQuiet
  <1>7. ASSUME NEW j \in Jobs, Expire(j) PROVE CapInv'
    <2>1. row' = row /\ uncapped' = uncapped
      BY <1>7 DEF Expire
    <2>2. \A v \in Workers : worker'[v].pc = worker[v].pc /\ worker'[v].job = worker[v].job
      <3>1. ASSUME NEW w \in Workers, NEW u \in Attempt, Running(j) = {w}, Becomes(w, u),
                   u.pc = worker[w].pc, u.job = j
            PROVE  \A v \in Workers : worker'[v].pc = worker[v].pc /\ worker'[v].job = worker[v].job
        BY <3>1 DEF Becomes, Running
      <3> QED BY <1>7, <3>1, ExpireStep
    <2> QED BY <2>1, <2>2, CapQuiet
  <1>8. ASSUME NEW a \in Addresses, DeleteAccount(a) PROVE CapInv'
    <2>1. \A r \in Row \cup {NoRow} : /\ [r EXCEPT !.owned = FALSE].state = r.state
                                      /\ [r EXCEPT !.owned = FALSE].owned = FALSE
                                      /\ [r EXCEPT !.owned = FALSE].day = r.day
      BY DEF Row, NoRow
    <2>2. worker' = worker /\ uncapped' = uncapped /\
            row' = [j \in Jobs |-> IF To[j] = a THEN [row[j] EXCEPT !.owned = FALSE] ELSE row[j]]
      BY <1>8 DEF DeleteAccount, history
    <2>3. \A i \in Jobs : row'[i] = row[i] \/ row'[i] = [row[i] EXCEPT !.owned = FALSE]
      BY <2>2
    <2>4. \A i \in Jobs : /\ row'[i].state = row[i].state
                          /\ (row'[i].owned => row[i].owned) /\ row'[i].day = row[i].day
      <3>1. \A i \in Jobs : row[i] \in Row \cup {NoRow}
        BY DEF RowInv
      <3> QED BY ZenonT(60), <2>1, <2>3, <3>1
    <2> QED BY <1>1, <2>2, <2>4
  <1>9. \/ worker' = worker /\ row' = row /\ uncapped' = uncapped
        \/ \E a \in Addresses : DeleteAccount(a)
        \/ \E j \in Jobs : Expire(j) \/ \E w \in Workers : Take(w, j)
        \/ \E w \in Workers : Attempts(w) \/ Crash(w)
    BY DEF Next, vars, history, Midnight, Purge, Enqueue, Lapse, Notify, Claimed, NotifyCommits,
           NotifyFails, Rest
  <1> QED BY <1>1, <1>2, <1>3, <1>4, <1>5, <1>6, <1>7, <1>8, <1>9, CapCount, CapClaim DEF Attempts

-----------------------------------------------------------------------------
(* Every attempt sends once at most, and is lost once at most. *)

LEMMA GoesCounts ==
    ASSUME NEW w \in Workers, NEW j \in Jobs, worker[w].job = j, NEW to, GoesOn(w, to)
    PROVE  /\ Running(j)' = Running(j)
           /\ Cardinality(Unsent(j)') \in Nat /\ Cardinality(StaleUnsent(j)') \in Nat
           /\ Cardinality(Unsent(j)') + One(worker[w].pc \in Pending)
                = Cardinality(Unsent(j)) + One(to \in Pending)
           /\ Cardinality(StaleUnsent(j)') + One(worker[w].pc \in Pending /\ worker[w].stale)
                = Cardinality(StaleUnsent(j)) + One(to \in Pending /\ worker[w].stale)
  <1>1. PICK u \in Attempt : /\ Becomes(w, u) /\ u.pc = to /\ u.job = j /\ u.stale = worker[w].stale
    BY DEF GoesOn
  <1>2. Running(j)' = Running(j)
    BY <1>1 DEF Becomes, Running
  <1>3. w \in Unsent(j) <=> worker[w].pc \in Pending
    BY DEF Unsent
  <1>4. w \in StaleUnsent(j) <=> worker[w].pc \in Pending /\ worker[w].stale
    BY DEF Unsent, StaleUnsent
  <1>5. /\ Cardinality(Unsent(j)') \in Nat
        /\ Cardinality(Unsent(j)') + One(worker[w].pc \in Pending)
             = Cardinality(Unsent(j)) + One(to \in Pending)
    <2>1. One(w \in Unsent(j)) = One(worker[w].pc \in Pending)
      BY <1>3 DEF One
    <2>2. One(u.job = j /\ u.pc \in Pending) = One(to \in Pending)
      BY <1>1 DEF One
    <2> QED BY <1>1, <2>1, <2>2, OneMovesUnsent
  <1>6. /\ Cardinality(StaleUnsent(j)') \in Nat
        /\ Cardinality(StaleUnsent(j)') + One(worker[w].pc \in Pending /\ worker[w].stale)
             = Cardinality(StaleUnsent(j)) + One(to \in Pending /\ worker[w].stale)
    <2>1. One(w \in StaleUnsent(j)) = One(worker[w].pc \in Pending /\ worker[w].stale)
      BY <1>4 DEF One
    <2>2. One(u.job = j /\ u.pc \in Pending /\ u.stale) = One(to \in Pending /\ worker[w].stale)
      BY <1>1 DEF One
    <2> QED BY <1>1, <2>1, <2>2, OneMovesStale
  <1> QED BY <1>2, <1>5, <1>6

LEMMA EndCounts ==
    ASSUME NEW w \in Workers, NEW j \in Jobs, worker[w].job = j, Becomes(w, Idle)
    PROVE  /\ Cardinality(Unsent(j)') \in Nat /\ Cardinality(StaleUnsent(j)') \in Nat
           /\ Cardinality(Running(j)') \in Nat
           /\ Cardinality(Unsent(j)') + One(worker[w].pc \in Pending) = Cardinality(Unsent(j))
           /\ Cardinality(StaleUnsent(j)') + One(worker[w].pc \in Pending /\ worker[w].stale)
                = Cardinality(StaleUnsent(j))
           /\ Cardinality(Running(j)') + One(~worker[w].stale) = Cardinality(Running(j))
  <1>1. Idle.job # j
    BY IdleIsAttempt
  <1>2. /\ One(w \in Unsent(j)) = One(worker[w].pc \in Pending)
        /\ One(w \in StaleUnsent(j)) = One(worker[w].pc \in Pending /\ worker[w].stale)
        /\ One(w \in Running(j)) = One(~worker[w].stale)
    BY DEF Unsent, StaleUnsent, Running, One
  <1>3. /\ One(Idle.job = j /\ Idle.pc \in Pending) = 0
        /\ One(Idle.job = j /\ Idle.pc \in Pending /\ Idle.stale) = 0
        /\ One(Idle.job = j /\ ~Idle.stale) = 0
    BY <1>1 DEF One
  <1>4. Cardinality(Unsent(j)') \in Nat /\ Cardinality(Unsent(j)') + One(worker[w].pc \in Pending) = Cardinality(Unsent(j))
    BY <1>2, <1>3, OneMovesUnsent, Counts
  <1>5. /\ Cardinality(StaleUnsent(j)') \in Nat
        /\ Cardinality(StaleUnsent(j)') + One(worker[w].pc \in Pending /\ worker[w].stale)
                = Cardinality(StaleUnsent(j))
    BY <1>2, <1>3, OneMovesStale, Counts
  <1>6. Cardinality(Running(j)') \in Nat /\ Cardinality(Running(j)') + One(~worker[w].stale) = Cardinality(Running(j))
    BY <1>2, <1>3, OneMovesRunning, Counts
  <1> QED BY <1>4, <1>5, <1>6

\* What a job has been begun for is its state and its retries.
LEMMA BegunSame ==
    ASSUME NEW j \in Jobs, job'[j] = job[j], tries'[j] = tries[j]
    PROVE  Begun(j)' = Begun(j)
  BY DEF Begun

LEMMA BegunRetried ==
    ASSUME DataOK, NEW j \in Jobs, job[j] = "active", Retried(j)
    PROVE  Begun(j)' = Begun(j)
  <1>1. tries[j] \in 0..RetryLimit /\ RetryLimit \in Nat
    BY ConstantsAssumption DEF DataOK
  <1>2. Begun(j) = tries[j] + 1
    BY DEF Begun
  <1>3. CASE tries[j] < RetryLimit
    <2>1. job'[j] = "queued" /\ tries'[j] = tries[j] + 1
      BY <1>3 DEF Retried, DataOK
    <2> QED BY <1>2, <2>1 DEF Begun
  <1>4. CASE ~(tries[j] < RetryLimit)
    <2>1. job'[j] = "failed" /\ tries[j] = RetryLimit
      BY <1>1, <1>4 DEF Retried, DataOK
    <2> QED BY <1>2, <2>1 DEF Begun
  <1> QED BY <1>3, <1>4

LEMMA BegunIsNat ==
    ASSUME DataOK, NEW j \in Jobs
    PROVE  Begun(j) \in Nat /\ Begun(j) <= RetryLimit + 1
  <1>1. tries[j] \in 0..RetryLimit /\ RetryLimit \in Nat
    BY ConstantsAssumption DEF DataOK
  <1> QED BY <1>1 DEF Begun

\* What the rest of the state gives to an attempt that is not idle.
LEMMA Unchanged ==
    ASSUME NEW w \in Workers
    PROVE  /\ Check(w) \/ Claim(w) \/ Count(w) \/ Lookup(w) \/ Withdraw(w) \/ Mark(w)
                => job' = job /\ tries' = tries /\ sent' = sent /\ faults' = faults /\ outcome' = outcome
           /\ Send(w) => job' = job /\ tries' = tries /\ faults' = faults /\ outcome' = outcome
  BY DEF Check, Checks, Claim, Count, Lookup, Resumes, Withdraw, Mark, Marks, Send, queue, history

LEMMA DeliverAttempts ==
    ASSUME DataOK, NEW w \in Workers, NEW j \in Jobs, worker[w].job = j, AttemptsInv(j),
           Check(w) \/ Claim(w) \/ Count(w) \/ Lookup(w) \/ Send(w) \/ Mark(w)
    PROVE  AttemptsInv(j)'
  <1>1. job' = job /\ tries' = tries /\ faults' = faults
    BY Unchanged
  <1>2. Begun(j)' = Begun(j) /\ Begun(j) \in Nat
    BY <1>1, BegunSame, BegunIsNat
  <1>3. PICK to : GoesOn(w, to) /\
            IF Send(w) THEN worker[w].pc \in Pending /\ to \notin Pending
                       ELSE to \in Pending => worker[w].pc \in Pending
    BY DeliverStep DEF Pending, Before
  <1>4. /\ Running(j)' = Running(j) /\ Cardinality(Unsent(j)') \in Nat
        /\ Cardinality(Unsent(j)') + One(worker[w].pc \in Pending)
             = Cardinality(Unsent(j)) + One(to \in Pending)
    BY <1>3, GoesCounts
  <1>5. sent[j] \in Nat /\ sent'[j] = sent[j] + One(Send(w))
    <2>1. CASE Send(w)
      BY <2>1 DEF Send, DataOK, One
    <2>2. CASE ~Send(w)
      BY <2>2, Unchanged DEF DataOK, One
    <2> QED BY <2>1, <2>2
  <1>6. Cardinality(Unsent(j)') + One(Send(w)) <= Cardinality(Unsent(j))
    BY <1>3, <1>4, Counts DEF One
  <1>7. One(Send(w)) \in Nat
    BY DEF One
  <1>8. sent'[j] + Cardinality(Unsent(j)') <= Begun(j)
    BY <1>2, <1>4, <1>5, <1>6, <1>7, Counts DEF AttemptsInv
  <1> QED BY <1>1, <1>2, <1>4, <1>8 DEF AttemptsInv

LEMMA WithdrawCounts ==
    ASSUME DataOK, NEW w \in Workers, NEW j \in Jobs, worker[w].job = j, Withdraw(w)
    PROVE  /\ Running(j)' = Running(j)
           /\ Cardinality(Unsent(j)') \in Nat /\ Cardinality(StaleUnsent(j)') \in Nat
           /\ Cardinality(Unsent(j)') + 1 = Cardinality(Unsent(j))
           /\ Cardinality(StaleUnsent(j)') + One(worker[w].stale) = Cardinality(StaleUnsent(j))
  <1>1. /\ worker[w].pc = "withdraw" /\ worker'[w].pc = "skipped_capped"
        /\ \A v \in Workers : worker'[v].job = worker[v].job /\ worker'[v].stale = worker[v].stale
        /\ \A v \in Workers \ {w} : worker'[v].pc = worker[v].pc
    BY WithdrawStep
  <1>2. Running(j)' = Running(j)
    BY <1>1 DEF Running
  <1>3. /\ Unsent(j) \in SUBSET Workers /\ Unsent(j)' \in SUBSET Workers
        /\ StaleUnsent(j) \in SUBSET Workers /\ StaleUnsent(j)' \in SUBSET Workers
    BY DEF Unsent, StaleUnsent
  <1>4. /\ \A v \in Workers \ {w} : v \in Unsent(j) <=> v \in Unsent(j)'
        /\ \A v \in Workers \ {w} : v \in StaleUnsent(j) <=> v \in StaleUnsent(j)'
    BY <1>1 DEF Unsent, StaleUnsent
  <1>5. /\ One(w \in Unsent(j)) = 1 /\ One(w \in Unsent(j)') = 0
        /\ One(w \in StaleUnsent(j)) = One(worker[w].stale) /\ One(w \in StaleUnsent(j)') = 0
    BY <1>1 DEF Unsent, StaleUnsent, Pending, Before, One
  <1>6. /\ Cardinality(Unsent(j)') \in Nat
        /\ Cardinality(Unsent(j)') + One(w \in Unsent(j)) = Cardinality(Unsent(j)) + One(w \in Unsent(j)')
    BY <1>3, <1>4, OneMoves, ConstantsAssumption
  <1>7. /\ Cardinality(StaleUnsent(j)') \in Nat
        /\ Cardinality(StaleUnsent(j)') + One(w \in StaleUnsent(j))
             = Cardinality(StaleUnsent(j)) + One(w \in StaleUnsent(j)')
    BY <1>3, <1>4, OneMoves, ConstantsAssumption
  <1> QED BY <1>2, <1>5, <1>6, <1>7, Counts

LEMMA WithdrawAttempts ==
    ASSUME DataOK, NEW w \in Workers, NEW j \in Jobs, worker[w].job = j, AttemptsInv(j), Withdraw(w)
    PROVE  AttemptsInv(j)'
  <1>1. job' = job /\ tries' = tries /\ faults' = faults /\ sent' = sent
    BY Unchanged
  <1>2. Begun(j)' = Begun(j) /\ Begun(j) \in Nat /\ sent[j] \in Nat
    BY <1>1, BegunSame, BegunIsNat DEF DataOK
  <1>3. sent'[j] + Cardinality(Unsent(j)') <= Begun(j)
    BY <1>1, <1>2, WithdrawCounts, Counts DEF AttemptsInv
  <1>4. Running(j)' = Running(j)
    BY WithdrawCounts
  <1> QED BY <1>1, <1>2, <1>3, <1>4 DEF AttemptsInv

\* How an attempt ends: what is sent, and what is lost.
LEMMA EndEffects ==
    ASSUME DataOK, NEW w \in Workers, NEW j \in Jobs, worker[w].job = j, QueueInv(j),
           Crash(w) \/ Complete(w) \/ Throws(w)
    PROVE  /\ sent[j] \in Nat /\ faults[j] \in Nat
           /\ \E taken \in BOOLEAN :
                 /\ taken => worker[w].pc = "send" /\ Throws(w)
                 /\ sent'[j] = sent[j] + One(taken)
                 /\ faults'[j] = faults[j] + One((taken \/ worker[w].pc = "mark") /\ ~worker[w].stale)
           /\ Begun(j)' = Begun(j)
           /\ worker[w].stale \/ Crash(w) => job'[j] = job[j] /\ tries'[j] = tries[j]
           /\ ~worker[w].stale => job[j] = "active"
           /\ ~worker[w].stale /\ Complete(w) => job'[j] = "done"
  <1>1. sent[j] \in Nat /\ faults[j] \in Nat
    BY DEF DataOK
  <1>2. ~worker[w].stale => job[j] = "active"
    BY DEF QueueInv, Running
  <1>3. worker[w].stale \/ Crash(w) => job'[j] = job[j] /\ tries'[j] = tries[j]
    BY DEF Crash, Complete, Throws, queue
  <1>4. ~worker[w].stale /\ Complete(w) => job'[j] = "done" /\ tries' = tries
    BY DEF Complete, DataOK
  <1>5. Begun(j)' = Begun(j)
    <2>1. CASE worker[w].stale \/ Crash(w)
      BY <1>3, <2>1, BegunSame
    <2>2. CASE ~worker[w].stale /\ Complete(w)
      BY <1>2, <1>4, <2>2 DEF Begun
    <2>3. CASE ~worker[w].stale /\ Throws(w)
      <3>1. Retried(j)
        BY <2>3 DEF Throws
      <3> QED BY <1>2, <2>3, <3>1, BegunRetried
    <2> QED BY <2>1, <2>2, <2>3
  <1>6. \E taken \in BOOLEAN :
                 /\ taken => worker[w].pc = "send" /\ Throws(w)
                 /\ sent'[j] = sent[j] + One(taken)
                 /\ faults'[j] = faults[j] + One((taken \/ worker[w].pc = "mark") /\ ~worker[w].stale)
    <2>0. sent' = sent => sent'[j] = sent[j] + One(FALSE)
      BY <1>1 DEF One
    <2>1. CASE Crash(w)
      <3>1. sent'[j] = sent[j] + One(FALSE)
        BY <2>0, <2>1 DEF Crash
      <3>2. faults'[j] = faults[j] + One(worker[w].pc = "mark" /\ ~worker[w].stale)
        <4>1. CASE worker[w].pc = "mark" /\ ~worker[w].stale
          BY <1>1, <2>1, <4>1 DEF Crash, Fault, DataOK, One
        <4>2. CASE ~(worker[w].pc = "mark" /\ ~worker[w].stale)
          BY <1>1, <2>1, <4>2 DEF Crash, One
        <4> QED BY <4>1, <4>2
      <3>3. One((FALSE \/ worker[w].pc = "mark") /\ ~worker[w].stale)
               = One(worker[w].pc = "mark" /\ ~worker[w].stale)
        BY DEF One
      <3> QED BY <3>1, <3>2, <3>3
    <2>2. CASE Complete(w)
      <3>1. worker[w].pc # "mark" /\ sent' = sent /\ faults' = faults
        BY <2>2 DEF Complete, Outcomes, history
      <3>2. sent'[j] = sent[j] + One(FALSE)
        BY <2>0, <3>1
      <3>3. faults'[j] = faults[j] + One((FALSE \/ worker[w].pc = "mark") /\ ~worker[w].stale)
        BY <1>1, <3>1 DEF One
      <3> QED BY <3>2, <3>3
    <2>3. CASE Throws(w)
      <3>1. PICK taken \in {FALSE} \cup (IF worker[w].pc = "send" THEN {TRUE} ELSE {}) :
                /\ sent' = IF taken THEN [sent EXCEPT ![j] = @ + 1] ELSE sent
                /\ IF (taken \/ worker[w].pc = "mark") /\ ~worker[w].stale
                   THEN Fault(j) ELSE UNCHANGED faults
        BY <2>3 DEF Throws
      <3>2. taken \in BOOLEAN /\ (taken => worker[w].pc = "send")
        BY <3>1
      <3>3. sent'[j] = sent[j] + One(taken)
        BY <1>1, <3>1, <3>2 DEF One, DataOK
      <3>4. faults'[j] = faults[j] + One((taken \/ worker[w].pc = "mark") /\ ~worker[w].stale)
        <4>1. CASE (taken \/ worker[w].pc = "mark") /\ ~worker[w].stale
          BY <1>1, <3>1, <4>1 DEF Fault, DataOK, One
        <4>2. CASE ~((taken \/ worker[w].pc = "mark") /\ ~worker[w].stale)
          BY <1>1, <3>1, <4>2 DEF One
        <4> QED BY <4>1, <4>2
      <3> QED BY <2>3, <3>2, <3>3, <3>4
    <2> QED BY <2>1, <2>2, <2>3
  <1> QED BY <1>1, <1>2, <1>3, <1>4, <1>5, <1>6

LEMMA EndAttempts ==
    ASSUME DataOK, NEW w \in Workers, NEW j \in Jobs, worker[w].job = j, QueueInv(j), AttemptsInv(j),
           Crash(w) \/ Complete(w) \/ Throws(w)
    PROVE  AttemptsInv(j)'
  <1>1. /\ sent[j] \in Nat /\ faults[j] \in Nat /\ Begun(j)' = Begun(j) /\ Begun(j) \in Nat
    BY EndEffects, BegunIsNat
  <1>2. PICK taken \in BOOLEAN :
            /\ taken => worker[w].pc = "send"
            /\ sent'[j] = sent[j] + One(taken)
            /\ faults'[j] = faults[j] + One((taken \/ worker[w].pc = "mark") /\ ~worker[w].stale)
    BY EndEffects
  <1>3. /\ Cardinality(Unsent(j)') \in Nat /\ Cardinality(Running(j)') \in Nat
        /\ Cardinality(Unsent(j)') + One(worker[w].pc \in Pending) = Cardinality(Unsent(j))
        /\ Cardinality(Running(j)') + One(~worker[w].stale) = Cardinality(Running(j))
    BY EndStep, EndCounts
  <1>4. One(taken) <= One(worker[w].pc \in Pending) /\ One(taken) \in Nat /\ One(worker[w].pc \in Pending) \in Nat
    BY <1>2 DEF One, Pending
  <1>5. /\ One((taken \/ worker[w].pc = "mark") /\ ~worker[w].stale) <= One(~worker[w].stale)
        /\ One((taken \/ worker[w].pc = "mark") /\ ~worker[w].stale) \in Nat /\ One(~worker[w].stale) \in Nat
    BY DEF One
  <1>6. sent'[j] + Cardinality(Unsent(j)') <= Begun(j)
    BY <1>1, <1>2, <1>3, <1>4 DEF AttemptsInv
  <1>7. faults'[j] + Cardinality(Running(j)') <= Begun(j)
    BY <1>1, <1>2, <1>3, <1>5 DEF AttemptsInv
  <1> QED BY <1>1, <1>6, <1>7 DEF AttemptsInv

\* The attempt that the queue gives up on.
LEMMA ExpireCounts ==
    ASSUME NEW j \in Jobs, NEW w \in Workers, NEW u \in Attempt, Running(j) = {w}, Becomes(w, u),
           u.pc = worker[w].pc, u.job = j, u.stale
    PROVE  /\ worker[w].job = j /\ ~worker[w].stale /\ Running(j)' = {}
           /\ Cardinality(Running(j)) = 1 /\ Cardinality(Running(j)') = 0
           /\ Unsent(j)' = Unsent(j)
           /\ Cardinality(StaleUnsent(j)') \in Nat
           /\ Cardinality(StaleUnsent(j)') = Cardinality(StaleUnsent(j)) + One(worker[w].pc \in Pending)
  <1>1. worker[w].job = j /\ ~worker[w].stale
    BY DEF Running
  <1>2. Running(j)' = {}
    BY DEF Running, Becomes
  <1>3. Cardinality(Running(j)) = 1 /\ Cardinality(Running(j)') = 0
    BY <1>2, FS_Singleton, FS_EmptySet
  <1>4. Unsent(j)' = Unsent(j)
    BY <1>1 DEF Unsent, Becomes
  <1>5. /\ One(w \in StaleUnsent(j)) = 0
        /\ One(u.job = j /\ u.pc \in Pending /\ u.stale) = One(worker[w].pc \in Pending)
    BY <1>1 DEF StaleUnsent, One
  <1>6. /\ Cardinality(StaleUnsent(j)') \in Nat
        /\ Cardinality(StaleUnsent(j)') + One(w \in StaleUnsent(j))
             = Cardinality(StaleUnsent(j)) + One(u.job = j /\ u.pc \in Pending /\ u.stale)
    BY OneMovesStale
  <1> QED BY <1>1, <1>2, <1>3, <1>4, <1>5, <1>6

LEMMA ExpireAttempts ==
    ASSUME DataOK, NEW j \in Jobs, QueueInv(j), AttemptsInv(j), Expire(j)
    PROVE  AttemptsInv(j)'
  <1>1. /\ Begun(j)' = Begun(j) /\ Begun(j) \in Nat /\ sent' = sent
        /\ sent[j] \in Nat /\ faults[j] \in Nat
    BY BegunRetried, BegunIsNat DEF Expire, DataOK
  <1>2. CASE Running(j) = {} /\ worker' = worker /\ faults' = faults
    <2>1. Running(j)' = Running(j) /\ Unsent(j)' = Unsent(j)
      BY <1>2 DEF Running, Unsent
    <2> QED BY <1>1, <1>2, <2>1 DEF AttemptsInv
  <1>3. ASSUME NEW w \in Workers, NEW u \in Attempt, Running(j) = {w}, Becomes(w, u),
               u.pc = worker[w].pc, u.job = j, u.stale, faults' = [faults EXCEPT ![j] = faults[j] + 1]
        PROVE  AttemptsInv(j)'
    <2>1. /\ Cardinality(Running(j)) = 1 /\ Cardinality(Running(j)') = 0
          /\ Unsent(j)' = Unsent(j)
      BY <1>3, ExpireCounts
    <2>2. faults'[j] = faults[j] + 1
      BY <1>3 DEF DataOK
    <2> QED BY <1>1, <2>1, <2>2 DEF AttemptsInv
  <1> QED BY <1>2, <1>3, ExpireStep

LEMMA TakeCounts ==
    ASSUME NEW j \in Jobs, NEW w \in Workers, NEW u \in Attempt, Becomes(w, u),
           worker[w] = Idle, u.pc = "check", u.job = j, ~u.stale
    PROVE  /\ Cardinality(Unsent(j)') = Cardinality(Unsent(j)) + 1
           /\ Cardinality(Running(j)') = Cardinality(Running(j)) + 1
           /\ StaleUnsent(j)' = StaleUnsent(j)
  <1>1. worker[w].job # j
    BY IdleIsAttempt
  <1>2. /\ One(w \in Unsent(j)) = 0 /\ One(u.job = j /\ u.pc \in Pending) = 1
        /\ One(w \in Running(j)) = 0 /\ One(u.job = j /\ ~u.stale) = 1
    BY <1>1 DEF Unsent, Running, Pending, Before, One
  <1>3. StaleUnsent(j)' = StaleUnsent(j)
    BY <1>1 DEF StaleUnsent, Unsent, Becomes
  <1>4. /\ Cardinality(Unsent(j)') \in Nat
        /\ Cardinality(Unsent(j)') + One(w \in Unsent(j))
                = Cardinality(Unsent(j)) + One(u.job = j /\ u.pc \in Pending)
    BY OneMovesUnsent
  <1>5. /\ Cardinality(Running(j)') \in Nat
        /\ Cardinality(Running(j)') + One(w \in Running(j))
                = Cardinality(Running(j)) + One(u.job = j /\ ~u.stale)
    BY OneMovesRunning
  <1> QED BY <1>2, <1>3, <1>4, <1>5, Counts

LEMMA TakeAttempts ==
    ASSUME DataOK, NEW j \in Jobs, NEW w \in Workers, AttemptsInv(j), Take(w, j)
    PROVE  AttemptsInv(j)'
  <1>1. PICK u \in Attempt : Becomes(w, u) /\ worker[w] = Idle /\ u.pc = "check" /\ u.job = j /\ ~u.stale
    BY TakeStep
  <1>2. /\ Cardinality(Unsent(j)') = Cardinality(Unsent(j)) + 1
        /\ Cardinality(Running(j)') = Cardinality(Running(j)) + 1
    BY <1>1, TakeCounts
  <1>3. tries[j] \in Nat /\ sent[j] \in Nat /\ faults[j] \in Nat
    BY ConstantsAssumption DEF DataOK
  <1>4. Begun(j) = tries[j] /\ Begun(j)' = tries[j] + 1
    BY DEF Take, Begun, DataOK
  <1>5. sent' = sent /\ faults' = faults
    BY DEF Take, history
  <1> QED BY <1>2, <1>3, <1>4, <1>5, Counts DEF AttemptsInv

\* Enqueue and Lapse.
LEMMA QueueAttempts ==
    ASSUME DataOK, NEW j \in Jobs, AttemptsInv(j), worker' = worker, sent' = sent, faults' = faults,
           tries' = tries,
           (job[j] = "none" /\ job'[j] = "queued") \/ (job[j] = "queued" /\ job'[j] = "failed")
    PROVE  AttemptsInv(j)'
  <1>1. Unsent(j)' = Unsent(j) /\ Running(j)' = Running(j)
    BY DEF Unsent, Running
  <1>2. /\ tries[j] \in Nat /\ tries[j] <= RetryLimit /\ RetryLimit \in Nat
        /\ sent[j] \in Nat /\ faults[j] \in Nat
    BY ConstantsAssumption DEF DataOK
  <1>3. Begun(j) <= Begun(j)' /\ Begun(j) \in Nat /\ Begun(j)' \in Nat
    BY <1>2 DEF Begun
  <1> QED BY <1>1, <1>2, <1>3, Counts DEF AttemptsInv

-----------------------------------------------------------------------------
(* What a fault pays for. *)

LEMMA ExcessIsInt ==
    ASSUME DataOK, NEW j \in Jobs
    PROVE  Excess(j) \in Int /\ sent[j] \in Nat /\ faults[j] \in Nat
  BY Counts DEF Excess, DataOK

LEMMA PaidKept ==
    ASSUME DataOK, NEW j \in Jobs, PaidInv(j), Excess(j)' \in Int, Excess(j)' <= Excess(j),
           Free(j) => Free(j)',
           \A v \in Workers : v \in Running(j)' /\ worker'[v].pc = "send" /\ ~worker'[v].holds
               => v \in Running(j) /\ worker[v].pc = "send" /\ ~worker[v].holds
    PROVE  PaidInv(j)'
  <1>0. Excess(j) \in Int
    BY ExcessIsInt
  <1>1. Excess(j)' <= 1
    BY <1>0 DEF PaidInv
  <1>2. ~Free(j)' => Excess(j)' <= 0
    BY <1>0 DEF PaidInv
  <1>3. \A v \in Running(j)' : worker'[v].pc = "send" /\ ~worker'[v].holds => Excess(j)' < 0
    BY <1>0 DEF PaidInv, Running
  <1> QED BY <1>1, <1>2, <1>3 DEF PaidInv

\* The one attempt that runs, while the job is active.
LEMMA RunningAlone ==
    ASSUME NEW w \in Workers, NEW j \in Jobs, worker[w].job = j, ~worker[w].stale, QueueInv(j)
    PROVE  Running(j) = {w} /\ job[j] = "active"
  BY DEF QueueInv, Running

\* An attempt on its way past the row keeps its message from being free.
LEMMA NotFreeYet ==
    ASSUME NEW w \in Workers, NEW j \in Jobs, worker[w].job = j, ~worker[w].stale, QueueInv(j),
           worker[w].pc \in Counting \cup Sending, worker[w].pc = "mark" => ~worker[w].holds
    PROVE  ~Free(j)
  <1>1. Running(j) = {w} /\ job[j] = "active"
    BY RunningAlone
  <1> QED BY <1>1 DEF Free

\* Check, Count and Lookup: nothing is sent, and the row stays.
LEMMA QuietPaid ==
    ASSUME DataOK, RowInv, NEW w \in Workers, NEW j \in Jobs, worker[w].job = j, QueueInv(j), PaidInv(j),
           Check(w) \/ Count(w) \/ Lookup(w)
    PROVE  PaidInv(j)'
  <1>1. /\ job' = job /\ sent' = sent /\ faults' = faults /\ row' = row
    BY Unchanged DEF Check, Checks, Count, Lookup, Resumes
  <1>2. PICK to : GoesOn(w, to) /\ to # "mark" /\ worker[w].pc \in Before /\ worker[w].pc # "mark"
            /\ (to \in Counting \cup Sending =>
                   worker[w].pc \in Counting \/ row[j].state # "sent")
    BY DeliverStep DEF Counting, Sending, Before
  <1>3. /\ \A v \in Workers \ {w} : worker'[v] = worker[v]
        /\ worker'[w].pc = to /\ worker'[w].holds = worker[w].holds
    BY <1>2 DEF GoesOn, Becomes
  <1>4. /\ Running(j)' = Running(j)
        /\ Cardinality(StaleUnsent(j)') \in Nat
        /\ Cardinality(StaleUnsent(j)') + One(worker[w].pc \in Pending /\ worker[w].stale)
             = Cardinality(StaleUnsent(j)) + One(to \in Pending /\ worker[w].stale)
    BY <1>2, GoesCounts
  <1>5. Cardinality(StaleUnsent(j)') <= Cardinality(StaleUnsent(j))
    BY <1>2, <1>4, Counts DEF One, Pending
  <1>6. Excess(j)' \in Int /\ Excess(j)' <= Excess(j)
    BY <1>1, <1>4, <1>5, ExcessIsInt, Counts DEF Excess
  <1>7. worker[w].holds
    BY <1>2 DEF RowInv
  <1>8. Free(j) => Free(j)'
    <2>1. CASE job[j] = "done"
      BY <1>1, <2>1 DEF Free
    <2>2. ASSUME NEW v \in Running(j), worker[v].pc = "mark", worker[v].holds PROVE Free(j)'
      <3>1. v # w /\ v \in Workers
        BY <1>2, <2>2 DEF Running
      <3>2. worker'[v] = worker[v]
        BY <1>3, <3>1
      <3> QED BY <1>4, <2>2, <3>2 DEF Free
    <2>3. ASSUME row[j].state = "sent", \A v \in Running(j) : worker[v].pc \notin Counting \cup Sending
          PROVE  Free(j)'
      <3>1. ASSUME NEW v \in Running(j) PROVE worker'[v].pc \notin Counting \cup Sending
        <4>1. CASE v = w
          BY <1>2, <1>3, <2>3, <4>1
        <4>2. CASE v # w
          BY <1>3, <2>3, <4>2 DEF Running
        <4> QED BY <4>1, <4>2
      <3> QED BY <1>1, <1>4, <2>3, <3>1 DEF Free
    <2> QED BY <2>1, <2>2, <2>3 DEF Free
  <1> QED BY <1>3, <1>4, <1>6, <1>7, <1>8, PaidKept

LEMMA ClaimPaid ==
    ASSUME DataOK, RowInv, NEW w \in Workers, NEW j \in Jobs, worker[w].job = j, QueueInv(j), PaidInv(j),
           Claim(w)
    PROVE  PaidInv(j)'
  <1>1. /\ job' = job /\ sent' = sent /\ faults' = faults
    BY Unchanged
  <1>2. PICK to : GoesOn(w, to) /\ to \in Pending /\ worker[w].pc = "claim"
            /\ (row[j].state # "none" => to = "lookup")
    BY DeliverStep DEF Pending, Before
  <1>3. /\ \A v \in Workers \ {w} : worker'[v] = worker[v]
        /\ worker'[w].pc = to /\ worker'[w].holds = worker[w].holds
    BY <1>2 DEF GoesOn, Becomes
  <1>4. /\ Running(j)' = Running(j)
        /\ Cardinality(StaleUnsent(j)') \in Nat
        /\ Cardinality(StaleUnsent(j)') + One(worker[w].pc \in Pending /\ worker[w].stale)
             = Cardinality(StaleUnsent(j)) + One(to \in Pending /\ worker[w].stale)
    BY <1>2, GoesCounts
  <1>5. Cardinality(StaleUnsent(j)') = Cardinality(StaleUnsent(j))
    <2>1. One(worker[w].pc \in Pending /\ worker[w].stale) = One(to \in Pending /\ worker[w].stale)
      BY <1>2 DEF One, Pending, Before
    <2>2. One(to \in Pending /\ worker[w].stale) \in Nat
      BY DEF One
    <2> QED BY <1>4, <2>1, <2>2, Counts
  <1>6. Excess(j)' \in Int /\ Excess(j)' <= Excess(j)
    BY <1>1, <1>5, ExcessIsInt, Counts DEF Excess
  <1>7. worker[w].holds
    BY <1>2 DEF RowInv, Before
  <1>8. Free(j) => Free(j)'
    <2>1. CASE job[j] = "done"
      BY <1>1, <2>1 DEF Free
    <2>2. ASSUME NEW v \in Running(j), worker[v].pc = "mark", worker[v].holds PROVE Free(j)'
      <3>1. v # w /\ v \in Workers
        BY <1>2, <2>2 DEF Running
      <3>2. worker'[v] = worker[v]
        BY <1>3, <3>1
      <3> QED BY <1>4, <2>2, <3>2 DEF Free
    <2>3. ASSUME row[j].state = "sent", \A v \in Running(j) : worker[v].pc \notin Counting \cup Sending
          PROVE  Free(j)'
      <3>1. row' = row /\ to = "lookup"
        BY <1>2, <2>3, RowStates
      <3>2. ASSUME NEW v \in Running(j) PROVE worker'[v].pc \notin Counting \cup Sending
        <4>1. CASE v = w
          BY <1>3, <3>1, <4>1 DEF Counting, Sending
        <4>2. CASE v # w
          BY <1>3, <2>3, <4>2 DEF Running
        <4> QED BY <4>1, <4>2
      <3> QED BY <1>4, <2>3, <3>1, <3>2 DEF Free
    <2> QED BY <2>1, <2>2, <2>3 DEF Free
  <1> QED BY <1>3, <1>4, <1>6, <1>7, <1>8, PaidKept

\* The message of the attempt that runs is free when it sends; a stale one is paid for.
LEMMA SendPaid ==
    ASSUME DataOK, NEW w \in Workers, NEW j \in Jobs, worker[w].job = j, QueueInv(j), PaidInv(j),
           Send(w)
    PROVE  PaidInv(j)'
  <1>1. job' = job /\ faults' = faults /\ row' = row /\ sent'[j] = sent[j] + 1 /\ worker[w].pc = "send"
    BY Unchanged, DeliverStep DEF Send, DataOK
  <1>2. GoesOn(w, "mark")
    BY DeliverStep
  <1>3. /\ \A v \in Workers \ {w} : worker'[v] = worker[v]
        /\ worker'[w].pc = "mark" /\ worker'[w].holds = worker[w].holds
    BY <1>2 DEF GoesOn, Becomes
  <1>4. /\ Running(j)' = Running(j)
        /\ Cardinality(StaleUnsent(j)') \in Nat
        /\ Cardinality(StaleUnsent(j)') + One(worker[w].stale) = Cardinality(StaleUnsent(j))
    <2>1. One(worker[w].pc \in Pending /\ worker[w].stale) = One(worker[w].stale)
      BY <1>1 DEF One, Pending
    <2>2. One("mark" \in Pending /\ worker[w].stale) = 0
      BY DEF One, Pending, Before
    <2> QED BY <1>2, <2>1, <2>2, GoesCounts, Counts
  <1>5. Excess(j)' \in Int /\ Excess(j) \in Int /\ Excess(j)' = Excess(j) + 1 - One(worker[w].stale)
    <2>1. One(worker[w].stale) \in Nat
      BY DEF One
    <2> QED BY <1>1, <1>4, <2>1, ExcessIsInt, Counts DEF Excess
  <1>6. CASE worker[w].stale
    <2>1. Excess(j)' <= Excess(j)
      BY <1>5, <1>6 DEF One
    <2>2. \A v \in Running(j) : worker'[v] = worker[v]
      BY <1>3, <1>6 DEF Running
    <2>3. Free(j) => Free(j)'
      BY <1>1, <1>4, <2>2 DEF Free
    <2> QED BY <1>4, <1>5, <2>1, <2>2, <2>3, PaidKept
  <1>7. CASE ~worker[w].stale
    <2>1. Running(j) = {w} /\ job[j] = "active"
      BY <1>7, RunningAlone
    <2>2. ~Free(j)
      BY <1>1, <1>7, NotFreeYet DEF Sending
    <2>3. Excess(j) <= 0 /\ (~worker[w].holds => Excess(j) < 0) /\ Excess(j)' = Excess(j) + 1
      BY <1>1, <1>5, <1>7, <2>1, <2>2 DEF PaidInv, One
    <2>4. worker[w].holds => Free(j)'
      BY <1>3, <1>4, <2>1 DEF Free
    <2>5. Excess(j)' <= 1 /\ (~Free(j)' => Excess(j)' <= 0)
      BY <1>5, <2>3, <2>4
    <2>6. \A v \in Running(j)' : worker'[v].pc # "send"
      BY <1>3, <1>4, <2>1
    <2> QED BY <2>5, <2>6 DEF PaidInv
  <1> QED BY <1>6, <1>7

LEMMA MarkPaid ==
    ASSUME DataOK, RowInv, NEW w \in Workers, NEW j \in Jobs, worker[w].job = j, QueueInv(j),
           PaidInv(j), Mark(w)
    PROVE  PaidInv(j)'
  <1>1. job' = job /\ sent' = sent /\ faults' = faults /\ worker[w].pc = "mark" /\ GoesOn(w, "sent")
    BY Unchanged, DeliverStep
  <1>2. /\ \A v \in Workers \ {w} : worker'[v] = worker[v]
        /\ worker'[w].pc = "sent"
    BY <1>1 DEF GoesOn, Becomes
  <1>3. /\ Running(j)' = Running(j) /\ Cardinality(StaleUnsent(j)') = Cardinality(StaleUnsent(j))
    <2>1. /\ One(worker[w].pc \in Pending /\ worker[w].stale) = 0
          /\ One("sent" \in Pending /\ worker[w].stale) = 0
      BY <1>1 DEF One, Pending, Before
    <2> QED BY <1>1, <2>1, GoesCounts, Counts
  <1>4. Excess(j)' \in Int /\ Excess(j)' <= Excess(j)
    BY <1>1, <1>3, ExcessIsInt, Counts DEF Excess
  <1>5. row[j].state = "sent" => row'[j].state = "sent"
    BY RowStates
  <1>6. Free(j) => Free(j)'
    <2>1. CASE job[j] = "done"
      BY <1>1, <2>1 DEF Free
    <2>2. ASSUME NEW v \in Running(j), worker[v].pc = "mark", worker[v].holds PROVE Free(j)'
      <3>1. CASE v = w
        <4>1. row'[j].state = "sent"
          BY <2>2, <3>1, RowStates
        <4>2. Running(j) = {w}
          BY <2>2, <3>1 DEF QueueInv
        <4> QED BY <1>2, <1>3, <4>1, <4>2 DEF Free, Counting, Sending
      <3>2. CASE v # w
        <4>1. worker'[v] = worker[v]
          BY <1>2, <3>2 DEF Running
        <4> QED BY <1>3, <2>2, <4>1 DEF Free
      <3> QED BY <3>1, <3>2
    <2>3. ASSUME row[j].state = "sent", \A v \in Running(j) : worker[v].pc \notin Counting \cup Sending
          PROVE  Free(j)'
      <3>1. \A v \in Running(j) : worker'[v] = worker[v]
        BY <1>1, <1>2, <2>3 DEF Running, Sending
      <3> QED BY <1>3, <1>5, <2>3, <3>1 DEF Free
    <2> QED BY <2>1, <2>2, <2>3 DEF Free
  <1> QED BY <1>2, <1>3, <1>4, <1>6, PaidKept

\* A stale attempt that withdraws the row takes its own message from what is to be sent.
LEMMA WithdrawPaid ==
    ASSUME DataOK, NEW w \in Workers, NEW j \in Jobs, worker[w].job = j, QueueInv(j), PaidInv(j),
           Withdraw(w)
    PROVE  PaidInv(j)'
  <1>1. job' = job /\ sent' = sent /\ faults' = faults
    BY Unchanged
  <1>2. /\ worker[w].pc = "withdraw" /\ worker'[w].pc = "skipped_capped"
        /\ \A v \in Workers \ {w} : worker'[v].pc = worker[v].pc
    BY WithdrawStep
  <1>3. /\ Running(j)' = Running(j)
        /\ Cardinality(StaleUnsent(j)') \in Nat
        /\ Cardinality(StaleUnsent(j)') + One(worker[w].stale) = Cardinality(StaleUnsent(j))
    BY WithdrawCounts
  <1>4. Excess(j)' \in Int /\ Excess(j) \in Int /\ Excess(j)' = Excess(j) - One(worker[w].stale)
    <2>1. One(worker[w].stale) \in Nat
      BY DEF One
    <2> QED BY <1>1, <1>3, <2>1, ExcessIsInt, Counts DEF Excess
  <1>5. CASE worker[w].stale
    <2>1. Excess(j)' = Excess(j) - 1
      BY <1>4, <1>5 DEF One
    <2>2. Excess(j)' <= 0
      BY <1>4, <2>1 DEF PaidInv
    <2>3. ASSUME NEW v \in Running(j)', worker'[v].pc = "send" PROVE Excess(j)' < 0
      <3>1. v \in Workers /\ v # w /\ worker[v].pc = "send" /\ worker[v].job = j /\ ~worker[v].stale
        BY <1>2, <1>3, <1>5, <2>3 DEF Running
      <3>2. ~Free(j)
        BY <3>1, NotFreeYet DEF Sending
      <3> QED BY <1>4, <2>1, <3>2 DEF PaidInv
    <2> QED BY <1>4, <2>2, <2>3 DEF PaidInv
  <1>6. CASE ~worker[w].stale
    <2>1. Running(j)' = {w}
      BY <1>3, <1>6, RunningAlone
    <2>2. ~Free(j)
      BY <1>2, <1>6, NotFreeYet DEF Counting
    <2>3. Excess(j)' <= 0
      BY <1>4, <1>6, <2>2 DEF PaidInv, One
    <2> QED BY <1>2, <1>4, <2>1, <2>3 DEF PaidInv
  <1> QED BY <1>5, <1>6

\* An attempt that ends, or is lost: its message is paid for, or was not sent.
LEMMA EndPaid ==
    ASSUME DataOK, NEW w \in Workers, NEW j \in Jobs, worker[w].job = j, QueueInv(j), PaidInv(j),
           Crash(w) \/ Complete(w) \/ Throws(w)
    PROVE  PaidInv(j)'
  <1>1. PICK taken \in BOOLEAN :
            /\ taken => worker[w].pc = "send" /\ Throws(w)
            /\ sent'[j] = sent[j] + One(taken)
            /\ faults'[j] = faults[j] + One((taken \/ worker[w].pc = "mark") /\ ~worker[w].stale)
    BY EndEffects
  <1>2. /\ Becomes(w, Idle) /\ Cardinality(StaleUnsent(j)') \in Nat
        /\ Cardinality(StaleUnsent(j)') + One(worker[w].pc \in Pending /\ worker[w].stale)
                = Cardinality(StaleUnsent(j))
    BY EndStep, EndCounts
  <1>3. \A v \in Workers \ {w} : worker'[v] = worker[v]
    BY <1>2 DEF Becomes
  <1>4. worker'[w].job # j
    BY <1>2, IdleIsAttempt DEF Becomes
  <1>5. row' = row
    BY DEF Crash, Complete, Throws
  <1>6. CASE worker[w].stale
    <2>1. /\ One((taken \/ worker[w].pc = "mark") /\ ~worker[w].stale) = 0
          /\ One(taken) <= One(worker[w].pc \in Pending /\ worker[w].stale)
          /\ One(taken) \in Nat /\ One(worker[w].pc \in Pending /\ worker[w].stale) \in Nat
      BY <1>1, <1>6 DEF One, Pending
    <2>2. Excess(j)' \in Int /\ Excess(j)' <= Excess(j)
      BY <1>1, <1>2, <2>1, ExcessIsInt, Counts DEF Excess
    <2>3. Running(j)' = Running(j) /\ \A v \in Running(j) : worker'[v] = worker[v]
      BY <1>3, <1>4, <1>6 DEF Running
    <2>4. job'[j] = job[j]
      BY <1>6, EndEffects
    <2>5. Free(j) => Free(j)'
      BY <1>5, <2>3, <2>4 DEF Free
    <2> QED BY <2>2, <2>3, <2>5, PaidKept
  <1>7. CASE ~worker[w].stale
    <2>1. Running(j) = {w} /\ job[j] = "active"
      BY <1>7, RunningAlone
    <2>2. Running(j)' = {}
      BY <1>3, <1>4, <2>1 DEF Running
    <2>3. /\ One(worker[w].pc \in Pending /\ worker[w].stale) = 0
          /\ One((taken \/ worker[w].pc = "mark") /\ ~worker[w].stale)
               = One(taken) + One(worker[w].pc = "mark")
          /\ One(taken) \in Nat /\ One(worker[w].pc = "mark") \in Nat
      BY <1>1, <1>7 DEF One
    <2> DEFINE t == One(taken)
               m == One(worker[w].pc = "mark")
    <2>a. t \in Nat /\ m \in Nat
      BY <2>3
    <2>b. sent'[j] = sent[j] + t /\ faults'[j] = faults[j] + (t + m)
      BY <1>1, <2>3
    <2>c. Cardinality(StaleUnsent(j)') = Cardinality(StaleUnsent(j))
      BY <1>2, <2>3
    <2> HIDE DEF t, m
    <2>4. Excess(j)' \in Int /\ Excess(j) \in Int /\ Excess(j)' = Excess(j) - m
      BY <1>2, <2>a, <2>b, <2>c, ExcessIsInt, Counts DEF Excess
    <2>5. Excess(j)' <= 1 /\ Excess(j)' <= Excess(j)
      BY <2>a, <2>4 DEF PaidInv
    <2>6. ~Free(j)' => Excess(j)' <= 0
      <3>1. CASE worker[w].pc = "mark"
        <4>1. m = 1
          BY <3>1 DEF One, m
        <4> QED BY <2>4, <4>1 DEF PaidInv
      <3>2. CASE worker[w].pc # "mark"
        <4>1. row[j].state = "sent" => Free(j)'
          BY <1>5, <2>2 DEF Free
        <4>2. row[j].state # "sent" => ~Free(j)
          BY <2>1, <3>2 DEF Free
        <4> QED BY <2>4, <2>5, <4>1, <4>2 DEF PaidInv
      <3> QED BY <3>1, <3>2
    <2> QED BY <2>2, <2>5, <2>6 DEF PaidInv
  <1> QED BY <1>6, <1>7

\* The queue gives up: from then on what the attempt may send is counted as a fault.
LEMMA ExpirePaid ==
    ASSUME DataOK, NEW j \in Jobs, QueueInv(j), PaidInv(j), Expire(j)
    PROVE  PaidInv(j)'
  <1>1. sent' = sent /\ row' = row /\ job[j] = "active"
    BY DEF Expire
  <1>2. CASE Running(j) = {} /\ worker' = worker /\ faults' = faults
    <2>1. Running(j)' = {} /\ StaleUnsent(j)' = StaleUnsent(j)
      BY <1>2 DEF Running, StaleUnsent, Unsent
    <2>2. Excess(j)' = Excess(j)
      BY <1>1, <1>2, <2>1 DEF Excess
    <2>3. Free(j) => Free(j)'
      BY <1>1, <1>2, <2>1 DEF Free
    <2> QED BY <2>1, <2>2, <2>3, ExcessIsInt, PaidKept
  <1>3. ASSUME NEW w \in Workers, NEW u \in Attempt, Running(j) = {w}, Becomes(w, u),
               u.pc = worker[w].pc, u.job = j, u.stale, faults' = [faults EXCEPT ![j] = faults[j] + 1]
        PROVE  PaidInv(j)'
    <2>1. /\ worker[w].job = j /\ ~worker[w].stale /\ Running(j)' = {}
          /\ Cardinality(StaleUnsent(j)') \in Nat
          /\ Cardinality(StaleUnsent(j)') = Cardinality(StaleUnsent(j)) + One(worker[w].pc \in Pending)
      BY <1>3, ExpireCounts
    <2>2. faults'[j] = faults[j] + 1
      BY <1>3 DEF DataOK
    <2>3. /\ Excess(j) \in Int /\ Excess(j)' \in Int
          /\ Excess(j)' = Excess(j) - 1 + One(worker[w].pc \in Pending)
      <3>1. One(worker[w].pc \in Pending) \in Nat
        BY DEF One
      <3> QED BY <1>1, <2>1, <2>2, <3>1, ExcessIsInt, Counts DEF Excess
    <2>4. CASE worker[w].pc \in Pending
      <3>1. Excess(j)' = Excess(j)
        BY <2>3, <2>4 DEF One
      <3>2. row[j].state = "sent" => Free(j)'
        BY <1>1, <2>1 DEF Free
      <3>3. row[j].state # "sent" => ~Free(j)
        <4>1. worker[w].pc # "mark"
          BY <2>4 DEF Pending, Before
        <4> QED BY <1>1, <1>3, <4>1 DEF Free
      <3> QED BY <2>1, <2>3, <3>1, <3>2, <3>3 DEF PaidInv
    <2>5. CASE worker[w].pc \notin Pending
      <3>1. Excess(j)' <= 0
        BY <2>3, <2>5 DEF PaidInv, One
      <3> QED BY <2>1, <2>3, <3>1 DEF PaidInv
    <2> QED BY <2>4, <2>5
  <1> QED BY <1>2, <1>3, ExpireStep

LEMMA TakePaid ==
    ASSUME DataOK, NEW j \in Jobs, NEW w \in Workers, QueueInv(j), PaidInv(j), Take(w, j)
    PROVE  PaidInv(j)'
  <1>1. PICK u \in Attempt : Becomes(w, u) /\ worker[w] = Idle /\ u.pc = "check" /\ u.job = j /\ ~u.stale
    BY TakeStep
  <1>2. StaleUnsent(j)' = StaleUnsent(j)
    BY <1>1, TakeCounts
  <1>3. sent' = sent /\ faults' = faults /\ row' = row /\ job[j] = "queued"
    BY DEF Take, history
  <1>4. Excess(j)' = Excess(j)
    BY <1>2, <1>3 DEF Excess
  <1>5. Running(j) = {}
    BY <1>3 DEF QueueInv
  <1>6. \A v \in Running(j)' : worker'[v].pc = "check"
    BY <1>1, <1>5 DEF Running, Becomes
  <1>7. Free(j) => Free(j)'
    BY <1>3, <1>5, <1>6 DEF Free, Counting, Sending
  <1> QED BY <1>4, <1>6, <1>7, ExcessIsInt, PaidKept

LEMMA QueuePaid ==
    ASSUME DataOK, NEW j \in Jobs, PaidInv(j), worker' = worker, sent' = sent, faults' = faults,
           row' = row, job[j] # "done"
    PROVE  PaidInv(j)'
  <1>1. Running(j)' = Running(j) /\ StaleUnsent(j)' = StaleUnsent(j)
    BY DEF Running, StaleUnsent, Unsent
  <1>2. Excess(j)' = Excess(j)
    BY <1>1 DEF Excess
  <1>3. Free(j) => Free(j)'
    BY <1>1 DEF Free
  <1> QED BY <1>1, <1>2, <1>3, ExcessIsInt, PaidKept

-----------------------------------------------------------------------------
(* Every step keeps both, for its own job and for the others. *)

JobInv(i) == QueueInv(i) /\ AttemptsInv(i) /\ PaidInv(i)

LEMMA RestKeeps ==
    ASSUME \A i \in Jobs : JobInv(i), worker' = worker, job' = job, tries' = tries, sent' = sent,
           faults' = faults, \A i \in Jobs : row'[i].state = row[i].state
    PROVE  \A i \in Jobs : AttemptsInv(i)' /\ PaidInv(i)'
  <1> SUFFICES ASSUME NEW i \in Jobs PROVE AttemptsInv(i)' /\ PaidInv(i)'
    OBVIOUS
  <1>1. Alone(i)
    BY DEF Alone
  <1> QED BY <1>1, AloneKeeps DEF JobInv

LEMMA DeliverKeeps ==
    ASSUME DataOK, RowInv, \A i \in Jobs : JobInv(i), NEW w \in Workers,
           Check(w) \/ Claim(w) \/ Count(w) \/ Lookup(w) \/ Send(w) \/ Mark(w)
    PROVE  \A i \in Jobs : AttemptsInv(i)' /\ PaidInv(i)'
  <1> SUFFICES ASSUME NEW i \in Jobs PROVE AttemptsInv(i)' /\ PaidInv(i)'
    OBVIOUS
  <1>1. CASE worker[w].job = i
    <2>1. AttemptsInv(i)'
      BY <1>1, DeliverAttempts DEF JobInv
    <2>2. PaidInv(i)'
      BY <1>1, QuietPaid, ClaimPaid, SendPaid, MarkPaid DEF JobInv
    <2> QED BY <2>1, <2>2
  <1>2. CASE worker[w].job # i
    <2>1. worker[w].job \in Jobs /\ \E to : GoesOn(w, to)
      BY DeliverStep
    <2>2. job'[i] = job[i] /\ tries'[i] = tries[i] /\ sent'[i] = sent[i] /\ faults'[i] = faults[i]
      <3>1. CASE Send(w)
        BY <1>2, <2>1, <3>1, Unchanged DEF Send, DataOK
      <3>2. CASE ~Send(w)
        BY <3>2, Unchanged
      <3> QED BY <3>1, <3>2
    <2>3. row'[i] = row[i]
      <3>1. CASE Claim(w) \/ Mark(w)
        BY <1>2, <3>1, RowStates
      <3>2. CASE ~Claim(w) /\ ~Mark(w)
        BY <3>2 DEF Check, Checks, Count, Lookup, Resumes, Send
      <3> QED BY <3>1, <3>2
    <2>4. Alone(i)
      BY <1>2, <2>1, <2>2, <2>3, OthersAlone DEF GoesOn
    <2> QED BY <2>4, AloneKeeps DEF JobInv
  <1> QED BY <1>1, <1>2

LEMMA WithdrawKeeps ==
    ASSUME DataOK, RowInv, \A i \in Jobs : JobInv(i), NEW w \in Workers, Withdraw(w)
    PROVE  \A i \in Jobs : AttemptsInv(i)' /\ PaidInv(i)'
  <1> SUFFICES ASSUME NEW i \in Jobs PROVE AttemptsInv(i)' /\ PaidInv(i)'
    OBVIOUS
  <1>1. CASE worker[w].job = i
    BY <1>1, WithdrawAttempts, WithdrawPaid DEF JobInv
  <1>2. CASE worker[w].job # i
    <2>1. job' = job /\ tries' = tries /\ sent' = sent /\ faults' = faults
      BY Unchanged
    <2>2. row'[i] = row[i]
      BY <1>2, RowStates
    <2>3. \A v \in Workers : worker[v].job = i => worker'[v] = worker[v]
      BY <1>2 DEF Withdraw, DataOK
    <2>4. \A v \in Workers : worker'[v].job = worker[v].job
      BY WithdrawStep
    <2>5. Alone(i)
      BY <2>1, <2>2, <2>3, <2>4 DEF Alone
    <2> QED BY <2>5, AloneKeeps DEF JobInv
  <1> QED BY <1>1, <1>2

LEMMA EndKeeps ==
    ASSUME DataOK, RowInv, \A i \in Jobs : JobInv(i), NEW w \in Workers,
           Crash(w) \/ Complete(w) \/ Throws(w)
    PROVE  \A i \in Jobs : AttemptsInv(i)' /\ PaidInv(i)'
  <1> SUFFICES ASSUME NEW i \in Jobs PROVE AttemptsInv(i)' /\ PaidInv(i)'
    OBVIOUS
  <1>1. CASE worker[w].job = i
    BY <1>1, EndAttempts, EndPaid DEF JobInv
  <1>2. CASE worker[w].job # i
    <2>1. Becomes(w, Idle) /\ worker[w].job \in Jobs
      BY EndStep
    <2>2. job'[i] = job[i] /\ tries'[i] = tries[i] /\ sent'[i] = sent[i] /\ faults'[i] = faults[i]
          /\ row' = row
      <3>1. CASE Crash(w)
        BY <1>2, <2>1, <3>1 DEF Crash, Fault, DataOK, queue
      <3>2. CASE Complete(w)
        BY <1>2, <2>1, <3>2 DEF Complete, DataOK, history
      <3>3. CASE Throws(w)
        BY <1>2, <2>1, <3>3 DEF Throws, Fault, Retried, DataOK
      <3> QED BY <3>1, <3>2, <3>3
    <2>3. Alone(i)
      BY <1>2, <2>1, <2>2, IdleIsAttempt, OthersAlone
    <2> QED BY <2>3, AloneKeeps DEF JobInv
  <1> QED BY <1>1, <1>2

LEMMA TakeKeeps ==
    ASSUME DataOK, RowInv, \A i \in Jobs : JobInv(i), NEW w \in Workers, NEW j \in Jobs, Take(w, j)
    PROVE  \A i \in Jobs : AttemptsInv(i)' /\ PaidInv(i)'
  <1> SUFFICES ASSUME NEW i \in Jobs PROVE AttemptsInv(i)' /\ PaidInv(i)'
    OBVIOUS
  <1>1. CASE i = j
    BY <1>1, TakeAttempts, TakePaid DEF JobInv
  <1>2. CASE i # j
    <2>1. PICK u \in Attempt : Becomes(w, u) /\ worker[w] = Idle /\ u.job = j
      BY TakeStep
    <2>2. job'[i] = job[i] /\ tries' = tries /\ sent' = sent /\ faults' = faults /\ row' = row
      BY <1>2 DEF Take, DataOK, history
    <2>3. Alone(i)
      BY <1>2, <2>1, <2>2, IdleIsAttempt, OthersAlone
    <2> QED BY <2>3, AloneKeeps DEF JobInv
  <1> QED BY <1>1, <1>2

LEMMA ExpireKeeps ==
    ASSUME DataOK, RowInv, \A i \in Jobs : JobInv(i), NEW j \in Jobs, Expire(j)
    PROVE  \A i \in Jobs : AttemptsInv(i)' /\ PaidInv(i)'
  <1> SUFFICES ASSUME NEW i \in Jobs PROVE AttemptsInv(i)' /\ PaidInv(i)'
    OBVIOUS
  <1>1. CASE i = j
    BY <1>1, ExpireAttempts, ExpirePaid DEF JobInv
  <1>2. CASE i # j
    <2>1. job'[i] = job[i] /\ tries'[i] = tries[i] /\ sent' = sent /\ row' = row
      BY <1>2 DEF Expire, Retried, DataOK
    <2>2. faults'[i] = faults[i]
      BY <1>2 DEF Expire, Fault, DataOK
    <2>3. \A v \in Workers : worker[v].job = i \/ worker'[v].job = i => worker'[v] = worker[v]
      <3>1. ASSUME NEW v \in Workers, NEW u \in Attempt, Running(j) = {v}, Becomes(v, u), u.job = j
            PROVE  \A x \in Workers : worker[x].job = i \/ worker'[x].job = i => worker'[x] = worker[x]
        BY <1>2, <3>1 DEF Becomes, Running
      <3> QED BY <3>1, ExpireStep DEF JobInv
    <2>4. Alone(i)
      BY <2>1, <2>2, <2>3 DEF Alone
    <2> QED BY <2>4, AloneKeeps DEF JobInv
  <1> QED BY <1>1, <1>2

LEMMA QueueKeeps ==
    ASSUME DataOK, RowInv, \A i \in Jobs : JobInv(i), NEW j \in Jobs,
           Lapse(j) \/ \E owned \in BOOLEAN : Enqueue(j, owned)
    PROVE  \A i \in Jobs : AttemptsInv(i)' /\ PaidInv(i)'
  <1> SUFFICES ASSUME NEW i \in Jobs PROVE AttemptsInv(i)' /\ PaidInv(i)'
    OBVIOUS
  <1>1. /\ worker' = worker /\ sent' = sent /\ faults' = faults /\ row' = row /\ tries' = tries
        /\ ((job[j] = "none" /\ job'[j] = "queued") \/ (job[j] = "queued" /\ job'[j] = "failed"))
        /\ i # j => job'[i] = job[i]
    BY DEF Lapse, Enqueue, history, DataOK
  <1>2. CASE i = j
    BY <1>1, <1>2, QueueAttempts, QueuePaid DEF JobInv
  <1>3. CASE i # j
    <2>1. Alone(i)
      BY <1>1, <1>3 DEF Alone
    <2> QED BY <2>1, AloneKeeps DEF JobInv
  <1> QED BY <1>2, <1>3

LEMMA JobNext ==
    ASSUME DataOK, RowInv, \A i \in Jobs : JobInv(i), [Next]_vars
    PROVE  \A i \in Jobs : JobInv(i)'
  <1>1. \A i \in Jobs : QueueInv(i)'
    BY QueueNext DEF JobInv
  <1>2. \A i \in Jobs : AttemptsInv(i)' /\ PaidInv(i)'
    <2>1. ASSUME NEW a \in Addresses, DeleteAccount(a)
          PROVE  \A i \in Jobs : AttemptsInv(i)' /\ PaidInv(i)'
      <3>1. \A r \in Row \cup {NoRow} : [r EXCEPT !.owned = FALSE].state = r.state
        BY DEF Row, NoRow
      <3>2. row' = [i \in Jobs |-> IF To[i] = a THEN [row[i] EXCEPT !.owned = FALSE] ELSE row[i]]
        BY <2>1 DEF DeleteAccount
      <3>3. \A i \in Jobs : row'[i].state = row[i].state
        BY <3>1, <3>2 DEF RowInv
      <3>4. worker' = worker /\ job' = job /\ tries' = tries /\ sent' = sent /\ faults' = faults
        BY <2>1 DEF DeleteAccount, queue, history
      <3> QED BY <3>3, <3>4, RestKeeps
    <2>2. \/ worker' = worker /\ job' = job /\ tries' = tries /\ sent' = sent /\ faults' = faults
             /\ row' = row
          \/ \E a \in Addresses : DeleteAccount(a)
          \/ \E j \in Jobs : Expire(j) \/ Lapse(j) \/ (\E owned \in BOOLEAN : Enqueue(j, owned))
                             \/ \E w \in Workers : Take(w, j)
          \/ \E w \in Workers : Attempts(w) \/ Crash(w)
      BY DEF Next, vars, queue, history, Midnight, Purge, Notify, Claimed, NotifyCommits,
             NotifyFails, Rest
    <2> QED BY <2>1, <2>2, RestKeeps, DeliverKeeps, WithdrawKeeps, EndKeeps, TakeKeeps, ExpireKeeps,
               QueueKeeps DEF Attempts
  <1> QED BY <1>1, <1>2 DEF JobInv

-----------------------------------------------------------------------------
(* The theorems. *)

LEMMA MailInit == Init => MailInv
  <1> SUFFICES ASSUME Init PROVE MailInv
    OBVIOUS
  <1>0. \A w \in Workers : worker[w] = Idle
    BY DEF Init
  <1>1. DataOK
    <2>1. worker \in [Workers -> Attempt] /\ \A w \in Workers : Shaped(worker[w])
      BY IdleIsAttempt DEF Init
    <2> QED BY <2>1, ConstantsAssumption DEF Init, DataOK
  <1>2. RowInv /\ SentInv
    BY <1>0, IdleIsAttempt DEF Init, RowInv, SentInv, Counting, Sending, Before, NoRow
  <1>3. ASSUME NEW j \in Jobs PROVE QueueInv(j) /\ AttemptsInv(j) /\ PaidInv(j)
    <2>1. Unsent(j) = {} /\ StaleUnsent(j) = {} /\ Running(j) = {}
      BY <1>0, IdleIsAttempt DEF Unsent, StaleUnsent, Running
    <2>2. Cardinality({}) = 0
      BY FS_EmptySet
    <2>3. sent[j] = 0 /\ faults[j] = 0 /\ Begun(j) = 0 /\ Excess(j) = 0
      BY <2>1, <2>2 DEF Init, Begun, Excess
    <2>4. QueueInv(j)
      BY <1>0, <2>1, IdleIsAttempt DEF QueueInv, Init
    <2>5. AttemptsInv(j)
      BY <2>1, <2>2, <2>3 DEF AttemptsInv
    <2>6. PaidInv(j)
      BY <2>1, <2>3 DEF PaidInv
    <2> QED BY <2>4, <2>5, <2>6
  <1>4. CapInv
    <2>1. \A j \in Jobs : ~Passed(j)
      BY <1>0, IdleIsAttempt DEF Passed, Init, Sending
    <2>2. ASSUME NEW a \in Addresses, NEW d \in 1..MaxDay PROVE Cardinality(Capped(a, d)) <= DAILY_EMAIL_CAP
      <3>1. Capped(a, d) = {}
        BY <2>1 DEF Capped
      <3> QED BY <3>1, FS_EmptySet, ConstantsAssumption
    <2> QED BY <2>1, <2>2 DEF CapInv
  <1>5. BounceInv
    BY <1>0, IdleIsAttempt, ConstantsAssumption DEF Init, BounceInv
  <1> QED BY <1>1, <1>2, <1>3, <1>4, <1>5 DEF MailInv

LEMMA MailNext == MailInv /\ [Next]_vars => MailInv'
  <1> SUFFICES ASSUME MailInv, [Next]_vars PROVE MailInv'
    OBVIOUS
  <1>1. DataOK /\ RowInv /\ SentInv /\ CapInv /\ BounceInv
    BY DEF MailInv
  <1>2. /\ \A i \in Jobs : JobInv(i)
        /\ \A i \in Jobs : QueueInv(i)
        /\ \A i \in Jobs : QueueInv(i) /\ AttemptsInv(i)
    BY DEF MailInv, JobInv
  <1>3. DataOK' /\ RowInv' /\ SentInv'
    BY <1>1, <1>2, DataNext, RowNext, SentNext
  <1>4. CapInv'
    BY <1>1, <1>2, CapNext
  <1>5. BounceInv'
    BY <1>1, <1>2, BounceNext
  <1>6. \A i \in Jobs : JobInv(i)'
    BY <1>1, <1>2, JobNext
  <1> QED BY <1>3, <1>4, <1>5, <1>6 DEF MailInv, JobInv

LEMMA MailAlways == Spec => []MailInv
  BY MailInit, MailNext, PTL DEF Spec

LEMMA AttemptsAreBounded ==
    ASSUME DataOK, NEW j \in Jobs, AttemptsInv(j)
    PROVE  sent[j] \in 0..(RetryLimit + 1) /\ faults[j] \in 0..(RetryLimit + 1)
  <1>1. Begun(j) \in Nat /\ Begun(j) <= RetryLimit + 1 /\ RetryLimit \in Nat
    BY BegunIsNat, ConstantsAssumption
  <1>2. sent[j] \in Nat /\ faults[j] \in Nat
    BY DEF DataOK
  <1>3. sent[j] <= Begun(j) /\ faults[j] <= Begun(j)
    BY <1>1, <1>2, Counts DEF AttemptsInv
  <1> QED BY <1>1, <1>2, <1>3

\* Every variable has its type: no message is sent, and no attempt is lost, more often
\* than the queue begins attempts, whichever of them overlap (deliverEmail under the
\* queue's retryLimit).
THEOREM TypeCorrect == Spec => []TypeOK
  <1>1. MailInv => TypeOK
    <2> SUFFICES ASSUME MailInv PROVE TypeOK
      OBVIOUS
    <2>1. DataOK /\ row \in [Jobs -> Row \cup {NoRow}] /\ \A j \in Jobs : AttemptsInv(j)
      BY DEF MailInv, RowInv
    <2>2. \A j \in Jobs : sent[j] \in 0..(RetryLimit + 1) /\ faults[j] \in 0..(RetryLimit + 1)
      BY <2>1, AttemptsAreBounded
    <2>3. sent \in [Jobs -> 0..(RetryLimit + 1)] /\ faults \in [Jobs -> 0..(RetryLimit + 1)]
      BY <2>1, <2>2 DEF DataOK
    <2> QED BY <2>1, <2>3 DEF TypeOK, DataOK
  <1> QED BY <1>1, MailAlways, PTL

\* The mail server takes a message once, and once more for each attempt that was lost
\* while it may have been taken; what ended as sent was sent (deliverEmail's claim,
\* sent_at and resume, under retries, crashes and the queue's own timeout).
THEOREM MessagesAreSentOnce == Spec => []DeliveredOnce
  <1>1. MailInv => DeliveredOnce
    <2> SUFFICES ASSUME MailInv, NEW j \in Jobs
                 PROVE  /\ sent[j] <= 1 + faults[j]
                        /\ outcome[j] \in {"sent", "skipped_duplicate"} => sent[j] > 0
      BY DEF DeliveredOnce
    <2>1. Excess(j) <= 1
      BY DEF MailInv, PaidInv
    <2>2. sent[j] \in Nat /\ faults[j] \in Nat /\ Cardinality(StaleUnsent(j)) \in Nat
      BY Counts DEF MailInv, DataOK
    <2>3. sent[j] <= 1 + faults[j]
      BY <2>1, <2>2 DEF Excess
    <2>4. outcome[j] \in {"sent", "skipped_duplicate"} => sent[j] > 0
      BY DEF MailInv, SentInv
    <2> QED BY <2>3, <2>4
  <1> QED BY <1>1, MailAlways, PTL

\* However many workers count at once, what is sent to an account in a day and counted
\* stays within the cap (deliverEmail: claim, count, withdraw).
THEOREM TheCapHolds == Spec => []CapHolds
  <1>1. MailInv => CapHolds
    <2> SUFFICES ASSUME MailInv, NEW a \in Addresses \ gone, NEW d \in 1..MaxDay
                 PROVE  Cardinality({j \in Jobs \ uncapped :
                                       To[j] = a /\ row[j].owned /\ row[j].day = d /\ sent[j] > 0})
                          <= DAILY_EMAIL_CAP
      BY DEF CapHolds
    <2> DEFINE S == {j \in Jobs \ uncapped :
                       To[j] = a /\ row[j].owned /\ row[j].day = d /\ sent[j] > 0}
    <2>1. S \subseteq Capped(a, d) /\ Capped(a, d) \subseteq Jobs
      BY DEF Capped, Passed
    <2>2. Cardinality(Capped(a, d)) <= DAILY_EMAIL_CAP
      BY DEF MailInv, CapInv
    <2> HIDE DEF S
    <2>3. /\ IsFiniteSet(Capped(a, d)) /\ IsFiniteSet(S)
          /\ Cardinality(S) <= Cardinality(Capped(a, d))
      BY <2>1, FS_Subset, ConstantsAssumption
    <2>4. Cardinality(S) \in Nat /\ Cardinality(Capped(a, d)) \in Nat
      BY <2>3, FS_CardinalityType
    <2>5. Cardinality(S) <= DAILY_EMAIL_CAP
      BY <2>2, <2>3, <2>4, ConstantsAssumption
    <2> QED BY <2>5 DEF S
  <1> QED BY <1>1, MailAlways, PTL

\* Once a bounce has been acknowledged, nothing asked for after that is sent to its
\* address, through repeats and the purge (isSuppressed, suppressAddress, purgeExpired).
THEOREM BouncesAreRemembered == Spec => []BouncedIsNeverMailed
  <1>1. MailInv => BouncedIsNeverMailed
    BY DEF MailInv, BounceInv, BouncedIsNeverMailed
  <1> QED BY <1>1, MailAlways, PTL

=============================================================================
