------------------------ MODULE ReconciliationProofs ------------------------
(***************************************************************************)
(* Reconciliation is correct for every number of runners, transactions,       *)
(* pages and failures, and every length of the clock.                        *)
(***************************************************************************)
EXTENDS Reconciliation, WellFoundedInduction, SequenceTheorems, TLAPS

\* What the step of a run says about the rest of its record.
Shaped(t) ==
    /\ t.pc = "list" => /\ t.pages = 0 /\ t.listed = {} /\ t.todo = {}
                        /\ t.posted = {} /\ t.missing = {}
    /\ t.pc = "page" => t.low >= 1
    /\ t.pc \in {"fee", "check"} => t.todo # {}
    /\ t.pc = "record" => t.todo = {}

TypeInv == TypeOK /\ \A r \in Runners : Shaped(run[r])

\* A fee that a run in flight has posted is in the ledger and in no row yet, and it
\* is that run's alone.
FeesInv ==
    /\ FeePostedOnce /\ FeesNotOverstated
    /\ \A r \in Runners : \A k \in run[r].posted : fees[k] = 1 /\ reported[k] = 0
    /\ \A r, s \in Runners : r # s => run[r].posted \cap run[s].posted = {}

\* What a run has gone through and not called missing is booked.
CleanInv ==
    /\ CleanMeansCharged
    /\ \A r \in Runners : \A k \in run[r].listed \ Direct :
          k \notin run[r].todo \cup run[r].missing => k \in charged \ Differing

\* Whatever is too old for a window that starts from a run at time t has been
\* gone through.
Covered(t) ==
    \A k \in Settled \ Payouts :
        k > seeded /\ created[k] + Overlap < t => k \in reconciled

\* The window of a run that reads it: nothing newer settled before it began, what
\* it does not reach is too old, and what it has passed it has listed.
Reading(t) == t.pc \in {"page", "fee", "check", "record"}
WindowOf(t) ==
    /\ t.began <= now /\ now - t.began <= MaxRun /\ t.top <= Len(created)
    /\ \A k \in Settled : k > t.top => created[k] >= t.began
    /\ t.since # 0 =>
          /\ \A k \in 1..t.top : k < t.low => created[k] + Overlap < t.since
          /\ \A k \in 1..t.top : k >= t.low /\ k > t.next => k \in t.listed \cup Payouts
          /\ t.pc # "page" => t.next < t.low

WindowInv ==
    /\ \A k \in Settled : created[k] <= now
    /\ lastOk <= now /\ Covered(lastOk)
    /\ \A r \in Runners : run[r].since <= now /\ Covered(run[r].since)
    /\ \A r \in Runners : Reading(run[r]) => WindowOf(run[r])

-----------------------------------------------------------------------------
(* The least and the greatest transaction of a window. *)

LEMMA MinOfSet ==
    ASSUME NEW S \in SUBSET Nat, S # {}
    PROVE  Min(S) \in S /\ \A y \in S : Min(S) <= y
  <1>1. PICK x \in S : \A y \in S : ~(<<y, x>> \in OpToRel(<, Nat))
    BY NatLessThanWellFounded, WFMin
  <1>2. ASSUME NEW y \in S PROVE x <= y
    <2>1. x \in Nat /\ y \in Nat /\ <<y, x>> \in Nat \X Nat
      OBVIOUS
    <2>2. CASE y < x
      <3>1. <<y, x>> \in OpToRel(<, Nat)
        BY <2>1, <2>2 DEF OpToRel
      <3> QED BY <1>1, <3>1
    <2> QED BY <2>1, <2>2
  <1> QED BY <1>2 DEF Min

LEMMA MaxOfSet ==
    ASSUME NEW n \in Nat, NEW S \in SUBSET (0..n), S # {}
    PROVE  Max(S) \in S /\ \A y \in S : Max(S) >= y
  <1> DEFINE T == {n - y : y \in S}
  <1>1. T \in SUBSET Nat /\ T # {}
    <2>1. \A y \in S : y \in 0..n
      OBVIOUS
    <2>2. \A y \in S : n - y \in Nat
      BY <2>1
    <2> QED BY <2>2
  <1>2. PICK m \in T : \A t \in T : m <= t
    BY <1>1, MinOfSet
  <1>3. PICK x \in S : m = n - x
    BY <1>2
  <1>4. \A y \in S : n - x <= n - y
    BY <1>2, <1>3
  <1>5. \A y \in S : x >= y
    BY <1>4
  <1> QED BY <1>5 DEF Max

-----------------------------------------------------------------------------
(* A window and its pages. *)

LEMMA SettledAreTimed ==
    ASSUME TypeOK
    PROVE  /\ Len(created) \in 0..N /\ Settled \subseteq Txns
           /\ \A k \in Settled : k \in Nat /\ created[k] \in 1..MaxTime
  <1>1. created \in Seq(1..MaxTime) /\ Len(created) <= N
    BY DEF TypeOK
  <1>2. Len(created) \in Nat
    BY <1>1, LenProperties
  <1>3. Len(created) \in 0..N
    BY <1>1, <1>2, ConstantsAssumption
  <1>4. Settled \subseteq Txns
    BY <1>3, ConstantsAssumption DEF Settled, Txns
  <1>5. \A k \in Settled : created[k] \in 1..MaxTime
    BY <1>1, ElementOfSeq DEF Settled
  <1> QED BY <1>3, <1>4, <1>5 DEF Settled

LEMMA WindowStartOf ==
    ASSUME TypeOK, NEW since \in 0..MaxTime
    PROVE  /\ WindowStart(since) \in 1..(Len(created) + 1)
           /\ \A k \in Settled : k < WindowStart(since) => created[k] + Overlap < since
  <1>1. Len(created) \in Nat /\ \A k \in Settled : k \in Nat /\ created[k] \in Nat
    BY SettledAreTimed, ConstantsAssumption
  <1>2. ASSUME NEW t \in Nat
        PROVE  /\ OldestSince(t) \in 1..(Len(created) + 1)
               /\ \A k \in Settled : k < OldestSince(t) => created[k] < t
    <2> DEFINE S == {k \in Settled : created[k] >= t} \cup {Len(created) + 1}
    <2>1. S \in SUBSET Nat /\ S # {} /\ \A k \in S : k \in 1..(Len(created) + 1)
      BY <1>1 DEF Settled
    <2>2. Min(S) \in S /\ \A y \in S : Min(S) <= y
      BY <2>1, MinOfSet
    <2>3. OldestSince(t) = Min(S)
      BY DEF OldestSince
    <2>4. ASSUME NEW k \in Settled, k < Min(S) PROVE created[k] < t
      <3>1. k \in Nat /\ Min(S) \in Nat
        BY <1>1, <2>1, <2>2
      <3>2. k \notin S
        BY <2>2, <2>4, <3>1
      <3>3. ~(created[k] >= t)
        BY <3>2
      <3> QED BY <1>1, <3>3
    <2> QED BY <2>1, <2>2, <2>3, <2>4
  <1>3. since \in Nat /\ Overlap \in Nat
    BY ConstantsAssumption
  <1>4. CASE since > Overlap
    <2>1. since - Overlap \in Nat /\ WindowStart(since) = OldestSince(since - Overlap)
      BY <1>3, <1>4 DEF WindowStart
    <2>2. ASSUME NEW k \in Settled, k < WindowStart(since) PROVE created[k] + Overlap < since
      <3>1. created[k] < since - Overlap
        BY <1>2, <2>1, <2>2
      <3> QED BY <1>1, <1>3, <3>1
    <2> QED BY <1>2, <2>1, <2>2
  <1>5. CASE ~(since > Overlap)
    <2>1. WindowStart(since) = OldestSince(0)
      BY <1>5 DEF WindowStart
    <2>2. ASSUME NEW k \in Settled, k < WindowStart(since) PROVE FALSE
      <3>1. created[k] < 0
        BY <1>2, <2>1, <2>2
      <3> QED BY <1>1, <3>1
    <2> QED BY <1>2, <2>1, <2>2
  <1> QED BY <1>4, <1>5

\* The rest of the record, which reading a page leaves alone.
SameRest(t, u) ==
    /\ u.since = t.since /\ u.began = t.began /\ u.top = t.top /\ u.low = t.low
    /\ u.posted = t.posted /\ u.missing = t.missing

\* A page is a stretch of the window: nothing that the cursor passes is left out.
LEMMA PageRead ==
    ASSUME NEW t \in Run, t.low \in 1..(N + 1), t.pages < MaxPages
    PROVE  LET u == WithPage(t, PageOf(t.next, t.low))
           IN  /\ u \in Run /\ SameRest(t, u)
               /\ u.pages = t.pages + 1 /\ t.next - u.next <= PageSize
               /\ t.listed \subseteq u.listed /\ u.listed \ u.todo \subseteq t.listed \ t.todo
               /\ \A k \in Txns : k >= t.low /\ k <= t.next /\ k > u.next => k \in u.listed \cup Payouts
  <1> DEFINE page == PageOf(t.next, t.low)
  <1> DEFINE next == IF page = {} THEN t.next ELSE Min(page) - 1
  <1> DEFINE u == WithPage(t, page)
  <1>1. t.next \in 0..N /\ N \in Nat /\ PageSize \in Nat \ {0} /\ MaxPages \in Nat
    BY ConstantsAssumption DEF Run
  <1>2. page \in SUBSET Nat /\ page \subseteq Txns
        /\ \A k \in Txns : k \in page <=> k >= t.low /\ k <= t.next /\ t.next - k < PageSize
    BY <1>1 DEF PageOf, Txns
  <1>3. next \in 0..N /\ next <= t.next /\ t.next - next <= PageSize
        /\ \A k \in Txns : k >= t.low /\ k <= t.next /\ k > next => k \in page
    <2>1. CASE page = {}
      BY <1>1, <2>1 DEF Txns
    <2>2. CASE page # {}
      <3>1. Min(page) \in page /\ next = Min(page) - 1
        BY <1>2, <2>2, MinOfSet
      <3>2. Min(page) \in Txns /\ Min(page) <= t.next /\ t.next - Min(page) < PageSize
        BY <1>2, <3>1
      <3>3. next \in 0..N /\ next <= t.next /\ t.next - next <= PageSize
        BY <1>1, <3>1, <3>2 DEF Txns
      <3>4. ASSUME NEW k \in Txns, k >= t.low, k <= t.next, k > next PROVE k \in page
        BY <1>1, <1>2, <3>1, <3>2, <3>4 DEF Txns
      <3> QED BY <3>3, <3>4
    <2> QED BY <2>1, <2>2
  <1>4. t.pages + 1 \in 0..MaxPages
    BY <1>1 DEF Run
  <1>5. u = [t EXCEPT !.next = next, !.pages = t.pages + 1,
                      !.listed = t.listed \cup (page \ Payouts),
                      !.todo = t.todo \cup (page \ Payouts)]
    BY DEF WithPage
  <1> HIDE DEF next, page, u
  <1>6. /\ u \in Run /\ SameRest(t, u) /\ u.next = next /\ u.pages = t.pages + 1
        /\ u.listed = t.listed \cup (page \ Payouts) /\ u.todo = t.todo \cup (page \ Payouts)
    BY <1>2, <1>3, <1>4, <1>5 DEF Run, SameRest
  <1> QED BY <1>2, <1>3, <1>6 DEF u, page

\* What the run does once it has a page.
LEMMA ListedGoes ==
    ASSUME NEW t \in Run, t.low >= 1
    PROVE  LET u == Listed(t)
           IN  /\ u \in Run /\ Shaped(u) /\ SameRest(t, u) /\ Reading(u)
               /\ u.listed = t.listed /\ u.todo = t.todo
               /\ u.next = t.next /\ u.pages = t.pages
               /\ t.since # 0 /\ u.pc # "page" => t.next < t.low
  <1> DEFINE to == IF HasMore(t) THEN "page" ELSE IF t.todo = {} THEN "record" ELSE "fee"
  <1>1. /\ to \in {"page", "record", "fee"} /\ (to = "page" <=> HasMore(t))
        /\ (to = "record" => t.todo = {}) /\ (to = "fee" => t.todo # {})
    OBVIOUS
  <1>2. Listed(t) = [t EXCEPT !.pc = to]
    BY DEF Listed
  <1>3. t.since # 0 /\ ~HasMore(t) => t.next < t.low
    BY ConstantsAssumption DEF HasMore, Run
  <1> HIDE DEF to
  <1> QED BY <1>1, <1>2, <1>3 DEF Run, Shaped, SameRest, Reading

-----------------------------------------------------------------------------
(* The steps of a run, and types. *)

LEMMA IdleIsRun == Idle \in Run /\ Shaped(Idle) /\ ~Reading(Idle)
  BY ConstantsAssumption DEF Idle, Run, Shaped, Reading

\* The run r becomes t, and the others stay.
Becomes(r, t) ==
    /\ run' \in [Runners -> Run] /\ run'[r] = t
    /\ \A s \in Runners \ {r} : run'[s] = run[s]

LEMMA MovedRun ==
    ASSUME TypeOK, NEW r \in Runners, NEW t \in Run, run' = [run EXCEPT ![r] = t]
    PROVE  Becomes(r, t)
  BY DEF TypeOK, Becomes

LEMMA StartStep ==
    ASSUME TypeInv, NEW r \in Runners, Start(r)
    PROVE  LET t == [Idle EXCEPT !.pc = "list", !.since = lastOk]
           IN  Becomes(r, t) /\ Shaped(t) /\ ~Reading(t) /\ t.since = lastOk
               /\ t.listed = {} /\ t.todo = {} /\ t.posted = {} /\ t.missing = {}
  <1> DEFINE t == [Idle EXCEPT !.pc = "list", !.since = lastOk]
  <1>1. lastOk \in 0..MaxTime
    BY DEF TypeInv, TypeOK
  <1>2. /\ t \in Run /\ Shaped(t) /\ ~Reading(t) /\ t.since = lastOk
        /\ t.listed = {} /\ t.todo = {} /\ t.posted = {} /\ t.missing = {}
    <2>1. /\ t.pc = "list" /\ t.since = lastOk /\ t.pages = 0
          /\ t.listed = {} /\ t.todo = {} /\ t.posted = {} /\ t.missing = {}
      BY DEF Idle
    <2>2. t \in Run
      BY <1>1, IdleIsRun DEF Run
    <2> QED BY <2>1, <2>2 DEF Shaped, Reading
  <1> HIDE DEF t
  <1>3. Becomes(r, t)
    BY <1>2, MovedRun DEF TypeInv, Start, Goes, t
  <1> QED BY <1>2, <1>3 DEF t

\* The first page of a run.
LEMMA ListStep ==
    ASSUME TypeInv, NEW r \in Runners, List(r)
    PROVE  \E u \in Run :
              /\ Becomes(r, u) /\ Shaped(u) /\ Reading(u)
              /\ u.since = run[r].since /\ u.began = now /\ u.top = Len(created)
              /\ u.low = WindowStart(u.since) /\ u.posted = {} /\ u.listed \ u.todo = {}
              /\ \A k \in 1..u.top : k >= u.low /\ k > u.next => k \in u.listed \cup Payouts
              /\ u.since # 0 /\ u.pc # "page" => u.next < u.low
              /\ u.pages = 1 /\ u.top - u.next <= PageSize
  <1> DEFINE low == WindowStart(run[r].since)
  <1> DEFINE t == [run[r] EXCEPT !.began = now, !.top = Len(created), !.low = low,
                                 !.next = Len(created)]
  <1> DEFINE v == WithPage(t, PageOf(Len(created), low))
  <1>1. /\ run[r] \in Run /\ run[r].pc = "list" /\ run[r].pages = 0
        /\ run[r].listed = {} /\ run[r].todo = {} /\ run[r].posted = {}
    BY DEF TypeInv, TypeOK, Shaped, List, Goes
  <1>2. run[r].since \in 0..MaxTime /\ now \in 0..MaxTime
    BY <1>1, ConstantsAssumption DEF Run, TypeInv, TypeOK
  <1>3. Len(created) \in 0..N
    BY SettledAreTimed DEF TypeInv
  <1>4. low \in 1..(N + 1)
    BY <1>2, <1>3, WindowStartOf, ConstantsAssumption DEF TypeInv
  <1>5. low \in 0..(N + 1)
    BY <1>4, ConstantsAssumption
  <1> HIDE DEF low
  <1>6. /\ t \in Run /\ t.low = low /\ t.next = Len(created) /\ t.top = Len(created)
        /\ t.since = run[r].since /\ t.began = now /\ t.pages = 0
        /\ t.listed = {} /\ t.todo = {} /\ t.posted = {}
    BY <1>1, <1>2, <1>3, <1>5 DEF Run
  <1> HIDE DEF t
  <1>7. /\ v \in Run /\ SameRest(t, v) /\ v.pages = 1 /\ t.next - v.next <= PageSize
        /\ v.listed \ v.todo \subseteq t.listed \ t.todo
        /\ \A k \in Txns : k >= t.low /\ k <= t.next /\ k > v.next => k \in v.listed \cup Payouts
    <2>1. t.low \in 1..(N + 1) /\ t.pages < MaxPages /\ t.pages + 1 = 1
      BY <1>4, <1>6, ConstantsAssumption
    <2>2. v = WithPage(t, PageOf(t.next, t.low))
      BY <1>6
    <2> HIDE DEF v
    <2> QED BY <1>6, <2>1, <2>2, PageRead
  <1> HIDE DEF v
  <1> DEFINE u == Listed(v)
  <1>8. /\ u \in Run /\ Shaped(u) /\ SameRest(v, u) /\ Reading(u)
        /\ u.listed = v.listed /\ u.todo = v.todo /\ u.next = v.next /\ u.pages = v.pages
        /\ v.since # 0 /\ u.pc # "page" => v.next < v.low
    BY <1>4, <1>6, <1>7, ListedGoes DEF SameRest
  <1>9. run' = [run EXCEPT ![r] = u]
    BY DEF List, Goes, u, v, t, low
  <1>10. Becomes(r, u)
    BY <1>8, <1>9, MovedRun DEF TypeInv
  <1>11. 1..u.top \subseteq Txns /\ u.top = Len(created) /\ u.low = low
    BY <1>3, <1>6, <1>7, <1>8, ConstantsAssumption DEF Txns, SameRest
  <1>12. \A k \in 1..u.top : k >= u.low /\ k > u.next => k \in u.listed \cup Payouts
    BY <1>3, <1>6, <1>7, <1>8, <1>11
  <1>13. u.since = run[r].since /\ u.began = now /\ u.posted = {} /\ u.listed \ u.todo = {}
    BY <1>6, <1>7, <1>8 DEF SameRest
  <1> HIDE DEF u
  <1> QED BY <1>6, <1>7, <1>8, <1>10, <1>11, <1>12, <1>13 DEF SameRest, low

\* A further page, or too many of them.
LEMMA PageStep ==
    ASSUME TypeInv, NEW r \in Runners, Page(r)
    PROVE  \E u \in Run :
              /\ Becomes(r, u) /\ Shaped(u) /\ SameRest(run[r], u) /\ Reading(run[r])
              /\ run[r].listed \subseteq u.listed
              /\ u.listed \ u.todo \subseteq run[r].listed \ run[r].todo
              /\ Reading(u) =>
                    /\ \A k \in Txns : k >= u.low /\ k <= run[r].next /\ k > u.next
                          => k \in u.listed \cup Payouts
                    /\ u.since # 0 /\ u.pc # "page" => u.next < u.low
                    /\ u.pages = run[r].pages + 1 /\ run[r].next - u.next <= PageSize
  <1> DEFINE t == run[r]
  <1>1. t \in Run /\ t.pc = "page" /\ t.low >= 1
    BY DEF TypeInv, TypeOK, Shaped, Page, Goes
  <1>2. CASE TooManyPages(t)
    <2> DEFINE u == At(r, "failing")
    <2>1. /\ u \in Run /\ Shaped(u) /\ SameRest(t, u) /\ ~Reading(u)
          /\ u.listed = t.listed /\ u.todo = t.todo
      BY <1>1 DEF At, Run, Shaped, SameRest, Reading
    <2>2. Becomes(r, u)
      BY <1>2, <2>1, MovedRun DEF TypeInv, Page, Goes
    <2> QED BY <1>1, <2>1, <2>2 DEF Reading
  <1>3. CASE ~TooManyPages(t)
    <2> DEFINE v == WithPage(t, PageOf(t.next, t.low))
    <2>1. t.low \in 1..(N + 1) /\ t.pages < MaxPages
      BY <1>1, <1>3, ConstantsAssumption DEF TooManyPages, Run
    <2>2. /\ v \in Run /\ SameRest(t, v)
          /\ v.pages = t.pages + 1 /\ t.next - v.next <= PageSize /\ t.listed \subseteq v.listed
          /\ v.listed \ v.todo \subseteq t.listed \ t.todo
          /\ \A k \in Txns : k >= t.low /\ k <= t.next /\ k > v.next => k \in v.listed \cup Payouts
      BY <1>1, <2>1, PageRead
    <2> HIDE DEF v
    <2> DEFINE u == Listed(v)
    <2>3. /\ u \in Run /\ Shaped(u) /\ SameRest(v, u) /\ Reading(u)
          /\ u.listed = v.listed /\ u.todo = v.todo /\ u.next = v.next /\ u.pages = v.pages
          /\ v.since # 0 /\ u.pc # "page" => v.next < v.low
      BY <1>1, <2>2, ListedGoes DEF SameRest
    <2>4. Becomes(r, u)
      BY <1>3, <2>3, MovedRun DEF TypeInv, Page, Goes, u, v
    <2> HIDE DEF u
    <2>5. SameRest(t, u) /\ Reading(t)
      BY <1>1, <2>2, <2>3 DEF SameRest, Reading
    <2> QED BY <2>2, <2>3, <2>4, <2>5 DEF SameRest
  <1> QED BY <1>2, <1>3

LEMMA CurrentIsListed ==
    ASSUME TypeInv, NEW r \in Runners, run[r].pc \in {"fee", "check"}
    PROVE  Current(r) \in run[r].todo /\ Current(r) \in Txns
  <1>1. run[r].todo \in SUBSET Txns /\ run[r].todo # {}
    BY DEF TypeInv, TypeOK, Shaped, Run
  <1>2. N \in Nat /\ run[r].todo \in SUBSET (0..N)
    BY <1>1, ConstantsAssumption DEF Txns
  <1> QED BY <1>1, <1>2, MaxOfSet DEF Current

\* What a run keeps of its record from one fee or charge to the next.
SameWindow(t, u) ==
    /\ u.since = t.since /\ u.began = t.began /\ u.top = t.top /\ u.low = t.low
    /\ u.next = t.next /\ u.pages = t.pages /\ u.listed = t.listed

LEMMA FeeStep ==
    ASSUME TypeInv, NEW r \in Runners, Fee(r)
    PROVE  \E u \in Run : \E k \in Txns :
              /\ Becomes(r, u) /\ Shaped(u) /\ SameWindow(run[r], u) /\ u.pc = "check"
              /\ u.todo = run[r].todo /\ u.missing = run[r].missing
              /\ \/ k \notin Free /\ fees[k] = 0 /\ fees' = [fees EXCEPT ![k] = fees[k] + 1]
                    /\ u.posted = run[r].posted \cup {k}
                 \/ fees' = fees /\ u.posted = run[r].posted
  <1> DEFINE k == Current(r)
  <1> DEFINE u == [At(r, "check") EXCEPT !.posted = @ \cup Counted(r, k)]
  <1>1. run[r] \in Run /\ run[r].pc = "fee" /\ run[r].todo # {} /\ k \in Txns
    BY CurrentIsListed DEF TypeInv, TypeOK, Shaped, Fee, Goes
  <1> HIDE DEF k
  <1>2. Counted(r, k) = IF fees[k] = 0 /\ k \notin Free THEN {k} ELSE {}
    BY DEF Counted, Postable, Unposted
  <1>3. Counted(r, k) \in SUBSET Txns
    BY <1>1, <1>2
  <1> HIDE DEF Counted
  <1>4. /\ u \in Run /\ SameWindow(run[r], u) /\ u.pc = "check"
        /\ u.todo = run[r].todo /\ u.missing = run[r].missing
        /\ u.posted = run[r].posted \cup Counted(r, k)
    BY <1>1, <1>3 DEF At, Run, SameWindow
  <1>5. run' = [run EXCEPT ![r] = u]
        /\ fees' = IF k \notin Free /\ fees[k] = 0 THEN [fees EXCEPT ![k] = fees[k] + 1] ELSE fees
    BY DEF Fee, Goes, k, Postable, Unposted
  <1> HIDE DEF u
  <1>6. Becomes(r, u) /\ Shaped(u)
    BY <1>1, <1>4, <1>5, MovedRun DEF TypeInv, Shaped
  <1> QED BY <1>1, <1>2, <1>4, <1>5, <1>6

LEMMA CheckStep ==
    ASSUME TypeInv, NEW r \in Runners, Check(r)
    PROVE  \E u \in Run : \E k \in Txns :
              /\ Becomes(r, u) /\ Shaped(u) /\ SameWindow(run[r], u) /\ Reading(u)
              /\ u.pc # "page" /\ run[r].pc = "check"
              /\ u.posted = run[r].posted /\ u.todo = run[r].todo \ {k}
              /\ u.missing = run[r].missing \cup (IF Unbooked(k) THEN {k} ELSE {})
  <1> DEFINE k == Current(r)
  <1> DEFINE left == run[r].todo \ {k}
  <1> DEFINE more == IF Unbooked(k) THEN {k} ELSE {}
  <1> DEFINE to == IF left = {} THEN "record" ELSE "fee"
  <1> DEFINE u == [At(r, to) EXCEPT !.todo = left, !.missing = @ \cup more]
  <1>1. run[r] \in Run /\ run[r].pc = "check" /\ k \in Txns
    BY CurrentIsListed DEF TypeInv, TypeOK, Check, Goes
  <1>2. run' = [run EXCEPT ![r] = u]
    BY DEF Check, Goes, Missing
  <1> HIDE DEF k
  <1>3. left \in SUBSET Txns /\ more \in SUBSET Txns /\ to \in {"record", "fee"}
        /\ (to = "record" => left = {}) /\ (to = "fee" => left # {})
    BY <1>1 DEF Run
  <1> HIDE DEF left, more, to
  <1>4. /\ u \in Run /\ SameWindow(run[r], u) /\ u.pc = to /\ u.todo = left
        /\ u.posted = run[r].posted /\ u.missing = run[r].missing \cup more
    BY <1>1, <1>3 DEF At, Run, SameWindow
  <1> HIDE DEF u
  <1>5. Becomes(r, u) /\ Shaped(u) /\ Reading(u)
    BY <1>2, <1>3, <1>4, MovedRun DEF TypeInv, Shaped, Reading
  <1> QED BY <1>1, <1>3, <1>4, <1>5 DEF left, more

\* A run ends, or is about to record that it failed.
LEMMA EndStep ==
    ASSUME TypeInv, NEW r \in Runners, Record(r) \/ RecordFailed(r) \/ Fails(r)
    PROVE  \E u \in Run :
              /\ Becomes(r, u) /\ Shaped(u) /\ ~Reading(u)
              /\ \/ u = Idle
                 \/ /\ Fails(r) /\ u.since = run[r].since /\ u.posted = run[r].posted
                    /\ u.listed = run[r].listed /\ u.todo = run[r].todo /\ u.missing = run[r].missing
  <1>1. run[r] \in Run
    BY DEF TypeInv, TypeOK
  <1>2. CASE run' = [run EXCEPT ![r] = Idle]
    BY <1>2, IdleIsRun, MovedRun DEF TypeInv
  <1>3. CASE Fails(r) /\ run' = [run EXCEPT ![r] = At(r, "failing")]
    <2> DEFINE u == At(r, "failing")
    <2>1. /\ u \in Run /\ Shaped(u) /\ ~Reading(u)
          /\ u.since = run[r].since /\ u.posted = run[r].posted
          /\ u.listed = run[r].listed /\ u.todo = run[r].todo /\ u.missing = run[r].missing
      BY <1>1 DEF At, Run, Shaped, Reading
    <2>2. Becomes(r, u)
      BY <1>3, <2>1, MovedRun DEF TypeInv
    <2> QED BY <1>3, <2>1, <2>2
  <1> QED BY <1>2, <1>3 DEF Record, RecordFailed, RecordsFailure, Fails, Goes

LEMMA TypeInvInit == Init => TypeInv
  <1> SUFFICES ASSUME Init PROVE TypeInv
    OBVIOUS
  <1>1. 1 \in 1..MaxTime /\ 0 \in 0..MaxTime /\ 0 \in 0..N /\ 0 \in 0..MaxFailures /\ 0 <= N
    BY ConstantsAssumption
  <1>2. <<>> \in Seq(1..MaxTime) /\ Len(<<>>) = 0
    BY EmptySeq
  <1>3. TypeOK
    BY <1>1, <1>2, IdleIsRun DEF Init, TypeOK, Row
  <1> QED BY <1>3, IdleIsRun DEF Init, TypeInv

LEMMA RunsKeepTypes ==
    ASSUME TypeInv, NEW r \in Runners, Start(r) \/ Works(r) \/ Fails(r)
    PROVE  run' \in [Runners -> Run] /\ \A s \in Runners : Shaped(run'[s])
  <1>1. \E u : Becomes(r, u) /\ Shaped(u)
    BY StartStep, ListStep, PageStep, FeeStep, CheckStep, EndStep DEF Works
  <1> QED BY <1>1 DEF Becomes, TypeInv

LEMMA TypeInvNext == TypeInv /\ [Next]_vars => TypeInv'
  <1> SUFFICES ASSUME TypeInv, [Next]_vars PROVE TypeInv'
    OBVIOUS
  <1>1. CASE UNCHANGED vars
    BY <1>1 DEF TypeInv, TypeOK, vars, ledger, history
  <1>2. CASE Settle
    <2>1. created \in Seq(1..MaxTime) /\ now \in 1..MaxTime /\ Len(created) < N
      BY <1>2 DEF TypeInv, TypeOK, Settle
    <2>2. created' \in Seq(1..MaxTime) /\ Len(created') = Len(created) + 1
      BY <1>2, <2>1, AppendProperties DEF Settle
    <2>3. Len(created') <= N
      BY <2>1, <2>2, LenProperties, ConstantsAssumption
    <2> QED BY <1>2, <2>2, <2>3 DEF TypeInv, TypeOK, Settle, ledger, history
  <1>3. CASE Tick
    <2>1. now' \in 1..MaxTime
      BY <1>3, ConstantsAssumption DEF TypeInv, TypeOK, Tick
    <2> QED BY <1>3, <2>1 DEF TypeInv, TypeOK, Tick, ledger, history
  <1>4. ASSUME NEW k \in Txns, Charge(k) PROVE TypeInv'
    BY <1>4 DEF TypeInv, TypeOK, Charge, history
  <1>5. ASSUME NEW r \in Runners, Start(r) \/ List(r) \/ Page(r) \/ Check(r) PROVE TypeInv'
    BY <1>5, RunsKeepTypes DEF Works, TypeInv, TypeOK, Start, List, Page, Check, ledger, history
  <1>6. ASSUME NEW r \in Runners, Fee(r) PROVE TypeInv'
    <2>1. fees' \in [Txns -> Nat]
      BY <1>6, FeeStep DEF TypeInv, TypeOK
    <2> QED BY <1>6, <2>1, RunsKeepTypes DEF Works, TypeInv, TypeOK, Fee, history
  <1>7. ASSUME NEW r \in Runners, Record(r) PROVE TypeInv'
    <2>1. run[r] \in Run
      BY DEF TypeInv, TypeOK
    <2>2. row' \in [Runners -> Row]
      BY <1>7, <2>1 DEF TypeInv, TypeOK, Record, Row, Run
    <2>3. reported' \in [Txns -> Nat]
      BY <1>7 DEF TypeInv, TypeOK, Record
    <2>4. lastOk' \in 0..MaxTime /\ reconciled' \subseteq Txns
      BY <1>7, <2>1, ConstantsAssumption DEF TypeInv, TypeOK, Record, Run
    <2>5. seeded' \in 0..N
      <3>1. seeded \in 0..N /\ run[r].top \in 0..N
        BY <2>1 DEF TypeInv, TypeOK, Run
      <3>2. {seeded, run[r].top} \in SUBSET (0..N) /\ {seeded, run[r].top} # {}
        BY <3>1
      <3>3. Max({seeded, run[r].top}) \in {seeded, run[r].top}
        BY <3>2, MaxOfSet, ConstantsAssumption
      <3> QED BY <1>7, <3>1, <3>3 DEF Record
    <2> QED BY <1>7, <2>2, <2>3, <2>4, <2>5, RunsKeepTypes DEF Works, TypeInv, TypeOK, Record, ledger
  <1>8. ASSUME NEW r \in Runners, RecordFailed(r) PROVE TypeInv'
    <2>1. row' \in [Runners -> Row]
      BY <1>8 DEF TypeInv, TypeOK, RecordFailed, RecordsFailure, Row
    <2> QED BY <1>8, <2>1, RunsKeepTypes
            DEF Works, TypeInv, TypeOK, RecordFailed, RecordsFailure, ledger
  <1>9. ASSUME NEW r \in Runners, Fails(r) PROVE TypeInv'
    <2>1. failures' \in 0..MaxFailures
      BY <1>9, ConstantsAssumption DEF TypeInv, TypeOK, Fails
    <2> QED BY <1>9, <2>1, RunsKeepTypes DEF TypeInv, TypeOK, Fails, ledger, history
  <1> QED BY <1>1, <1>2, <1>3, <1>4, <1>5, <1>6, <1>7, <1>8, <1>9 DEF Next, Works

-----------------------------------------------------------------------------
(* Fees. *)

LEMMA FeesInvInit == Init => FeesInv
  BY DEF Init, FeesInv, FeePostedOnce, FeesNotOverstated, Idle

\* A run that keeps what it has posted, or forgets it, disturbs nothing.
LEMMA FeesKept ==
    ASSUME FeesInv, UNCHANGED <<fees, reported>>,
           \A s \in Runners : run'[s].posted \in {run[s].posted, {}}
    PROVE  FeesInv'
  BY DEF FeesInv, FeePostedOnce, FeesNotOverstated

LEMMA FeesInvNext == TypeInv /\ FeesInv /\ [Next]_vars => FeesInv'
  <1> SUFFICES ASSUME TypeInv, FeesInv, [Next]_vars PROVE FeesInv'
    OBVIOUS
  <1>1. ASSUME UNCHANGED <<fees, reported, run>> PROVE FeesInv'
    BY <1>1 DEF FeesInv, FeePostedOnce, FeesNotOverstated
  <1>2. ASSUME NEW r \in Runners,
               Start(r) \/ List(r) \/ Page(r) \/ Check(r) \/ RecordFailed(r) \/ Fails(r)
        PROVE  FeesInv'
    <2>1. PICK u : Becomes(r, u) /\ u.posted \in {run[r].posted, {}}
      <3>1. Start(r) => \E u : Becomes(r, u) /\ u.posted \in {run[r].posted, {}}
        BY StartStep
      <3>2. List(r) => \E u : Becomes(r, u) /\ u.posted \in {run[r].posted, {}}
        BY ListStep
      <3>3. Page(r) => \E u : Becomes(r, u) /\ u.posted \in {run[r].posted, {}}
        BY PageStep DEF SameRest
      <3>4. Check(r) => \E u : Becomes(r, u) /\ u.posted \in {run[r].posted, {}}
        BY CheckStep
      <3>5. RecordFailed(r) \/ Fails(r) => \E u : Becomes(r, u) /\ u.posted \in {run[r].posted, {}}
        BY EndStep DEF Idle
      <3> QED BY <1>2, <3>1, <3>2, <3>3, <3>4, <3>5
    <2>2. UNCHANGED <<fees, reported>>
      BY <1>2 DEF Start, List, Page, Check, RecordFailed, RecordsFailure, Fails, ledger, history
    <2> QED BY <2>1, <2>2, FeesKept DEF Becomes
  <1>3. ASSUME NEW r \in Runners, Fee(r) PROVE FeesInv'
    <2>1. PICK u \in Run, k \in Txns :
             /\ Becomes(r, u)
             /\ \/ k \notin Free /\ fees[k] = 0 /\ fees' = [fees EXCEPT ![k] = fees[k] + 1]
                   /\ u.posted = run[r].posted \cup {k}
                \/ fees' = fees /\ u.posted = run[r].posted
      BY <1>3, FeeStep
    <2>2. reported' = reported
      BY <1>3 DEF Fee, history
    <2>3. CASE fees' = fees /\ u.posted = run[r].posted
      BY <2>1, <2>2, <2>3, FeesKept DEF Becomes
    <2>4. CASE fees[k] = 0 /\ fees' = [fees EXCEPT ![k] = fees[k] + 1]
               /\ u.posted = run[r].posted \cup {k}
      <3>1. /\ fees \in [Txns -> Nat] /\ reported \in [Txns -> Nat]
            /\ \A s \in Runners : run[s].posted \subseteq Txns
        BY DEF TypeInv, TypeOK, Run
      <3>2. reported[k] = 0 /\ \A s \in Runners : k \notin run[s].posted
        BY <2>4, <3>1 DEF FeesInv, FeesNotOverstated
      <3>3. fees'[k] = 1 /\ \A j \in Txns \ {k} : fees'[j] = fees[j]
        BY <2>4, <3>1
      <3>4. FeePostedOnce' /\ FeesNotOverstated'
        BY <2>2, <3>1, <3>2, <3>3 DEF FeesInv, FeePostedOnce, FeesNotOverstated
      <3>5. \A s \in Runners : \A j \in run'[s].posted : fees'[j] = 1 /\ reported'[j] = 0
        BY <2>1, <2>2, <2>4, <3>1, <3>2, <3>3 DEF Becomes, FeesInv
      <3>6. \A s, q \in Runners : s # q => run'[s].posted \cap run'[q].posted = {}
        BY <2>1, <2>4, <3>2 DEF Becomes, FeesInv
      <3> QED BY <3>4, <3>5, <3>6 DEF FeesInv
    <2> QED BY <2>1, <2>3, <2>4
  <1>4. ASSUME NEW r \in Runners, Record(r) PROVE FeesInv'
    <2>1. Becomes(r, Idle) /\ fees' = fees
          /\ reported' = [k \in Txns |-> reported[k] + (IF k \in run[r].posted THEN 1 ELSE 0)]
      BY <1>4, IdleIsRun, MovedRun DEF Record, Goes, ledger, TypeInv
    <2>2. /\ fees \in [Txns -> Nat] /\ reported \in [Txns -> Nat]
          /\ \A s \in Runners : run[s].posted \subseteq Txns
      BY DEF TypeInv, TypeOK, Run
    <2>3. \A k \in Txns : reported'[k] = (IF k \in run[r].posted THEN 1 ELSE reported[k])
      BY <2>1, <2>2 DEF FeesInv
    <2>4. FeePostedOnce' /\ FeesNotOverstated'
      BY <2>1, <2>2, <2>3 DEF FeesInv, FeePostedOnce, FeesNotOverstated
    <2>5. \A s \in Runners : \A j \in run'[s].posted : fees'[j] = 1 /\ reported'[j] = 0
      BY <2>1, <2>2, <2>3 DEF Becomes, FeesInv, Idle
    <2>6. \A s, q \in Runners : s # q => run'[s].posted \cap run'[q].posted = {}
      BY <2>1 DEF Becomes, FeesInv, Idle
    <2> QED BY <2>4, <2>5, <2>6 DEF FeesInv
  <1>5. Settle \/ Tick \/ (\E k \in Txns : Charge(k)) \/ UNCHANGED vars
           => UNCHANGED <<fees, reported, run>>
    BY DEF Settle, Tick, Charge, vars, ledger, history
  <1> QED BY <1>1, <1>2, <1>3, <1>4, <1>5 DEF Next, Works

-----------------------------------------------------------------------------
(* Charges. *)

LEMMA CleanInvInit == Init => CleanInv
  BY DEF Init, CleanInv, CleanMeansCharged, Idle

\* Nothing is gone through that was not, and nothing is forgotten that was missing.
NothingCleared(t, u) ==
    \A k \in u.listed \ u.todo : k \in t.listed \ t.todo /\ (k \in t.missing => k \in u.missing)

LEMMA CleanKept ==
    ASSUME CleanInv, charged \subseteq charged', row' = row,
           \A s \in Runners : NothingCleared(run[s], run'[s])
    PROVE  CleanInv'
  <1>1. CleanMeansCharged'
    BY DEF CleanInv, CleanMeansCharged
  <1>2. ASSUME NEW s \in Runners, NEW k \in run'[s].listed \ Direct,
               k \notin run'[s].todo \cup run'[s].missing
        PROVE  k \in charged' \ Differing
    <2>1. k \in run[s].listed \ Direct /\ k \notin run[s].todo \cup run[s].missing
      BY <1>2 DEF NothingCleared
    <2> QED BY <2>1 DEF CleanInv
  <1> QED BY <1>1, <1>2 DEF CleanInv

LEMMA CleanInvNext == TypeInv /\ CleanInv /\ [Next]_vars => CleanInv'
  <1> SUFFICES ASSUME TypeInv, CleanInv, [Next]_vars PROVE CleanInv'
    OBVIOUS
  <1>1. ASSUME UNCHANGED <<row, run>>, charged \subseteq charged' PROVE CleanInv'
    BY <1>1, CleanKept DEF NothingCleared
  <1>2. ASSUME NEW r \in Runners, Start(r) \/ List(r) \/ Page(r) \/ Fee(r) \/ Fails(r)
        PROVE  CleanInv'
    <2>1. PICK u : Becomes(r, u) /\ NothingCleared(run[r], u)
      <3>1. Start(r) => \E u : Becomes(r, u) /\ NothingCleared(run[r], u)
        BY StartStep DEF NothingCleared
      <3>2. List(r) => \E u : Becomes(r, u) /\ NothingCleared(run[r], u)
        <4>1. \A u : u.listed \ u.todo = {} => NothingCleared(run[r], u)
          BY DEF NothingCleared
        <4> QED BY <4>1, ListStep
      <3>3. Page(r) => \E u : Becomes(r, u) /\ NothingCleared(run[r], u)
        BY PageStep DEF SameRest, NothingCleared
      <3>4. Fee(r) => \E u : Becomes(r, u) /\ NothingCleared(run[r], u)
        BY FeeStep DEF SameWindow, NothingCleared
      <3>5. Fails(r) => \E u : Becomes(r, u) /\ NothingCleared(run[r], u)
        BY EndStep DEF Idle, NothingCleared
      <3> QED BY <1>2, <3>1, <3>2, <3>3, <3>4, <3>5
    <2>2. charged' = charged /\ row' = row
      BY <1>2 DEF Start, List, Page, Fee, Fails, ledger, history
    <2> QED BY <2>1, <2>2, CleanKept DEF Becomes, NothingCleared
  <1>3. ASSUME NEW r \in Runners, Check(r) PROVE CleanInv'
    <2>1. PICK u \in Run, k \in Txns :
             /\ Becomes(r, u) /\ SameWindow(run[r], u) /\ u.todo = run[r].todo \ {k}
             /\ u.missing = run[r].missing \cup (IF Unbooked(k) THEN {k} ELSE {})
      BY <1>3, CheckStep
    <2>2. charged' = charged /\ row' = row
      BY <1>3 DEF Check, ledger, history
    <2>3. ASSUME NEW j \in u.listed \ Direct, j \notin u.todo \cup u.missing
          PROVE  j \in charged \ Differing
      <3>1. j \in run[r].listed \ Direct /\ j \notin run[r].missing
        BY <2>1, <2>3 DEF SameWindow
      <3>2. CASE j = k
        BY <2>1, <2>3, <3>2 DEF Unbooked
      <3>3. CASE j # k
        BY <2>1, <2>3, <3>1, <3>3 DEF CleanInv
      <3> QED BY <3>2, <3>3
    <2> QED BY <2>1, <2>2, <2>3 DEF CleanInv, CleanMeansCharged, Becomes
  <1>4. ASSUME NEW r \in Runners, Record(r) \/ RecordFailed(r) PROVE CleanInv'
    <2>1. Becomes(r, Idle) /\ charged' = charged
      BY <1>4, IdleIsRun, MovedRun
         DEF TypeInv, Record, RecordFailed, RecordsFailure, Goes, ledger
    <2>2. /\ row \in [Runners -> Row] /\ \A s \in Runners \ {r} : row'[s] = row[s]
          /\ \A k \in row'[r].checked \ row'[r].missing :
                k \in run[r].listed \ run[r].missing /\ run[r].todo = {}
      <3>1. row \in [Runners -> Row]
        BY DEF TypeInv, TypeOK
      <3>2. Record(r) => run[r].todo = {}
        BY DEF TypeInv, Shaped, Record, Goes
      <3> QED BY <1>4, <3>1, <3>2 DEF Record, RecordFailed, RecordsFailure
    <2>3. CleanMeansCharged'
      <3> SUFFICES ASSUME NEW s \in Runners, NEW k \in Txns \ Direct,
                          k \in row'[s].checked \ row'[s].missing
                   PROVE  k \in charged \ Differing
        BY <2>1 DEF CleanMeansCharged
      <3>1. CASE s = r
        BY <2>2, <3>1 DEF CleanInv
      <3>2. CASE s # r
        BY <2>2, <3>2 DEF CleanInv, CleanMeansCharged
      <3> QED BY <3>1, <3>2
    <2>4. \A s \in Runners : \A k \in run'[s].listed \ Direct :
             k \notin run'[s].todo \cup run'[s].missing => k \in charged' \ Differing
      BY <2>1 DEF CleanInv, Becomes, Idle
    <2> QED BY <2>3, <2>4 DEF CleanInv
  <1>5. Settle \/ Tick \/ (\E k \in Txns : Charge(k)) \/ UNCHANGED vars
           => UNCHANGED <<row, run>> /\ charged \subseteq charged'
    BY DEF Settle, Tick, Charge, vars, ledger, history
  <1> QED BY <1>1, <1>2, <1>3, <1>4, <1>5 DEF Next, Works

-----------------------------------------------------------------------------
(* Windows.  Two of them meet because the overlap is as long as a run may take. *)

LEMMA WindowInvInit == Init => WindowInv
  <1> SUFFICES ASSUME Init PROVE WindowInv
    OBVIOUS
  <1>1. Settled = {}
    <2>1. Len(created) = 0
      BY EmptySeq DEF Init
    <2> QED BY <2>1 DEF Settled
  <1> QED BY <1>1, IdleIsRun DEF Init, WindowInv, Covered, Idle

\* A run whose record changes keeps the watermark it read, or reads the newest.
LEMMA WindowKept ==
    ASSUME TypeInv, WindowInv, NEW r \in Runners, NEW u \in Run, Becomes(r, u),
           UNCHANGED <<now, created, lastOk, seeded, reconciled>>,
           u.since \in {0, lastOk, run[r].since}, Reading(u) => WindowOf(u)
    PROVE  WindowInv'
  <1>2. Covered(0) /\ 0 <= now
    <2>1. \A k \in Settled : ~(created[k] + Overlap < 0)
      BY SettledAreTimed, ConstantsAssumption DEF TypeInv
    <2>2. now \in Nat
      BY DEF TypeInv, TypeOK
    <2> QED BY <2>1, <2>2 DEF Covered
  <1>3. Covered(u.since) /\ u.since <= now
    BY <1>2 DEF WindowInv
  <1>4. \A s \in Runners : run'[s].since <= now /\ Covered(run'[s].since)
    BY <1>3 DEF WindowInv, Becomes
  <1>5. \A s \in Runners : run'[s] \in Run /\ (Reading(run'[s]) => WindowOf(run'[s]))
    BY DEF WindowInv, Becomes
  <1>6. \A s \in Runners : Reading(run[s])' => WindowOf(run[s])'
    BY <1>5 DEF WindowOf, Settled, Reading
  <1> QED BY <1>4, <1>6 DEF WindowInv, Covered, Settled


LEMMA WindowRead ==
    ASSUME TypeInv, WindowInv, NEW r \in Runners,
           Start(r) \/ List(r) \/ Page(r) \/ Fee(r) \/ Check(r) \/ RecordFailed(r) \/ Fails(r)
    PROVE  WindowInv'
  <1>1. UNCHANGED <<now, created, lastOk, seeded, reconciled>>
    BY DEF Start, List, Page, Fee, Check, RecordFailed, RecordsFailure, Fails, history
  <1>2. /\ now \in Nat /\ MaxRun \in Nat /\ run[r] \in Run /\ run[r].since \in 0..MaxTime
        /\ Len(created) \in 0..N /\ Settled \subseteq Txns
    <2>1. now \in Nat /\ MaxRun \in Nat /\ run[r] \in Run
      BY ConstantsAssumption DEF TypeInv, TypeOK
    <2>2. run[r].since \in 0..MaxTime
      BY <2>1 DEF Run
    <2> QED BY <2>1, <2>2, SettledAreTimed DEF TypeInv
  <1>3. CASE Start(r)
    <2>1. \E u \in Run : Becomes(r, u) /\ ~Reading(u) /\ u.since = lastOk
      BY <1>3, StartStep DEF Becomes
    <2> QED BY <1>1, <2>1, WindowKept
  <1>4. CASE List(r)
    <2>1. PICK u \in Run :
             /\ Becomes(r, u)
             /\ u.since = run[r].since /\ u.began = now /\ u.top = Len(created)
             /\ u.low = WindowStart(u.since)
             /\ \A k \in 1..u.top : k >= u.low /\ k > u.next => k \in u.listed \cup Payouts
             /\ u.since # 0 /\ u.pc # "page" => u.next < u.low
      BY <1>4, ListStep
    <2>2. \A k \in Settled : ~(k > u.top)
      BY <1>2, <2>1 DEF Settled
    <2>3. \A k \in 1..u.top : k < u.low => created[k] + Overlap < u.since
      BY <1>2, <2>1, WindowStartOf DEF TypeInv, Settled
    <2>4. u.began <= now /\ now - u.began <= MaxRun /\ u.top <= Len(created)
      BY <1>2, <2>1
    <2>5. WindowOf(u)
      BY <2>1, <2>2, <2>3, <2>4 DEF WindowOf
    <2> QED BY <1>1, <2>1, <2>5, WindowKept
  <1>5. CASE Page(r)
    <2>1. PICK u \in Run :
             /\ Becomes(r, u) /\ SameRest(run[r], u) /\ Reading(run[r])
             /\ run[r].listed \subseteq u.listed
             /\ Reading(u) =>
                   /\ \A k \in Txns : k >= u.low /\ k <= run[r].next /\ k > u.next
                         => k \in u.listed \cup Payouts
                   /\ u.since # 0 /\ u.pc # "page" => u.next < u.low
      BY <1>5, PageStep
    <2>2. WindowOf(run[r])
      BY <2>1 DEF WindowInv
    <2>3. ASSUME Reading(u) PROVE WindowOf(u)
      <3>1. 1..u.top \subseteq Txns /\ u.top \in Nat /\ run[r].next \in Nat
        BY SMTT(40), ConstantsAssumption, <1>2 DEF Run, Txns
      <3>2. ASSUME u.since # 0, NEW k \in 1..u.top, k >= u.low, k > u.next
            PROVE  k \in u.listed \cup Payouts
        <4>1. CASE k <= run[r].next
          BY <2>1, <2>3, <3>1, <3>2, <4>1
        <4>2. CASE k > run[r].next
          BY <2>1, <2>2, <3>2, <4>2 DEF SameRest, WindowOf
        <4> QED BY <3>1, <4>1, <4>2
      <3> QED BY <2>1, <2>2, <2>3, <3>2 DEF SameRest, WindowOf
    <2> QED BY <1>1, <2>1, <2>3, WindowKept DEF SameRest
  <1>6. CASE Fee(r) \/ Check(r)
    <2>1. PICK u \in Run : Becomes(r, u) /\ SameWindow(run[r], u) /\ u.pc # "page"
      BY <1>6, FeeStep, CheckStep
    <2>2. run[r].pc # "page" /\ Reading(run[r])
      BY <1>6 DEF Fee, Check, Goes, Reading
    <2>3. WindowOf(run[r])
      BY <2>2 DEF WindowInv
    <2>4. WindowOf(u)
      BY <2>1, <2>2, <2>3 DEF SameWindow, WindowOf
    <2> QED BY <1>1, <2>1, <2>4, WindowKept DEF SameWindow
  <1>7. CASE RecordFailed(r) \/ Fails(r)
    <2>1. \E u \in Run : Becomes(r, u) /\ ~Reading(u) /\ u.since \in {0, run[r].since}
      BY <1>7, EndStep DEF Idle
    <2> QED BY <1>1, <2>1, WindowKept
  <1> QED BY <1>3, <1>4, <1>5, <1>6, <1>7

LEMMA WindowRecorded ==
    ASSUME MaxRun <= Overlap, TypeInv, WindowInv, NEW r \in Runners, Record(r)
    PROVE  WindowInv'
  <1> DEFINE t == run[r]
  <1>1. /\ now \in Nat /\ MaxRun \in Nat /\ Overlap \in Nat /\ seeded \in 0..N
        /\ t \in Run /\ t.top \in 0..N /\ t.began \in Nat /\ t.low \in Nat /\ t.next \in Nat
        /\ Settled \subseteq Txns /\ \A k \in Settled : k \in Nat /\ created[k] \in Nat
    BY SMTT(40), SettledAreTimed, ConstantsAssumption DEF TypeInv, TypeOK, Run
  <1>2. WindowOf(t) /\ t.pc = "record"
    BY DEF WindowInv, Record, Goes, Reading
  <1>3. Becomes(r, Idle)
    BY IdleIsRun, MovedRun DEF TypeInv, Record, Goes
  <1>4. /\ now' = now /\ created' = created /\ lastOk' = now
        /\ seeded' = (IF t.since = 0 THEN Max({seeded, t.top}) ELSE seeded)
        /\ reconciled' = reconciled \cup t.listed
    BY DEF Record
  <1>5. seeded' \in Nat /\ seeded' >= seeded /\ (t.since = 0 => seeded' >= t.top)
    <2>1. {seeded, t.top} \in SUBSET (0..N) /\ {seeded, t.top} # {} /\ N \in Nat
      BY <1>1, ConstantsAssumption
    <2>2. /\ Max({seeded, t.top}) \in {seeded, t.top}
          /\ Max({seeded, t.top}) >= seeded /\ Max({seeded, t.top}) >= t.top
      BY <2>1, MaxOfSet
    <2> QED BY <1>1, <1>4, <2>1, <2>2
  <1> HIDE DEF t
  <1>6. ASSUME NEW k \in Settled \ Payouts, k > seeded', created[k] + Overlap < now
        PROVE  k \in reconciled'
    <2>1. k \in Nat /\ created[k] \in Nat
      BY <1>1
    <2>2. created[k] < t.began
      BY <1>1, <1>2, <1>6, <2>1 DEF WindowOf
    <2>3. k <= t.top /\ k \in 1..t.top
      BY <1>1, <1>2, <2>1, <2>2 DEF WindowOf, Settled
    <2>4. t.since # 0
      BY <1>1, <1>5, <1>6, <2>1, <2>3
    <2>5. CASE k < t.low
      <3>1. created[k] + Overlap < t.since
        BY <1>2, <2>3, <2>4, <2>5 DEF WindowOf
      <3>2. Covered(t.since) /\ k > seeded
        BY <1>1, <1>5, <1>6, <2>1 DEF WindowInv, t
      <3> QED BY <1>4, <3>1, <3>2 DEF Covered
    <2>6. CASE k >= t.low
      <3>1. k > t.next
        BY <1>1, <1>2, <2>1, <2>4, <2>6 DEF WindowOf
      <3> QED BY <1>2, <1>4, <2>3, <2>4, <2>6, <3>1 DEF WindowOf
    <2> QED BY <1>1, <2>1, <2>5, <2>6
  <1>7. Covered(lastOk)'
    BY <1>4, <1>6 DEF Covered, Settled
  <1>8. ASSUME NEW s \in Runners PROVE run'[s].since <= now /\ Covered(run[s].since)'
    <2>1. CASE s = r
      <3>1. run'[s].since = 0
        BY <1>3, <2>1 DEF Becomes, Idle
      <3>2. \A k \in Settled : ~(created[k] + Overlap < 0)
        BY <1>1
      <3> QED BY <1>1, <1>4, <3>1, <3>2 DEF Covered, Settled
    <2>2. CASE s # r
      <3>1. run'[s] = run[s] /\ run[s].since <= now /\ Covered(run[s].since)
        BY <1>3, <2>2 DEF Becomes, WindowInv
      <3>2. \A k \in Settled : k > seeded' => k > seeded
        BY <1>1, <1>5
      <3> QED BY <1>4, <3>1, <3>2 DEF Covered, Settled
    <2> QED BY <2>1, <2>2
  <1>9. ASSUME NEW s \in Runners, Reading(run[s])' PROVE WindowOf(run[s])'
    <2>1. s # r /\ run'[s] = run[s]
      BY <1>3, <1>9, IdleIsRun DEF Becomes, Reading
    <2>2. WindowOf(run[s])
      BY <1>9, <2>1 DEF WindowInv, Reading
    <2> QED BY <1>4, <2>1, <2>2 DEF WindowOf, Settled
  <1>10. lastOk' <= now' /\ \A k \in Settled : created[k] <= now
    BY <1>1, <1>4 DEF WindowInv
  <1> QED BY <1>4, <1>7, <1>8, <1>9, <1>10 DEF WindowInv, Settled


LEMMA WindowInvNext ==
    ASSUME MaxRun <= Overlap
    PROVE  TypeInv /\ WindowInv /\ [Next]_vars => WindowInv'
  <1> SUFFICES ASSUME TypeInv, WindowInv, [Next]_vars PROVE WindowInv'
    OBVIOUS
  <1>1. /\ now \in Nat /\ MaxRun \in Nat /\ Overlap \in Nat
        /\ Len(created) \in Nat /\ \A k \in Settled : k \in Nat /\ created[k] \in Nat
        /\ lastOk \in Nat /\ \A r \in Runners : run[r] \in Run /\ run[r].since \in Nat /\ run[r].top \in Nat
    <2>1. now \in Nat /\ lastOk \in Nat /\ \A r \in Runners : run[r] \in Run
      BY DEF TypeInv, TypeOK
    <2>2. \A r \in Runners : run[r].since \in Nat /\ run[r].top \in Nat
      BY <2>1 DEF Run
    <2> QED BY <2>1, <2>2, SettledAreTimed, ConstantsAssumption DEF TypeInv
  <1>2. ASSUME UNCHANGED <<now, created, lastOk, seeded, reconciled, run>> PROVE WindowInv'
    BY <1>2 DEF WindowInv, WindowOf, Covered, Settled, Reading
  <1>3. CASE Settle
    <2>1. UNCHANGED <<now, lastOk, seeded, reconciled, run>> /\ created' = Append(created, now)
      BY <1>3 DEF Settle, history
    <2>2. /\ Len(created') = Len(created) + 1 /\ created'[Len(created) + 1] = now
          /\ \A k \in Settled : created'[k] = created[k]
      BY <2>1, AppendProperties DEF TypeInv, TypeOK, Settled
    <2>3. \A k \in Settled' : k = Len(created) + 1 \/ k \in Settled
      BY <1>1, <2>2 DEF Settled
    <2>4. ASSUME NEW k \in Settled' PROVE created'[k] <= now'
      <3>1. CASE k = Len(created) + 1
        BY <1>1, <2>1, <2>2, <3>1
      <3>2. CASE k \in Settled
        BY <2>1, <2>2, <3>2 DEF WindowInv
      <3> QED BY <2>3, <3>1, <3>2
    <2>5. ASSUME NEW t \in Nat, t <= now, Covered(t) PROVE Covered(t)'
      <3>1. ~(created'[Len(created) + 1] + Overlap < t)
        BY <1>1, <2>2, <2>5
      <3> QED BY <2>1, <2>2, <2>3, <2>5, <3>1 DEF Covered
    <2>6. ASSUME NEW s \in Runners, Reading(run[s])' PROVE WindowOf(run[s])'
      <3>1. WindowOf(run[s]) /\ run'[s] = run[s] /\ run[s].top \in Nat
        BY <1>1, <2>1, <2>6 DEF WindowInv, Reading
      <3>2. \A k \in Settled' : k > run[s].top => created'[k] >= run[s].began
        BY <1>1, <2>2, <2>3, <3>1 DEF WindowOf
      <3>3. run[s].top <= Len(created')
        BY <1>1, <2>2, <3>1 DEF WindowOf
      <3>4. \A k \in 1..run[s].top : created'[k] = created[k]
        BY <1>1, <2>2, <3>1 DEF WindowOf, Settled
      <3> QED BY <2>1, <3>1, <3>2, <3>3, <3>4 DEF WindowOf
    <2>7. lastOk' <= now' /\ Covered(lastOk)'
      <3>1. lastOk <= now /\ Covered(lastOk)
        BY DEF WindowInv
      <3>2. (\A k \in Settled' \ Payouts : k > seeded' /\ created'[k] + Overlap < lastOk => k \in reconciled')
        BY <1>1, <2>5, <3>1 DEF Covered
      <3> QED BY <2>1, <3>1, <3>2 DEF Covered
    <2>8. ASSUME NEW s \in Runners PROVE run'[s].since <= now' /\ Covered(run[s].since)'
      <3>1. run[s].since <= now /\ Covered(run[s].since)
        BY DEF WindowInv
      <3>2. (\A k \in Settled' \ Payouts :
                k > seeded' /\ created'[k] + Overlap < run[s].since => k \in reconciled')
        BY <1>1, <2>5, <3>1 DEF Covered
      <3> QED BY <2>1, <3>1, <3>2 DEF Covered
    <2> QED BY <2>4, <2>6, <2>7, <2>8 DEF WindowInv
  <1>4. CASE Tick
    <2>1. UNCHANGED <<created, lastOk, seeded, reconciled, run>> /\ now' = now + 1
      BY <1>4 DEF Tick, history
    <2>2. \A k \in Settled' : created'[k] <= now'
      BY <1>1, <2>1 DEF WindowInv, Settled
    <2>3. lastOk' <= now' /\ Covered(lastOk)'
      BY <1>1, <2>1 DEF WindowInv, Covered, Settled
    <2>4. ASSUME NEW s \in Runners PROVE run'[s].since <= now' /\ Covered(run[s].since)'
      BY <1>1, <2>1 DEF WindowInv, Covered, Settled
    <2>5. ASSUME NEW s \in Runners, Reading(run[s])' PROVE WindowOf(run[s])'
      <3>1. WindowOf(run[s]) /\ Listing(s) /\ run[s].began \in Nat
        BY <1>1, <2>1, <2>5 DEF WindowInv, Reading, Listing, Run
      <3>2. now - run[s].began < MaxRun
        BY <1>4, <3>1 DEF Tick
      <3>3. run[s].began <= now' /\ now' - run[s].began <= MaxRun
        BY <1>1, <2>1, <3>1, <3>2 DEF WindowOf
      <3> QED BY <2>1, <3>1, <3>3 DEF WindowOf, Settled
    <2> QED BY <2>2, <2>3, <2>4, <2>5 DEF WindowInv
  <1>5. (\E k \in Txns : Charge(k)) \/ UNCHANGED vars
           => UNCHANGED <<now, created, lastOk, seeded, reconciled, run>>
    BY DEF Charge, vars, history
  <1> QED BY <1>2, <1>3, <1>4, <1>5, WindowRead, WindowRecorded DEF Next, Works

\* What no later window reaches is too old for it, and so gone through.
LEMMA NothingIsSkipped == TypeInv /\ WindowInv => NothingSkipped
  <1> SUFFICES ASSUME TypeInv, WindowInv PROVE NothingSkipped
    OBVIOUS
  <1>1. lastOk \in 0..MaxTime
    BY DEF TypeInv, TypeOK
  <1>2. \A k \in Settled : k < WindowStart(lastOk) => created[k] + Overlap < lastOk
    BY <1>1, WindowStartOf DEF TypeInv
  <1> QED BY <1>2 DEF WindowInv, Covered, NothingSkipped

-----------------------------------------------------------------------------
(* A window of more transactions than the pages hold. *)

\* A run has passed no more transactions than its pages hold; a window that starts
\* from an older run reaches at least as far back.
Bounded(t) ==
    Reading(t) /\ t.since # 0 =>
        /\ t.top - t.next <= t.pages * PageSize
        /\ t.pc # "page" => t.next < t.low

BoundInv ==
    /\ lastOk <= now
    /\ \A r \in Runners : run[r].since <= lastOk /\ Bounded(run[r])

LEMMA MorePagesHoldMore ==
    ASSUME NEW p \in Nat, NEW m \in Nat, NEW s \in Nat, p <= m
    PROVE  /\ p * s \in Nat /\ m * s \in Nat /\ p * s <= m * s
           /\ (p + 1) * s = p * s + s
  <1>1. PICK d \in Nat : m = p + d
    <2>1. m - p \in Nat /\ m = p + (m - p)
      OBVIOUS
    <2> QED BY <2>1
  <1>2. p * s \in Nat /\ d * s \in Nat
    OBVIOUS
  <1>3. m * s = p * s + d * s
    BY <1>1
  <1>4. (p + 1) * s = p * s + s
    OBVIOUS
  <1> QED BY <1>2, <1>3, <1>4

LEMMA OlderReachesBack ==
    ASSUME TypeOK, NEW t \in Nat, NEW u \in Nat, t <= u
    PROVE  WindowStart(t) <= WindowStart(u)
  <1> DEFINE From(v) == IF v > Overlap THEN v - Overlap ELSE 0
  <1> DEFINE S(v) == {k \in Settled : created[k] >= v} \cup {Len(created) + 1}
  <1>1. Len(created) \in Nat /\ \A k \in Settled : k \in Nat /\ created[k] \in Nat
    BY SettledAreTimed, ConstantsAssumption
  <1>2. From(t) \in Nat /\ From(u) \in Nat /\ From(t) <= From(u)
    BY ConstantsAssumption
  <1>3. WindowStart(t) = Min(S(From(t))) /\ WindowStart(u) = Min(S(From(u)))
    BY DEF WindowStart, OldestSince
  <1> HIDE DEF From
  <1>4. /\ S(From(t)) \in SUBSET Nat /\ S(From(u)) \in SUBSET Nat
        /\ S(From(t)) # {} /\ S(From(u)) # {} /\ S(From(u)) \subseteq S(From(t))
    BY <1>1, <1>2
  <1> HIDE DEF S
  <1>5. Min(S(From(u))) \in S(From(t)) /\ \A y \in S(From(t)) : Min(S(From(t))) <= y
    BY <1>4, MinOfSet
  <1> QED BY <1>3, <1>5

LEMMA BoundInvInit == Init => BoundInv
  BY IdleIsRun DEF Init, BoundInv, Bounded, Idle

\* A run whose record changes keeps the watermark it read, or reads the newest.
LEMMA BoundKept ==
    ASSUME TypeInv, BoundInv, NEW r \in Runners, NEW u \in Run, Becomes(r, u),
           now' = now, lastOk' \in {lastOk, now}, u.since \in {0, lastOk, run[r].since},
           Bounded(u)
    PROVE  BoundInv'
  <1>1. /\ now \in Nat /\ lastOk \in Nat
        /\ \A s \in Runners : run[s] \in Run /\ run[s].since \in Nat
    <2>1. now \in Nat /\ lastOk \in Nat /\ \A s \in Runners : run[s] \in Run
      BY DEF TypeInv, TypeOK
    <2> QED BY <2>1 DEF Run
  <1>2. lastOk <= lastOk' /\ lastOk' <= now' /\ u.since <= lastOk
    BY <1>1 DEF BoundInv
  <1>3. \A s \in Runners : run'[s].since <= lastOk' /\ Bounded(run'[s])
    BY <1>1, <1>2 DEF BoundInv, Becomes
  <1> QED BY <1>2, <1>3 DEF BoundInv, Bounded, Reading

LEMMA BoundInvNext == TypeInv /\ BoundInv /\ [Next]_vars => BoundInv'
  <1> SUFFICES ASSUME TypeInv, BoundInv, [Next]_vars PROVE BoundInv'
    OBVIOUS
  <1>1. /\ now \in Nat /\ lastOk \in Nat /\ PageSize \in Nat
        /\ \A s \in Runners : /\ run[s] \in Run /\ run[s].top \in Nat
                              /\ run[s].next \in Nat /\ run[s].pages \in Nat
    <2>1. now \in Nat /\ lastOk \in Nat /\ PageSize \in Nat /\ \A s \in Runners : run[s] \in Run
      BY ConstantsAssumption DEF TypeInv, TypeOK
    <2> QED BY <2>1 DEF Run
  <1>2. ASSUME UNCHANGED <<lastOk, run>>, now' \in {now, now + 1} PROVE BoundInv'
    BY <1>1, <1>2 DEF BoundInv, Bounded, Reading
  <1>3. Settle \/ Tick \/ (\E k \in Txns : Charge(k)) \/ UNCHANGED vars
           => UNCHANGED <<lastOk, run>> /\ now' \in {now, now + 1}
    BY DEF Settle, Tick, Charge, vars, ledger, history
  <1>4. ASSUME NEW r \in Runners, Start(r) PROVE BoundInv'
    <2>1. PICK u : Becomes(r, u) /\ ~Reading(u) /\ u.since = lastOk
      BY <1>4, StartStep
    <2>2. u \in Run /\ now' = now /\ lastOk' = lastOk
      BY <1>4, <2>1 DEF Becomes, Start, history
    <2> QED BY <2>1, <2>2, BoundKept DEF Bounded
  <1>5. ASSUME NEW r \in Runners, List(r) PROVE BoundInv'
    <2>1. PICK u \in Run :
             /\ Becomes(r, u) /\ u.since = run[r].since
             /\ u.since # 0 /\ u.pc # "page" => u.next < u.low
             /\ u.pages = 1 /\ u.top - u.next <= PageSize
      BY <1>5, ListStep
    <2>2. Bounded(u)
      BY <1>1, <2>1 DEF Bounded
    <2>3. now' = now /\ lastOk' = lastOk
      BY <1>5 DEF List, history
    <2> QED BY <2>1, <2>2, <2>3, BoundKept
  <1>6. ASSUME NEW r \in Runners, Page(r) PROVE BoundInv'
    <2>1. PICK u \in Run :
             /\ Becomes(r, u) /\ SameRest(run[r], u) /\ Reading(run[r])
             /\ Reading(u) =>
                   /\ u.since # 0 /\ u.pc # "page" => u.next < u.low
                   /\ u.pages = run[r].pages + 1 /\ run[r].next - u.next <= PageSize
      BY <1>6, PageStep
    <2>2. now' = now /\ lastOk' = lastOk
      BY <1>6 DEF Page, history
    <2>3. ASSUME Reading(u), u.since # 0 PROVE u.top - u.next <= u.pages * PageSize
      <3>1. u.top = run[r].top /\ run[r].top - run[r].next <= run[r].pages * PageSize
        BY <2>1, <2>3 DEF SameRest, BoundInv, Bounded
      <3>2. u.next \in Nat
        BY ConstantsAssumption DEF Run
      <3>3. /\ run[r].pages * PageSize \in Nat
            /\ u.pages * PageSize = run[r].pages * PageSize + PageSize
        BY <1>1, <2>1, <2>3, MorePagesHoldMore
      <3> QED BY <1>1, <2>1, <2>3, <3>1, <3>2, <3>3
    <2>4. Bounded(u)
      BY <2>1, <2>3 DEF Bounded
    <2> QED BY <2>1, <2>2, <2>4, BoundKept DEF SameRest
  <1>7. ASSUME NEW r \in Runners, Fee(r) \/ Check(r) PROVE BoundInv'
    <2>1. PICK u \in Run : Becomes(r, u) /\ SameWindow(run[r], u)
      BY <1>7, FeeStep, CheckStep
    <2>2. Reading(run[r]) /\ run[r].pc # "page"
      BY <1>7 DEF Fee, Check, Goes, Reading
    <2>3. now' = now /\ lastOk' = lastOk
      BY <1>7 DEF Fee, Check, history
    <2>4. Bounded(u)
      BY <2>1, <2>2 DEF SameWindow, Bounded, BoundInv
    <2> QED BY <2>1, <2>3, <2>4, BoundKept DEF SameWindow
  <1>8. ASSUME NEW r \in Runners, Record(r) \/ RecordFailed(r) \/ Fails(r) PROVE BoundInv'
    <2>1. PICK u \in Run : Becomes(r, u) /\ ~Reading(u) /\ u.since \in {0, run[r].since}
      BY <1>8, EndStep DEF Idle
    <2>2. now' = now /\ lastOk' \in {lastOk, now}
      BY <1>8 DEF Record, RecordFailed, RecordsFailure, Fails, history
    <2> QED BY <2>1, <2>2, BoundKept DEF Bounded
  <1> QED BY <1>2, <1>3, <1>4, <1>5, <1>6, <1>7, <1>8 DEF Next, Works

\* A run that has gone through its window can succeed: its pages held it.
LEMMA OnlyFittingRunsRecord ==
    ASSUME TypeInv, BoundInv, NEW r \in Runners, Record(r)
    PROVE  CanSucceed(r)
  <1>1. run[r] \in Run /\ run[r].pc = "record"
    BY DEF TypeInv, TypeOK, Record, Goes
  <1>2. /\ run[r].top \in Nat /\ run[r].next \in Nat /\ run[r].low \in Nat
        /\ run[r].pages \in Nat /\ run[r].pages <= MaxPages
        /\ PageSize \in Nat /\ MaxPages \in Nat
    BY SMTT(40), <1>1, ConstantsAssumption DEF Run
  <1>3. ASSUME run[r].since # 0 PROVE run[r].top + 1 - run[r].low <= Capacity
    <2>1. run[r].top - run[r].next <= run[r].pages * PageSize /\ run[r].next < run[r].low
      BY <1>1, <1>3 DEF BoundInv, Bounded, Reading
    <2>2. /\ run[r].pages * PageSize \in Nat /\ MaxPages * PageSize \in Nat
          /\ run[r].pages * PageSize <= MaxPages * PageSize
      BY <1>2, MorePagesHoldMore
    <2> QED BY <1>2, <2>1, <2>2 DEF Capacity
  <1> QED BY <1>1, <1>3 DEF CanSucceed

\* What settles later leaves an oversized window where it starts, and longer.
LEMMA StaysOversized ==
    ASSUME TypeInv, Oversized, Settle
    PROVE  Oversized'
  <1> DEFINE t == IF lastOk > Overlap THEN lastOk - Overlap ELSE 0
  <1> DEFINE S == {k \in Settled : created[k] >= t} \cup {Len(created) + 1}
  <1> DEFINE Z == {k \in Settled' : created'[k] >= t} \cup {Len(created') + 1}
  <1>1. /\ Len(created) \in Nat /\ \A k \in Settled : k \in Nat /\ created[k] \in Nat
        /\ now \in Nat /\ lastOk \in Nat
    BY SettledAreTimed, ConstantsAssumption DEF TypeInv, TypeOK
  <1>2. /\ Len(created') = Len(created) + 1 /\ lastOk' = lastOk
        /\ \A k \in Settled : created'[k] = created[k]
    BY AppendProperties DEF TypeInv, TypeOK, Settled, Settle, history
  <1>3. WindowStart(lastOk) = Min(S) /\ WindowStart(lastOk)' = Min(Z)
    BY <1>2 DEF WindowStart, OldestSince
  <1>4. S \in SUBSET Nat /\ S # {} /\ Z \in SUBSET Nat /\ Z # {}
    BY <1>1, <1>2 DEF Settled
  <1>5. Capacity \in Nat
    BY ConstantsAssumption, MorePagesHoldMore DEF Capacity
  <1>6. Min(S) \in S /\ Min(S) \in Nat
    BY <1>4, MinOfSet
  <1>7. Min(S) \in Settled /\ created[Min(S)] >= t
    <2>1. Len(created) + 1 - Min(S) > Capacity
      BY <1>3 DEF Oversized
    <2>2. Min(S) # Len(created) + 1
      BY <1>1, <1>5, <1>6, <2>1
    <2> QED BY <1>6, <2>2
  <1>8. Min(S) \in Z
    BY <1>1, <1>2, <1>7 DEF Settled
  <1>9. Min(Z) \in Nat /\ Min(Z) <= Min(S)
    BY <1>4, <1>8, MinOfSet
  <1>10. Capacity' = Capacity
    BY DEF Capacity
  <1> HIDE DEF S, Z, t
  <1> QED BY <1>1, <1>2, <1>3, <1>5, <1>6, <1>9 DEF Oversized, Capacity

\* A run that lists the window of a run no newer than the last has it all to list.
LEMMA ListingStaysStuck ==
    ASSUME TypeInv, BoundInv, Stuck, NEW r \in Runners, List(r)
    PROVE  ~CanSucceed(r)'
  <1>1. PICK u \in Run :
           /\ Becomes(r, u) /\ Reading(u) /\ u.since = run[r].since
           /\ u.top = Len(created) /\ u.low = WindowStart(u.since)
    BY ListStep
  <1>2. run[r].pc = "list" /\ run[r].since # 0
    BY DEF Stuck, CanSucceed, List, Goes
  <1>3. /\ Len(created) \in Nat /\ lastOk \in 0..MaxTime /\ run[r].since \in 0..MaxTime
        /\ lastOk \in Nat /\ run[r].since \in Nat
    <2>1. lastOk \in 0..MaxTime /\ run[r] \in Run
      BY DEF TypeInv, TypeOK
    <2>2. run[r].since \in 0..MaxTime
      BY <2>1 DEF Run
    <2> QED BY <2>1, <2>2, SettledAreTimed, ConstantsAssumption DEF TypeInv
  <1>4. /\ WindowStart(run[r].since) <= WindowStart(lastOk)
        /\ WindowStart(run[r].since) \in Nat /\ WindowStart(lastOk) \in Nat
    BY <1>3, OlderReachesBack, WindowStartOf DEF BoundInv, TypeInv
  <1>5. Len(created) + 1 - WindowStart(lastOk) > Capacity
    BY DEF Stuck, Oversized
  <1>6. Capacity \in Nat
    BY ConstantsAssumption, MorePagesHoldMore DEF Capacity
  <1>7. ~(u.top + 1 - u.low <= Capacity) /\ u.since # 0
    BY <1>1, <1>2, <1>3, <1>4, <1>5, <1>6
  <1> QED BY <1>1, <1>7 DEF Becomes, CanSucceed, Capacity

\* A run that keeps its window, or ends, cannot succeed any more than before.
LEMMA RestStaysStuck ==
    ASSUME TypeInv, Oversized, NEW r \in Runners, ~CanSucceed(r),
           Start(r) \/ Page(r) \/ Fee(r) \/ Check(r) \/ RecordFailed(r) \/ Fails(r)
    PROVE  ~CanSucceed(r)'
  <1>1. CASE Start(r)
    <2>1. run'[r].pc = "list" /\ run'[r].since = lastOk
      BY <1>1 DEF Start, Goes, Idle, TypeInv, TypeOK
    <2> QED BY <2>1 DEF CanSucceed, Oversized
  <1>2. CASE Page(r) \/ Fee(r) \/ Check(r)
    <2>1. PICK u \in Run : /\ Becomes(r, u)
                           /\ u.since = run[r].since /\ u.top = run[r].top /\ u.low = run[r].low
      BY <1>2, PageStep, FeeStep, CheckStep DEF SameRest, SameWindow
    <2>2. run[r].pc \notin {"idle", "failing", "list"}
      BY <1>2 DEF Page, Fee, Check, Goes
    <2> QED BY <2>1, <2>2 DEF Becomes, CanSucceed, Capacity
  <1>3. CASE RecordFailed(r) \/ Fails(r)
    <2>1. run'[r].pc \in {"idle", "failing"}
      BY <1>3 DEF RecordFailed, RecordsFailure, Fails, Goes, At, Idle, TypeInv, TypeOK, Run
    <2> QED BY <2>1 DEF CanSucceed
  <1> QED BY <1>1, <1>2, <1>3

LEMMA StuckStep ==
    ASSUME TypeInv, BoundInv, Stuck, [Next]_vars
    PROVE  Stuck' /\ \A r \in Runners : ~Record(r)
  <1>1. \A r \in Runners : ~Record(r)
    BY OnlyFittingRunsRecord DEF Stuck
  <1>2. CASE Settle
    <2>1. Oversized'
      BY <1>2, StaysOversized DEF Stuck
    <2>2. run' = run
      BY <1>2 DEF Settle
    <2> QED BY <1>1, <2>1, <2>2 DEF Stuck, CanSucceed, Capacity
  <1>3. CASE Tick \/ (\E k \in Txns : Charge(k)) \/ UNCHANGED vars
    <2>1. UNCHANGED <<created, lastOk, run>>
      BY <1>3 DEF Tick, Charge, vars, history
    <2> QED BY <1>1, <2>1 DEF Stuck, Oversized, CanSucceed, Capacity, WindowStart, OldestSince, Settled
  <1>4. ASSUME NEW r \in Runners,
               Start(r) \/ List(r) \/ Page(r) \/ Fee(r) \/ Check(r) \/ RecordFailed(r) \/ Fails(r)
        PROVE  Stuck'
    <2>1. UNCHANGED <<created, lastOk>>
      BY <1>4 DEF Start, List, Page, Fee, Check, RecordFailed, RecordsFailure, Fails, history
    <2>2. Oversized'
      BY <2>1 DEF Stuck, Oversized, Capacity, WindowStart, OldestSince, Settled
    <2>3. ~CanSucceed(r)'
      BY <1>4, ListingStaysStuck, RestStaysStuck DEF Stuck
    <2>4. PICK u : Becomes(r, u)
      BY <1>4, StartStep, ListStep, PageStep, FeeStep, CheckStep, EndStep
    <2>5. ASSUME NEW s \in Runners PROVE ~CanSucceed(s)'
      <3>1. CASE s = r
        BY <2>3, <3>1
      <3>2. CASE s # r
        BY <2>4, <3>2 DEF Becomes, Stuck, CanSucceed, Capacity
      <3> QED BY <3>1, <3>2
    <2> QED BY <2>2, <2>5 DEF Stuck
  <1> QED BY <1>1, <1>2, <1>3, <1>4 DEF Next, Works

-----------------------------------------------------------------------------
\* The rows, the runs and the clock have their types; in particular a run has
\* something to do when it takes the newest transaction it has left.
THEOREM TypeCorrect == Spec => []TypeOK
  <1>1. Spec => []TypeInv
    BY TypeInvInit, TypeInvNext, PTL DEF Spec
  <1> QED BY <1>1, PTL DEF TypeInv

\* The ledger has a transaction's fee once, however many runs meet it, fail half
\* way or read the same hour again: the unique key of the fee's entry.
THEOREM FeesArePostedOnce == Spec => []FeePostedOnce
  <1>1. Init => TypeInv /\ FeesInv
    BY TypeInvInit, FeesInvInit
  <1>2. (TypeInv /\ FeesInv) /\ [Next]_vars => (TypeInv /\ FeesInv)'
    BY TypeInvNext, FeesInvNext
  <1>3. FeesInv => FeePostedOnce
    BY DEF FeesInv
  <1> QED BY <1>1, <1>2, <1>3, PTL DEF Spec

\* The rows of all successful runs together count a fee no more often than the
\* ledger has it: a run counts what it posted, and nobody else's.
THEOREM RowsDoNotOverstate == Spec => []FeesNotOverstated
  <1>1. Init => TypeInv /\ FeesInv
    BY TypeInvInit, FeesInvInit
  <1>2. (TypeInv /\ FeesInv) /\ [Next]_vars => (TypeInv /\ FeesInv)'
    BY TypeInvNext, FeesInvNext
  <1>3. FeesInv => FeesNotOverstated
    BY DEF FeesInv
  <1> QED BY <1>1, <1>2, <1>3, PTL DEF Spec

\* What a successful run has gone through without reporting it missing is in the
\* ledger, with the ledger's amount and currency, and stays so.
THEOREM CleanRunsAreTrue == Spec => []CleanMeansCharged
  <1>1. Init => TypeInv /\ CleanInv
    BY TypeInvInit, CleanInvInit
  <1>2. (TypeInv /\ CleanInv) /\ [Next]_vars => (TypeInv /\ CleanInv)'
    BY TypeInvNext, CleanInvNext
  <1>3. CleanInv => CleanMeansCharged
    BY DEF CleanInv
  <1> QED BY <1>1, <1>2, <1>3, PTL DEF Spec

\* Nothing falls between two windows, as long as no run takes longer from its
\* listing to its row than the windows overlap: a window starts at the row, and
\* what settles while a run works is younger than its listing.
THEOREM WindowsMeet ==
    ASSUME MaxRun <= Overlap
    PROVE  Spec => []NothingSkipped
  <1>1. Init => TypeInv /\ WindowInv
    BY TypeInvInit, WindowInvInit
  <1>2. (TypeInv /\ WindowInv) /\ [Next]_vars => (TypeInv /\ WindowInv)'
    BY TypeInvNext, WindowInvNext
  <1>3. TypeInv /\ WindowInv => NothingSkipped
    BY NothingIsSkipped
  <1> QED BY <1>1, <1>2, <1>3, PTL DEF Spec

\* A window of more transactions than the pages hold is never reconciled: the run
\* fails, the watermark stays, and each later run has the same window to list and
\* what has settled since.
THEOREM OverflowCannotHeal == Spec => OverflowIsFinal
  <1>1. Init => TypeInv /\ BoundInv
    BY TypeInvInit, BoundInvInit
  <1>2. (TypeInv /\ BoundInv) /\ [Next]_vars => (TypeInv /\ BoundInv)'
    BY TypeInvNext, BoundInvNext
  <1>3. (TypeInv /\ BoundInv) /\ [Next]_vars
           => [Stuck => Stuck' /\ \A r \in Runners : ~Record(r)]_vars
    BY StuckStep
  <1> QED BY <1>1, <1>2, <1>3, PTL DEF Spec, OverflowIsFinal

=============================================================================
