--------------------------- MODULE IdentityProofs ---------------------------
(***************************************************************************)
(* Identity is correct for every number of requests, sessions, links and      *)
(* resets, and every limit on failed logins.                                 *)
(***************************************************************************)
EXTENDS Identity, FiniteSetTheorems, TLAPS

\* What the step of a request says about the rest of its record: a reset holds the
\* mark of its link from the moment it has it, and an issue those it supersedes.
Shaped(r) ==
    /\ r.pc \in {"consume", "change", "revoke", "commit"} => r.link \in Tokens
    /\ r.pc \in {"change", "revoke", "commit"} => r.marks = {r.link}
    /\ r.marks # {} => r.pc \in {"issue", "change", "revoke", "commit"}

HoldsRow(r) == r.pc \in {"revoke", "commit"}

DataOK ==
    /\ account \in BOOLEAN /\ locked \in BOOLEAN
    /\ password \in Passwords
    /\ failed \in Nat /\ guesses \in Nat /\ dropped \in 0..MaxDropped
    /\ session \in [Sessions -> Session]
    /\ token \in [Tokens -> {"none", "live", "superseded", "used", "expired", "gone"}]
    /\ setBy \in [Passwords -> Tokens \cup {None}]
    /\ older \in [Tokens -> SUBSET Tokens]

TypeInv ==
    /\ DataOK
    /\ req \in [Handlers -> Request] /\ \A h \in Handlers : Shaped(req[h])
    /\ \A h \in Handlers : HoldsRow(req[h]) => password <= MaxResets
    /\ \A g, h \in Handlers : HoldsRow(req[g]) /\ HoldsRow(req[h]) => g = h

In(pc) == {h \in Handlers : req[h].pc = pc}

Limit == MAX_FAILED_LOGINS
Many  == Cardinality(Handlers)

\* With f failures counted, g guesses and d requests dead before the lock: until the
\* account is locked, every failure over the limit has its request among the l at the
\* lock, or dead; from then on only the c requests past the check can guess.
Ever(f, g, d)    == f <= Limit + 2 * Many + MaxDropped /\ g <= (Limit - 1) + Many + d
Open(f, g, d, l) == g <= f /\ g <= (Limit - 1) + l + d /\ f <= (Limit - 1) + Many + l + d
Shut(f, g, d, c) == g + c <= (Limit - 1) + Many + d /\ f + c <= Many

GuessInv ==
    /\ Ever(failed, guesses, dropped)
    /\ account /\ ~locked => Open(failed, guesses, dropped, Cardinality(In("lock")))
    /\ account /\ locked => Shut(failed, guesses, dropped, Cardinality(In("count")))

\* A link that a transaction has marked is not consumed, and is marked by no other;
\* the links that have set a password are spent.
LinksInv ==
    /\ ResetSpendsItsToken
    /\ \A h \in Handlers : req[h].marks \subseteq Unconsumed
    /\ \A g, h \in Handlers : g # h => req[g].marks \cap req[h].marks = {}
    /\ \A p \in 2..password : setBy[p] \in Tokens /\ token[setBy[p]] \in {"used", "gone"}

\* The links an issue has seen and not marked do not work any more.
Over(t) == token[t] \notin {"none", "live"}

NewestInv ==
    /\ \A t \in Tokens : token[t] = "live" => \A u \in older[t] : Over(u)
    /\ \A h \in Handlers : \A u \in req[h].seen : token[u] # "none"
    /\ \A h \in Handlers : req[h].pc = "issue" => \A u \in req[h].seen \ req[h].marks : Over(u)

\* What a reset about to commit does not revoke was inserted after it had looked.
SessionsInv ==
    /\ ResetEndsSessions
    /\ \A h \in Handlers : req[h].pc = "commit" =>
          \A s \in Live \ req[h].kill : session[s].late

-----------------------------------------------------------------------------
(* The steps of a request, and types. *)

\* The request h becomes u, and the others stay.
Becomes(h, u) ==
    /\ req' \in [Handlers -> Request] /\ req'[h] = u
    /\ \A g \in Handlers \ {h} : req'[g] = req[g]

LEMMA MovedRequest ==
    ASSUME TypeInv, NEW h \in Handlers, NEW u \in Request, req' = [req EXCEPT ![h] = u]
    PROVE  Becomes(h, u)
  BY DEF TypeInv, Becomes

LEMMA IdleIsRequest ==
    Idle \in Request /\ Idle.pc = "idle" /\ Idle.seen = {} /\ Idle.marks = {}
  BY DEF Idle, Request

\* The steps after which a request holds nothing.
Plain(h) ==
    \/ Login(h) \/ Clear(h) \/ Count(h) \/ Lock(h) \/ Rotate(h) \/ CreateSession(h)
    \/ AsksForLink(h) \/ Supersede(h) \/ Issue(h) \/ Commit(h)
    \/ \E t \in Tokens : UsesLink(h, t)
    \/ Fails(h)

LEMMA PlainStep ==
    ASSUME TypeInv, NEW h \in Handlers, Plain(h)
    PROVE  \E u \in Request :
              /\ Becomes(h, u) /\ u.marks = {} /\ (u.pc = "consume" => u.link \in Tokens)
              /\ u.pc \notin {"issue", "change", "revoke", "commit"}
              /\ u.seen \subseteq req[h].seen \cup Unconsumed
              /\ u.pc = "count" => Login(h)
              /\ u.pc = "lock" => req[h].pc = "count"
  <1>1. req[h] \in Request /\ password \in Passwords
    BY DEF TypeInv, DataOK
  <1>2. CASE req' = [req EXCEPT ![h] = Idle]
    BY <1>2, IdleIsRequest, MovedRequest
  <1>3. CASE Login(h)
    <2>1. [Idle EXCEPT !.pc = "clear", !.pass = password] \in Request
      BY <1>1 DEF Idle, Request
    <2>2. [Idle EXCEPT !.pc = "count"] \in Request
      BY DEF Idle, Request
    <2>3. CASE req' = [req EXCEPT ![h] = [Idle EXCEPT !.pc = "clear", !.pass = password]]
      <3>1. Becomes(h, [Idle EXCEPT !.pc = "clear", !.pass = password])
        BY <2>1, <2>3, MovedRequest
      <3> QED BY <2>1, <3>1 DEF Idle
    <2>4. CASE req' = [req EXCEPT ![h] = [Idle EXCEPT !.pc = "count"]]
      <3>1. Becomes(h, [Idle EXCEPT !.pc = "count"])
        BY <2>2, <2>4, MovedRequest
      <3> QED BY <1>3, <2>2, <3>1 DEF Idle
    <2> QED BY <1>3, <2>3, <2>4 DEF Login, Goes
  <1>4. ASSUME NEW pc \in {"rotate", "insert", "lock"}, req' = [req EXCEPT ![h] = At(h, pc)],
               req[h].pc \in {"clear", "rotate", "count"}, pc = "lock" => req[h].pc = "count"
        PROVE  \E u \in Request :
                  /\ Becomes(h, u) /\ u.marks = {} /\ u.pc = pc /\ u.seen = req[h].seen
    <2> DEFINE u == At(h, pc)
    <2>1. u \in Request /\ u.marks = req[h].marks /\ u.pc = pc /\ u.seen = req[h].seen
      BY <1>1, <1>4 DEF At, Request
    <2>2. req[h].marks = {}
      BY <1>4 DEF TypeInv, Shaped
    <2>3. Becomes(h, u)
      BY <1>4, <2>1, MovedRequest
    <2> QED BY <2>1, <2>2, <2>3
  <1>5. CASE Clear(h) \/ Rotate(h)
    <2>1. \E pc \in {"rotate", "insert"} : req' = [req EXCEPT ![h] = At(h, pc)]
      BY <1>5 DEF Clear, Rotate, Goes
    <2>2. req[h].pc \in {"clear", "rotate"}
      BY <1>5 DEF Clear, Rotate, Goes
    <2> QED BY <1>4, <2>1, <2>2
  <1>6. CASE Count(h) /\ req' = [req EXCEPT ![h] = At(h, "lock")]
    <2>1. req[h].pc = "count"
      BY <1>6 DEF Count, Tried, Goes
    <2> QED BY <1>4, <1>6, <2>1
  <1>7. CASE AsksForLink(h)
    <2> DEFINE u == [Idle EXCEPT !.pc = "supersede"]
    <2>1. u \in Request /\ u.pc = "supersede" /\ u.marks = {} /\ u.seen = {}
      BY DEF Idle, Request
    <2>2. Becomes(h, u)
      BY <1>7, <2>1, MovedRequest DEF AsksForLink, Goes
    <2> QED BY <2>1, <2>2
  <1>8. CASE Supersede(h)
    <2> DEFINE u == [At(h, "mark") EXCEPT !.seen = Unconsumed]
    <2>1. Unconsumed \in SUBSET Tokens
      BY DEF Unconsumed
    <2>2. req[h].marks = {}
      BY <1>8 DEF TypeInv, Shaped, Supersede, Goes
    <2>3. u \in Request /\ u.pc = "mark" /\ u.marks = {} /\ u.seen = Unconsumed
      BY <1>1, <2>1, <2>2 DEF At, Request
    <2>4. Becomes(h, u)
      BY <1>8, <2>3, MovedRequest DEF Supersede, Goes
    <2> QED BY <2>3, <2>4
  <1>9. ASSUME NEW t \in Tokens, UsesLink(h, t)
        PROVE  \E u \in Request :
                  Becomes(h, u) /\ u.marks = {} /\ u.pc = "consume" /\ u.link \in Tokens /\ u.seen = {}
    <2> DEFINE u == [Idle EXCEPT !.pc = "consume", !.link = t]
    <2>1. u \in Request /\ u.marks = {} /\ u.pc = "consume" /\ u.link \in Tokens /\ u.seen = {}
      BY <1>9 DEF Idle, Request
    <2>2. Becomes(h, u)
      BY <1>9, <2>1, MovedRequest DEF UsesLink, Goes
    <2> QED BY <2>1, <2>2
  <1>10. Count(h) => req' = [req EXCEPT ![h] = At(h, "lock")] \/ req' = [req EXCEPT ![h] = Idle]
    BY DEF Count, Tried, Goes
  <1>11. Lock(h) \/ CreateSession(h) \/ Issue(h) \/ Commit(h) \/ Fails(h)
            => req' = [req EXCEPT ![h] = Idle]
    BY DEF Lock, Locks, CreateSession, Issue, Commit, Fails, Goes
  <1> QED BY <1>2, <1>3, <1>5, <1>6, <1>7, <1>8, <1>9, <1>10, <1>11 DEF Plain

LEMMA MarkStep ==
    ASSUME TypeInv, NEW h \in Handlers, Mark(h)
    PROVE  \E u \in Request :
              /\ Becomes(h, u) /\ u.pc = "issue" /\ u.seen = req[h].seen
              /\ u.marks = req[h].seen \cap Unconsumed
  <1> DEFINE u == [At(h, "issue") EXCEPT !.marks = req[h].seen \cap Unconsumed]
  <1>1. req[h] \in Request
    BY DEF TypeInv, DataOK
  <1>2. Unconsumed \in SUBSET Tokens
    BY DEF Unconsumed
  <1>3. /\ u \in Request /\ u.pc = "issue" /\ u.seen = req[h].seen
        /\ u.marks = req[h].seen \cap Unconsumed
    BY <1>1, <1>2 DEF At, Request
  <1>4. Becomes(h, u)
    BY <1>3, MovedRequest DEF Mark, Marks, Goes
  <1> QED BY <1>3, <1>4

LEMMA ConsumeStep ==
    ASSUME TypeInv, NEW h \in Handlers, Consume(h)
    PROVE  \E u \in Request :
              /\ Becomes(h, u)
              /\ \/ u = Idle
                 \/ /\ u.pc = "change" /\ u.link \in Tokens /\ u.marks = {u.link}
                    /\ u.seen = req[h].seen /\ token[u.link] = "live" /\ ~LinkHeld(h, u.link)
  <1> DEFINE u == [At(h, "change") EXCEPT !.marks = {req[h].link}]
  <1>1. req[h] \in Request /\ req[h].link \in Tokens
    BY DEF TypeInv, Shaped, Consume, Consumes, Goes
  <1>2. /\ u \in Request /\ u.pc = "change" /\ u.link = req[h].link /\ u.marks = {req[h].link}
        /\ u.seen = req[h].seen
    BY <1>1 DEF At, Request
  <1>3. CASE token[req[h].link] = "live"
    <2>1. Becomes(h, u)
      BY <1>2, <1>3, MovedRequest DEF Consume, Consumes, Goes
    <2>2. ~LinkHeld(h, req[h].link)
      BY DEF Consume, Consumes
    <2> HIDE DEF u
    <2> QED BY <1>1, <1>2, <1>3, <2>1, <2>2
  <1>4. CASE token[req[h].link] # "live"
    BY <1>4, IdleIsRequest, MovedRequest DEF Consume, Consumes, Goes
  <1> QED BY <1>3, <1>4

LEMMA ResetStep ==
    ASSUME TypeInv, NEW h \in Handlers, Change(h) \/ Revoke(h)
    PROVE  \E u \in Request :
              /\ Becomes(h, u) /\ HoldsRow(u) /\ u.link \in Tokens /\ u.marks = {u.link}
              /\ u.marks = req[h].marks /\ u.seen = req[h].seen
              /\ u.pc = "commit" => u.kill = Live
              /\ Change(h) \/ HoldsRow(req[h])
  <1>1. /\ req[h] \in Request /\ req[h].link \in Tokens /\ req[h].marks = {req[h].link}
    BY DEF TypeInv, Shaped, Change, Revoke, Revokes, Goes
  <1>2. CASE Change(h)
    <2> DEFINE u == At(h, "revoke")
    <2>1. /\ u \in Request /\ u.pc = "revoke" /\ u.link = req[h].link /\ u.marks = req[h].marks
          /\ u.seen = req[h].seen
      BY <1>1 DEF At, Request
    <2>2. Becomes(h, u)
      BY <1>2, <2>1, MovedRequest DEF Change, Goes
    <2> QED BY <1>1, <1>2, <2>1, <2>2 DEF HoldsRow
  <1>3. CASE Revoke(h)
    <2> DEFINE u == [At(h, "commit") EXCEPT !.kill = Live]
    <2>1. Live \in SUBSET Sessions
      BY DEF Live
    <2>2. /\ u \in Request /\ u.pc = "commit" /\ u.link = req[h].link /\ u.marks = req[h].marks
          /\ u.seen = req[h].seen /\ u.kill = Live
      BY <1>1, <2>1 DEF At, Request
    <2>3. Becomes(h, u)
      BY <1>3, <2>2, MovedRequest DEF Revoke, Revokes, Goes
    <2>4. HoldsRow(req[h])
      BY <1>3 DEF Revoke, Revokes, Goes, HoldsRow
    <2> QED BY <1>1, <2>2, <2>3, <2>4 DEF HoldsRow
  <1> QED BY <1>2, <1>3


LEMMA TypeInvInit == Init => TypeInv
  <1> SUFFICES ASSUME Init PROVE TypeInv
    OBVIOUS
  <1>1. 1 \in Passwords /\ 0 \in 0..MaxDropped
    BY ConstantsAssumption DEF Passwords
  <1>2. DataOK
    BY <1>1 DEF Init, DataOK, Session
  <1>3. req \in [Handlers -> Request] /\ \A h \in Handlers : Shaped(req[h]) /\ ~HoldsRow(req[h])
    BY IdleIsRequest DEF Init, Shaped, HoldsRow
  <1> QED BY <1>2, <1>3 DEF TypeInv

\* A session that ends, and the steps that end one.
LEMMA DeadIsSession ==
    ASSUME DataOK, NEW s \in Sessions
    PROVE  Dead(s) \in Session /\ Dead(s).state = "dead"
  BY DEF DataOK, Dead, Session

LEMMA DataOKNext == TypeInv /\ [Next]_vars => DataOK'
  <1> SUFFICES ASSUME TypeInv, [Next]_vars PROVE DataOK'
    OBVIOUS
  <1>1. DataOK
    BY DEF TypeInv
  <1>2. ASSUME NEW h \in Handlers, Login(h) \/ AsksForLink(h) \/ Supersede(h) \/ Mark(h) \/ Consume(h)
                   \/ Change(h) \/ Revoke(h) \/ (\E t \in Tokens : UsesLink(h, t))
        PROVE  DataOK'
    BY <1>1, <1>2 DEF DataOK, Login, AsksForLink, Supersede, Mark, Marks, Consume, Consumes, Change,
                      Revoke, Revokes, UsesLink, userRow, links, tries
  <1>3. ASSUME NEW h \in Handlers, Clear(h) \/ Count(h) \/ Lock(h) PROVE DataOK'
    <2>1. failed' \in Nat /\ guesses' \in Nat /\ dropped' \in 0..MaxDropped /\ locked' \in BOOLEAN
      <3>1. Clear(h) => /\ failed' = 0 /\ guesses' = 0 /\ dropped' = 0 /\ locked' = FALSE
        BY DEF Clear
      <3>2. Count(h) => /\ failed' \in {failed, failed + 1} /\ guesses' \in {guesses, guesses + 1}
                        /\ dropped' = dropped /\ locked' = locked
        BY DEF Count, Tried
      <3>3. Lock(h) => /\ failed' \in {0, failed} /\ guesses' = guesses /\ dropped' = dropped
                       /\ locked' = account
        BY DEF Lock, Locks, tries
      <3>4. 0 \in 0..MaxDropped /\ failed + 1 \in Nat /\ guesses + 1 \in Nat
        BY <1>1, ConstantsAssumption DEF DataOK
      <3>5. locked' \in BOOLEAN
        BY <1>1, <1>3, <3>1, <3>2, <3>3, Zenon DEF DataOK
      <3>6. failed' \in Nat /\ guesses' \in Nat /\ dropped' \in 0..MaxDropped
        <4>1. failed \in Nat /\ guesses \in Nat /\ dropped \in 0..MaxDropped
          BY <1>1 DEF DataOK
        <4>2. failed' \in {0, failed, failed + 1} /\ guesses' \in {0, guesses, guesses + 1}
              /\ dropped' \in {0, dropped}
          BY <1>3, <3>1, <3>2, <3>3, Zenon
        <4> QED BY <3>4, <4>1, <4>2
      <3> QED BY <3>5, <3>6
    <2> QED BY <1>1, <1>3, <2>1 DEF DataOK, Clear, Count, Tried, Lock, Locks, links
  <1>4. ASSUME NEW h \in Handlers, Rotate(h) \/ CreateSession(h) PROVE DataOK'
    <2>1. session' \in [Sessions -> Session]
      <3>1. CASE session' = session
        BY <1>1, <3>1 DEF DataOK
      <3>2. ASSUME NEW s \in Live, session' = [session EXCEPT ![s] = Dead(s)]
            PROVE  session' \in [Sessions -> Session]
        BY <1>1, <3>2, DeadIsSession DEF DataOK, Live
      <3>3. ASSUME NEW s \in Sessions,
                   session' = [session EXCEPT ![s] = [state |-> "live", pass |-> req[h].pass,
                                                      late |-> Late(h)]]
            PROVE  session' \in [Sessions -> Session]
        <4>1. req[h].pass \in Passwords \cup {0}
          BY DEF TypeInv, Request
        <4>2. Late(h) \in BOOLEAN
          BY DEF Late
        <4> QED BY <1>1, <3>3, <4>1, <4>2 DEF DataOK, Session
      <3> QED BY <1>4, <3>1, <3>2, <3>3 DEF Rotate, CreateSession, Opens
    <2> QED BY <1>1, <1>4, <2>1 DEF DataOK, Rotate, CreateSession, userRow, links, tries
  <1>5. ASSUME NEW h \in Handlers, Issue(h) PROVE DataOK'
    <2>1. req[h].seen \in SUBSET Tokens
      BY DEF TypeInv, Request
    <2>2. token' \in [Tokens -> {"none", "live", "superseded", "used", "expired", "gone"}]
          /\ older' \in [Tokens -> SUBSET Tokens]
      BY <1>1, <1>5, <2>1 DEF DataOK, Issue
    <2> QED BY <1>1, <1>5, <2>2 DEF DataOK, Issue, userRow, tries
  <1>6. ASSUME NEW h \in Handlers, Commit(h) PROVE DataOK'
    <2>1. req[h].link \in Tokens /\ password <= MaxResets
      BY <1>6 DEF TypeInv, Shaped, HoldsRow, Commit, Goes
    <2>2. password' \in Passwords
      BY <1>1, <1>6, <2>1, ConstantsAssumption DEF DataOK, Commit, Passwords
    <2>3. session' \in [Sessions -> Session]
      BY <1>1, <1>6, DeadIsSession DEF DataOK, Commit
    <2>4. failed' = 0 /\ guesses' = 0 /\ dropped' = 0 /\ locked' = FALSE /\ 0 \in 0..MaxDropped
      BY <1>6, ConstantsAssumption DEF Commit
    <2>5. /\ token' \in [Tokens -> {"none", "live", "superseded", "used", "expired", "gone"}]
          /\ setBy' \in [Passwords -> Tokens \cup {None}]
          /\ older' = older /\ account' = account
      BY <1>1, <1>6, <2>1 DEF DataOK, Commit
    <2>6. locked' \in BOOLEAN /\ failed' \in Nat /\ guesses' \in Nat /\ dropped' \in 0..MaxDropped
      BY <2>4
    <2> QED BY <1>1, <2>2, <2>3, <2>5, <2>6 DEF DataOK
  <1>7. ASSUME NEW h \in Handlers, Fails(h) PROVE DataOK'
    <2>1. dropped' \in 0..MaxDropped
      BY <1>1, <1>7, ConstantsAssumption DEF DataOK, Fails
    <2> QED BY <1>1, <1>7, <2>1 DEF DataOK, Fails, userRow, links
  <1>8. ASSUME NEW t \in Tokens, LinkExpires(t) PROVE DataOK'
    BY <1>1, <1>8 DEF DataOK, LinkExpires, userRow, tries
  <1>9. ASSUME NEW s \in Sessions, EndSession(s) PROVE DataOK'
    <2>1. session' \in [Sessions -> Session]
      BY <1>1, <1>9, DeadIsSession DEF DataOK, EndSession
    <2> QED BY <1>1, <1>9, <2>1 DEF DataOK, EndSession, userRow, links, tries
  <1>10. CASE LockExpires
    <2>1. 0 \in 0..MaxDropped
      BY ConstantsAssumption
    <2> QED BY <1>1, <1>10, <2>1 DEF DataOK, LockExpires, links
  <1>11. CASE Delete
    <2>1. session' \in [Sessions -> Session]
      BY <1>1, <1>11, DeadIsSession DEF DataOK, Delete
    <2> QED BY <1>1, <1>11, <2>1 DEF DataOK, Delete, tries
  <1>12. CASE UNCHANGED vars
    BY <1>1, <1>12 DEF DataOK, vars, userRow, links, tries
  <1> QED BY <1>2, <1>3, <1>4, <1>5, <1>6, <1>7, <1>8, <1>9, <1>10, <1>11, <1>12 DEF Next

\* The steps that are nobody's, and the steps of a request.
Outside == (\E t \in Tokens : LinkExpires(t)) \/ (\E s \in Sessions : EndSession(s))
           \/ LockExpires \/ Delete

LEMMA NextCases ==
    Next => \/ Outside
            \/ \E h \in Handlers : Plain(h) \/ Mark(h) \/ Consume(h) \/ Change(h) \/ Revoke(h)
  BY DEF Next, Outside, Plain

LEMMA TypeInvNext == TypeInv /\ [Next]_vars => TypeInv'
  <1> SUFFICES ASSUME TypeInv, [Next]_vars PROVE TypeInv'
    OBVIOUS
  <1>1. DataOK'
    BY DataOKNext
  <1>2. CASE req' = req /\ password' = password
    BY <1>1, <1>2 DEF TypeInv
  <1>3. ASSUME NEW h \in Handlers, Plain(h) \/ Mark(h) \/ Consume(h) \/ Change(h) \/ Revoke(h)
        PROVE  TypeInv'
    <2>1. PICK u \in Request :
             /\ Becomes(h, u) /\ Shaped(u)
             /\ HoldsRow(u) => Change(h) \/ HoldsRow(req[h])
      <3>1. Plain(h) => \E u \in Request : Becomes(h, u) /\ Shaped(u) /\ ~HoldsRow(u)
        BY PlainStep DEF Shaped, HoldsRow
      <3>2. Mark(h) => \E u \in Request : Becomes(h, u) /\ Shaped(u) /\ ~HoldsRow(u)
        BY MarkStep DEF Shaped, HoldsRow
      <3>3. Consume(h) => \E u \in Request : Becomes(h, u) /\ Shaped(u) /\ ~HoldsRow(u)
        BY ConsumeStep, IdleIsRequest DEF Shaped, HoldsRow
      <3>4. Change(h) \/ Revoke(h) => \E u \in Request : Becomes(h, u) /\ Shaped(u)
                                         /\ (Change(h) \/ HoldsRow(req[h]))
        BY ResetStep DEF Shaped, HoldsRow
      <3> QED BY <1>3, <3>1, <3>2, <3>3, <3>4
    <2>2. req' \in [Handlers -> Request] /\ \A g \in Handlers : Shaped(req'[g])
      BY <2>1 DEF TypeInv, Becomes
    <2>3. HoldsRow(u) => \A g \in Handlers \ {h} : ~HoldsRow(req[g])
      <3>1. Change(h) => \A g \in Handlers \ {h} : ~HoldsRow(req[g])
        BY DEF Change, RowHeld, HoldsRow
      <3> QED BY <2>1, <3>1 DEF TypeInv
    <2>4. \A f, g \in Handlers : HoldsRow(req'[f]) /\ HoldsRow(req'[g]) => f = g
      BY <2>1, <2>3 DEF Becomes, TypeInv
    <2>5. \A g \in Handlers : HoldsRow(req'[g]) => password' <= MaxResets
      <3>1. CASE Commit(h)
        <4>1. HoldsRow(req[h]) /\ req'[h] = Idle
          BY <3>1 DEF Commit, Goes, HoldsRow, TypeInv
        <4>2. \A g \in Handlers : ~HoldsRow(req'[g])
          BY <2>1, <4>1, IdleIsRequest DEF TypeInv, Becomes, HoldsRow
        <4> QED BY <4>2
      <3>2. CASE ~Commit(h)
        <4>1. password' = password
          BY <1>3, <3>2 DEF Plain, Login, Clear, Count, Tried, Lock, Locks, Rotate, CreateSession,
                            AsksForLink, Supersede, Issue, UsesLink, Fails, Mark, Marks, Consume,
                            Consumes, Change, Revoke, Revokes, userRow
        <4>2. HoldsRow(u) => password <= MaxResets
          <5>1. Change(h) => password <= MaxResets
            BY DEF Change
          <5> QED BY <2>1, <5>1 DEF TypeInv
        <4> QED BY <2>1, <4>1, <4>2 DEF Becomes, TypeInv
      <3> QED BY <3>1, <3>2
    <2> QED BY <1>1, <2>2, <2>4, <2>5 DEF TypeInv
  <1>4. Outside \/ UNCHANGED vars => req' = req /\ password' = password
    BY DEF Outside, LinkExpires, EndSession, LockExpires, Delete, vars, userRow
  <1> QED BY <1>2, <1>3, <1>4, NextCases


-----------------------------------------------------------------------------
(* Reset links. *)

\* Steps that neither issue a link nor spend one.
Unlinked(h) ==
    \/ Login(h) \/ Clear(h) \/ Count(h) \/ Lock(h) \/ Rotate(h) \/ CreateSession(h)
    \/ AsksForLink(h) \/ Supersede(h) \/ Fails(h)
    \/ \E t \in Tokens : UsesLink(h, t)
    \/ Mark(h) \/ Consume(h) \/ Change(h) \/ Revoke(h)

LEMMA UnlinkedKeeps ==
    ASSUME NEW h \in Handlers, Unlinked(h)
    PROVE  UNCHANGED <<token, setBy, older, password, account>>
  BY DEF Unlinked, Login, Clear, Count, Tried, Lock, Locks, Rotate, CreateSession, AsksForLink,
         Supersede, UsesLink, Fails, Mark, Marks, Consume, Consumes, Change, Revoke, Revokes,
         userRow, links

\* What such a step marks and has seen.
LEMMA UnlinkedStep ==
    ASSUME TypeInv, LinksInv, NEW h \in Handlers, Unlinked(h)
    PROVE  \E u \in Request :
              /\ Becomes(h, u) /\ u.marks \subseteq Unconsumed
              /\ \A g \in Handlers \ {h} : req[g].marks \cap u.marks = {}
              /\ u.seen \subseteq req[h].seen \cup Unconsumed
              /\ u.pc = "issue" => u.seen \ u.marks \subseteq req[h].seen \ Unconsumed
  <1>1. CASE Mark(h)
    <2>1. PICK u \in Request :
             /\ Becomes(h, u) /\ u.pc = "issue" /\ u.seen = req[h].seen
             /\ u.marks = req[h].seen \cap Unconsumed
      BY <1>1, MarkStep
    <2>2. \A g \in Handlers \ {h} : req[g].marks \cap req[h].seen = {}
      BY <1>1 DEF Mark, Marks, LinkHeld
    <2> QED BY <2>1, <2>2
  <1>2. CASE Consume(h)
    <2>1. PICK u \in Request :
             /\ Becomes(h, u)
             /\ \/ u = Idle
                \/ /\ u.pc = "change" /\ u.link \in Tokens /\ u.marks = {u.link}
                   /\ u.seen = req[h].seen /\ token[u.link] = "live" /\ ~LinkHeld(h, u.link)
      BY <1>2, ConsumeStep
    <2>2. CASE u = Idle
      BY <2>1, <2>2, IdleIsRequest
    <2>3. CASE u # Idle
      <3>1. u.marks \subseteq Unconsumed
        BY <2>1, <2>3 DEF Unconsumed
      <3>2. \A g \in Handlers \ {h} : u.link \notin req[g].marks
        BY <2>1, <2>3 DEF LinkHeld
      <3> QED BY <2>1, <2>3, <3>1, <3>2
    <2> QED BY <2>2, <2>3
  <1>3. CASE Change(h) \/ Revoke(h)
    <2>1. PICK u \in Request :
             /\ Becomes(h, u) /\ HoldsRow(u) /\ u.marks = req[h].marks /\ u.seen = req[h].seen
      BY <1>3, ResetStep
    <2> QED BY <2>1 DEF LinksInv, HoldsRow
  <1>4. CASE Plain(h)
    <2>1. \E u \in Request :
             /\ Becomes(h, u) /\ u.marks = {} /\ u.pc # "issue"
             /\ u.seen \subseteq req[h].seen \cup Unconsumed
      BY <1>4, PlainStep
    <2> QED BY <2>1
  <1> QED BY <1>1, <1>2, <1>3, <1>4 DEF Unlinked, Plain

LEMMA LinksCases ==
    Next => \/ \E h \in Handlers : Unlinked(h) \/ Issue(h) \/ Commit(h)
            \/ (\E t \in Tokens : LinkExpires(t)) \/ (\E s \in Sessions : EndSession(s))
            \/ LockExpires \/ Delete
  BY DEF Next, Unlinked

\* The record of an issue or a reset that commits.
LEMMA CommitStep ==
    ASSUME TypeInv, NEW h \in Handlers, Issue(h) \/ Commit(h)
    PROVE  Becomes(h, Idle)
  BY IdleIsRequest, MovedRequest DEF Issue, Commit, Goes

\* The passwords that have been set are all named.
LEMMA PasswordsSet ==
    ASSUME TypeInv
    PROVE  password \in Nat /\ 2..password \subseteq Passwords
  BY ConstantsAssumption DEF TypeInv, DataOK, Passwords

LEMMA LinksInvInit == Init => LinksInv
  <1> SUFFICES ASSUME Init PROVE LinksInv
    OBVIOUS
  <1>1. 2..password = {}
    BY DEF Init
  <1> QED BY <1>1, IdleIsRequest DEF Init, LinksInv, ResetSpendsItsToken

LEMMA LinksInvNext == TypeInv /\ LinksInv /\ [Next]_vars => LinksInv'
  <1> SUFFICES ASSUME TypeInv, LinksInv, [Next]_vars PROVE LinksInv'
    OBVIOUS
  <1>1. CASE UNCHANGED <<token, setBy, password, req>>
    BY <1>1 DEF LinksInv, ResetSpendsItsToken, Unconsumed
  <1>2. ASSUME NEW h \in Handlers, NEW u \in Request, Becomes(h, u), UNCHANGED <<token, setBy, password>>,
               u.marks \subseteq Unconsumed, \A g \in Handlers \ {h} : req[g].marks \cap u.marks = {}
        PROVE  LinksInv'
    <2>1. ResetSpendsItsToken' /\ Unconsumed' = Unconsumed
      BY <1>2 DEF LinksInv, ResetSpendsItsToken, Unconsumed
    <2>2. \A g \in Handlers : req'[g].marks \subseteq Unconsumed
      BY <1>2 DEF LinksInv, Becomes
    <2>3. \A f, g \in Handlers : f # g => req'[f].marks \cap req'[g].marks = {}
      BY <1>2 DEF LinksInv, Becomes
    <2> QED BY <1>2, <2>1, <2>2, <2>3 DEF LinksInv
  <1>3. ASSUME NEW h \in Handlers, Issue(h) PROVE LinksInv'
    <2>1. Becomes(h, Idle)
      BY <1>3, CommitStep
    <2>2. UNCHANGED <<setBy, password>>
      BY <1>3 DEF Issue, userRow
    <2>3. CASE token' = token
      BY <2>1, <2>2, <2>3, <1>2, IdleIsRequest
    <2>4. ASSUME NEW t \in Tokens, token[t] = "none",
                 token' = [v \in Tokens |-> IF v = t THEN "live"
                             ELSE IF v \in req[h].marks THEN "superseded" ELSE token[v]]
          PROVE  LinksInv'
      <3>1. \A v \in Tokens : token[v] \in {"used", "gone"} => token'[v] = token[v]
        BY <2>4 DEF LinksInv, Unconsumed
      <3>2. \A v \in Tokens : token'[v] = "used" => token[v] = "used"
        BY <2>4
      <3>3. \A v \in Unconsumed : v \notin req[h].marks => token'[v] = token[v]
        BY <2>4 DEF Unconsumed
      <3>4. \A g \in Handlers : req'[g].marks \subseteq Unconsumed'
        <4>1. ASSUME NEW g \in Handlers \ {h}, NEW v \in req[g].marks PROVE v \in Unconsumed'
          <5>1. v \in Unconsumed /\ v \notin req[h].marks
            BY <4>1 DEF LinksInv
          <5> QED BY <3>3, <5>1 DEF Unconsumed
        <4> QED BY <2>1, <4>1, IdleIsRequest DEF Becomes
      <3>5. \A f, g \in Handlers : f # g => req'[f].marks \cap req'[g].marks = {}
        BY <2>1, IdleIsRequest DEF LinksInv, Becomes
      <3> QED BY <2>2, <3>1, <3>2, <3>4, <3>5 DEF LinksInv, ResetSpendsItsToken
    <2> QED BY <1>3, <2>3, <2>4 DEF Issue
  <1>4. ASSUME NEW h \in Handlers, Commit(h) PROVE LinksInv'
    <2> DEFINE t == req[h].link
    <2>1. /\ Becomes(h, Idle) /\ t \in Tokens /\ req[h].marks = {t} /\ t \in Unconsumed
      BY <1>4, CommitStep DEF TypeInv, Shaped, LinksInv, Commit, Goes
    <2>2. password' = password + 1 /\ password \in Nat /\ password + 1 \in Passwords
          /\ 2..password \subseteq Passwords
      BY <1>4, DataOKNext, PasswordsSet DEF Commit, DataOK
    <2>3. /\ token'[t] = "used" /\ \A v \in Tokens \ {t} : token'[v] = token[v]
          /\ setBy'[password + 1] = t /\ \A p \in 2..password : setBy'[p] = setBy[p]
      BY <1>4, <2>1, <2>2 DEF Commit, TypeInv, DataOK
    <2>4. \A p \in 2..password : setBy[p] \in Tokens \ {t}
      BY <2>1 DEF LinksInv, Unconsumed
    <2>5. \A p \in 2..password' : p = password + 1 \/ p \in 2..password
      BY <2>2
    <2>6. password + 1 \in 2..password' /\ 2..password \subseteq 2..password'
      <3>1. password >= 1
        BY DEF TypeInv, DataOK, Passwords
      <3> QED BY <2>2, <3>1
    <2> HIDE DEF t
    <2>7. \A p, q \in 2..password' : setBy'[p] = setBy'[q] => p = q
      BY <2>3, <2>4, <2>5 DEF LinksInv, ResetSpendsItsToken
    <2>8. \A v \in Tokens : token'[v] = "used" => \E p \in 2..password' : setBy'[p] = v
      <3> SUFFICES ASSUME NEW v \in Tokens, token'[v] = "used"
                   PROVE  \E p \in 2..password' : setBy'[p] = v
        OBVIOUS
      <3>1. CASE v = t
        BY <2>3, <2>6, <3>1
      <3>2. CASE v # t
        <4>1. PICK p \in 2..password : setBy[p] = v
          BY <2>3, <3>2 DEF LinksInv, ResetSpendsItsToken
        <4> QED BY <2>3, <2>6, <4>1
      <3> QED BY <3>1, <3>2
    <2>9. \A p \in 2..password' : setBy'[p] \in Tokens /\ token'[setBy'[p]] \in {"used", "gone"}
      BY <2>1, <2>3, <2>4, <2>5 DEF LinksInv
    <2>10. \A g \in Handlers : req'[g].marks \subseteq Unconsumed'
      <3>1. ASSUME NEW g \in Handlers \ {h}, NEW v \in req[g].marks PROVE v \in Unconsumed'
        <4>1. v \in Unconsumed /\ v # t
          BY <2>1, <3>1 DEF LinksInv
        <4> QED BY <2>3, <4>1 DEF Unconsumed
      <3> QED BY <2>1, <3>1, IdleIsRequest DEF Becomes
    <2>11. \A f, g \in Handlers : f # g => req'[f].marks \cap req'[g].marks = {}
      BY <2>1, IdleIsRequest DEF LinksInv, Becomes
    <2> QED BY <2>7, <2>8, <2>9, <2>10, <2>11 DEF LinksInv, ResetSpendsItsToken
  <1>5. ASSUME NEW t \in Tokens, LinkExpires(t) PROVE LinksInv'
    <2>1. UNCHANGED <<setBy, password, req>> /\ token[t] = "live"
          /\ token'[t] = "expired" /\ \A v \in Tokens \ {t} : token'[v] = token[v]
      BY <1>5 DEF LinkExpires, userRow, TypeInv, DataOK
    <2>2. Unconsumed' = Unconsumed
      BY <2>1 DEF Unconsumed
    <2>3. \A v \in Tokens : token'[v] \in {"used", "gone"} <=> token[v] \in {"used", "gone"}
      BY <2>1
    <2>4. \A v \in Tokens : token'[v] = "used" => token[v] = "used"
      BY <2>1
    <2> QED BY <2>1, <2>2, <2>3, <2>4 DEF LinksInv, ResetSpendsItsToken
  <1>6. CASE Delete
    <2>1. UNCHANGED <<setBy, password, req>> /\ (\A h \in Handlers : req[h].marks = {})
          /\ \A v \in Tokens : token'[v] = IF token[v] = "none" THEN "none" ELSE "gone"
      BY <1>6 DEF Delete
    <2> QED BY <2>1 DEF LinksInv, ResetSpendsItsToken
  <1>7. LockExpires \/ (\E s \in Sessions : EndSession(s)) \/ UNCHANGED vars
           => UNCHANGED <<token, setBy, password, req>>
    BY DEF LockExpires, EndSession, vars, userRow, links
  <1>8. ASSUME NEW h \in Handlers, Unlinked(h) PROVE LinksInv'
    BY <1>2, <1>8, UnlinkedKeeps, UnlinkedStep
  <1> QED BY <1>1, <1>3, <1>4, <1>5, <1>6, <1>7, <1>8, LinksCases


\* A link that is not there, or does not work, works later only if it is issued.
LEMMA LinksAge ==
    ASSUME TypeInv, LinksInv, [Next]_vars, NEW t \in Tokens
    PROVE  /\ token[t] # "none" => token'[t] # "none"
           /\ Over(t) => Over(t)'
           /\ token'[t] = "live" /\ token[t] # "live" => \E h \in Handlers : Issue(h)
  <1>1. CASE token' = token
    BY <1>1 DEF Over
  <1>2. ASSUME NEW h \in Handlers, Issue(h)
        PROVE  (token[t] # "none" => token'[t] # "none") /\ (Over(t) => Over(t)')
    BY <1>2 DEF Issue, Over
  <1>3. ASSUME NEW h \in Handlers, Commit(h)
        PROVE  token'[t] = token[t] \/ token'[t] = "used"
    BY <1>3 DEF Commit, TypeInv, DataOK
  <1>4. ASSUME NEW v \in Tokens, LinkExpires(v)
        PROVE  token'[t] = token[t] \/ (token[t] = "live" /\ token'[t] = "expired")
    BY <1>4 DEF LinkExpires, TypeInv, DataOK
  <1>5. CASE Delete
    BY <1>5 DEF Delete, Over
  <1>6. LockExpires \/ (\E s \in Sessions : EndSession(s)) \/ UNCHANGED vars => token' = token
    BY DEF LockExpires, EndSession, vars, links
  <1>7. ASSUME NEW h \in Handlers, Unlinked(h) PROVE token' = token
    BY <1>7, UnlinkedKeeps
  <1> QED BY <1>1, <1>2, <1>3, <1>4, <1>5, <1>6, <1>7, LinksCases DEF Over

LEMMA NewestInvInit == Init => NewestInv
  BY IdleIsRequest DEF Init, NewestInv

LEMMA NewestInvNext == TypeInv /\ LinksInv /\ NewestInv /\ [Next]_vars => NewestInv'
  <1> SUFFICES ASSUME TypeInv, LinksInv, NewestInv, [Next]_vars PROVE NewestInv'
    OBVIOUS
  <1>1. \A t \in Tokens : /\ token[t] # "none" => token'[t] # "none"
                          /\ Over(t) => token'[t] \notin {"none", "live"}
                          /\ token'[t] = "live" /\ token[t] # "live" => \E h \in Handlers : Issue(h)
    BY LinksAge DEF Over
  <1>2. (\A t \in Tokens : older[t] \subseteq Tokens) /\ \A h \in Handlers : req[h].seen \subseteq Tokens
    BY DEF TypeInv, DataOK, Request
  <1>4. ASSUME UNCHANGED req
        PROVE  /\ \A g \in Handlers : \A t \in req'[g].seen : token'[t] # "none"
               /\ \A g \in Handlers : req'[g].pc = "issue" => \A t \in req'[g].seen \ req'[g].marks : Over(t)'
    BY <1>1, <1>2, <1>4 DEF NewestInv, Over
  <1>5. ASSUME NEW h \in Handlers, NEW u \in Request, Becomes(h, u),
               u.seen \subseteq req[h].seen \cup Unconsumed,
               u.pc = "issue" => u.seen \ u.marks \subseteq req[h].seen \ Unconsumed
        PROVE  /\ \A g \in Handlers : \A t \in req'[g].seen : token'[t] # "none"
               /\ \A g \in Handlers : req'[g].pc = "issue" => \A t \in req'[g].seen \ req'[g].marks : Over(t)'
    <2>1. \A t \in u.seen : t \in Tokens /\ token'[t] # "none"
      BY <1>1, <1>2, <1>5 DEF NewestInv, Unconsumed
    <2>2. u.pc = "issue" => \A t \in u.seen \ u.marks : Over(t)'
      <3>1. \A t \in Tokens : t \notin Unconsumed /\ token[t] # "none" => Over(t)
        BY DEF Unconsumed, Over
      <3> QED BY <1>1, <1>2, <1>5, <3>1 DEF NewestInv, Over
    <2>3. ASSUME NEW g \in Handlers, NEW t \in req'[g].seen PROVE token'[t] # "none"
      BY <1>1, <1>2, <1>5, <2>1, <2>3 DEF NewestInv, Becomes
    <2>4. ASSUME NEW g \in Handlers, req'[g].pc = "issue", NEW t \in req'[g].seen \ req'[g].marks
          PROVE  Over(t)'
      BY <1>1, <1>2, <1>5, <2>2, <2>4 DEF NewestInv, Becomes, Over
    <2> QED BY <2>3, <2>4
  <1>6. ASSUME NEW h \in Handlers, Unlinked(h) PROVE NewestInv'
    <2>1. UNCHANGED <<token, older>>
      BY <1>6, UnlinkedKeeps
    <2>2. \A t \in Tokens : token'[t] = "live" => \A u \in older'[t] : Over(u)'
      BY <2>1 DEF NewestInv, Over
    <2> QED BY <1>5, <1>6, <2>2, UnlinkedStep DEF NewestInv
  <1>7. ASSUME NEW h \in Handlers, Issue(h) PROVE NewestInv'
    <2>1. Becomes(h, Idle)
      BY <1>7, CommitStep
    <2>2. \A t \in Tokens : token'[t] = "live" => \A u \in older'[t] : Over(u)'
      <3>1. CASE UNCHANGED <<token, older>>
        BY <3>1 DEF NewestInv, Over
      <3>2. ASSUME NEW v \in Tokens, token[v] = "none",
                   token' = [t \in Tokens |-> IF t = v THEN "live"
                               ELSE IF t \in req[h].marks THEN "superseded" ELSE token[t]],
                   older' = [older EXCEPT ![v] = req[h].seen]
            PROVE  \A t \in Tokens : token'[t] = "live" => \A u \in older'[t] : Over(u)'
        <4>1. ASSUME NEW u \in req[h].seen PROVE Over(u)'
          <5>1. u \in Tokens /\ u # v
            BY <1>2, <3>2, <4>1 DEF NewestInv
          <5>2. CASE u \in req[h].marks
            BY <3>2, <5>1, <5>2 DEF Over
          <5>3. CASE u \notin req[h].marks
            BY <1>1, <1>7, <4>1, <5>1, <5>3 DEF NewestInv, Over, Issue, Goes
          <5> QED BY <5>2, <5>3
        <4>2. older'[v] = req[h].seen /\ \A t \in Tokens \ {v} : older'[t] = older[t]
          BY <3>2 DEF TypeInv, DataOK
        <4>3. \A t \in Tokens \ {v} : token'[t] = "live" => token[t] = "live"
          BY <3>2
        <4> QED BY <1>1, <1>2, <4>1, <4>2, <4>3 DEF NewestInv, Over
      <3> QED BY <1>7, <3>1, <3>2 DEF Issue
    <2>3. Idle.pc # "issue" /\ Idle.seen = {} /\ Idle \in Request
      BY IdleIsRequest
    <2> QED BY <1>5, <2>1, <2>2, <2>3 DEF NewestInv
  <1>8. ASSUME NEW h \in Handlers, Commit(h) PROVE NewestInv'
    <2>1. Becomes(h, Idle) /\ UNCHANGED older
      BY <1>8, CommitStep DEF Commit
    <2>2. \A t \in Tokens : token'[t] = token[t] \/ token'[t] = "used"
      BY <1>8 DEF Commit, TypeInv, DataOK
    <2>3. \A t \in Tokens : token'[t] = "live" => \A u \in older'[t] : Over(u)'
      BY <1>1, <1>2, <2>1, <2>2 DEF NewestInv, Over
    <2>4. Idle.pc # "issue" /\ Idle.seen = {} /\ Idle \in Request
      BY IdleIsRequest
    <2> QED BY <1>5, <2>1, <2>3, <2>4 DEF NewestInv
  <1>9. ASSUME UNCHANGED <<older, req>>, \A t \in Tokens : token'[t] = "live" => token[t] = "live"
        PROVE  NewestInv'
    <2>1. \A t \in Tokens : token'[t] = "live" => \A u \in older'[t] : Over(u)'
      BY <1>1, <1>2, <1>9 DEF NewestInv, Over
    <2> QED BY <1>4, <1>9, <2>1 DEF NewestInv
  <1>10. ASSUME (\E t \in Tokens : LinkExpires(t)) \/ (\E s \in Sessions : EndSession(s))
                \/ LockExpires \/ Delete \/ UNCHANGED vars
         PROVE  NewestInv'
    <2>1. UNCHANGED <<older, req>>
      BY <1>10 DEF LinkExpires, EndSession, LockExpires, Delete, vars, links
    <2>2. \A t \in Tokens : token'[t] = "live" => token[t] = "live"
      BY <1>10 DEF LinkExpires, EndSession, LockExpires, Delete, vars, links, TypeInv, DataOK
    <2> QED BY <1>9, <2>1, <2>2
  <1> QED BY <1>6, <1>7, <1>8, <1>10, LinksCases


-----------------------------------------------------------------------------
(* Sessions, and the account's end. *)

\* But for a login that opens one, a step leaves a live session alone or ends it.
SessionsEnd == \A s \in Live' : s \in Live /\ session'[s] = session[s]

LEMMA SessionsOnlyEnd ==
    ASSUME TypeInv, [Next]_vars, \A h \in Handlers : ~CreateSession(h)
    PROVE  SessionsEnd
  <1>1. session \in [Sessions -> Session]
    BY DEF TypeInv, DataOK
  <1>2. CASE session' = session
    BY <1>2 DEF SessionsEnd, Live
  <1>3. ASSUME NEW K \in SUBSET Sessions,
               \A s \in Sessions : session'[s] = IF s \in K THEN Dead(s) ELSE session[s]
        PROVE  SessionsEnd
    <2>1. \A s \in K : session'[s].state = "dead"
      BY <1>3, DeadIsSession DEF TypeInv
    <2> QED BY <1>3, <2>1 DEF SessionsEnd, Live
  <1>4. ASSUME NEW s \in Sessions, session' = [session EXCEPT ![s] = Dead(s)] PROVE SessionsEnd
    <2>1. \A q \in Sessions : session'[q] = IF q \in {s} THEN Dead(q) ELSE session[q]
      BY <1>1, <1>4
    <2> QED BY <1>3, <2>1
  <1>5. ASSUME NEW h \in Handlers, Rotate(h) PROVE SessionsEnd
    BY <1>2, <1>4, <1>5 DEF Rotate, Live
  <1>6. ASSUME NEW h \in Handlers, Commit(h) PROVE SessionsEnd
    <2>1. req[h].kill \in SUBSET Sessions
      BY DEF TypeInv, Request
    <2> QED BY <1>3, <1>6, <2>1 DEF Commit
  <1>7. CASE Delete
    <2>1. Live \in SUBSET Sessions
      BY DEF Live
    <2> QED BY <1>3, <1>7, <2>1 DEF Delete
  <1>8. ASSUME NEW s \in Sessions, EndSession(s) PROVE SessionsEnd
    BY <1>4, <1>8 DEF EndSession
  <1>9. ASSUME NEW h \in Handlers,
               \/ Login(h) \/ Clear(h) \/ Count(h) \/ Lock(h) \/ AsksForLink(h) \/ Supersede(h)
               \/ Mark(h) \/ Issue(h) \/ Consume(h) \/ Change(h) \/ Revoke(h)
               \/ (\E t \in Tokens : UsesLink(h, t)) \/ Fails(h)
        PROVE  session' = session
    BY <1>9 DEF Login, Clear, Count, Tried, Lock, Locks, AsksForLink, Supersede, Mark, Marks, Issue,
                Consume, Consumes, Change, Revoke, Revokes, UsesLink, Fails
  <1>10. LockExpires \/ (\E t \in Tokens : LinkExpires(t)) \/ UNCHANGED vars => session' = session
    BY DEF LockExpires, LinkExpires, vars
  <1> QED BY <1>2, <1>5, <1>6, <1>7, <1>8, <1>9, <1>10 DEF Next

LEMMA GoneNext == TypeInv /\ LinksInv /\ NothingOutlivesAccount /\ [Next]_vars
                     => NothingOutlivesAccount'
  <1> SUFFICES ASSUME TypeInv, LinksInv, NothingOutlivesAccount, [Next]_vars, ~account'
               PROVE  Live' = {} /\ \A t \in Tokens : token'[t] # "live"
    BY DEF NothingOutlivesAccount
  <1>1. CASE Delete
    <2>1. Live' \subseteq Live /\ \A s \in Live : session'[s].state = "dead"
      <3>1. SessionsEnd
        BY <1>1, SessionsOnlyEnd, IdleIsRequest DEF Delete, CreateSession, Goes, TypeInv
      <3>2. \A s \in Live : session'[s] = Dead(s)
        BY <1>1 DEF Delete, Live
      <3> QED BY <3>1, <3>2, DeadIsSession DEF SessionsEnd, TypeInv, Live
    <2>2. \A t \in Tokens : token'[t] # "live"
      BY <1>1 DEF Delete
    <2> QED BY <2>1, <2>2 DEF Live
  <1>2. CASE account /\ ~Delete
    <2>1. ASSUME NEW h \in Handlers, Unlinked(h) \/ Issue(h) \/ Commit(h) PROVE account' = account
      BY <2>1, UnlinkedKeeps DEF Issue, Commit, userRow
    <2>2. (\E t \in Tokens : LinkExpires(t)) \/ (\E s \in Sessions : EndSession(s)) \/ LockExpires
             \/ UNCHANGED vars => account' = account
      BY DEF LinkExpires, EndSession, LockExpires, vars, userRow
    <2> QED BY <1>2, <2>1, <2>2, LinksCases
  <1>3. CASE ~account /\ ~Delete
    <2>1. Live = {} /\ \A t \in Tokens : token[t] # "live"
      BY <1>3 DEF NothingOutlivesAccount
    <2>2. ASSUME NEW h \in Handlers, CreateSession(h) PROVE session' = session
      BY <1>3, <2>2 DEF CreateSession
    <2>3. Live' = {}
      BY <2>1, <2>2, SessionsOnlyEnd DEF SessionsEnd, Live
    <2>4. ASSUME NEW h \in Handlers, Issue(h) PROVE token' = token
      BY <1>3, <2>4 DEF Issue
    <2>5. \A t \in Tokens : token'[t] # "live"
      BY <2>1, <2>4, LinksAge
    <2> QED BY <2>3, <2>5
  <1> QED BY <1>1, <1>2, <1>3

LEMMA SessionsInvInit == Init => SessionsInv /\ NothingOutlivesAccount
  <1> SUFFICES ASSUME Init PROVE SessionsInv /\ NothingOutlivesAccount
    OBVIOUS
  <1>1. Live = {}
    BY DEF Init, Live
  <1> QED BY <1>1, IdleIsRequest DEF Init, SessionsInv, ResetEndsSessions, NothingOutlivesAccount

LEMMA SessionsInvNext == TypeInv /\ SessionsInv /\ [Next]_vars => SessionsInv'
  <1> SUFFICES ASSUME TypeInv, SessionsInv, [Next]_vars PROVE SessionsInv'
    OBVIOUS
  <1>1. ASSUME NEW h \in Handlers, CreateSession(h) PROVE SessionsInv'
    <2>1. Becomes(h, Idle) /\ password' = password
      BY <1>1, IdleIsRequest, MovedRequest DEF CreateSession, Goes, userRow
    <2>2. ASSUME NEW s \in Live', s \notin Live \/ session'[s] # session[s]
          PROVE  session'[s].pass = req[h].pass /\ session'[s].late = Late(h)
      BY <1>1, <2>2 DEF CreateSession, Opens, Live, TypeInv, DataOK
    <2>3. ResetEndsSessions'
      <3> SUFFICES ASSUME NEW s \in Live', session'[s].pass # password PROVE session'[s].late
        BY <2>1 DEF ResetEndsSessions
      <3>1. CASE s \in Live /\ session'[s] = session[s]
        BY <3>1 DEF SessionsInv, ResetEndsSessions
      <3>2. CASE s \notin Live \/ session'[s] # session[s]
        BY <2>2, <3>2 DEF Late
      <3> QED BY <3>1, <3>2
    <2>4. ASSUME NEW g \in Handlers, req'[g].pc = "commit", NEW s \in Live' \ req'[g].kill
          PROVE  session'[s].late
      <3>1. g # h /\ req'[g] = req[g]
        BY <2>1, <2>4, IdleIsRequest DEF Becomes
      <3>2. CASE s \in Live /\ session'[s] = session[s]
        BY <2>4, <3>1, <3>2 DEF SessionsInv
      <3>3. CASE s \notin Live \/ session'[s] # session[s]
        BY <2>2, <2>4, <3>1, <3>3 DEF Late
      <3> QED BY <3>2, <3>3
    <2> QED BY <2>3, <2>4 DEF SessionsInv
  <1>2. ASSUME \A h \in Handlers : ~CreateSession(h), password' = password,
               \A h \in Handlers : req'[h].pc = "commit" =>
                  \/ req[h].pc = "commit" /\ req'[h].kill = req[h].kill
                  \/ req'[h].kill = Live
        PROVE  SessionsInv'
    <2>1. SessionsEnd
      BY <1>2, SessionsOnlyEnd
    <2> QED BY <1>2, <2>1 DEF SessionsEnd, SessionsInv, ResetEndsSessions
  <1>3. ASSUME NEW h \in Handlers, Commit(h) PROVE SessionsInv'
    <2>1. Becomes(h, Idle) /\ req[h].pc = "commit"
      BY <1>3, CommitStep DEF Commit, Goes
    <2>2. SessionsEnd
      BY <1>3, SessionsOnlyEnd DEF Commit, CreateSession, Goes, TypeInv
    <2>3. \A s \in Live' : s \notin req[h].kill
      <3>1. \A s \in Sessions : s \in req[h].kill => session'[s].state = "dead"
        BY <1>3, DeadIsSession DEF Commit, TypeInv
      <3> QED BY <3>1 DEF Live
    <2>4. ResetEndsSessions'
      BY <2>1, <2>2, <2>3 DEF SessionsEnd, SessionsInv, ResetEndsSessions
    <2>5. \A g \in Handlers : req'[g].pc = "commit" => \A s \in Live' \ req'[g].kill : session'[s].late
      BY <2>1, <2>2, IdleIsRequest DEF SessionsEnd, SessionsInv, Becomes
    <2> QED BY <2>4, <2>5 DEF SessionsInv
  <1>4. ASSUME NEW h \in Handlers, ~CreateSession(h), Unlinked(h) \/ Issue(h) PROVE SessionsInv'
    <2>1. password' = password
      BY <1>4, UnlinkedKeeps DEF Issue, userRow
    <2>2. PICK u \in Request : Becomes(h, u) /\ (u.pc = "commit" => u.kill = Live)
      <3>1. Plain(h) => \E u \in Request : Becomes(h, u) /\ u.pc # "commit"
        BY PlainStep
      <3>2. Mark(h) => \E u \in Request : Becomes(h, u) /\ u.pc # "commit"
        BY MarkStep
      <3>3. Consume(h) => \E u \in Request : Becomes(h, u) /\ u.pc # "commit"
        BY ConsumeStep, IdleIsRequest
      <3>4. Change(h) \/ Revoke(h) => \E u \in Request : Becomes(h, u) /\ (u.pc = "commit" => u.kill = Live)
        BY ResetStep
      <3> QED BY <1>4, <3>1, <3>2, <3>3, <3>4 DEF Unlinked, Plain
    <2>3. \A g \in Handlers : ~CreateSession(g)
      <3>1. \A g \in Handlers \ {h} : ~(req[g].pc = "insert" /\ req'[g] = Idle)
        BY <2>2, IdleIsRequest DEF Becomes
      <3>2. \A g \in Handlers : CreateSession(g) => req[g].pc = "insert" /\ req'[g] = Idle
        BY DEF CreateSession, Goes, TypeInv
      <3> QED BY <1>4, <3>1, <3>2
    <2> QED BY <1>2, <2>1, <2>2, <2>3 DEF Becomes
  <1>5. ASSUME (\E t \in Tokens : LinkExpires(t)) \/ (\E s \in Sessions : EndSession(s))
               \/ LockExpires \/ Delete \/ UNCHANGED vars
        PROVE  SessionsInv'
    <2>1. UNCHANGED <<password, req>>
      BY <1>5 DEF LinkExpires, EndSession, LockExpires, Delete, vars, userRow
    <2>2. \A h \in Handlers : ~CreateSession(h)
      BY <2>1, IdleIsRequest DEF CreateSession, Goes, TypeInv
    <2> QED BY <1>2, <2>1, <2>2
  <1> QED BY <1>1, <1>3, <1>4, <1>5, LinksCases


-----------------------------------------------------------------------------
(* Guesses. *)

LEMMA InIsFinite ==
    ASSUME NEW pc
    PROVE  IsFiniteSet(In(pc)) /\ Cardinality(In(pc)) \in Nat
  <1>1. In(pc) \subseteq Handlers
    BY DEF In
  <1> QED BY <1>1, ConstantsAssumption, FS_Subset, FS_CardinalityType

LEMMA HandlersAtOnce ==
    /\ Limit \in Nat \ {0} /\ Many \in Nat /\ MaxDropped \in Nat
    /\ Cardinality(In("count")) + Cardinality(In("lock")) <= Many
  <1> DEFINE C == In("count")
  <1> DEFINE L == In("lock")
  <1>1. IsFiniteSet(Handlers) /\ Limit \in Nat \ {0} /\ Many \in Nat /\ MaxDropped \in Nat
    BY ConstantsAssumption, FS_CardinalityType DEF Many, Limit
  <1>2. C \cap L = {} /\ C \cup L \subseteq Handlers
    BY DEF In
  <1>3. Cardinality(C \cup L) = Cardinality(C) + Cardinality(L) - Cardinality(C \cap L)
    BY InIsFinite, FS_Union
  <1>4. Cardinality(C \cap L) = 0
    BY <1>2, FS_EmptySet
  <1>5. Cardinality(C \cup L) <= Many
    BY <1>1, <1>2, FS_Subset DEF Many
  <1> HIDE DEF C, L
  <1> QED BY <1>1, <1>3, <1>4, <1>5, InIsFinite DEF C, L

\* How many there are at a step after one request has moved.
Arrives(u, pc) == IF u.pc = pc THEN 1 ELSE 0

LEMMA InMoves ==
    ASSUME TypeInv, NEW h \in Handlers, NEW u, Becomes(h, u), NEW pc \in {"count", "lock"}
    PROVE  /\ Cardinality(In(pc)') \in Nat
           /\ Cardinality(In(pc)') = Cardinality(In(pc)) + Arrives(u, pc) - Arrives(req[h], pc)
  <1> DEFINE S == In(pc)
  <1> DEFINE T == {g \in Handlers : req'[g].pc = pc}
  <1>1. IsFiniteSet(S) /\ Cardinality(S) \in Nat
    BY InIsFinite
  <1>2. h \in S <=> req[h].pc = pc
    BY DEF In
  <1>3. CASE u.pc = pc
    <2>1. T = S \cup {h}
      BY <1>3 DEF In, Becomes
    <2>2. Cardinality(T) = IF h \in S THEN Cardinality(S) ELSE Cardinality(S) + 1
      BY <1>1, <2>1, FS_AddElement
    <2> HIDE DEF S, T
    <2>3. Cardinality(T) \in Nat /\ Cardinality(T) = Cardinality(S) + Arrives(u, pc) - Arrives(req[h], pc)
      BY <1>1, <1>2, <1>3, <2>2 DEF Arrives
    <2> QED BY <2>3 DEF S, T, In
  <1>4. CASE u.pc # pc
    <2>1. T = S \ {h}
      BY <1>4 DEF In, Becomes
    <2>2. Cardinality(T) = IF h \in S THEN Cardinality(S) - 1 ELSE Cardinality(S)
      BY <1>1, <2>1, FS_RemoveElement
    <2>3. Cardinality(T) \in Nat
      <3>1. IsFiniteSet(T)
        BY <1>1, <2>1, FS_RemoveElement
      <3> HIDE DEF T
      <3> QED BY <3>1, FS_CardinalityType
    <2> HIDE DEF S, T
    <2>4. Cardinality(T) = Cardinality(S) + Arrives(u, pc) - Arrives(req[h], pc)
      BY <1>1, <1>2, <1>4, <2>2 DEF Arrives
    <2> QED BY <2>3, <2>4 DEF S, T, In
  <1> QED BY <1>3, <1>4

\* The arithmetic of the counters.
LEMMA Counted ==
    ASSUME NEW f \in Nat, NEW g \in Nat, NEW d \in Nat, NEW c \in Nat, NEW l \in Nat
    PROVE  /\ \A e, k \in Nat : Open(f, g, d, l) /\ e >= d /\ e + k >= d + l => Open(f, g, e, k)
           /\ \A e, k \in Nat : Shut(f, g, d, c) /\ e >= d /\ k <= c => Shut(f, g, e, k)
           /\ \A e \in Nat : Ever(f, g, d) /\ e >= d => Ever(f, g, e)
           /\ Ever(0, 0, 0) /\ Open(0, 0, 0, l)
           /\ Shut(f, g, d, c) => Open(f, 0, 0, l) /\ Shut(0, g, d, c)
           /\ Ever(f, g, d) => Ever(f, 0, 0) /\ Ever(0, g, d)
           /\ Open(f, g, d, l) /\ c + l <= Many => Shut(0, g, d, c)
  <1>1. Limit \in Nat \ {0} /\ Many \in Nat /\ MaxDropped \in Nat
    BY HandlersAtOnce
  <1>2. Limit - 1 \in Nat
    BY <1>1
  <1>3. /\ \A e, k \in Nat : Open(f, g, d, l) /\ e >= d /\ e + k >= d + l => Open(f, g, e, k)
        /\ \A e, k \in Nat : Shut(f, g, d, c) /\ e >= d /\ k <= c => Shut(f, g, e, k)
        /\ \A e \in Nat : Ever(f, g, d) /\ e >= d => Ever(f, g, e)
    BY <1>1, <1>2 DEF Open, Shut, Ever
  <1>4. /\ Ever(0, 0, 0) /\ Open(0, 0, 0, l)
        /\ Shut(f, g, d, c) => Open(f, 0, 0, l) /\ Shut(0, g, d, c)
        /\ Ever(f, g, d) => Ever(f, 0, 0) /\ Ever(0, g, d)
        /\ Open(f, g, d, l) /\ c + l <= Many => Shut(0, g, d, c)
    BY <1>1, <1>2 DEF Open, Shut, Ever
  <1> QED BY <1>3, <1>4

\* A wrong password more, before the lock and after it.
LEMMA GuessedOpen ==
    ASSUME NEW f \in Nat, NEW g \in Nat, NEW d \in Nat, NEW l \in Nat, NEW k \in Nat,
           Open(f, g, d, l), k <= Many, d <= MaxDropped, k = l \/ k = l + 1,
           f + 1 >= Limit => k = l + 1
    PROVE  Open(f + 1, g + 1, d, k) /\ Ever(f + 1, g + 1, d)
  BY HandlersAtOnce DEF Open, Ever

LEMMA GuessedShut ==
    ASSUME NEW f \in Nat, NEW g \in Nat, NEW d \in Nat, NEW c \in Nat, NEW k \in Nat,
           Shut(f, g, d, c), k + 1 = c
    PROVE  Shut(f + 1, g + 1, d, k) /\ Ever(f + 1, g + 1, d)
  BY HandlersAtOnce DEF Shut, Ever

LEMMA GuessInvInit == Init => GuessInv
  <1> SUFFICES ASSUME Init PROVE GuessInv
    OBVIOUS
  <1>1. failed = 0 /\ guesses = 0 /\ dropped = 0 /\ account /\ ~locked
    BY DEF Init
  <1>2. Cardinality(In("lock")) \in Nat
    BY InIsFinite
  <1> QED BY <1>1, <1>2, Counted DEF GuessInv

\* The numbers a step starts from.
LEMMA Numbers ==
    ASSUME TypeInv
    PROVE  /\ failed \in Nat /\ guesses \in Nat /\ dropped \in Nat /\ dropped <= MaxDropped
           /\ Cardinality(In("count")) \in Nat /\ Cardinality(In("lock")) \in Nat
           /\ Cardinality(In("count")) + Cardinality(In("lock")) <= Many
  BY ConstantsAssumption, HandlersAtOnce, InIsFinite DEF TypeInv, DataOK


\* A request that is not counted leaves the counters alone; one that dies at the
\* lock is counted as dropped.
LEMMA CountersKept ==
    ASSUME TypeInv, GuessInv, account' = account, locked' = locked, failed' = failed, guesses' = guesses,
           dropped' \in Nat, Cardinality(In("lock")') \in Nat, Cardinality(In("count")') \in Nat,
           dropped' >= dropped,
           dropped' + Cardinality(In("lock")') >= dropped + Cardinality(In("lock")),
           locked => Cardinality(In("count")') <= Cardinality(In("count"))
    PROVE  GuessInv'
  <1>1. Ever(failed, guesses, dropped) => Ever(failed, guesses, dropped')
    BY Numbers, Counted
  <1>2. Open(failed, guesses, dropped, Cardinality(In("lock")))
           => Open(failed, guesses, dropped', Cardinality(In("lock")'))
    BY Numbers, Counted
  <1>3. locked /\ Shut(failed, guesses, dropped, Cardinality(In("count")))
           => Shut(failed, guesses, dropped', Cardinality(In("count")'))
    BY Numbers, Counted
  <1> QED BY <1>1, <1>2, <1>3 DEF GuessInv, Ever, Open, Shut, Many

LEMMA CountStep ==
    ASSUME TypeInv, NEW h \in Handlers, Count(h), account
    PROVE  \E u \in Request :
              /\ Becomes(h, u) /\ u.pc # "count" /\ req[h].pc = "count"
              /\ failed + 1 >= MAX_FAILED_LOGINS => u.pc = "lock"
              /\ failed' = failed + 1 /\ guesses' = guesses + 1
              /\ account' = account /\ locked' = locked /\ dropped' = dropped
  <1>1. Plain(h) /\ req[h].pc = "count"
    BY DEF Plain, Count, Tried, Goes
  <1>2. PICK u \in Request : Becomes(h, u) /\ (u.pc = "count" => Login(h))
    BY <1>1, PlainStep
  <1>3. u.pc # "count"
    BY <1>1, <1>2 DEF Login, Goes
  <1>4. failed + 1 >= MAX_FAILED_LOGINS => u.pc = "lock"
    <2>1. ASSUME failed + 1 >= MAX_FAILED_LOGINS PROVE req'[h].pc = "lock"
      <3>1. req' = [req EXCEPT ![h] = At(h, "lock")]
        BY <2>1 DEF Count, Tried, Goes
      <3> QED BY <3>1 DEF At, TypeInv, Request
    <2> QED BY <1>2, <2>1 DEF Becomes
  <1> QED BY <1>1, <1>2, <1>3, <1>4 DEF Count, Tried

LEMMA GuessInvNext == TypeInv /\ GuessInv /\ [Next]_vars => GuessInv'
  <1> SUFFICES ASSUME TypeInv, GuessInv, [Next]_vars PROVE GuessInv'
    OBVIOUS
  <1>1. ASSUME NEW h \in Handlers, Count(h), account PROVE GuessInv'
    <2>1. PICK u \in Request :
             /\ Becomes(h, u) /\ u.pc # "count" /\ req[h].pc = "count"
             /\ failed + 1 >= MAX_FAILED_LOGINS => u.pc = "lock"
             /\ failed' = failed + 1 /\ guesses' = guesses + 1
             /\ account' = account /\ locked' = locked /\ dropped' = dropped
      BY <1>1, CountStep
    <2>2. Cardinality(In("count")') \in Nat /\ Cardinality(In("count")') + 1 = Cardinality(In("count"))
      BY <2>1, InMoves, Numbers DEF Arrives
    <2>3. /\ Cardinality(In("lock")') \in Nat
          /\ Cardinality(In("lock")') \in {Cardinality(In("lock")), Cardinality(In("lock")) + 1}
          /\ failed + 1 >= MAX_FAILED_LOGINS => Cardinality(In("lock")') = Cardinality(In("lock")) + 1
      BY <2>1, InMoves, Numbers DEF Arrives
    <2>4. Cardinality(In("lock")') <= Many
      BY <2>2, <2>3, Numbers, HandlersAtOnce
    <2>5. CASE ~locked
      <3>1. Open(failed, guesses, dropped, Cardinality(In("lock")))
        BY <1>1, <2>5 DEF GuessInv
      <3>2. /\ Open(failed + 1, guesses + 1, dropped, Cardinality(In("lock")'))
            /\ Ever(failed + 1, guesses + 1, dropped)
        BY <2>3, <2>4, <3>1, Numbers, GuessedOpen DEF Limit
      <3> QED BY <2>1, <2>5, <3>2 DEF GuessInv, Ever, Open, Many
    <2>6. CASE locked
      <3>1. Shut(failed, guesses, dropped, Cardinality(In("count")))
        BY <1>1, <2>6 DEF GuessInv
      <3>2. /\ Shut(failed + 1, guesses + 1, dropped, Cardinality(In("count")'))
            /\ Ever(failed + 1, guesses + 1, dropped)
        BY <2>2, <3>1, Numbers, GuessedShut
      <3> QED BY <2>1, <2>6, <3>2 DEF GuessInv, Ever, Shut, Many
    <2> QED BY <2>5, <2>6
  <1>2. ASSUME NEW h \in Handlers, Lock(h), account PROVE GuessInv'
    <2>1. Becomes(h, Idle) /\ req[h].pc = "lock"
      BY <1>2, IdleIsRequest, MovedRequest DEF Lock, Locks, Goes
    <2>2. /\ failed' = 0 /\ guesses' = guesses /\ dropped' = dropped
          /\ account' = account /\ locked'
      BY <1>2 DEF Lock, Locks, tries
    <2>3. Cardinality(In("count")') = Cardinality(In("count"))
      BY <2>1, InMoves, IdleIsRequest, Numbers DEF Arrives
    <2>4. Shut(0, guesses, dropped, Cardinality(In("count"))) /\ Ever(0, guesses, dropped)
      <3>1. /\ Ever(failed, guesses, dropped) => Ever(0, guesses, dropped)
            /\ Open(failed, guesses, dropped, Cardinality(In("lock")))
                  => Shut(0, guesses, dropped, Cardinality(In("count")))
            /\ Shut(failed, guesses, dropped, Cardinality(In("count")))
                  => Shut(0, guesses, dropped, Cardinality(In("count")))
        BY Numbers, Counted
      <3> QED BY <1>2, <3>1 DEF GuessInv
    <2> QED BY <2>2, <2>3, <2>4 DEF GuessInv, Ever, Shut, Many
  <1>3. ASSUME failed' = 0, guesses' = 0, dropped' = 0, ~locked', Cardinality(In("lock")') \in Nat
        PROVE  GuessInv'
    <2>1. Ever(0, 0, 0) /\ Open(0, 0, 0, Cardinality(In("lock")'))
      BY <1>3, Counted
    <2> QED BY <1>3, <2>1 DEF GuessInv, Ever, Open, Many
  <1>4. ASSUME NEW h \in Handlers, Clear(h) \/ Commit(h) PROVE GuessInv'
    <2>1. \E u : Becomes(h, u)
      BY <1>4, PlainStep DEF Plain
    <2>2. Cardinality(In("lock")') \in Nat
      BY <2>1, InMoves
    <2> QED BY <1>3, <1>4, <2>2 DEF Clear, Commit
  <1>5. ASSUME NEW h \in Handlers, Unlinked(h) \/ Issue(h), ~Clear(h),
               account => ~Count(h) /\ ~Lock(h)
        PROVE  GuessInv'
    <2>1. PICK u \in Request :
             /\ Becomes(h, u) /\ (u.pc = "count" => Login(h))
             /\ u.pc = "lock" => req[h].pc = "count"
      <3>1. Mark(h) => \E u \in Request : Becomes(h, u) /\ u.pc = "issue"
        BY MarkStep
      <3>2. Consume(h) => \E u \in Request : Becomes(h, u) /\ u.pc \notin {"count", "lock"}
        BY ConsumeStep, IdleIsRequest
      <3>3. Change(h) \/ Revoke(h) => \E u \in Request : Becomes(h, u) /\ u.pc \notin {"count", "lock"}
        BY ResetStep DEF HoldsRow
      <3>4. Plain(h) => \E u \in Request :
               Becomes(h, u) /\ (u.pc = "count" => Login(h)) /\ (u.pc = "lock" => req[h].pc = "count")
        BY PlainStep
      <3> QED BY <1>5, <3>1, <3>2, <3>3, <3>4 DEF Unlinked, Plain
    <2>2. CASE ~account
      <3>1. account' = account /\ guesses' = guesses /\ failed' = failed
            /\ (dropped' = dropped \/ dropped' = dropped + 1)
        BY <1>5, <2>2 DEF Unlinked, Login, Count, Tried, Lock, Locks, Rotate, CreateSession, Issue,
                          AsksForLink, Supersede, UsesLink, Fails, Mark, Marks, Consume, Consumes,
                          Change, Revoke, Revokes, userRow, tries
      <3>2. dropped' \in Nat /\ dropped' >= dropped
        BY <3>1, Numbers
      <3>3. Ever(failed, guesses, dropped) => Ever(failed, guesses, dropped')
        BY <3>2, Numbers, Counted
      <3> QED BY <2>2, <3>1, <3>3 DEF GuessInv, Ever, Many
    <2>3. CASE account
      <3>1. /\ account' = account /\ guesses' = guesses /\ failed' = failed /\ locked' = locked
            /\ dropped' = IF Fails(h) /\ req[h].pc = "lock" THEN dropped + 1 ELSE dropped
        BY <1>5, <2>3 DEF Unlinked, Login, Rotate, CreateSession, Issue,
                          AsksForLink, Supersede, UsesLink, Fails, Mark, Marks, Consume, Consumes,
                          Change, Revoke, Revokes, userRow, tries, Goes
      <3>2. req[h].pc = "lock" => Fails(h)
        BY <1>5, <2>3 DEF Unlinked, Login, Count, Tried, Lock, Locks, Rotate, CreateSession, Issue,
                          AsksForLink, Supersede, UsesLink, Mark, Marks, Consume, Consumes,
                          Change, Revoke, Revokes, Goes
      <3>3. /\ Cardinality(In("count")') \in Nat /\ Cardinality(In("lock")') \in Nat
            /\ Cardinality(In("count")')
                  = Cardinality(In("count")) + Arrives(u, "count") - Arrives(req[h], "count")
            /\ Cardinality(In("lock")')
                  = Cardinality(In("lock")) + Arrives(u, "lock") - Arrives(req[h], "lock")
        BY <2>1, InMoves
      <3>4. u.pc = "count" => ~locked
        BY <2>1 DEF Login
      <3>5. locked => Cardinality(In("count")') <= Cardinality(In("count"))
        BY <3>3, <3>4, Numbers DEF Arrives
      <3>6. dropped' \in Nat /\ dropped' >= dropped
            /\ dropped' + Cardinality(In("lock")') >= dropped + Cardinality(In("lock"))
        BY <3>1, <3>2, <3>3, Numbers DEF Arrives
      <3> QED BY <3>1, <3>3, <3>5, <3>6, CountersKept
    <2> QED BY <2>2, <2>3
  <1>6. CASE LockExpires
    <2>1. /\ account' = account /\ ~locked' /\ locked /\ failed' = failed /\ guesses' = 0 /\ dropped' = 0
          /\ In("lock")' = In("lock")
      BY <1>6 DEF LockExpires, In
    <2>2. /\ Ever(failed, guesses, dropped) => Ever(failed, 0, 0)
          /\ Shut(failed, guesses, dropped, Cardinality(In("count")))
                => Open(failed, 0, 0, Cardinality(In("lock")))
      BY Numbers, Counted
    <2> QED BY <2>1, <2>2 DEF GuessInv, Ever, Open, Many
  <1>7. CASE Delete
    BY <1>7 DEF Delete, tries, GuessInv, Ever, Many
  <1>8. ASSUME (\E t \in Tokens : LinkExpires(t)) \/ (\E s \in Sessions : EndSession(s)) \/ UNCHANGED vars
        PROVE  GuessInv'
    <2>1. UNCHANGED <<account, failed, locked, guesses, dropped, req>>
      BY <1>8 DEF LinkExpires, EndSession, vars, userRow, tries
    <2> QED BY <2>1 DEF GuessInv, Ever, Open, Shut, Many, In
  <1> QED BY <1>1, <1>2, <1>4, <1>5, <1>6, <1>7, <1>8, LinksCases DEF Unlinked


-----------------------------------------------------------------------------
IdentityInv ==
    TypeInv /\ GuessInv /\ LinksInv /\ NewestInv /\ SessionsInv /\ NothingOutlivesAccount

LEMMA IdentityInvariant == Spec => []IdentityInv
  <1>1. Init => IdentityInv
    BY TypeInvInit, GuessInvInit, LinksInvInit, NewestInvInit, SessionsInvInit DEF IdentityInv
  <1>2. IdentityInv /\ [Next]_vars => IdentityInv'
    BY TypeInvNext, GuessInvNext, LinksInvNext, NewestInvNext, SessionsInvNext, GoneNext
       DEF IdentityInv
  <1> QED BY <1>1, <1>2, PTL DEF Spec

\* Every variable has its type: in particular the count of failures stays bounded,
\* although requests that die before the lock, and those past the check when the lock
\* comes, leave it over the limit.
THEOREM TypeCorrect == Spec => []TypeOK
  <1>1. IdentityInv => TypeOK
    <2> SUFFICES ASSUME IdentityInv PROVE TypeOK
      OBVIOUS
    <2>1. failed \in 0..(MAX_FAILED_LOGINS + 2 * Cardinality(Handlers) + MaxDropped)
      <3>1. failed \in Nat /\ failed <= Limit + 2 * Many + MaxDropped
        BY DEF IdentityInv, TypeInv, DataOK, GuessInv, Ever
      <3>2. Limit \in Nat /\ Many \in Nat /\ MaxDropped \in Nat
        BY HandlersAtOnce
      <3> QED BY <3>1, <3>2 DEF Limit, Many
    <2> QED BY <2>1 DEF IdentityInv, TypeInv, DataOK, TypeOK
  <1> QED BY <1>1, IdentityInvariant, PTL

\* A reset link sets one password, and a link that is spent has set one, whatever
\* other resets and issues hold, and wherever a reset fails (consumeToken).
THEOREM LinksSetOnePassword == Spec => []ResetSpendsItsToken
  <1>1. IdentityInv => ResetSpendsItsToken
    BY DEF IdentityInv, LinksInv
  <1> QED BY <1>1, IdentityInvariant, PTL

\* Wrong passwords between two locks: the limit, the requests in flight, and those
\* that died before they locked (recordFailedLogin).
THEOREM GuessesAreBounded == Spec => []GuessesBounded
  <1>1. IdentityInv => GuessesBounded
    BY DEF IdentityInv, GuessInv, Ever, Limit, Many, GuessesBounded
  <1> QED BY <1>1, IdentityInvariant, PTL

\* Without its account there is no live session and no live link, whatever a login or
\* an issue had still to write when it was deleted (the foreign keys).
THEOREM NothingSurvivesDeletion == Spec => []NothingOutlivesAccount
  <1>1. IdentityInv => NothingOutlivesAccount
    BY DEF IdentityInv
  <1> QED BY <1>1, IdentityInvariant, PTL

\* A link that works leaves none that its issue saw working (issueToken).
THEOREM OnlyTheNewestLinkWorks == Spec => []NewestLinkOnly
  <1>1. IdentityInv => NewestLinkOnly
    <2> SUFFICES ASSUME IdentityInv, NEW t \in Tokens, token[t] = "live", NEW u \in older[t]
                 PROVE  token[u] # "live"
      BY DEF NewestLinkOnly
    <2> QED BY DEF IdentityInv, NewestInv, Over
  <1> QED BY <1>1, IdentityInvariant, PTL

\* After a reset, a live session of an older password is of a login that the reset
\* overtook (revokeAllSessions).
THEOREM ResetsEndSessions == Spec => []ResetEndsSessions
  <1>1. IdentityInv => ResetEndsSessions
    BY DEF IdentityInv, SessionsInv
  <1> QED BY <1>1, IdentityInvariant, PTL

=============================================================================
