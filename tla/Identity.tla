------------------------------ MODULE Identity ------------------------------
(***************************************************************************)
(* One account of the identity service: logging in, the lock after repeated *)
(* failures, reset links, the reset itself, sessions and their revocation,   *)
(* and deletion, as concurrent requests.  Every statement of these handlers  *)
(* names the account's id, so accounts do not meet.                          *)
(*                                                                         *)
(* A login is single statements; issuing a link and a reset are transactions, *)
(* whose writes stay in the request's record until they commit.  Sessions of  *)
(* accounts with a second factor begin in another handler and are left out,    *)
(* and so are hashes, cookies, mail and the audit log.                         *)
(***************************************************************************)
EXTENDS Naturals, FiniteSets

CONSTANTS
    Handlers,          \* requests that can be in flight at once
    Sessions, Tokens,  \* ids that can be given to sessions and reset links
    None,
    MAX_FAILED_LOGINS,
    MaxResets,         \* bound: password changes
    MaxDropped         \* bound: requests that die between counting and locking

ASSUME ConstantsAssumption ==
    /\ MAX_FAILED_LOGINS \in Nat \ {0}
    /\ MaxResets \in Nat /\ MaxDropped \in Nat
    /\ IsFiniteSet(Handlers)
    /\ None \notin Sessions \cup Tokens

VARIABLES
    account,   \* whether the row of users is there
    password,  \* how often the password has been set, which names it
    failed,    \* failed_login_count
    locked,    \* locked_until > now
    session,   \* the state of each session id
    token,     \* the state of each reset link
    setBy,     \* the link that set each password
    older,     \* the links already issued when a link's issue began
    guesses,   \* wrong passwords tried since the count was last forgiven
    dropped,   \* of those, the ones that should have locked and died instead
    req        \* the requests in flight

userRow == <<account, password, failed, locked>>
links   == <<token, setBy, older>>
tries   == <<guesses, dropped>>
vars == <<userRow, session, links, tries, req>>

Passwords == 1..(MaxResets + 1)

\* pass: the password a login was checked against; link: the one a reset uses;
\* seen: the links an issue found unconsumed; marks and kill: what the transaction
\* has marked consumed and revoked.
Request ==
    [pc : {"idle", "clear", "count", "lock", "rotate", "insert",
           "supersede", "mark", "issue", "consume", "change", "revoke", "commit"},
     pass : Passwords \cup {0}, link : Tokens \cup {None},
     seen : SUBSET Tokens, marks : SUBSET Tokens, kill : SUBSET Sessions]

Idle == [pc |-> "idle", pass |-> 0, link |-> None,
         seen |-> {}, marks |-> {}, kill |-> {}]

\* late: inserted when a reset had already looked for sessions, or committed, since
\* the login checked its password.
Session == [state : {"none", "live", "dead"}, pass : Passwords \cup {0}, late : BOOLEAN]

TypeOK ==
    /\ account \in BOOLEAN
    /\ password \in Passwords
    /\ failed \in 0..(MAX_FAILED_LOGINS + 2 * Cardinality(Handlers) + MaxDropped)
    /\ locked \in BOOLEAN
    /\ session \in [Sessions -> Session]
    /\ token \in [Tokens -> {"none", "live", "superseded", "used", "expired", "gone"}]
    /\ setBy \in [Passwords -> Tokens \cup {None}]
    /\ older \in [Tokens -> SUBSET Tokens]
    /\ guesses \in Nat /\ dropped \in 0..MaxDropped
    /\ req \in [Handlers -> Request]

Init ==
    /\ account = TRUE
    /\ password = 1
    /\ failed = 0
    /\ locked = FALSE
    /\ session = [s \in Sessions |-> [state |-> "none", pass |-> 0, late |-> FALSE]]
    /\ token = [t \in Tokens |-> "none"]
    /\ setBy = [p \in Passwords |-> None]
    /\ older = [t \in Tokens |-> {}]
    /\ guesses = 0 /\ dropped = 0
    /\ req = [h \in Handlers |-> Idle]

-----------------------------------------------------------------------------
Goes(h, from, to) == req[h].pc = from /\ req' = [req EXCEPT ![h] = to]
At(h, pc)         == [req[h] EXCEPT !.pc = pc]

\* A reset that has updated the row of users keeps others from updating it.
RowHeld(h) == \E g \in Handlers \ {h} : req[g].pc \in {"revoke", "commit"}

\* A transaction that has marked a link keeps others from marking it.
LinkHeld(h, t) == \E g \in Handlers \ {h} : t \in req[g].marks

Live == {s \in Sessions : session[s].state = "live"}
Dead(s) == [session[s] EXCEPT !.state = "dead", !.pass = 0, !.late = FALSE]

-----------------------------------------------------------------------------
(* POST /login. *)

\* authenticate reads the row: a locked account is turned away, and otherwise
\* the password given is right or wrong for what was read.
Login(h) ==
    /\ account /\ ~locked
    /\ \/ Goes(h, "idle", [Idle EXCEPT !.pc = "clear", !.pass = password])
       \/ Goes(h, "idle", [Idle EXCEPT !.pc = "count"])
    /\ UNCHANGED <<userRow, session, links, tries>>

\* Right: the counter and the lock are cleared.
Clear(h) ==
    /\ Goes(h, "clear", At(h, "rotate"))
    /\ ~RowHeld(h)
    /\ failed' = 0 /\ locked' = FALSE /\ guesses' = 0 /\ dropped' = 0
    /\ UNCHANGED <<account, password, session, links>>

\* Wrong: one statement adds one and returns the count.  Faulty variant: what is
\* written is one more than was read when the request came in.
Tried(h, count) ==
    /\ Goes(h, "count", IF account /\ count >= MAX_FAILED_LOGINS THEN At(h, "lock") ELSE Idle)
    /\ ~RowHeld(h)
    /\ failed' = IF account THEN count ELSE failed
    /\ guesses' = IF account THEN guesses + 1 ELSE guesses
    /\ UNCHANGED <<account, password, locked, session, links, dropped>>

CountLost(h) == \E read \in {0, failed} : Tried(h, read + 1)
Count(h)     == Tried(h, failed + 1)

\* The lock, and the count starts over.  Faulty variant: it goes on.
Locks(h, count) ==
    /\ Goes(h, "lock", Idle)
    /\ ~RowHeld(h)
    /\ failed' = count /\ locked' = account
    /\ UNCHANGED <<account, password, session, links, tries>>

LockKeepsCount(h) == Locks(h, failed)
Lock(h)           == Locks(h, IF account THEN 0 ELSE failed)

\* Fifteen minutes later, or more.
LockExpires ==
    /\ locked /\ locked' = FALSE /\ guesses' = 0 /\ dropped' = 0
    /\ UNCHANGED <<account, password, failed, session, links, req>>

\* completeLogin: the session the browser came with, if any, is revoked.
Rotate(h) ==
    /\ Goes(h, "rotate", At(h, "insert"))
    /\ session' \in {session} \cup {[session EXCEPT ![s] = Dead(s)] : s \in Live}
    /\ UNCHANGED <<userRow, links, tries>>

\* createSession.  The foreign key refuses it once the account is gone; the
\* faulty variant has none.
Late(h) == req[h].pass # password \/ \E g \in Handlers : req[g].pc = "commit"
Opens(h) ==
    \E s \in Sessions :
        /\ session[s].state = "none"
        /\ session' = [session EXCEPT ![s] = [state |-> "live", pass |-> req[h].pass,
                                              late |-> Late(h)]]

CreateUnchecked(h) ==
    /\ Goes(h, "insert", Idle)
    /\ Opens(h)
    /\ UNCHANGED <<userRow, links, tries>>

CreateSession(h) ==
    /\ Goes(h, "insert", Idle)
    /\ IF account THEN Opens(h) ELSE UNCHANGED session
    /\ UNCHANGED <<userRow, links, tries>>

-----------------------------------------------------------------------------
(* POST /password-reset/request: issueToken, a transaction. *)

AsksForLink(h) ==
    /\ account
    /\ Goes(h, "idle", [Idle EXCEPT !.pc = "supersede"])
    /\ UNCHANGED <<userRow, session, links, tries>>

Unconsumed == {t \in Tokens : token[t] \in {"live", "expired"}}

\* The UPDATE sees the links committed and not consumed when it begins, and waits
\* for those that another transaction holds.
Supersede(h) ==
    /\ Goes(h, "supersede", [At(h, "mark") EXCEPT !.seen = Unconsumed])
    /\ UNCHANGED <<userRow, session, links, tries>>

\* Then it marks the ones that are still not consumed.
Marks(h, marks) ==
    /\ Goes(h, "mark", [At(h, "issue") EXCEPT !.marks = marks])
    /\ \A t \in req[h].seen : ~LinkHeld(h, t)
    /\ UNCHANGED <<userRow, session, links, tries>>

\* Faulty variant: expired ones only.
MarkExpired(h) == Marks(h, {t \in req[h].seen : token[t] = "expired"})
Mark(h)        == Marks(h, req[h].seen \cap Unconsumed)

\* INSERT and commit.
Issue(h) ==
    /\ Goes(h, "issue", Idle)
    /\ IF account
       THEN \E t \in Tokens :
                /\ token[t] = "none"
                /\ token' = [u \in Tokens |->
                                IF u = t THEN "live"
                                ELSE IF u \in req[h].marks THEN "superseded" ELSE token[u]]
                /\ older' = [older EXCEPT ![t] = req[h].seen]
       ELSE UNCHANGED <<token, older>>
    /\ UNCHANGED <<userRow, session, setBy, tries>>

LinkExpires(t) ==
    /\ token[t] = "live"
    /\ token' = [token EXCEPT ![t] = "expired"]
    /\ UNCHANGED <<userRow, session, setBy, older, tries, req>>

-----------------------------------------------------------------------------
(* POST /password-reset: one transaction. *)

\* Whoever has the mail, once or twice.
UsesLink(h, t) ==
    /\ token[t] # "none" /\ password <= MaxResets
    /\ Goes(h, "idle", [Idle EXCEPT !.pc = "consume", !.link = t])
    /\ UNCHANGED <<userRow, session, links, tries>>

\* consumeToken: UPDATE ... WHERE consumed_at IS NULL, or 400.
Consumes(h, waits) ==
    /\ Goes(h, "consume",
            IF token[req[h].link] = "live"
            THEN [At(h, "change") EXCEPT !.marks = {req[h].link}] ELSE Idle)
    /\ waits => ~LinkHeld(h, req[h].link)
    /\ UNCHANGED <<userRow, session, links, tries>>

\* Faulty variant: the link is looked up and marked later.
ConsumeUnlocked(h) == Consumes(h, FALSE)

\* Faulty variant: the link is spent on its own, ahead of the rest.
ConsumeAutocommit(h) ==
    /\ Goes(h, "consume", IF token[req[h].link] = "live" THEN At(h, "change") ELSE Idle)
    /\ ~LinkHeld(h, req[h].link)
    /\ token' = [token EXCEPT ![req[h].link] = IF @ = "live" THEN "used" ELSE @]
    /\ UNCHANGED <<userRow, session, setBy, older, tries>>

Consume(h) == Consumes(h, TRUE)

\* UPDATE users, which waits for the row.
Change(h) ==
    /\ Goes(h, "change", At(h, "revoke"))
    /\ ~RowHeld(h)
    /\ password <= MaxResets
    /\ UNCHANGED <<userRow, session, links, tries>>

\* revokeAllSessions: those it can see.  Faulty variant: one is spared.
Revokes(h, kill) ==
    /\ Goes(h, "revoke", [At(h, "commit") EXCEPT !.kill = kill])
    /\ UNCHANGED <<userRow, session, links, tries>>
RevokeOthers(h) == \E s \in Sessions : Revokes(h, Live \ {s})
Revoke(h)       == Revokes(h, Live)

Commit(h) ==
    /\ Goes(h, "commit", Idle)
    /\ account
    /\ password' = password + 1
    /\ failed' = 0 /\ locked' = FALSE /\ guesses' = 0 /\ dropped' = 0
    /\ token' = [token EXCEPT ![req[h].link] = "used"]
    /\ setBy' = [setBy EXCEPT ![password + 1] = req[h].link]
    /\ session' = [s \in Sessions |-> IF s \in req[h].kill THEN Dead(s) ELSE session[s]]
    /\ UNCHANGED <<account, older>>

-----------------------------------------------------------------------------
(* Revocation, deletion, and requests that fail. *)

\* POST /logout and DELETE /sessions/:id; a session that runs out ends alike.
EndSession(s) ==
    /\ session[s].state = "live"
    /\ session' = [session EXCEPT ![s] = Dead(s)]
    /\ UNCHANGED <<userRow, links, tries, req>>

\* DELETE /account cascades to sessions and links, and waits for their locks.
Delete ==
    /\ account
    /\ \A h \in Handlers : req[h].pc \notin {"revoke", "commit"} /\ req[h].marks = {}
    /\ account' = FALSE
    /\ session' = [s \in Sessions |-> IF s \in Live THEN Dead(s) ELSE session[s]]
    /\ token' = [t \in Tokens |-> IF token[t] = "none" THEN "none" ELSE "gone"]
    /\ UNCHANGED <<password, failed, locked, setBy, older, tries, req>>

\* The request fails or the process dies; a transaction leaves nothing behind.
Fails(h) ==
    /\ req[h].pc # "idle"
    /\ req' = [req EXCEPT ![h] = Idle]
    /\ IF req[h].pc = "lock"
       THEN dropped < MaxDropped /\ dropped' = dropped + 1
       ELSE UNCHANGED dropped
    /\ UNCHANGED <<userRow, session, links, guesses>>

Next ==
    \/ \E h \in Handlers :
        \/ Login(h) \/ Clear(h) \/ Count(h) \/ Lock(h) \/ Rotate(h) \/ CreateSession(h)
        \/ AsksForLink(h) \/ Supersede(h) \/ Mark(h) \/ Issue(h)
        \/ Consume(h) \/ Change(h) \/ Revoke(h) \/ Commit(h)
        \/ \E t \in Tokens : UsesLink(h, t)
        \/ Fails(h)
    \/ \E t \in Tokens : LinkExpires(t)
    \/ \E s \in Sessions : EndSession(s)
    \/ LockExpires \/ Delete

Spec == Init /\ [][Next]_vars

-----------------------------------------------------------------------------
(* What the identity service promises. *)

\* A reset link sets one password, and a link that is spent has set one: two
\* requests with the same link, and a reset that fails half way, included
\* ("if any step fails the token is not spent", account.ts:120).
ResetSpendsItsToken ==
    /\ \A p, q \in 2..password : setBy[p] = setBy[q] => p = q
    /\ \A t \in Tokens : token[t] = "used" => \E p \in 2..password : setBy[p] = t

\* However wrong passwords are pipelined, the account is locked by the time the
\* requests already past the check have been counted (accounts.ts:76); a request that
\* dies before it locks leaves the lock to the next one.
GuessesBounded ==
    guesses <= (MAX_FAILED_LOGINS - 1) + Cardinality(Handlers) + dropped

\* Nothing that a request in flight still writes outlives a deleted account: no
\* session and no link is live without it.
NothingOutlivesAccount ==
    ~account => /\ Live = {}
                /\ \A t \in Tokens : token[t] # "live"

\* A new link that works leaves none of those issued before it working
\* (tokens.ts:14), whatever other issues and resets are doing.
NewestLinkOnly ==
    \A t \in Tokens : token[t] = "live" => \A u \in older[t] : token[u] # "live"

\* A reset ends every session that was there when it looked, so a session of an
\* older password is of a login that the reset overtook ("kill all sessions",
\* account.ts:138; createSession asks nothing of the password it was checked with).
ResetEndsSessions == \A s \in Live : session[s].pass # password => session[s].late
=============================================================================
