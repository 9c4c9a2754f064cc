------------------------------ MODULE Accounts ------------------------------
(***************************************************************************)
(* How accounts come to be: registration and the e-mail verification link,   *)
(* and OAuth sign-in with its linking rules, until an account is deleted.     *)
(* Every await of the handlers is an action.  Passwords, sessions and resets   *)
(* are in Identity, the second factor in Mfa.                                *)
(***************************************************************************)
EXTENDS Naturals, FiniteSets

CONSTANTS
    Users,        \* ids, never used twice
    Emails,
    Identities,   \* accounts at the providers
    Address,      \* the address of each at its provider, or None
    Synthetic,    \* the address made up for an identity
    Handlers,     \* requests that run at once
    Links,        \* verification tokens
    None,
    MaxFlows      \* bound: authorizations open at once

ASSUME ConstantsAssumption ==
    /\ Address \in [Identities -> Emails \cup {None}]
    /\ \A i \in Identities : Synthetic[i] \notin Emails \cup {None}
    /\ \A i, k \in Identities : Synthetic[i] = Synthetic[k] => i = k
    /\ None \notin Users \cup Emails \cup Identities \cup Handlers \cup Links
    /\ MaxFlows \in Nat

VARIABLES
    account,      \* users
    identity,     \* provider_identities: the user of each
    link,         \* auth_tokens for verify_email: whose, and whether it is unconsumed
    flows,        \* oauth_flows: how many are open
    req,
    vouched       \* the identities whose address the provider has called verified

vars == <<account, identity, link, flows, req, vouched>>

Mailboxes == Emails \cup {Synthetic[i] : i \in Identities}
Account ==
    [state : {"none", "live", "gone"}, email : Mailboxes \cup {None},
     password : BOOLEAN, verified : BOOLEAN]
NoAccount == [state |-> "none", email |-> None, password |-> FALSE, verified |-> FALSE]

\* fresh: the user is an INSERT of the open transaction; known: the provider calls
\* the address verified.
Request ==
    [pc : {"idle", "issue", "mark", "complete", "find", "look", "create", "link", "commit"},
     user : Users \cup {None}, email : Mailboxes \cup {None},
     id : Identities \cup {None}, fresh : BOOLEAN, known : BOOLEAN]
Idle == [pc |-> "idle", user |-> None, email |-> None, id |-> None,
         fresh |-> FALSE, known |-> FALSE]

Live == {u \in Users : account[u].state = "live"}
Owner(e) == {u \in Live : account[u].email = e}

\* Every variable has its type; an address is of one account; identities and links
\* are of accounts that are there (the UNIQUE and FOREIGN KEY constraints).
AccountsTypeOK ==
    /\ account \in [Users -> Account]
    /\ \A u, v \in Live : account[u].email = account[v].email => u = v
    /\ identity \in [Identities -> Live \cup {None}]
    /\ link \in [Links -> [user : Users \cup {None}, state : {"none", "open", "spent"}]]
    /\ \A t \in Links : link[t].state = "open" => link[t].user \in Live
    /\ flows \in 0..MaxFlows
    /\ req \in [Handlers -> Request]
    /\ vouched \subseteq Identities

AccountsInit ==
    /\ account = [u \in Users |-> NoAccount]
    /\ identity = [i \in Identities |-> None]
    /\ link = [t \in Links |-> [user |-> None, state |-> "none"]]
    /\ flows = 0
    /\ req = [h \in Handlers |-> Idle]
    /\ vouched = {}

At(h, pc) == req[h].pc = pc
Ends(h) == req' = [req EXCEPT ![h] = Idle]
Becomes(h, r) == req' = [req EXCEPT ![h] = r]

\* Keys that an open transaction has inserted: another INSERT waits for its end.
InOpen(h) == At(h, "commit") \/ (At(h, "link") /\ req[h].fresh)
EmailHeld(e) == \E g \in Handlers : InOpen(g) /\ req[g].fresh /\ req[g].email = e
IdentityHeld(i) == \E g \in Handlers : At(g, "commit") /\ req[g].id = i
Reserved == {req[h].user : h \in {g \in Handlers : InOpen(g) /\ req[g].fresh}}
Unused(u) == account[u].state = "none" /\ u \notin Reserved

-----------------------------------------------------------------------------
(* POST /register and the verification link. *)

\* INSERT ... ON CONFLICT (email) DO NOTHING; only a new account is sent a link.
Register(h, u, e) ==
    /\ At(h, "idle") /\ Unused(u) /\ Owner(e) = {} /\ ~EmailHeld(e)
    /\ account' = [account EXCEPT ![u] = [state |-> "live", email |-> e,
                                          password |-> TRUE, verified |-> FALSE]]
    /\ Becomes(h, [Idle EXCEPT !.pc = "issue", !.user = u])
    /\ UNCHANGED <<identity, link, flows, vouched>>

\* POST /verify-email/resend.
Resend(h, u) ==
    /\ At(h, "idle") /\ u \in Live /\ ~account[u].verified
    /\ Becomes(h, [Idle EXCEPT !.pc = "issue", !.user = u])
    /\ UNCHANGED <<account, identity, link, flows, vouched>>

\* issueToken: the links before it are spent (step by step in Identity).
IssueLink(h, t) ==
    /\ At(h, "issue") /\ req[h].user \in Live /\ link[t].state = "none"
    /\ link' = [s \in Links |->
                   IF s = t THEN [user |-> req[h].user, state |-> "open"]
                   ELSE IF link[s].user = req[h].user THEN [link[s] EXCEPT !.state = "spent"]
                   ELSE link[s]]
    /\ Ends(h)
    /\ UNCHANGED <<account, identity, flows, vouched>>

LinkExpires(t) ==
    /\ link[t].state = "open"
    /\ link' = [link EXCEPT ![t].state = "spent"]
    /\ UNCHANGED <<account, identity, flows, req, vouched>>

\* POST /verify-email: consumeToken, then the UPDATE.
VerifyEmail(h, t) ==
    /\ At(h, "idle") /\ link[t].state = "open"
    /\ link' = [link EXCEPT ![t].state = "spent"]
    /\ Becomes(h, [Idle EXCEPT !.pc = "mark", !.user = link[t].user])
    /\ UNCHANGED <<account, identity, flows, vouched>>

MarkVerified(h) ==
    /\ At(h, "mark")
    /\ account' = IF req[h].user \in Live
                  THEN [account EXCEPT ![req[h].user].verified = TRUE] ELSE account
    /\ Ends(h)
    /\ UNCHANGED <<identity, link, flows, vouched>>

-----------------------------------------------------------------------------
(* GET /oauth/:provider/start and /callback. *)

StartFlow ==
    /\ flows < MaxFlows /\ flows' = flows + 1
    /\ UNCHANGED <<account, identity, link, req, vouched>>

FlowExpires ==
    /\ flows > 0 /\ flows' = flows - 1
    /\ UNCHANGED <<account, identity, link, req, vouched>>

\* DELETE FROM oauth_flows ... RETURNING.
Callback(h) ==
    /\ At(h, "idle") /\ flows > 0
    /\ flows' = flows - 1
    /\ Becomes(h, [Idle EXCEPT !.pc = "complete"])
    /\ UNCHANGED <<account, identity, link, vouched>>

\* client.complete: a profile; its address counts only if the provider calls it verified.
Complete(h, i, known) ==
    /\ At(h, "complete")
    /\ known => Address[i] # None
    /\ Becomes(h, [req[h] EXCEPT !.pc = "find", !.id = i, !.known = known])
    /\ vouched' = IF known THEN vouched \cup {i} ELSE vouched
    /\ UNCHANGED <<account, identity, link, flows>>

\* resolveOAuthUser: an identity that is known signs in.
Find(h) ==
    /\ At(h, "find")
    /\ IF identity[req[h].id] # None THEN Ends(h)
       ELSE Becomes(h, [req[h] EXCEPT !.pc = "look"])
    /\ UNCHANGED <<account, identity, link, flows, vouched>>

\* The transaction: an account with a verified address is linked, or a new one made.
\* Faulty variant: by any address the profile has.
Looks(h, trusted) ==
    LET i == req[h].id
        owner == IF trusted THEN Owner(Address[i]) ELSE {}
    IN  /\ At(h, "look")
        /\ \/ \E u \in owner : Becomes(h, [Idle EXCEPT !.pc = "link", !.user = u, !.id = i])
           \/ /\ owner = {}
              /\ Becomes(h, [req[h] EXCEPT !.pc = "create",
                                !.email = IF trusted THEN Address[i] ELSE Synthetic[i]])
        /\ UNCHANGED <<account, identity, link, flows, vouched>>
LookUnverified(h) == Looks(h, req[h].id # None /\ Address[req[h].id] # None)
Look(h) == Looks(h, req[h].known)

\* createLinked, INSERT INTO users.  Faulty variant: outside the transaction.
FreshAccount(h) ==
    [state |-> "live", email |-> req[h].email, password |-> FALSE, verified |-> req[h].known]
CreateAutocommit(h, u) ==
    /\ At(h, "create") /\ Unused(u) /\ ~EmailHeld(req[h].email) /\ Owner(req[h].email) = {}
    /\ account' = [account EXCEPT ![u] = FreshAccount(h)]
    /\ Becomes(h, [req[h] EXCEPT !.pc = "link", !.user = u])
    /\ UNCHANGED <<identity, link, flows, vouched>>
Create(h, u) ==
    /\ At(h, "create") /\ Unused(u) /\ ~EmailHeld(req[h].email) /\ Owner(req[h].email) = {}
    /\ Becomes(h, [req[h] EXCEPT !.pc = "link", !.user = u, !.fresh = TRUE])
    /\ UNCHANGED <<account, identity, link, flows, vouched>>

\* INSERT INTO provider_identities: of a user that is there, and of an identity
\* nobody has; it waits for an open INSERT of the same key.
Link(h) ==
    /\ At(h, "link")
    /\ ~IdentityHeld(req[h].id) /\ identity[req[h].id] = None
    /\ req[h].fresh \/ req[h].user \in Live
    /\ Becomes(h, [req[h] EXCEPT !.pc = "commit"])
    /\ UNCHANGED <<account, identity, link, flows, vouched>>

Commit(h) ==
    /\ At(h, "commit")
    /\ account' = IF req[h].fresh
                  THEN [account EXCEPT ![req[h].user] = FreshAccount(h)] ELSE account
    /\ identity' = [identity EXCEPT ![req[h].id] = req[h].user]
    /\ Ends(h)
    /\ UNCHANGED <<link, flows, vouched>>

\* A statement fails, a key is taken, the process dies: the transaction is rolled
\* back and the browser is sent back with an error.
Fails(h) ==
    /\ ~At(h, "idle")
    /\ Ends(h)
    /\ UNCHANGED <<account, identity, link, flows, vouched>>

\* DELETE /account: identities and links go with it; it waits for a transaction
\* that has linked the account.
DeleteAccount(u) ==
    /\ u \in Live
    /\ \A h \in Handlers : ~(At(h, "commit") /\ req[h].user = u)
    /\ account' = [account EXCEPT ![u] = [NoAccount EXCEPT !.state = "gone"]]
    /\ identity' = [i \in Identities |-> IF identity[i] = u THEN None ELSE identity[i]]
    /\ link' = [t \in Links |-> IF link[t].user = u THEN [link[t] EXCEPT !.state = "spent"]
                                ELSE link[t]]
    /\ UNCHANGED <<flows, req, vouched>>

AccountsStep ==
    \/ StartFlow \/ FlowExpires
    \/ \E h \in Handlers :
          \/ \E u \in Users, e \in Emails : Register(h, u, e)
          \/ \E u \in Users : Resend(h, u) \/ Create(h, u)
          \/ \E t \in Links : IssueLink(h, t) \/ VerifyEmail(h, t)
          \/ \E i \in Identities, known \in BOOLEAN : Complete(h, i, known)
          \/ MarkVerified(h) \/ Callback(h) \/ Find(h) \/ Look(h) \/ Link(h) \/ Commit(h)
          \/ Fails(h)
    \/ \E t \in Links : LinkExpires(t)

-----------------------------------------------------------------------------

\* An account without a password has an identity that signs in to it, whichever
\* callbacks race for one identity and wherever they fail (resolveOAuthUser).
WayIn ==
    \A u \in Live : ~account[u].password => \E i \in Identities : identity[i] = u

\* An identity signs in to an account of its own, or to the account of an address
\* that its provider has called verified, also when the address is registered or
\* deleted while the callback runs (resolveOAuthUser).
IdentityOwnsAddress ==
    \A i \in Identities : identity[i] # None =>
        LET e == account[identity[i]].email
        IN  e = Synthetic[i] \/ (e = Address[i] /\ i \in vouched)
=============================================================================
