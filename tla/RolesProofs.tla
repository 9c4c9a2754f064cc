---------------------------- MODULE RolesProofs ----------------------------
(***************************************************************************)
(* Accounts and Roles are correct for every number of accounts, addresses,    *)
(* identities, links, handlers, roles and admin requests.                    *)
(***************************************************************************)
EXTENDS Roles, TLAPS

\* What the step of a request says about the rest of its record, when the addresses
\* of the identities in v have been called verified.
Shaped(r, v) ==
    /\ r.pc \in {"find", "look", "create", "link", "commit"} => r.id \in Identities
    /\ r.pc \in {"issue", "mark", "link", "commit"} => r.user \in Users
    /\ r.known => r.id \in v /\ Address[r.id] # None
    /\ r.fresh => r.pc \in {"link", "commit"}
    /\ r.pc = "create" \/ r.fresh =>
          r.email = IF r.known THEN Address[r.id] ELSE Synthetic[r.id]

\* The user of an uncommitted INSERT is nobody's yet, and its address is free.
OpenInv ==
    /\ \A h \in Handlers : req[h].fresh =>
          account[req[h].user].state = "none" /\ Owner(req[h].email) = {}
    /\ \A g, h \in Handlers : req[g].fresh /\ req[h].fresh /\ g # h =>
          req[g].user # req[h].user /\ req[g].email # req[h].email

\* An account that is being linked has had the address of the identity, and an
\* uncommitted link is the only one of an identity nobody has.
LinkInv ==
    /\ \A h \in Handlers : req[h].pc \in {"link", "commit"} /\ ~req[h].fresh =>
          /\ account[req[h].user].state # "none" /\ req[h].id \in vouched
          /\ req[h].user \in Live => account[req[h].user].email = Address[req[h].id]
    /\ \A h \in Handlers : req[h].pc = "commit" =>
          identity[req[h].id] = None /\ (req[h].fresh \/ req[h].user \in Live)
    /\ \A g, h \in Handlers :
          req[g].pc = "commit" /\ req[h].pc = "commit" /\ g # h => req[g].id # req[h].id

RequestsInv ==
    /\ req \in [Handlers -> Request] /\ \A h \in Handlers : Shaped(req[h], vouched)
    /\ OpenInv /\ LinkInv

AccountsInv == AccountsTypeOK /\ RequestsInv /\ WayIn /\ IdentityOwnsAddress

LinksOK ==
    /\ link \in [Links -> [user : Users \cup {None}, state : {"none", "open", "spent"}]]
    /\ \A t \in Links : link[t].state = "open" => link[t].user \in Live

-----------------------------------------------------------------------------
(* Accounts. *)

LEMMA IdleShaped == Idle \in Request /\ \A v : Shaped(Idle, v)
  BY DEF Idle, Request, Shaped

LEMMA AddressesAreMailboxes ==
    ASSUME NEW i \in Identities
    PROVE  /\ Synthetic[i] \in Mailboxes
           /\ Address[i] # None => Address[i] \in Mailboxes
           /\ None \notin Mailboxes
  BY ConstantsAssumption DEF Mailboxes

LEMMA AccountsInvInit == AccountsInit => AccountsInv
  <1> SUFFICES ASSUME AccountsInit PROVE AccountsInv
    OBVIOUS
  <1>1. Live = {}
    BY DEF AccountsInit, Live, NoAccount
  <1>2. AccountsTypeOK
    BY <1>1, IdleShaped, ConstantsAssumption DEF AccountsInit, AccountsTypeOK, Account, NoAccount
  <1>3. RequestsInv
    BY IdleShaped DEF AccountsInit, RequestsInv, OpenInv, LinkInv, Idle
  <1> QED BY <1>1, <1>2, <1>3 DEF AccountsInit, AccountsInv, WayIn, IdentityOwnsAddress

\* Steps that leave the accounts, but for a verification mark, as they are.
SameAccounts ==
    /\ account' \in [Users -> Account]
    /\ \A u \in Users : /\ account'[u].state = account[u].state
                        /\ account'[u].email = account[u].email
                        /\ account'[u].password = account[u].password

LEMMA SameLive ==
    SameAccounts => Live \subseteq Users /\ Live' = Live /\ \A e : Owner(e)' = Owner(e)
  BY DEF SameAccounts, Live, Owner

\* A step of one request into no transaction, or into none that it was not in.
LEMMA RequestMoves ==
    ASSUME AccountsInv, NEW h \in Handlers, NEW r \in Request,
           req' = [req EXCEPT ![h] = r],
           SameAccounts, LinksOK', flows' \in 0..MaxFlows, identity' = identity,
           vouched \subseteq vouched', vouched' \subseteq Identities,
           Shaped(r, vouched'), r.pc \notin {"link", "commit"}
    PROVE  AccountsInv'
  <1>1. Live \subseteq Users /\ Live' = Live /\ \A e : Owner(e)' = Owner(e)
    BY SameLive
  <1>2. /\ req' \in [Handlers -> Request] /\ req'[h] = r
        /\ \A g \in Handlers \ {h} : req'[g] = req[g]
    BY DEF AccountsInv, RequestsInv
  <1>3. ~r.fresh
    BY DEF Shaped
  <1>4. AccountsTypeOK'
    BY <1>1, <1>2 DEF AccountsInv, AccountsTypeOK, LinksOK, SameAccounts
  <1>5. \A g \in Handlers : Shaped(req'[g], vouched')
    BY <1>2 DEF AccountsInv, RequestsInv, Shaped
  <1>6. OpenInv'
    <2>1. \A g \in Handlers : req'[g].fresh => g # h /\ req'[g] = req[g]
      BY <1>2, <1>3
    <2>2. \A g \in Handlers : req[g].fresh => req[g].user \in Users
      BY DEF AccountsInv, RequestsInv, Shaped
    <2> QED BY ZenonT(60), <1>1, <2>1, <2>2 DEF AccountsInv, RequestsInv, OpenInv, SameAccounts
  <1>7. LinkInv'
    <2>1. \A g \in Handlers : req'[g].pc \in {"link", "commit"} => g # h /\ req'[g] = req[g]
      BY <1>2
    <2>2. \A g \in Handlers : req[g].pc \in {"link", "commit"} => req[g].user \in Users
      BY DEF AccountsInv, RequestsInv, Shaped
    <2> QED BY <1>1, <2>1, <2>2 DEF AccountsInv, RequestsInv, LinkInv, SameAccounts
  <1>8. WayIn' /\ IdentityOwnsAddress'
    <2>1. \A i \in Identities : identity[i] # None => identity[i] \in Users
      BY DEF AccountsInv, AccountsTypeOK, Live
    <2> QED BY <1>1, <2>1 DEF AccountsInv, WayIn, IdentityOwnsAddress, SameAccounts, Live
  <1> QED BY <1>2, <1>4, <1>5, <1>6, <1>7, <1>8 DEF AccountsInv, RequestsInv

\* Steps that move a request and make or change no account.
LEMMA MovesKeep ==
    ASSUME AccountsInv, NEW h \in Handlers,
           \/ \E u \in Users : Resend(h, u)
           \/ \E t \in Links : IssueLink(h, t) \/ VerifyEmail(h, t)
           \/ \E i \in Identities, known \in BOOLEAN : Complete(h, i, known)
           \/ MarkVerified(h) \/ Callback(h) \/ Find(h) \/ Fails(h)
    PROVE  AccountsInv'
  <1>1. /\ account \in [Users -> Account] /\ LinksOK /\ flows \in 0..MaxFlows
        /\ vouched \subseteq Identities /\ req[h] \in Request /\ Shaped(req[h], vouched)
    BY DEF AccountsInv, RequestsInv, AccountsTypeOK, LinksOK
  <1>2. account' = account => SameAccounts
    BY <1>1 DEF SameAccounts
  <1>3. UNCHANGED <<account, link>> => LinksOK'
    BY <1>1 DEF LinksOK, Live
  <1>4. ASSUME NEW u \in Users, Resend(h, u) PROVE AccountsInv'
    <2> DEFINE r == [Idle EXCEPT !.pc = "issue", !.user = u]
    <2>1. r \in Request /\ Shaped(r, vouched) /\ r.pc = "issue"
      BY DEF Idle, Request, Shaped
    <2> QED BY <1>1, <1>2, <1>3, <1>4, <2>1, RequestMoves DEF Resend, Becomes
  <1>5. ASSUME NEW t \in Links, IssueLink(h, t) PROVE AccountsInv'
    <2>1. LinksOK'
      BY <1>1, <1>5 DEF IssueLink, LinksOK, Live
    <2> QED BY <1>1, <1>2, <1>5, <2>1, IdleShaped, RequestMoves DEF IssueLink, Ends, Idle
  <1>6. ASSUME NEW t \in Links, VerifyEmail(h, t) PROVE AccountsInv'
    <2> DEFINE r == [Idle EXCEPT !.pc = "mark", !.user = link[t].user]
    <2>1. LinksOK'
      BY <1>1, <1>6 DEF VerifyEmail, LinksOK, Live
    <2>2. link[t].user \in Users
      BY <1>1, <1>6 DEF VerifyEmail, LinksOK, Live
    <2>3. r \in Request /\ Shaped(r, vouched) /\ r.pc = "mark"
      BY <2>2 DEF Idle, Request, Shaped
    <2> QED BY <1>1, <1>2, <1>6, <2>1, <2>3, RequestMoves DEF VerifyEmail, Becomes
  <1>7. ASSUME NEW i \in Identities, NEW known \in BOOLEAN, Complete(h, i, known)
        PROVE  AccountsInv'
    <2> DEFINE r == [req[h] EXCEPT !.pc = "find", !.id = i, !.known = known]
    <2>1. vouched \subseteq vouched' /\ vouched' \subseteq Identities /\ (known => i \in vouched')
      BY <1>1, <1>7 DEF Complete
    <2>2. r \in Request /\ Shaped(r, vouched') /\ r.pc = "find"
      BY <1>1, <1>7, <2>1 DEF Complete, At, Request, Shaped
    <2> QED BY <1>1, <1>2, <1>3, <1>7, <2>1, <2>2, RequestMoves DEF Complete, Becomes
  <1>8. CASE MarkVerified(h)
    <2>1. SameAccounts
      BY <1>1, <1>8 DEF MarkVerified, SameAccounts, Account, Live
    <2>2. LinksOK'
      BY <1>1, <1>8, <2>1, SameLive DEF MarkVerified, LinksOK
    <2> QED BY <1>1, <1>8, <2>1, <2>2, IdleShaped, RequestMoves DEF MarkVerified, Ends, Idle
  <1>9. CASE Callback(h)
    <2> DEFINE r == [Idle EXCEPT !.pc = "complete"]
    <2>1. r \in Request /\ Shaped(r, vouched) /\ r.pc = "complete"
      BY DEF Idle, Request, Shaped
    <2>2. flows' \in 0..MaxFlows
      BY <1>1, <1>9, ConstantsAssumption DEF Callback
    <2> QED BY <1>1, <1>2, <1>3, <1>9, <2>1, <2>2, RequestMoves DEF Callback, Becomes
  <1>10. CASE Find(h)
    <2>1. CASE Ends(h)
      BY <1>1, <1>2, <1>3, <1>10, <2>1, IdleShaped, RequestMoves DEF Find, Ends, Idle
    <2>2. CASE ~Ends(h)
      <3> DEFINE r == [req[h] EXCEPT !.pc = "look"]
      <3>1. r \in Request /\ Shaped(r, vouched) /\ r.pc = "look"
        BY <1>1, <1>10 DEF Find, At, Request, Shaped
      <3> QED BY <1>1, <1>2, <1>3, <1>10, <2>2, <3>1, RequestMoves DEF Find, Becomes
    <2> QED BY <2>1, <2>2
  <1>11. CASE Fails(h)
    BY <1>1, <1>2, <1>3, <1>11, IdleShaped, RequestMoves DEF Fails, Ends, Idle
  <1> QED BY <1>4, <1>5, <1>6, <1>7, <1>8, <1>9, <1>10, <1>11

\* A step into or within the transaction of a request, before its COMMIT.
LEMMA TransactionMoves ==
    ASSUME AccountsInv, NEW h \in Handlers, NEW r \in Request, req' = [req EXCEPT ![h] = r],
           UNCHANGED <<account, identity, link, flows, vouched>>,
           Shaped(r, vouched), r.pc \in {"link", "commit"},
           r.fresh => /\ account[r.user].state = "none" /\ Owner(r.email) = {}
                      /\ \A g \in Handlers \ {h} : req[g].fresh =>
                            req[g].user # r.user /\ req[g].email # r.email,
           ~r.fresh => /\ account[r.user].state # "none" /\ r.id \in vouched
                       /\ r.user \in Live => account[r.user].email = Address[r.id],
           r.pc = "commit" =>
              /\ identity[r.id] = None /\ (r.fresh \/ r.user \in Live)
              /\ \A g \in Handlers \ {h} : req[g].pc = "commit" => req[g].id # r.id
    PROVE  AccountsInv'
  <1>1. Live' = Live /\ \A e : Owner(e)' = Owner(e)
    BY DEF Live, Owner
  <1>2. /\ req' \in [Handlers -> Request] /\ req'[h] = r
        /\ \A g \in Handlers \ {h} : req'[g] = req[g]
    BY DEF AccountsInv, RequestsInv
  <1>3. AccountsTypeOK' /\ WayIn' /\ IdentityOwnsAddress'
    BY <1>1, <1>2 DEF AccountsInv, AccountsTypeOK, WayIn, IdentityOwnsAddress
  <1>4. \A g \in Handlers : Shaped(req'[g], vouched')
    BY <1>2 DEF AccountsInv, RequestsInv
  <1>5. OpenInv'
    <2>1. ASSUME NEW g \in Handlers, req'[g].fresh
          PROVE  account[req'[g].user].state = "none" /\ Owner(req'[g].email) = {}
      BY <1>2, <2>1 DEF AccountsInv, RequestsInv, OpenInv
    <2>2. ASSUME NEW f \in Handlers, NEW g \in Handlers, req'[f].fresh, req'[g].fresh, f # g
          PROVE  req'[f].user # req'[g].user /\ req'[f].email # req'[g].email
      BY <1>2, <2>2 DEF AccountsInv, RequestsInv, OpenInv
    <2> QED BY <1>1, <2>1, <2>2 DEF OpenInv
  <1>6. LinkInv'
    <2>1. ASSUME NEW g \in Handlers, req'[g].pc \in {"link", "commit"}, ~req'[g].fresh
          PROVE  /\ account[req'[g].user].state # "none" /\ req'[g].id \in vouched
                 /\ req'[g].user \in Live => account[req'[g].user].email = Address[req'[g].id]
      BY <1>2, <2>1 DEF AccountsInv, RequestsInv, LinkInv
    <2>2. ASSUME NEW g \in Handlers, req'[g].pc = "commit"
          PROVE  identity[req'[g].id] = None /\ (req'[g].fresh \/ req'[g].user \in Live)
      BY <1>2, <2>2 DEF AccountsInv, RequestsInv, LinkInv
    <2>3. ASSUME NEW f \in Handlers, NEW g \in Handlers,
                 req'[f].pc = "commit", req'[g].pc = "commit", f # g
          PROVE  req'[f].id # req'[g].id
      BY <1>2, <2>3 DEF AccountsInv, RequestsInv, LinkInv
    <2> QED BY <1>1, <2>1, <2>2, <2>3 DEF LinkInv
  <1> QED BY <1>2, <1>3, <1>4, <1>5, <1>6 DEF AccountsInv, RequestsInv

LEMMA LookKeeps == ASSUME AccountsInv, NEW h \in Handlers, Look(h) PROVE AccountsInv'
  <1> DEFINE i == req[h].id
  <1>1. /\ req[h] \in Request /\ Shaped(req[h], vouched) /\ req[h].pc = "look"
        /\ i \in Identities /\ vouched \subseteq Identities /\ ~req[h].fresh
    BY DEF AccountsInv, AccountsTypeOK, RequestsInv, Shaped, Look, Looks, At
  <1>2. UNCHANGED <<account, identity, link, flows, vouched>>
    BY DEF Look, Looks
  <1>3. CASE \E u \in Owner(Address[i]) :
                req[h].known /\ Becomes(h, [Idle EXCEPT !.pc = "link", !.user = u, !.id = i])
    <2>1. PICK u \in Owner(Address[i]) :
             req[h].known /\ Becomes(h, [Idle EXCEPT !.pc = "link", !.user = u, !.id = i])
      BY <1>3
    <2> DEFINE r == [Idle EXCEPT !.pc = "link", !.user = u, !.id = i]
    <2>2. u \in Users /\ account[u].state = "live" /\ account[u].email = Address[i]
      BY <2>1 DEF Owner, Live
    <2>3. /\ r \in Request /\ Shaped(r, vouched) /\ r.pc = "link" /\ ~r.fresh
          /\ r.user = u /\ r.id = i
      BY <1>1, <2>2 DEF Idle, Request, Shaped
    <2>4. i \in vouched
      BY <1>1, <2>1 DEF Shaped
    <2> QED BY <1>2, <2>1, <2>2, <2>3, <2>4, TransactionMoves DEF Becomes
  <1>4. CASE Becomes(h, [req[h] EXCEPT !.pc = "create",
                             !.email = IF req[h].known THEN Address[i] ELSE Synthetic[i]])
    <2> DEFINE r == [req[h] EXCEPT !.pc = "create",
                             !.email = IF req[h].known THEN Address[i] ELSE Synthetic[i]]
    <2>1. (IF req[h].known THEN Address[i] ELSE Synthetic[i]) \in Mailboxes
      BY <1>1, AddressesAreMailboxes DEF Shaped
    <2>2. r \in Request /\ Shaped(r, vouched) /\ r.pc = "create"
      BY <1>1, <2>1 DEF Request, Shaped
    <2>3. SameAccounts /\ LinksOK' /\ flows' \in 0..MaxFlows
      BY <1>2 DEF SameAccounts, LinksOK, Live, AccountsInv, AccountsTypeOK
    <2> QED BY <1>1, <1>2, <1>4, <2>2, <2>3, RequestMoves DEF Becomes
  <1>5. \/ \E u \in Owner(Address[i]) :
              req[h].known /\ Becomes(h, [Idle EXCEPT !.pc = "link", !.user = u, !.id = i])
        \/ Becomes(h, [req[h] EXCEPT !.pc = "create",
                             !.email = IF req[h].known THEN Address[i] ELSE Synthetic[i]])
    BY DEF Look, Looks
  <1> QED BY <1>3, <1>4, <1>5

LEMMA CreateKeeps ==
    ASSUME AccountsInv, NEW h \in Handlers, NEW u \in Users, Create(h, u) PROVE AccountsInv'
  <1> DEFINE r == [req[h] EXCEPT !.pc = "link", !.user = u, !.fresh = TRUE]
  <1>1. req[h] \in Request /\ Shaped(req[h], vouched) /\ req[h].pc = "create"
    BY DEF AccountsInv, RequestsInv, Create, At
  <1>2. /\ r \in Request /\ Shaped(r, vouched) /\ r.pc = "link" /\ r.fresh
        /\ r.user = u /\ r.email = req[h].email
    BY <1>1 DEF Request, Shaped
  <1>3. account[u].state = "none" /\ Owner(req[h].email) = {}
    BY DEF Create, Unused
  <1>4. ASSUME NEW g \in Handlers, req[g].fresh
        PROVE  req[g].user # u /\ req[g].email # req[h].email
    <2>1. InOpen(g)
      BY <1>4 DEF AccountsInv, RequestsInv, Shaped, InOpen, At
    <2>2. u \notin Reserved /\ ~EmailHeld(req[h].email)
      BY DEF Create, Unused
    <2> QED BY <1>4, <2>1, <2>2 DEF Reserved, EmailHeld
  <1> HIDE DEF r
  <1> QED BY <1>2, <1>3, <1>4, TransactionMoves DEF Create, Becomes, r

LEMMA LinkKeeps == ASSUME AccountsInv, NEW h \in Handlers, Link(h) PROVE AccountsInv'
  <1> DEFINE r == [req[h] EXCEPT !.pc = "commit"]
  <1>1. req[h] \in Request /\ Shaped(req[h], vouched) /\ req[h].pc = "link"
    BY DEF AccountsInv, RequestsInv, Link, At
  <1>2. /\ r \in Request /\ Shaped(r, vouched) /\ r.pc = "commit" /\ r.fresh = req[h].fresh
        /\ r.user = req[h].user /\ r.email = req[h].email /\ r.id = req[h].id
    BY <1>1 DEF Request, Shaped
  <1>3. r.fresh => /\ account[r.user].state = "none" /\ Owner(r.email) = {}
                   /\ \A g \in Handlers \ {h} : req[g].fresh =>
                         req[g].user # r.user /\ req[g].email # r.email
    BY <1>2 DEF AccountsInv, RequestsInv, OpenInv
  <1>4. ~r.fresh => /\ account[r.user].state # "none" /\ r.id \in vouched
                    /\ r.user \in Live => account[r.user].email = Address[r.id]
    BY <1>1, <1>2 DEF AccountsInv, RequestsInv, LinkInv
  <1>5. /\ identity[r.id] = None /\ (r.fresh \/ r.user \in Live)
        /\ \A g \in Handlers \ {h} : req[g].pc = "commit" => req[g].id # r.id
    BY <1>2 DEF Link, IdentityHeld, At
  <1>6. req' = [req EXCEPT ![h] = r] /\ UNCHANGED <<account, identity, link, flows, vouched>>
    BY DEF Link, Becomes
  <1> HIDE DEF r
  <1> QED BY <1>2, <1>3, <1>4, <1>5, <1>6, TransactionMoves

\* A new account of an address nobody has.
NewAccount(u, e) ==
    /\ u \in Users /\ account[u].state = "none" /\ Owner(e) = {}
    /\ account' \in [Users -> Account]
    /\ account'[u].state = "live" /\ account'[u].email = e
    /\ \A v \in Users \ {u} : account'[v] = account[v]

LEMMA NewAccountIsLive ==
    ASSUME NEW u, NEW e, NewAccount(u, e), \A v, w \in Live : account[v].email = account[w].email => v = w
    PROVE  /\ Live' = Live \cup {u} /\ u \notin Live /\ Live \subseteq Users
           /\ \A v, w \in Live' : account'[v].email = account'[w].email => v = w
           /\ \A f : f # e /\ Owner(f) = {} => \A v \in Live' : account'[v].email # f
  <1>1. Live' = Live \cup {u} /\ u \notin Live /\ Live \subseteq Users
    BY DEF NewAccount, Live
  <1>2. \A v \in Live : v # u /\ account'[v].email = account[v].email /\ account[v].email # e
    BY <1>1 DEF NewAccount, Owner
  <1>3. \A v, w \in Live' : account'[v].email = account'[w].email => v = w
    BY <1>1, <1>2 DEF NewAccount
  <1>4. ASSUME NEW f, f # e, Owner(f) = {} PROVE \A v \in Live' : account'[v].email # f
    BY <1>1, <1>2, <1>4 DEF NewAccount, Owner
  <1> QED BY <1>1, <1>3, <1>4

LEMMA RegisterKeeps ==
    ASSUME AccountsInv, NEW h \in Handlers, NEW u \in Users, NEW e \in Emails, Register(h, u, e)
    PROVE  AccountsInv'
  <1> DEFINE r == [Idle EXCEPT !.pc = "issue", !.user = u]
  <1>1. NewAccount(u, e)
    BY DEF AccountsInv, AccountsTypeOK, Register, Unused, NewAccount, Account, Mailboxes
  <1>2. /\ Live' = Live \cup {u} /\ u \notin Live /\ Live \subseteq Users
        /\ \A v, w \in Live' : account'[v].email = account'[w].email => v = w
        /\ \A f : f # e /\ Owner(f) = {} => \A v \in Live' : account'[v].email # f
    BY ZenonT(60), <1>1, NewAccountIsLive DEF AccountsInv, AccountsTypeOK
  <1>3. r \in Request /\ Shaped(r, vouched) /\ r.pc = "issue" /\ ~r.fresh
    BY DEF Idle, Request, Shaped
  <1>4. /\ req' \in [Handlers -> Request] /\ req'[h] = r
        /\ \A g \in Handlers \ {h} : req'[g] = req[g]
    BY <1>3 DEF AccountsInv, RequestsInv, Register, Becomes
  <1> HIDE DEF r
  <1>5. AccountsTypeOK'
    BY <1>1, <1>2, <1>4 DEF AccountsInv, AccountsTypeOK, NewAccount, Register
  <1>6. \A g \in Handlers : Shaped(req'[g], vouched')
    BY <1>3, <1>4 DEF AccountsInv, RequestsInv, Register
  <1>7. \A g \in Handlers : req[g].fresh => req[g].user # u /\ req[g].email # e
    BY DEF AccountsInv, RequestsInv, Shaped, Register, Unused, Reserved, EmailHeld, InOpen, At
  <1>8. \A g \in Handlers : req'[g].pc \in {"link", "commit"} \/ req'[g].fresh =>
           g # h /\ req'[g] = req[g] /\ req[g].user \in Users
    BY <1>3, <1>4 DEF AccountsInv, RequestsInv, Shaped
  <1>9. OpenInv'
    <2>1. ASSUME NEW g \in Handlers, req'[g].fresh
          PROVE  /\ account'[req'[g].user].state = "none"
                 /\ \A v \in Live' : account'[v].email # req'[g].email
      <3>1. req'[g] = req[g] /\ req[g].user \in Users \ {u} /\ req[g].email # e
        BY <2>1, <1>7, <1>8
      <3>2. account[req[g].user].state = "none" /\ Owner(req[g].email) = {}
        BY <2>1, <3>1 DEF AccountsInv, RequestsInv, OpenInv
      <3>3. \A v \in Live' : account'[v].email # req[g].email
        BY <1>2, <3>1, <3>2
      <3> QED BY <1>1, <3>1, <3>2, <3>3 DEF NewAccount
    <2> QED BY <1>8, <2>1 DEF AccountsInv, RequestsInv, OpenInv, Owner
  <1>10. LinkInv'
    <2>1. \A g \in Handlers : req'[g].pc \in {"link", "commit"} /\ ~req'[g].fresh =>
             account'[req'[g].user] = account[req[g].user] /\ req[g].user # u
      BY <1>1, <1>8 DEF AccountsInv, RequestsInv, LinkInv, NewAccount
    <2> QED BY <1>2, <1>8, <2>1 DEF AccountsInv, RequestsInv, LinkInv, Register
  <1>11. WayIn' /\ IdentityOwnsAddress'
    <2>1. account'[u].password
      BY DEF Register, AccountsInv, AccountsTypeOK
    <2>2. \A i \in Identities : identity[i] # None => identity[i] \in Live
      BY DEF AccountsInv, AccountsTypeOK
    <2> QED BY <1>1, <1>2, <2>1, <2>2
            DEF AccountsInv, WayIn, IdentityOwnsAddress, NewAccount, Register
  <1> QED BY <1>4, <1>5, <1>6, <1>9, <1>10, <1>11 DEF AccountsInv, RequestsInv

\* COMMIT: the identity is the account's, and a new account is there.
LEMMA CommitKeeps == ASSUME AccountsInv, NEW h \in Handlers, Commit(h) PROVE AccountsInv'
  <1> DEFINE u == req[h].user
  <1> DEFINE i == req[h].id
  <1>1. /\ u \in Users /\ i \in Identities /\ identity[i] = None /\ vouched \subseteq Identities
        /\ req[h] \in Request /\ Shaped(req[h], vouched) /\ req[h].pc = "commit"
    BY DEF AccountsInv, AccountsTypeOK, RequestsInv, Shaped, LinkInv, Commit, At
  <1>2. /\ req' \in [Handlers -> Request] /\ req'[h] = Idle
        /\ \A g \in Handlers \ {h} : req'[g] = req[g]
    BY IdleShaped DEF AccountsInv, RequestsInv, Commit, Ends
  <1>3. \A g \in Handlers : Shaped(req'[g], vouched')
    BY <1>2, IdleShaped DEF AccountsInv, RequestsInv, Commit
  <1>4. identity' = [identity EXCEPT ![i] = u] /\ UNCHANGED <<link, flows, vouched>>
    BY DEF Commit
  <1>5. \A g \in Handlers : req'[g].pc \in {"link", "commit"} \/ req'[g].fresh =>
           /\ g # h /\ req'[g] = req[g] /\ req[g].user \in Users
           /\ req[g].id \in Identities /\ (req[g].pc = "commit" => req[g].id # i)
    BY <1>1, <1>2 DEF AccountsInv, RequestsInv, Shaped, Idle, LinkInv
  <1>6. CASE ~req[h].fresh
    <2>1. u \in Live /\ account' = account
      BY <1>1, <1>6 DEF AccountsInv, RequestsInv, LinkInv, Commit
    <2>2. Live' = Live /\ Live \subseteq Users /\ \A f : Owner(f)' = Owner(f)
      BY <2>1 DEF Live, Owner
    <2>3. account[u].email = Address[i] /\ i \in vouched
      BY <1>1, <1>6, <2>1 DEF AccountsInv, RequestsInv, LinkInv
    <2>4. AccountsTypeOK'
      BY <1>1, <1>2, <1>4, <2>1, <2>2 DEF AccountsInv, AccountsTypeOK
    <2>5. OpenInv'
      BY ZenonT(60), <1>5, <2>1, <2>2 DEF AccountsInv, RequestsInv, OpenInv
    <2>6. LinkInv'
      BY <1>4, <1>5, <2>1, <2>2 DEF AccountsInv, AccountsTypeOK, RequestsInv, LinkInv
    <2>7. WayIn'
      <3>1. \A j \in Identities : identity[j] # None => identity'[j] = identity[j]
        BY <1>1, <1>4 DEF AccountsInv, AccountsTypeOK
      <3>2. None \notin Live
        BY ConstantsAssumption DEF Live
      <3> QED BY <2>1, <2>2, <3>1, <3>2 DEF AccountsInv, WayIn
    <2>8. IdentityOwnsAddress'
      BY <1>1, <1>4, <2>1, <2>3 DEF AccountsInv, AccountsTypeOK, IdentityOwnsAddress
    <2> QED BY <1>2, <1>3, <2>4, <2>5, <2>6, <2>7, <2>8 DEF AccountsInv, RequestsInv
  <1>7. CASE req[h].fresh
    <2> DEFINE e == req[h].email
    <2>1. e = (IF req[h].known THEN Address[i] ELSE Synthetic[i]) /\ e \in Mailboxes
          /\ req[h].known \in BOOLEAN /\ (req[h].known => i \in vouched)
      BY <1>1, <1>7, AddressesAreMailboxes DEF Shaped, Request
    <2>2. account' = [account EXCEPT ![u] = FreshAccount(h)]
      BY <1>7 DEF Commit
    <2>3. /\ FreshAccount(h) \in Account /\ FreshAccount(h).state = "live"
          /\ FreshAccount(h).email = e
      BY <2>1 DEF FreshAccount, Account
    <2>4. NewAccount(u, e)
      BY <1>1, <1>7, <2>2, <2>3
         DEF AccountsInv, AccountsTypeOK, RequestsInv, OpenInv, NewAccount
    <2>5. /\ Live' = Live \cup {u} /\ u \notin Live /\ Live \subseteq Users
          /\ \A v, w \in Live' : account'[v].email = account'[w].email => v = w
          /\ \A f : f # e /\ Owner(f) = {} => \A v \in Live' : account'[v].email # f
      BY ZenonT(60), <2>4, NewAccountIsLive DEF AccountsInv, AccountsTypeOK
    <2>6. AccountsTypeOK'
      BY <1>1, <1>2, <1>4, <2>4, <2>5 DEF AccountsInv, AccountsTypeOK, NewAccount
    <2>7. \A g \in Handlers : req'[g].fresh => req[g].user # u /\ req[g].email # e
      BY <1>5, <1>7 DEF AccountsInv, RequestsInv, OpenInv
    <2>8. OpenInv'
      <3>1. ASSUME NEW g \in Handlers, req'[g].fresh
            PROVE  /\ account'[req'[g].user].state = "none"
                   /\ \A v \in Live' : account'[v].email # req'[g].email
        <4>1. req'[g] = req[g] /\ req[g].user \in Users \ {u} /\ req[g].email # e
          BY <3>1, <2>7, <1>5
        <4>2. account[req[g].user].state = "none" /\ Owner(req[g].email) = {}
          BY <3>1, <4>1 DEF AccountsInv, RequestsInv, OpenInv
        <4>3. \A v \in Live' : account'[v].email # req[g].email
          BY <2>5, <4>1, <4>2
        <4> QED BY <2>4, <4>1, <4>2, <4>3 DEF NewAccount
      <3> QED BY <1>5, <3>1 DEF AccountsInv, RequestsInv, OpenInv, Owner
    <2>9. LinkInv'
      <3>1. \A g \in Handlers : req'[g].pc \in {"link", "commit"} /\ ~req'[g].fresh =>
               account'[req'[g].user] = account[req[g].user] /\ req[g].user # u
        BY <1>5, <2>4 DEF AccountsInv, RequestsInv, LinkInv, NewAccount
      <3>2. \A g \in Handlers : req'[g].pc = "commit" => identity'[req'[g].id] = None
        BY <1>4, <1>5 DEF AccountsInv, AccountsTypeOK, RequestsInv, LinkInv
      <3> QED BY <1>4, <1>5, <2>5, <3>1, <3>2 DEF AccountsInv, RequestsInv, LinkInv
    <2>10. WayIn'
      <3>1. \A j \in Identities : identity[j] # None => identity'[j] = identity[j]
        BY <1>1, <1>4 DEF AccountsInv, AccountsTypeOK
      <3>2. None \notin Live /\ identity'[i] = u
        BY <1>1, <1>4, ConstantsAssumption DEF Live, AccountsInv, AccountsTypeOK
      <3>3. \A v \in Live : account'[v] = account[v]
        BY <2>4, <2>5 DEF NewAccount
      <3> QED BY <1>1, <2>5, <3>1, <3>2, <3>3 DEF AccountsInv, WayIn
    <2>11. IdentityOwnsAddress'
      <3>1. \A j \in Identities : identity[j] # None =>
               identity[j] \in Live /\ account'[identity[j]] = account[identity[j]]
        BY <2>4, <2>5 DEF AccountsInv, AccountsTypeOK, NewAccount
      <3>2. account'[u].email = e
        BY <2>4 DEF NewAccount
      <3> QED BY <1>1, <1>4, <2>1, <3>1, <3>2
              DEF AccountsInv, AccountsTypeOK, IdentityOwnsAddress
    <2> QED BY <1>2, <1>3, <2>6, <2>8, <2>9, <2>10, <2>11 DEF AccountsInv, RequestsInv
  <1> QED BY <1>6, <1>7

LEMMA DeleteKeeps == ASSUME AccountsInv, NEW u \in Users, DeleteAccount(u) PROVE AccountsInv'
  <1>1. /\ account' \in [Users -> Account] /\ account'[u].state = "gone"
        /\ \A v \in Users \ {u} : account'[v] = account[v]
    BY DEF AccountsInv, AccountsTypeOK, DeleteAccount, NoAccount, Account
  <1>2. Live' = Live \ {u} /\ Live \subseteq Users /\ u \in Live
    BY <1>1 DEF Live, DeleteAccount
  <1>3. UNCHANGED <<flows, req, vouched>>
    BY DEF DeleteAccount
  <1>4. \A i \in Identities :
           identity'[i] = (IF identity[i] = u THEN None ELSE identity[i])
           /\ (identity'[i] # None => identity'[i] = identity[i] /\ identity'[i] \in Live')
    BY <1>2 DEF AccountsInv, AccountsTypeOK, DeleteAccount
  <1>5. AccountsTypeOK'
    <2>1. LinksOK'
      BY <1>2 DEF AccountsInv, AccountsTypeOK, DeleteAccount, LinksOK
    <2>2. identity' \in [Identities -> Live' \cup {None}]
      BY <1>2 DEF AccountsInv, AccountsTypeOK, DeleteAccount
    <2> QED BY <1>1, <1>2, <1>3, <2>1, <2>2 DEF AccountsInv, AccountsTypeOK, LinksOK
  <1>6. OpenInv'
    <2>1. \A h \in Handlers : req[h].fresh => req[h].user \in Users \ {u}
      BY <1>2 DEF AccountsInv, RequestsInv, OpenInv, Shaped, Live
    <2>2. \A h \in Handlers : req[h].fresh => account'[req[h].user].state = "none"
      BY <1>1, <2>1 DEF AccountsInv, RequestsInv, OpenInv
    <2>3. \A h \in Handlers : req[h].fresh => \A v \in Live' : account'[v].email # req[h].email
      BY <1>1, <1>2 DEF AccountsInv, RequestsInv, OpenInv, Owner
    <2> QED BY <1>3, <2>2, <2>3 DEF AccountsInv, RequestsInv, OpenInv, Owner
  <1>7. LinkInv'
    <2>1. \A h \in Handlers : req[h].pc \in {"link", "commit"} =>
             req[h].user \in Users /\ req[h].id \in Identities
      BY DEF AccountsInv, RequestsInv, Shaped
    <2>2. ASSUME NEW h \in Handlers, req[h].pc \in {"link", "commit"}, ~req[h].fresh
          PROVE  /\ account'[req[h].user].state # "none" /\ req[h].id \in vouched
                 /\ req[h].user \in Live' => account'[req[h].user].email = Address[req[h].id]
      BY <1>1, <1>2, <2>1, <2>2 DEF AccountsInv, RequestsInv, LinkInv
    <2>3. ASSUME NEW h \in Handlers, req[h].pc = "commit"
          PROVE  identity'[req[h].id] = None /\ (req[h].fresh \/ req[h].user \in Live')
      BY <1>2, <1>4, <2>1, <2>3 DEF AccountsInv, RequestsInv, LinkInv, DeleteAccount, At
    <2> QED BY <1>3, <2>2, <2>3 DEF AccountsInv, RequestsInv, LinkInv
  <1>8. WayIn' /\ IdentityOwnsAddress'
    <2>1. \A v \in Live' : account'[v] = account[v]
      BY <1>1, <1>2
    <2>2. WayIn'
      BY <1>2, <1>4, <2>1 DEF AccountsInv, WayIn
    <2>3. IdentityOwnsAddress'
      BY <1>3, <1>4, <2>1 DEF AccountsInv, IdentityOwnsAddress
    <2> QED BY <2>2, <2>3
  <1> QED BY <1>3, <1>5, <1>6, <1>7, <1>8 DEF AccountsInv, RequestsInv

LEMMA AccountsInvNext ==
    AccountsInv /\ (AccountsStep \/ (\E u \in Users : DeleteAccount(u)) \/ UNCHANGED vars)
        => AccountsInv'
  <1> SUFFICES ASSUME AccountsInv,
                      AccountsStep \/ (\E u \in Users : DeleteAccount(u)) \/ UNCHANGED vars
               PROVE  AccountsInv'
    OBVIOUS
  <1>1. ASSUME UNCHANGED <<account, identity, req, vouched>>, LinksOK', flows' \in 0..MaxFlows
        PROVE  AccountsInv'
    <2>1. AccountsTypeOK' /\ WayIn' /\ IdentityOwnsAddress'
      BY <1>1 DEF AccountsInv, AccountsTypeOK, LinksOK, WayIn, IdentityOwnsAddress, Live
    <2>2. RequestsInv'
      BY <1>1 DEF AccountsInv, RequestsInv, OpenInv, LinkInv, Owner, Live
    <2> QED BY <2>1, <2>2 DEF AccountsInv
  <1>2. CASE StartFlow \/ FlowExpires
    <2>1. flows' \in 0..MaxFlows
      BY <1>2, ConstantsAssumption DEF StartFlow, FlowExpires, AccountsInv, AccountsTypeOK
    <2>2. LinksOK'
      BY <1>2 DEF StartFlow, FlowExpires, AccountsInv, AccountsTypeOK, LinksOK, Live
    <2> QED BY <1>1, <1>2, <2>1, <2>2 DEF StartFlow, FlowExpires
  <1>3. ASSUME NEW t \in Links, LinkExpires(t) PROVE AccountsInv'
    <2>1. LinksOK'
      BY <1>3 DEF LinkExpires, AccountsInv, AccountsTypeOK, LinksOK, Live
    <2>2. flows' \in 0..MaxFlows
      BY <1>3 DEF LinkExpires, AccountsInv, AccountsTypeOK
    <2> QED BY <1>1, <1>3, <2>1, <2>2 DEF LinkExpires
  <1>4. CASE UNCHANGED vars
    <2>1. LinksOK' /\ flows' \in 0..MaxFlows
      BY <1>4 DEF vars, AccountsInv, AccountsTypeOK, LinksOK, Live
    <2> QED BY <1>1, <1>4, <2>1 DEF vars
  <1> QED BY <1>2, <1>3, <1>4, MovesKeep, LookKeeps, CreateKeeps, LinkKeeps, RegisterKeeps,
             CommitKeeps, DeleteKeeps
          DEF AccountsStep

-----------------------------------------------------------------------------
(* Roles. *)

RolesInv == AccountsInv /\ TypeOK

LEMMA RolesInvInit == Init => RolesInv
  <1> SUFFICES ASSUME Init PROVE RolesInv
    OBVIOUS
  <1>1. AccountsInv
    BY AccountsInvInit DEF Init
  <1>2. IdleAdmin \in AdminRequest
    BY RolesAssumption DEF IdleAdmin, AdminRequest
  <1> QED BY <1>1, <1>2 DEF Init, RolesInv, TypeOK, AccountsInv, IdleAdmin

\* Accounts are only added, but by a deletion.
LEMMA LiveGrows == AccountsInv /\ AccountsStep => Live \subseteq Live'
  <1> SUFFICES ASSUME AccountsInv, AccountsStep PROVE Live \subseteq Live'
    OBVIOUS
  <1>1. account \in [Users -> Account]
    BY DEF AccountsInv, AccountsTypeOK
  <1>2. ASSUME account' = account PROVE Live \subseteq Live'
    BY <1>2 DEF Live
  <1>3. ASSUME NEW h \in Handlers, NEW u \in Users, NEW e \in Emails, Register(h, u, e)
        PROVE  Live \subseteq Live'
    BY <1>1, <1>3 DEF Register, Live
  <1>4. ASSUME NEW h \in Handlers, MarkVerified(h) PROVE Live \subseteq Live'
    BY <1>1, <1>4 DEF MarkVerified, Live, Account
  <1>5. ASSUME NEW h \in Handlers, Commit(h) PROVE Live \subseteq Live'
    BY <1>1, <1>5 DEF Commit, Live, FreshAccount
  <1>6. ASSUME NEW h \in Handlers,
               \/ \E u \in Users : Resend(h, u) \/ Create(h, u)
               \/ \E t \in Links : IssueLink(h, t) \/ VerifyEmail(h, t)
               \/ \E i \in Identities, known \in BOOLEAN : Complete(h, i, known)
               \/ Callback(h) \/ Find(h) \/ Look(h) \/ Link(h) \/ Fails(h)
        PROVE  account' = account
    BY <1>6 DEF Resend, Create, IssueLink, VerifyEmail, Complete, Callback, Find, Look, Looks,
                Link, Fails
  <1>7. StartFlow \/ FlowExpires \/ (\E t \in Links : LinkExpires(t)) => account' = account
    BY DEF StartFlow, FlowExpires, LinkExpires
  <1> QED BY <1>2, <1>3, <1>4, <1>5, <1>6, <1>7 DEF AccountsStep

\* A request to the admin routes moves alone.
LEMMA AdminMoves ==
    ASSUME RolesInv, NEW a \in AdminRequests, NEW r \in AdminRequest,
           areq' = [areq EXCEPT ![a] = r], UNCHANGED <<vars, roles>>
    PROVE  TypeOK'
  <1>1. Live' = Live /\ AccountsTypeOK'
    BY AccountsInvNext DEF RolesInv, vars, Live, AccountsInv
  <1>2. areq' \in [AdminRequests -> AdminRequest]
    BY DEF RolesInv, TypeOK
  <1> QED BY <1>1, <1>2 DEF RolesInv, TypeOK

\* The INSERT of a role looks at the account, the DELETE needs none.
LEMMA GrantsKeep ==
    ASSUME RolesInv, NEW a \in AdminRequests, AssignRole(a) \/ RevokeRole(a)
    PROVE  TypeOK'
  <1> DEFINE row == <<areq[a].user, areq[a].role>>
  <1>1. /\ AssignRole(a) => areq[a].user \in Live /\ roles' = roles \cup {row}
        /\ RevokeRole(a) => roles' = roles \ {row}
        /\ UNCHANGED vars /\ areq' = [areq EXCEPT ![a] = IdleAdmin]
    BY DEF AssignRole, Assigns, RevokeRole, AdminEnds, Asks
  <1>2. AccountsInv' /\ Live' = Live
    BY <1>1, AccountsInvNext DEF RolesInv, vars, Live
  <1>3. roles' \subseteq Live' \X RoleNames
    BY <1>1, <1>2 DEF RolesInv, TypeOK, AdminRequest
  <1>4. areq' \in [AdminRequests -> AdminRequest]
    BY <1>1, RolesAssumption DEF RolesInv, TypeOK, IdleAdmin, AdminRequest
  <1> QED BY <1>2, <1>3, <1>4 DEF TypeOK, AccountsInv

\* The roles of a deleted account go with it.
LEMMA RolesDeleteKeeps ==
    ASSUME RolesInv, NEW u \in Users, Delete(u) PROVE TypeOK'
  <1>1. AccountsInv'
    BY AccountsInvNext DEF RolesInv, Delete
  <1>2. Live' = Live \ {u}
    BY DEF RolesInv, TypeOK, AccountsTypeOK, Delete, DeleteAccount, NoAccount, Live
  <1>3. roles' = {r \in roles : r[1] # u} /\ areq' = areq
    BY DEF Delete
  <1>4. roles' \subseteq Live' \X RoleNames
    BY <1>2, <1>3 DEF RolesInv, TypeOK
  <1> QED BY <1>1, <1>3, <1>4 DEF RolesInv, TypeOK, AccountsInv

LEMMA RolesInvNext == RolesInv /\ [Next]_rvars => RolesInv'
  <1> SUFFICES ASSUME RolesInv, [Next]_rvars PROVE RolesInv'
    OBVIOUS
  <1>1. AccountsInv'
    <2>1. ASSUME NEW a \in AdminRequests,
                 \/ \E by, u \in Users, r \in RoleNames :
                       Authorized(a, by, "target", u, r) \/ Authorized(a, by, "check", u, r)
                 \/ FindTarget(a) \/ AssignRole(a) \/ IsLastAdmin(a) \/ RevokeRole(a)
                 \/ Boot(a) \/ AdminFails(a)
          PROVE  UNCHANGED vars
      BY <2>1 DEF Authorized, FindTarget, AssignRole, Assigns, IsLastAdmin, RevokeRole, Boot,
                  AdminFails
    <2> QED BY <2>1, AccountsInvNext DEF RolesInv, Next, Delete, rvars
  <1>2. CASE AccountsStep /\ UNCHANGED <<roles, areq>>
    <2>1. Live \subseteq Live'
      BY <1>2, LiveGrows DEF RolesInv
    <2>2. TypeOK'
      BY <1>1, <1>2, <2>1 DEF RolesInv, AccountsInv, TypeOK
    <2> QED BY <1>1, <2>2 DEF RolesInv
  <1>3. CASE UNCHANGED rvars
    BY <1>1, <1>3 DEF rvars, vars, RolesInv, AccountsInv, TypeOK, Live
  <1>4. ASSUME NEW u \in Users, Delete(u) PROVE RolesInv'
    BY <1>1, <1>4, RolesDeleteKeeps DEF RolesInv
  <1>5. ASSUME NEW a \in AdminRequests, NEW by \in Users, NEW u \in Users, NEW r \in RoleNames,
               NEW pc \in {"target", "check"}, Authorized(a, by, pc, u, r)
        PROVE  RolesInv'
    <2> DEFINE to == [pc |-> pc, by |-> by, user |-> u, role |-> r]
    <2>1. to \in AdminRequest
      BY DEF AdminRequest
    <2> QED BY <1>1, <1>5, <2>1, AdminMoves DEF Authorized, Asks, RolesInv
  <1>6. ASSUME NEW a \in AdminRequests,
               FindTarget(a) \/ IsLastAdmin(a) \/ Boot(a) \/ AdminFails(a)
        PROVE  RolesInv'
    <2>1. /\ IdleAdmin \in AdminRequest /\ areq[a] \in AdminRequest
          /\ UNCHANGED <<vars, roles>>
      BY <1>6, RolesAssumption DEF IdleAdmin, AdminRequest, RolesInv, TypeOK,
            FindTarget, IsLastAdmin, Boot, AdminFails
    <2>2. CASE AdminEnds(a)
      BY <1>1, <2>1, <2>2, AdminMoves DEF AdminEnds, Asks, RolesInv
    <2>3. CASE FindTarget(a) /\ ~AdminEnds(a)
      <3> DEFINE to == [areq[a] EXCEPT !.pc = "assign"]
      <3>1. to \in AdminRequest
        BY <2>1 DEF AdminRequest
      <3>2. areq' = [areq EXCEPT ![a] = to]
        BY <2>3 DEF FindTarget, Asks
      <3> QED BY <1>1, <2>1, <3>1, <3>2, AdminMoves DEF RolesInv
    <2>4. CASE IsLastAdmin(a) /\ ~AdminEnds(a)
      <3> DEFINE to == [areq[a] EXCEPT !.pc = "remove", !.by = None]
      <3>1. to \in AdminRequest
        BY <2>1 DEF AdminRequest
      <3>2. areq' = [areq EXCEPT ![a] = to]
        BY <2>4 DEF IsLastAdmin, Asks
      <3> QED BY <1>1, <2>1, <3>1, <3>2, AdminMoves DEF RolesInv
    <2>5. CASE Boot(a)
      <3>1. PICK u \in Owner(ADMIN_EMAIL) : Asks(a, [IdleAdmin EXCEPT !.pc = "assign", !.user = u])
        BY <2>5 DEF Boot
      <3> DEFINE to == [IdleAdmin EXCEPT !.pc = "assign", !.user = u]
      <3>2. to \in AdminRequest
        BY RolesAssumption DEF IdleAdmin, AdminRequest, Owner, Live
      <3> QED BY <1>1, <2>1, <3>1, <3>2, AdminMoves DEF Asks, RolesInv
    <2> QED BY <1>6, <2>2, <2>3, <2>4, <2>5 DEF AdminFails
  <1> QED BY <1>1, <1>2, <1>3, <1>4, <1>5, <1>6, GrantsKeep DEF Next, RolesInv

-----------------------------------------------------------------------------
(* The theorems. *)

LEMMA RolesInvAlways == Spec => []RolesInv
  BY RolesInvInit, RolesInvNext, PTL DEF Spec

\* Every variable keeps its type; an address is of one account, and identities,
\* links and roles are of accounts that are there.
THEOREM TypeCorrect == Spec => []TypeOK
  BY RolesInvAlways, PTL DEF RolesInv

\* However callbacks race, fail or meet a deletion, nobody is left with an account
\* that nothing signs in to.
THEOREM EveryAccountHasAWayIn == Spec => []WayIn
  BY RolesInvAlways, PTL DEF RolesInv, AccountsInv

\* Whatever is registered or deleted while a callback runs, an identity is linked
\* only to the account of an address its provider has called verified.
THEOREM IdentitiesOwnTheirAddress == Spec => []IdentityOwnsAddress
  BY RolesInvAlways, PTL DEF RolesInv, AccountsInv
=============================================================================
