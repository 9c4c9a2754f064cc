-------------------------- MODULE PaymentPipeline --------------------------
(***************************************************************************)
(* The payment pipeline of the API: the route that creates a payment, the  *)
(* Stripe webhook that moves it, and the journal entries it posts, run by   *)
(* concurrent requests over one Postgres database (READ COMMITTED) and one  *)
(* payment provider that delivers its events at least once and in any order.*)
(*                                                                         *)
(* A webhook request is one database transaction of several statements.     *)
(* Each statement is an action; what it writes stays in the request's own   *)
(* record of `tx` until Commit, and Abort throws it away.  The three places *)
(* where Postgres makes one transaction wait for another (the primary key   *)
(* of the inbox, the row lock of an UPDATE, the unique key of the journal)   *)
(* are guards.                                                              *)
(*                                                                         *)
(* Left out: amounts and currency (an intent has one, fixed when it is      *)
(* created), the audit log, signatures and HTTP replies.                    *)
(***************************************************************************)
EXTENDS Naturals, FiniteSets

CONSTANTS
    Intents,      \* the provider's payment intents, one per idempotency key
    OutOfBand,    \* the intents this application never created
    Users, Owner, \* accounts, and the account that pays each intent
    EventIds,     \* ids the provider can give to its events
    Handlers,     \* webhook requests that can be in flight at once
    NoEvent,
    MaxTime,      \* bound: seconds the provider's clock can show
    MaxAborts     \* bound: webhook transactions that fail or crash

ASSUME ConstantsAssumption ==
    /\ OutOfBand \subseteq Intents
    /\ Owner \in [Intents -> Users]
    /\ MaxTime \in Nat \ {0} /\ MaxAborts \in Nat
    /\ NoEvent \notin EventIds

\* Provider event types; payment_intent. and charge. prefixes are dropped.
PaymentTypes == {"processing", "succeeded", "payment_failed", "canceled"}
LedgerTypes  == {"refund.created", "dispute.created"}
Types        == PaymentTypes \cup LedgerTypes \cup {"other"}

Event == [type : Types, intent : Intents, at : 1..MaxTime]

ASSUME NoEventAssumption == NoEvent \notin Event

\* KIND_BY_TYPE followed by STATUS_OF: the status a payment event asks for.
\* Faulty variants first: no mapping at all, and a pending payment taken as paid.
StatusOfUnmapped(type) == type
StatusOfHopeful(type)  == IF type = "processing" THEN "succeeded" ELSE type
StatusOf(type) == IF type = "payment_failed" THEN "failed" ELSE type

\* The kind of journal entry an event posts.
EntryKind(type) ==
    CASE type = "succeeded"       -> "charge"
      [] type = "refund.created"  -> "refund"
      [] type = "dispute.created" -> "dispute"

PaymentStatus == {"created", "processing", "succeeded", "failed", "canceled"}
TERMINAL == {"succeeded", "failed", "canceled"}

Entry == [kind : {"charge", "refund", "dispute"}, reference : Intents, by : EventIds]

VARIABLES
    provider,   \* the provider's own state of each intent
    secret,     \* intents whose client secret a browser holds
    event,      \* what the provider emitted under each event id
    now,        \* the provider's clock, in seconds
    creating,   \* create requests between the provider's answer and the INSERT
    accounts,   \* rows of users
    status,     \* payments.status, "none" when there is no row
    lastAt,     \* payments.last_event_at, 0 for NULL
    inbox,      \* provider_events.status, "absent" when there is no row
    journal,    \* committed ledger entries; `by` stands for the entry's own id
    tx,         \* the webhook transaction of each handler
    aborts

providerVars == <<provider, secret, event, now>>
dbVars       == <<accounts, status, lastAt, inbox, journal>>
vars == <<provider, secret, event, now, creating, accounts, status, lastAt,
          inbox, journal, tx, aborts>>

\* The statement a transaction is at, its event, whether it holds an updated row
\* and a new journal entry, and the inbox status it will commit.
Transaction ==
    [pc : {"idle", "claim", "read", "update", "post", "commit"},
     ev : EventIds \cup {NoEvent}, row : BOOLEAN, post : BOOLEAN,
     mark : {"processed", "unmatched", "unhandled"}]

Idle == [pc |-> "idle", ev |-> NoEvent, row |-> FALSE, post |-> FALSE,
         mark |-> "processed"]

TypeOK ==
    /\ provider \in [Intents -> {"none", "open", "processing", "succeeded", "canceled"}]
    /\ secret \subseteq Intents
    /\ event \in [EventIds -> Event \cup {NoEvent}]
    /\ now \in 1..MaxTime
    /\ creating \subseteq Intents
    /\ accounts \subseteq Users
    /\ status \in [Intents -> PaymentStatus \cup {"none"}]
    /\ lastAt \in [Intents -> 0..MaxTime]
    /\ inbox \in [EventIds -> {"absent", "processed", "unmatched", "unhandled"}]
    /\ journal \subseteq Entry
    /\ tx \in [Handlers -> Transaction]
    /\ aborts \in 0..MaxAborts

Init ==
    /\ provider = [i \in Intents |-> IF i \in OutOfBand THEN "open" ELSE "none"]
    /\ secret = OutOfBand
    /\ event = [x \in EventIds |-> NoEvent]
    /\ now = 1
    /\ creating = {}
    /\ accounts = Users
    /\ status = [i \in Intents |-> "none"]
    /\ lastAt = [i \in Intents |-> 0]
    /\ inbox = [x \in EventIds |-> "absent"]
    /\ journal = {}
    /\ tx = [h \in Handlers |-> Idle]
    /\ aborts = 0

-----------------------------------------------------------------------------
(* The provider. *)

Emit(type, i) ==
    \E x \in EventIds :
        /\ event[x] = NoEvent
        /\ event' = [event EXCEPT ![x] = [type |-> type, intent |-> i, at |-> now]]

\* The intent moves from one of `from` to `to` and the provider says so.
ProviderMoves(i, from, to, type) ==
    /\ provider[i] \in from
    /\ provider' = [provider EXCEPT ![i] = to]
    /\ Emit(type, i)
    /\ UNCHANGED <<secret, now, creating, dbVars, tx, aborts>>

\* Only a browser that holds the client secret can confirm an intent.
Confirms(i) == i \in secret /\ ProviderMoves(i, {"open"}, "processing", "processing")
Settles(i)  == i \in secret /\ ProviderMoves(i, {"open", "processing"}, "succeeded", "succeeded")
\* A declined card leaves the intent open: the form stays mounted, Pay again.
Declines(i) == i \in secret /\ ProviderMoves(i, {"open", "processing"}, "open", "payment_failed")
\* Canceled from the provider's dashboard: no secret needed.
Cancels(i)  == ProviderMoves(i, {"open"}, "canceled", "canceled")

\* Refunds and disputes of a settled intent, at most one of each, and event
\* types the application has no handler for.
Emitted(type, i) ==
    \E x \in EventIds : event[x] # NoEvent /\ event[x].type = type /\ event[x].intent = i

Announces(i, type) ==
    /\ type \in LedgerTypes => provider[i] = "succeeded"
    /\ type = "other" => provider[i] # "none"
    /\ ~Emitted(type, i)
    /\ Emit(type, i)
    /\ UNCHANGED <<provider, secret, now, creating, dbVars, tx, aborts>>

\* The provider can give one occurrence two event ids.
Repeats(x) ==
    /\ event[x] # NoEvent
    /\ \E y \in EventIds : event[y] = NoEvent /\ event' = [event EXCEPT ![y] = event[x]]
    /\ UNCHANGED <<provider, secret, now, creating, dbVars, tx, aborts>>

Tick ==
    /\ now < MaxTime
    /\ now' = now + 1
    /\ UNCHANGED <<provider, secret, event, creating, dbVars, tx, aborts>>

-----------------------------------------------------------------------------
(* POST /payments: ask the provider for the intent, then record it.         *)

\* paymentIntents.create under the idempotency key: a retry gets the same
\* intent.  `answered` are the intents whose secret has left with this call.
AskProvider(i, answered) ==
    /\ i \notin OutOfBand /\ i \notin creating
    /\ Owner[i] \in accounts
    /\ provider' = [provider EXCEPT ![i] = IF @ = "none" THEN "open" ELSE @]
    /\ creating' = creating \cup {i}
    /\ secret' = secret \cup answered
    /\ UNCHANGED <<event, now, dbVars, tx, aborts>>

\* Faulty variant: the browser is answered before the row exists.
CreateIntentAndReply(i) == AskProvider(i, {i})

CreateIntent(i) == AskProvider(i, {})

\* INSERT ... ON CONFLICT (idempotency_key) DO NOTHING, then the reply.  The
\* foreign key refuses the row once the account is gone.
RecordCreatedPayment(i) ==
    /\ i \in creating /\ Owner[i] \in accounts
    /\ creating' = creating \ {i}
    /\ status' = [status EXCEPT ![i] = IF @ = "none" THEN "created" ELSE @]
    /\ secret' = secret \cup {i}
    /\ UNCHANGED <<provider, event, now, accounts, lastAt, inbox, journal, tx, aborts>>

\* The 502 branch, or the process dies between the two calls.
CreateFails(i) ==
    /\ i \in creating
    /\ creating' = creating \ {i}
    /\ UNCHANGED <<providerVars, dbVars, tx, aborts>>

\* DELETE /account cascades to the payments, and waits for their row locks.
DeleteAccount(u) ==
    /\ u \in accounts
    /\ \A h \in Handlers : tx[h].row => Owner[event[tx[h].ev].intent] # u
    /\ accounts' = accounts \ {u}
    /\ status' = [i \in Intents |-> IF Owner[i] = u THEN "none" ELSE status[i]]
    /\ lastAt' = [i \in Intents |-> IF Owner[i] = u THEN 0 ELSE lastAt[i]]
    /\ UNCHANGED <<providerVars, creating, inbox, journal, tx, aborts>>

-----------------------------------------------------------------------------
(* POST /webhooks/stripe. *)

Of(h)     == event[tx[h].ev]     \* the event that handler h is processing
Intent(h) == Of(h).intent

\* Handler h, at step `from`, becomes `to`, a transaction record.
Goes(h, from, to) == tx[h].pc = from /\ tx' = [tx EXCEPT ![h] = to]
At(h, pc)         == [tx[h] EXCEPT !.pc = pc]

\* Any delivery of any event: first, late, out of order, repeated.
Deliver(h, x) ==
    /\ event[x] # NoEvent
    /\ Goes(h, "idle", [Idle EXCEPT !.pc = "claim", !.ev = x])
    /\ UNCHANGED <<providerVars, creating, dbVars, aborts>>

\* The claim of an event id is held from its INSERT to the end of the transaction.
Claimed(h)      == tx[h].pc \in {"read", "update", "post", "commit"}
ClaimHeld(h, x) == \E g \in Handlers \ {h} : Claimed(g) /\ tx[g].ev = x

FirstStep(type) ==
    IF type \in PaymentTypes THEN "read"
    ELSE IF type \in LedgerTypes THEN "post" ELSE "commit"

\* Faulty variant: the claim is committed on its own, ahead of the processing.
ClaimAutocommit(h) ==
    /\ Goes(h, "claim", At(h, FirstStep(Of(h).type)))
    /\ inbox[tx[h].ev] = "absent"
    /\ inbox' = [inbox EXCEPT ![tx[h].ev] = "processed"]
    /\ UNCHANGED <<providerVars, creating, accounts, status, lastAt, journal, aborts>>

\* INSERT INTO provider_events ... ON CONFLICT DO NOTHING, which waits for an
\* uncommitted insert of the same id.  A committed one: nothing left to do.
Claim(h) ==
    /\ Goes(h, "claim",
            IF inbox[tx[h].ev] # "absent" THEN Idle
            ELSE [At(h, FirstStep(Of(h).type)) EXCEPT
                    !.mark = IF Of(h).type = "other" THEN "unhandled" ELSE "processed"])
    /\ ~ClaimHeld(h, tx[h].ev)
    /\ UNCHANGED <<providerVars, creating, dbVars, aborts>>

\* Strictly older only: an event of the same second still applies (the faulty
\* variant drops it).
StaleOrEqual(i, e) == lastAt[i] # 0 /\ lastAt[i] >= e.at
Stale(i, e)        == lastAt[i] # 0 /\ lastAt[i] > e.at

\* applyPaymentEvent, the SELECT: it takes no lock, and what it saw is not
\* looked at again.  `final` are the statuses that are left alone.
Reads(h, final) ==
    /\ Goes(h, "read",
            IF status[Intent(h)] = "none" THEN [At(h, "commit") EXCEPT !.mark = "unmatched"]
            ELSE IF status[Intent(h)] \in final \/ Stale(Intent(h), Of(h))
                 THEN At(h, "commit")
                 ELSE At(h, "update"))
    /\ UNCHANGED <<providerVars, creating, dbVars, aborts>>

\* Faulty variant: only a settled payment counts as finished.
ReadUnlessSettled(h) == Reads(h, {"succeeded"})

Read(h) == Reads(h, TERMINAL)

\* applyPaymentEvent, the UPDATE by id: waits for the row lock, finds the row
\* whatever its status is by then, or finds none if the account is gone.
RowLocked(h, i) == \E g \in Handlers \ {h} : tx[g].row /\ Intent(g) = i

Updated(h) ==
    [At(h, IF Of(h).type = "succeeded" THEN "post" ELSE "commit") EXCEPT
        !.row = status[Intent(h)] # "none"]

\* Faulty variant: the UPDATE runs outside the transaction.
UpdateAutocommit(h) ==
    /\ Goes(h, "update", Updated(h))
    /\ ~RowLocked(h, Intent(h)) /\ status[Intent(h)] # "none"
    /\ status' = [status EXCEPT ![Intent(h)] = StatusOf(Of(h).type)]
    /\ lastAt' = [lastAt EXCEPT ![Intent(h)] = Of(h).at]
    /\ UNCHANGED <<providerVars, creating, accounts, inbox, journal, aborts>>

Update(h) ==
    /\ Goes(h, "update", Updated(h))
    /\ ~RowLocked(h, Intent(h))
    /\ UNCHANGED <<providerVars, creating, dbVars, aborts>>

\* postEntry: INSERT ... ON CONFLICT (kind, reference) DO NOTHING, which waits
\* for an uncommitted insert of the same key.
SameKey(x, y) ==
    /\ EntryKind(event[x].type) = EntryKind(event[y].type)
    /\ event[x].intent = event[y].intent

KeyHeld(h) == \E g \in Handlers \ {h} : tx[g].post /\ SameKey(tx[g].ev, tx[h].ev)

Posted(kind, i) == \E e \in journal : e.kind = kind /\ e.reference = i

\* Faulty variant: no unique key on (kind, reference).
NeverPosted(kind, i) == FALSE
AlreadyPosted(kind, i) == Posted(kind, i)

\* A charge is posted from the payment row just updated.
RowGone(h) == Of(h).type = "succeeded" /\ ~tx[h].row

Post(h) ==
    /\ Goes(h, "post",
            [At(h, "commit") EXCEPT
                !.post = ~AlreadyPosted(EntryKind(Of(h).type), Intent(h))])
    /\ ~RowGone(h) /\ ~KeyHeld(h)
    /\ UNCHANGED <<providerVars, creating, dbVars, aborts>>

\* executeTakeFirstOrThrow: the row went away under the transaction.
PostThrows(h) ==
    /\ Goes(h, "post", Idle)
    /\ RowGone(h)
    /\ UNCHANGED <<providerVars, creating, dbVars, aborts>>

EntryOf(h) == [kind |-> EntryKind(Of(h).type), reference |-> Intent(h), by |-> tx[h].ev]

Commit(h) ==
    /\ Goes(h, "commit", Idle)
    /\ inbox' = [inbox EXCEPT ![tx[h].ev] = tx[h].mark]
    /\ status' = IF tx[h].row THEN [status EXCEPT ![Intent(h)] = StatusOf(Of(h).type)] ELSE status
    /\ lastAt' = IF tx[h].row THEN [lastAt EXCEPT ![Intent(h)] = Of(h).at] ELSE lastAt
    /\ journal' = IF tx[h].post THEN journal \cup {EntryOf(h)} ELSE journal
    /\ UNCHANGED <<providerVars, creating, accounts, aborts>>

\* A database error, a lost connection or a crash: everything rolls back.
Abort(h) ==
    /\ tx[h].pc # "idle" /\ aborts < MaxAborts
    /\ tx' = [tx EXCEPT ![h] = Idle]
    /\ aborts' = aborts + 1
    /\ UNCHANGED <<providerVars, creating, dbVars>>

-----------------------------------------------------------------------------
Provider ==
    \/ \E i \in Intents : Confirms(i) \/ Settles(i) \/ Declines(i) \/ Cancels(i)
    \/ \E i \in Intents, type \in LedgerTypes \cup {"other"} : Announces(i, type)
    \/ \E x \in EventIds : Repeats(x)
    \/ Tick

Checkout ==
    \/ \E i \in Intents : CreateIntent(i) \/ RecordCreatedPayment(i) \/ CreateFails(i)
    \/ \E u \in Users : DeleteAccount(u)

Runs(h) == Claim(h) \/ Read(h) \/ Update(h) \/ Post(h) \/ PostThrows(h) \/ Commit(h)

Webhook ==
    \E h \in Handlers :
        \/ \E x \in EventIds : Deliver(h, x)
        \/ Runs(h)
        \/ Abort(h)

Next == Provider \/ Checkout \/ Webhook

Spec == Init /\ [][Next]_vars

\* An accepted request runs on; the provider retries what was not acknowledged.
Retries(x) == inbox[x] = "absent" /\ \E h \in Handlers : Deliver(h, x)

FairSpec ==
    /\ Spec
    /\ \A h \in Handlers : WF_vars(Runs(h))
    /\ \A x \in EventIds : SF_vars(Retries(x))

-----------------------------------------------------------------------------
(* What the pipeline promises. *)

Charged(i) == Posted("charge", i)

\* A payment shown as succeeded has its charge in the journal: "a payment and
\* its journal entry commit together", whatever runs beside it or fails half way.
SettledHasCharge == \A i \in Intents : status[i] = "succeeded" => Charged(i)

\* Money movements are posted once, although two requests can hold two events
\* for the same occurrence, and one event can be delivered many times.
PostedOnce ==
    \A d, e \in journal : d.kind = e.kind /\ d.reference = e.reference => d = e

\* The claim of an event and its effects commit together or not at all: no
\* posting without the claim, and no refund or dispute claimed and then lost.
ClaimWithEffects ==
    /\ \A e \in journal : inbox[e.by] = "processed"
    /\ \A x \in EventIds :
        inbox[x] = "processed" /\ event[x].type \in LedgerTypes
            => Posted(EntryKind(event[x].type), event[x].intent)

\* A success is never swallowed: not by the staleness rule, a replay or a deletion
\* under way, where only a decline processed before it can hide it, and not by
\* overtaking the INSERT of its payment, which is committed before a browser can
\* pay.  A cancellation can overtake it, and is then lost; see the README.
SuccessAccountedFor ==
    \A x \in EventIds :
        event[x] # NoEvent /\ event[x].type = "succeeded" =>
            /\ inbox[x] = "processed" =>
                \/ Charged(event[x].intent)
                \/ \E y \in EventIds : /\ inbox[y] = "processed"
                                       /\ event[y].type = "payment_failed"
                                       /\ event[y].intent = event[x].intent
            /\ inbox[x] = "unmatched" =>
                event[x].intent \in OutOfBand \/ Owner[event[x].intent] \notin accounts

\* "A settled charge must have a ledger charge": what the code means to hold of
\* every success it has processed.  A card declined first refutes it.
SettledIsCharged ==
    \A x \in EventIds :
        inbox[x] = "processed" /\ event[x].type = "succeeded" => Charged(event[x].intent)

\* Late, repeated and reordered events never make the books say something the
\* provider has not done.
BooksAreTrue ==
    /\ \A i \in Intents : status[i] \in {"succeeded", "canceled"} => provider[i] = status[i]
    /\ \A e \in journal : provider[e.reference] = "succeeded"

\* "Once a payment reaches one of these it never moves again": true while one
\* webhook request runs at a time; two that read the row before either writes it
\* refute it.
TerminalNeverMoves ==
    [][\A i \in Intents :
        status[i] \in {"succeeded", "failed", "canceled"}
            => status'[i] = status[i] \/ Owner[i] \notin accounts']_vars

\* A payment settled at the provider reaches the journal, whatever is lost or
\* rolled back on the way, unless a decline or a deletion got there first.
SettlementReachesJournal ==
    \A i \in Intents \ OutOfBand :
        provider[i] = "succeeded" ~>
            \/ Charged(i)
            \/ Emitted("payment_failed", i)
            \/ Owner[i] \notin accounts

\* The moves that webhook requests have decided on: what they read is not looked
\* at again, and the UPDATE is by id alone.
Decisions ==
    {<<Intent(h), StatusOf(Of(h).type)>> : h \in {g \in Handlers : tx[g].pc = "update" \/ tx[g].row}}

\* Seen from outside, and with any number of requests at once, a payment follows
\* the lifecycle of PaymentLifecycle: every move was decided on while the payment
\* was live, comes with its charge, and none brings an erased payment back.
Lifecycle == INSTANCE PaymentLifecycle WITH
    Payments <- Intents,
    state <- [i \in Intents |-> IF Owner[i] \in accounts THEN status[i] ELSE "erased"],
    charged <- {i \in Intents : Charged(i)},
    decided <- Decisions

FollowsLifecycle == Lifecycle!Spec
=============================================================================
