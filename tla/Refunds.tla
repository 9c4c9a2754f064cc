------------------------------ MODULE Refunds ------------------------------
(***************************************************************************)
(* POST /payments/:id/refund: look the payment up, look for a refund under  *)
(* the request's key, add up what is already refunded, check the range and   *)
(* the ceiling, refund at the provider, record the row.  No transaction and  *)
(* no lock spans these steps, so each is an action and requests interleave.  *)
(*                                                                         *)
(* The provider keeps a refund per idempotency key: the same call under the  *)
(* same key gets the first answer, another call under it is an error, and a   *)
(* charge is never refunded past its amount.                                *)
(***************************************************************************)
EXTENDS Naturals, FiniteSets

CONSTANTS
    Payments, Headers,  \* payments, and Idempotency-Key headers clients use
    Requests,           \* refund requests that can be in flight at once
    Captured,           \* the amount of every payment
    Ceiling,            \* REFUND_CEILING_MINOR
    Asks, Rest,         \* amounts a body can ask for; Rest is an empty body
    NoRefund,
    MaxLost             \* bound: requests that die, or lose the provider's answer

ASSUME ConstantsAssumption ==
    /\ Captured \in Nat \ {0} /\ Ceiling \in Nat /\ MaxLost \in Nat
    /\ Asks \subseteq (1 .. Captured + 1) \cup {Rest}
    /\ Rest \notin Nat
    /\ IsFiniteSet(Payments) /\ IsFiniteSet(Headers)

\* Faulty variant: the header alone, shared by every payment.
HeaderAsKey(p, k) == k
RefundKey(p, k)   == <<p, k>>
Keys == {RefundKey(p, k) : p \in Payments, k \in Headers}

Refund == [payment : Payments, amount : 1..Captured, over : BOOLEAN]

ASSUME NoRefundAssumption == NoRefund \notin Refund

VARIABLES
    status,    \* payments.status, or "gone" once the account was deleted
    provider,  \* the provider's refund under each key
    rows,      \* the refunds table, by idempotency key
    req,       \* the refund requests in flight
    replies,   \* every 200 answer: what the client was told
    lost

vars == <<status, provider, rows, req, replies, lost>>

Idle == [pc |-> "idle"]

\* Whether the caller holds payments.refund_over_ceiling is `over`.
Request ==
    [pc : {"find", "total", "call", "record"}, payment : Payments,
     header : Headers, ask : Asks \cup 1..Captured, over : BOOLEAN]

Reply == [payment : Payments, header : Headers, amount : 1..Captured]

TypeOK ==
    /\ status \in [Payments -> {"open", "succeeded", "gone"}]
    /\ provider \in [Keys -> Refund \cup {NoRefund}]
    /\ rows \in [Keys -> Refund \cup {NoRefund}]
    /\ req \in [Requests -> Request \cup {Idle}]
    /\ replies \subseteq Reply
    /\ lost \in 0..MaxLost

Init ==
    /\ status = [p \in Payments |-> "open"]
    /\ provider = [k \in Keys |-> NoRefund]
    /\ rows = [k \in Keys |-> NoRefund]
    /\ req = [r \in Requests |-> Idle]
    /\ replies = {}
    /\ lost = 0

-----------------------------------------------------------------------------
\* The refunds of payment p in `store`: the rows, or what the provider did.
\* Their total counts the units of money in them.
RefundsOf(p, store) == {k \in Keys : store[k] # NoRefund /\ store[k].payment = p}
Total(p, store) ==
    Cardinality({u \in RefundsOf(p, store) \X (1..Captured) : u[2] <= store[u[1]].amount})

Key(r) == RefundKey(req[r].payment, req[r].header)

Goes(r, from, to) == req[r].pc = from /\ req' = [req EXCEPT ![r] = to]
At(r, pc)         == [req[r] EXCEPT !.pc = pc]
Answer(r, amount) ==
    replies' = replies \cup
        {[payment |-> req[r].payment, header |-> req[r].header, amount |-> amount]}

\* A client asks, a first time, again under the same header, or with another
\* body, and getPayment finds a settled payment (404 or 400 otherwise).
Ask(r) ==
    /\ \E p \in Payments, k \in Headers, a \in Asks, over \in BOOLEAN :
        /\ status[p] = "succeeded"
        /\ Goes(r, "idle", [pc |-> "find", payment |-> p, header |-> k, ask |-> a, over |-> over])
    /\ UNCHANGED <<status, provider, rows, replies, lost>>

\* findRefundByKey: a recorded refund is answered again, whatever is asked now.
Find(r) ==
    \/ /\ Goes(r, "find", At(r, "total"))
       /\ rows[Key(r)] = NoRefund
       /\ UNCHANGED <<status, provider, rows, replies, lost>>
    \/ /\ Goes(r, "find", Idle)
       /\ rows[Key(r)] # NoRefund
       /\ Answer(r, rows[Key(r)].amount)
       /\ UNCHANGED <<status, provider, rows, lost>>

\* refundedTotal and what follows from it: the amount, its range, the ceiling.
AskedAmount(r) ==
    IF req[r].ask = Rest THEN Captured - Total(req[r].payment, rows) ELSE req[r].ask

\* Faulty variant: nothing left to refund is not an error.
MayRefundNothing(r) == AskedAmount(r) <= Captured - Total(req[r].payment, rows)

MayRefund(r) ==
    LET already == Total(req[r].payment, rows)
        amount  == AskedAmount(r)
    IN  /\ amount > 0 /\ amount <= Captured - already
        /\ already + amount <= Ceiling \/ req[r].over

Check(r) ==
    /\ Goes(r, "total",
            IF MayRefund(r) THEN [At(r, "call") EXCEPT !.ask = AskedAmount(r)] ELSE Idle)
    /\ UNCHANGED <<status, provider, rows, replies, lost>>

\* The provider.
Fresh(k)        == provider[k] = NoRefund
Same(k, p, a)   == ~Fresh(k) /\ provider[k].payment = p /\ provider[k].amount = a
Fits(p, a)      == Total(p, provider) + a <= Captured
Accepts(k, p, a) == (Fresh(k) /\ Fits(p, a)) \/ Same(k, p, a)

Gives(k, p, a, over) ==
    provider' = IF Fresh(k)
                THEN [provider EXCEPT ![k] = [payment |-> p, amount |-> a, over |-> over]]
                ELSE provider

\* Faulty variant: the refusal is logged and the request goes on.
CallSwallowsError(r) ==
    LET p == req[r].payment
        a == req[r].ask
    IN  /\ Goes(r, "call", At(r, "record"))
        /\ IF Accepts(Key(r), p, a) THEN Gives(Key(r), p, a, req[r].over) ELSE UNCHANGED provider
        /\ UNCHANGED <<status, rows, replies, lost>>

\* stripe.refunds.create: it refunds and answers, or refuses (502).
Call(r) ==
    LET p == req[r].payment
        a == req[r].ask
    IN  \/ /\ Goes(r, "call", At(r, "record"))
           /\ Accepts(Key(r), p, a)
           /\ Gives(Key(r), p, a, req[r].over)
           /\ UNCHANGED <<status, rows, replies, lost>>
        \/ /\ Goes(r, "call", Idle)
           /\ ~Accepts(Key(r), p, a)
           /\ UNCHANGED <<status, provider, rows, replies, lost>>

\* The refund is done and the answer lost: a timeout (502), or the process dies.
CallLosesAnswer(r) ==
    /\ Goes(r, "call", Idle)
    /\ Accepts(Key(r), req[r].payment, req[r].ask)
    /\ Gives(Key(r), req[r].payment, req[r].ask, req[r].over)
    /\ lost < MaxLost /\ lost' = lost + 1
    /\ UNCHANGED <<status, rows, replies>>

\* recordRefund: INSERT ... ON CONFLICT (idempotency_key) DO NOTHING, and the
\* answer.  The foreign key throws once the payment is gone.
Recorded(r) == [payment |-> req[r].payment, amount |-> req[r].ask, over |-> req[r].over]

\* Faulty variant: answers before the row is written.
RecordAfterAnswer(r) ==
    /\ Goes(r, "record", Idle)
    /\ Answer(r, req[r].ask)
    /\ UNCHANGED <<status, provider, rows, lost>>

Record(r) ==
    \/ /\ Goes(r, "record", Idle)
       /\ status[req[r].payment] = "succeeded"
       /\ rows' = IF rows[Key(r)] = NoRefund THEN [rows EXCEPT ![Key(r)] = Recorded(r)] ELSE rows
       /\ Answer(r, req[r].ask)
       /\ UNCHANGED <<status, provider, lost>>
    \/ /\ Goes(r, "record", Idle)
       /\ status[req[r].payment] = "gone"
       /\ UNCHANGED <<status, provider, rows, replies, lost>>

\* The process dies at any step.
Dies(r) ==
    /\ req[r] # Idle /\ lost < MaxLost
    /\ req' = [req EXCEPT ![r] = Idle]
    /\ lost' = lost + 1
    /\ UNCHANGED <<status, provider, rows, replies>>

\* The webhook settles the payment; deleting the account cascades to its refunds.
Settle(p) ==
    /\ status[p] = "open"
    /\ status' = [status EXCEPT ![p] = "succeeded"]
    /\ UNCHANGED <<provider, rows, req, replies, lost>>

Delete(p) ==
    /\ status[p] # "gone"
    /\ status' = [status EXCEPT ![p] = "gone"]
    /\ rows' = [k \in Keys |-> IF k \in RefundsOf(p, rows) THEN NoRefund ELSE rows[k]]
    /\ UNCHANGED <<provider, req, replies, lost>>

Runs(r) == Find(r) \/ Check(r) \/ Call(r) \/ Record(r)

Next ==
    \/ \E r \in Requests : Ask(r) \/ Runs(r) \/ CallLosesAnswer(r) \/ Dies(r)
    \/ \E p \in Payments : Settle(p) \/ Delete(p)

Spec == Init /\ [][Next]_vars

-----------------------------------------------------------------------------
\* The table never says more than the provider did: each row is the provider's
\* refund under the same key, of the same payment and amount, although the
\* amount of an empty body depends on what each of two racing requests read.
RowsMatchProvider ==
    \A k \in Keys : rows[k] # NoRefund =>
        /\ provider[k] # NoRefund
        /\ rows[k].payment = provider[k].payment /\ rows[k].amount = provider[k].amount

\* A client is told an amount only if that much was refunded, once, on that
\* payment under that key; so a retry is told what the first request did.
RepliesAreTrue ==
    \A a \in replies :
        LET given == provider[RefundKey(a.payment, a.header)]
        IN  given # NoRefund /\ given.payment = a.payment /\ given.amount = a.amount

\* A 200 answer is not forgotten: the row is there until the payment is erased.
AnsweredIsRecorded ==
    \A a \in replies :
        status[a.payment] # "gone" => rows[RefundKey(a.payment, a.header)] # NoRefund

\* "several partial refunds cannot be split around it": without the capability,
\* the refunds of a payment stay within the ceiling.  Two requests that both read
\* the total before either records its refund break it.
CeilingHolds ==
    \A p \in Payments :
        (\A k \in RefundsOf(p, provider) : ~provider[k].over)
            => Total(p, provider) <= Ceiling
=============================================================================
