----------------------- MODULE PaymentPipelineProofs -----------------------
(***************************************************************************)
(* PaymentPipeline is correct for every set of intents, accounts, events   *)
(* and concurrent webhook requests.                                         *)
(***************************************************************************)
EXTENDS PaymentPipeline, TLAPS

USE DEF Types, PaymentTypes, LedgerTypes, TERMINAL, PaymentStatus

PostingTypes == {"succeeded"} \cup LedgerTypes

\* What the step of a transaction says about its event and its buffered writes.
Shaped(t) ==
    /\ t.pc = "idle" => ~t.row /\ ~t.post
    /\ t.pc # "idle" => t.ev \in EventIds /\ event[t.ev] # NoEvent
    /\ t.pc \in {"claim", "read", "update"} => ~t.row /\ ~t.post
    /\ t.pc \in {"read", "update"} => event[t.ev].type \in PaymentTypes
    /\ t.pc = "post" => event[t.ev].type \in PostingTypes /\ ~t.post
    /\ t.pc \in {"claim", "read", "update", "post"} => t.mark = "processed"
    /\ t.row => event[t.ev].type \in PaymentTypes
    /\ t.post => event[t.ev].type \in PostingTypes /\ t.mark = "processed"

TxShape == \A h \in Handlers : Shaped(tx[h])

TypeInv == TypeOK /\ TxShape

\* Nothing unemitted is ever processed, and an uncommitted claim is exclusive.
Claims ==
    /\ \A x \in EventIds : inbox[x] # "absent" => event[x] # NoEvent
    /\ \A h \in Handlers : Claimed(h) => inbox[tx[h].ev] = "absent"
    /\ \A g, h \in Handlers :
        Claimed(g) /\ Claimed(h) /\ tx[g].ev = tx[h].ev => g = h

\* An uncommitted entry is the only one with its key, committed or not.
Keys ==
    /\ PostedOnce
    /\ \A h \in Handlers : tx[h].post => ~Posted(EntryKind(Of(h).type), Intent(h))
    /\ \A g, h \in Handlers :
        tx[g].post /\ tx[h].post /\ SameKey(tx[g].ev, tx[h].ev) => g = h

\* A transaction about to commit a success holds its charge, unless there is one.
Settled ==
    /\ SettledHasCharge
    /\ \A h \in Handlers :
        tx[h].pc = "commit" /\ tx[h].row /\ Of(h).type = "succeeded"
            => tx[h].post \/ Charged(Intent(h))

\* The same for a refund or a dispute.
Effects ==
    /\ ClaimWithEffects
    /\ \A h \in Handlers :
        tx[h].pc = "commit" /\ Of(h).type \in LedgerTypes
            => tx[h].post \/ Posted(EntryKind(Of(h).type), Intent(h))

IInv == TypeInv /\ Claims /\ Keys /\ Settled /\ Effects

-----------------------------------------------------------------------------
(* The steps that are not a webhook's leave its transactions alone. *)

\* What was emitted is never emitted again as something else.
EventsKept == \A x \in EventIds : event[x] # NoEvent => event'[x] = event[x]

Quiet == UNCHANGED <<inbox, journal, tx>> /\ EventsKept

LEMMA EmitKeeps ==
    ASSUME TypeOK, NEW i \in Intents, NEW type \in Types, Emit(type, i)
    PROVE  event' \in [EventIds -> Event \cup {NoEvent}] /\ EventsKept
  BY DEF Emit, TypeOK, Event, EventsKept

LEMMA ProviderKeeps ==
    ASSUME TypeOK, Provider
    PROVE  TypeOK' /\ Quiet /\ UNCHANGED <<accounts, status, lastAt>>
  <1> USE DEF Quiet, dbVars
  <1>1. ASSUME NEW i \in Intents,
               Confirms(i) \/ Settles(i) \/ Declines(i) \/ Cancels(i)
        PROVE  TypeOK' /\ Quiet /\ UNCHANGED <<accounts, status, lastAt>>
    BY <1>1, EmitKeeps DEF Confirms, Settles, Declines, Cancels, ProviderMoves, TypeOK
  <1>2. ASSUME NEW i \in Intents, NEW type \in LedgerTypes \cup {"other"}, Announces(i, type)
        PROVE  TypeOK' /\ Quiet /\ UNCHANGED <<accounts, status, lastAt>>
    BY <1>2, EmitKeeps DEF Announces, TypeOK
  <1>3. ASSUME NEW x \in EventIds, Repeats(x)
        PROVE  TypeOK' /\ Quiet /\ UNCHANGED <<accounts, status, lastAt>>
    BY <1>3 DEF Repeats, TypeOK, EventsKept
  <1>4. ASSUME Tick
        PROVE  TypeOK' /\ Quiet /\ UNCHANGED <<accounts, status, lastAt>>
    BY <1>4, ConstantsAssumption DEF Tick, TypeOK, EventsKept
  <1> QED BY <1>1, <1>2, <1>3, <1>4 DEF Provider

LEMMA CheckoutKeeps ==
    ASSUME TypeOK, Checkout
    PROVE  /\ TypeOK' /\ Quiet
           /\ \A i \in Intents : status'[i] = "succeeded" => status[i] = "succeeded"
  <1> USE DEF Quiet, dbVars, providerVars, EventsKept
  <1>1. ASSUME NEW i \in Intents, CreateIntent(i) \/ RecordCreatedPayment(i) \/ CreateFails(i)
        PROVE  /\ TypeOK' /\ Quiet
               /\ \A j \in Intents : status'[j] = "succeeded" => status[j] = "succeeded"
    BY <1>1 DEF CreateIntent, AskProvider, RecordCreatedPayment, CreateFails, TypeOK
  <1>2. ASSUME NEW u \in Users, DeleteAccount(u)
        PROVE  /\ TypeOK' /\ Quiet
               /\ \A j \in Intents : status'[j] = "succeeded" => status[j] = "succeeded"
    BY <1>2, ConstantsAssumption DEF DeleteAccount, TypeOK
  <1> QED BY <1>1, <1>2 DEF Checkout

LEMMA TypeInvInit == Init => TypeInv
  BY ConstantsAssumption DEF Init, TypeInv, TypeOK, TxShape, Shaped, Idle, Transaction

\* A statement that moves one transaction and nothing else.
LEMMA StepKeeps ==
    ASSUME TypeInv, NEW h \in Handlers, NEW to \in Transaction, Shaped(to),
           tx' = [tx EXCEPT ![h] = to], UNCHANGED <<providerVars, creating, dbVars>>,
           aborts' \in 0..MaxAborts
    PROVE  TypeInv'
  BY DEF TypeInv, TypeOK, TxShape, Shaped, dbVars, providerVars

LEMMA TypeInvWebhook ==
    ASSUME TypeInv, NEW h \in Handlers,
           (\E x \in EventIds : Deliver(h, x)) \/ Runs(h) \/ Abort(h)
    PROVE  TypeInv'
  <1> DEFINE t == tx[h]
  <1>1. t \in Transaction /\ Shaped(t) /\ aborts \in 0..MaxAborts
    BY DEF TypeInv, TypeOK, TxShape
  <1>2. Idle \in Transaction /\ Shaped(Idle)
    BY DEF Idle, Transaction, Shaped
  <1>3. ASSUME NEW x \in EventIds, Deliver(h, x) PROVE TypeInv'
    <2> DEFINE to == [Idle EXCEPT !.pc = "claim", !.ev = x]
    <2>1. to \in Transaction /\ Shaped(to)
      BY <1>3 DEF Deliver, Idle, Transaction, Shaped
    <2> QED BY <1>1, <1>3, <2>1, StepKeeps DEF Deliver, Goes
  <1>4. CASE Claim(h)
    <2> DEFINE to == [At(h, FirstStep(Of(h).type)) EXCEPT
                        !.mark = IF Of(h).type = "other" THEN "unhandled" ELSE "processed"]
    <2>1. Of(h) \in Event
      BY <1>1, <1>4 DEF Claim, Goes, Shaped, Of, TypeInv, TypeOK
    <2>2. to \in Transaction /\ Shaped(to)
      BY <1>1, <1>4, <2>1 DEF Claim, Goes, At, Of, Transaction, Shaped, FirstStep,
                              PostingTypes, Event
    <2> QED BY <1>1, <1>2, <1>4, <2>2, StepKeeps DEF Claim, Goes
  <1>5. CASE Read(h)
    <2>1. /\ At(h, "commit") \in Transaction /\ Shaped(At(h, "commit"))
          /\ At(h, "update") \in Transaction /\ Shaped(At(h, "update"))
          /\ [At(h, "commit") EXCEPT !.mark = "unmatched"] \in Transaction
          /\ Shaped([At(h, "commit") EXCEPT !.mark = "unmatched"])
      BY <1>1, <1>5 DEF Read, Reads, Goes, At, Transaction, Shaped
    <2> QED BY <1>1, <1>5, <2>1, StepKeeps DEF Read, Reads, Goes
  <1>6. CASE Update(h)
    <2>1. Updated(h) \in Transaction /\ Shaped(Updated(h))
      BY <1>1, <1>6 DEF Update, Updated, Goes, At, Of, Transaction, Shaped, PostingTypes
    <2> QED BY <1>1, <1>6, <2>1, StepKeeps DEF Update, Goes
  <1>7. CASE Post(h)
    <2> DEFINE to == [At(h, "commit") EXCEPT
                        !.post = ~AlreadyPosted(EntryKind(Of(h).type), Intent(h))]
    <2>1. to \in Transaction /\ Shaped(to)
      BY <1>1, <1>7 DEF Post, Goes, At, Transaction, Shaped
    <2> QED BY <1>1, <1>7, <2>1, StepKeeps DEF Post, Goes
  <1>8. CASE PostThrows(h)
    BY <1>1, <1>2, <1>8, StepKeeps DEF PostThrows, Goes
  <1>9. CASE Commit(h)
    <2>1. Of(h) \in Event /\ Intent(h) \in Intents /\ t.ev \in EventIds
      BY <1>1, <1>9 DEF Commit, Goes, Of, Intent, Shaped, TypeInv, TypeOK, Event
    <2>2. tx[h].post => EntryOf(h) \in Entry
      BY <1>1, <2>1 DEF EntryOf, Entry, EntryKind, PostingTypes, Event, Shaped, Of
    <2>3. tx[h].row => StatusOf(Of(h).type) \in PaymentStatus
      BY <1>1, <2>1 DEF StatusOf, Event, Shaped, Of
    <2>4. Of(h).at \in 0..MaxTime /\ t.mark \in {"processed", "unmatched", "unhandled"}
      BY <1>1, <2>1, ConstantsAssumption DEF Event, Transaction
    <2>5. TypeOK'
      BY <1>2, <1>9, <2>1, <2>2, <2>3, <2>4 DEF Commit, Goes, TypeInv, TypeOK, providerVars
    <2>6. TxShape'
      BY <1>2, <1>9 DEF Commit, Goes, TypeInv, TypeOK, TxShape, Shaped, providerVars
    <2> QED BY <2>5, <2>6 DEF TypeInv
  <1>10. CASE Abort(h)
    <2>1. aborts' \in 0..MaxAborts
      BY <1>1, <1>10, ConstantsAssumption DEF Abort
    <2> QED BY <1>2, <1>10, <2>1, StepKeeps DEF Abort
  <1> QED BY <1>3, <1>4, <1>5, <1>6, <1>7, <1>8, <1>9, <1>10 DEF Runs

LEMMA TypeInvNext == TypeInv /\ [Next]_vars => TypeInv'
  <1> SUFFICES ASSUME TypeInv, [Next]_vars PROVE TypeInv'
    OBVIOUS
  <1>1. ASSUME TypeOK', Quiet PROVE TypeInv'
    <2> SUFFICES ASSUME NEW h \in Handlers PROVE Shaped(tx[h])'
      BY <1>1 DEF TypeInv, TxShape
    <2>1. Shaped(tx[h]) /\ tx'[h] = tx[h]
      BY <1>1 DEF TypeInv, TxShape, Quiet
    <2>2. tx[h].pc # "idle" => event'[tx[h].ev] = event[tx[h].ev]
      BY <1>1, <2>1 DEF Quiet, EventsKept, Shaped
    <2> QED BY <2>1, <2>2 DEF Shaped
  <1>2. CASE Provider
    BY <1>1, <1>2, ProviderKeeps DEF TypeInv
  <1>3. CASE Checkout
    BY <1>1, <1>3, CheckoutKeeps DEF TypeInv
  <1>4. CASE Webhook
    BY <1>4, TypeInvWebhook DEF Webhook
  <1>5. CASE UNCHANGED vars
    BY <1>5 DEF vars, TypeInv, TypeOK, TxShape, Shaped
  <1> QED BY <1>2, <1>3, <1>4, <1>5 DEF Next

\* The state of the model always has its type.
THEOREM TypeCorrect == Spec => []TypeOK
  <1>1. TypeInv => TypeOK
    BY DEF TypeInv
  <1> QED BY TypeInvInit, TypeInvNext, <1>1, PTL DEF Spec

-----------------------------------------------------------------------------
(* Claims are exclusive. *)

\* A transaction that stays what it is, but for its step and its buffered writes.
LEMMA StepsOn ==
    ASSUME TypeInv, NEW h \in Handlers, Read(h) \/ Update(h) \/ Post(h)
    PROVE  /\ tx[h].pc \in {"read", "update", "post"}
           /\ tx' = [tx EXCEPT ![h] = tx'[h]]
           /\ tx'[h].pc \in {"update", "post", "commit"} /\ tx'[h].ev = tx[h].ev
           /\ UNCHANGED <<providerVars, creating, dbVars, aborts>>
  <1> USE DEF Goes, At, TypeInv, TypeOK, Transaction
  <1>1. CASE Read(h)
    BY <1>1 DEF Read, Reads
  <1>2. CASE Update(h)
    BY <1>2 DEF Update, Updated
  <1>3. CASE Post(h)
    BY <1>3 DEF Post
  <1> QED BY <1>1, <1>2, <1>3

\* What each of the three adds to the buffered writes.
LEMMA StepWrites ==
    ASSUME TypeInv, NEW h \in Handlers
    PROVE  /\ Read(h) => ~tx'[h].row /\ ~tx'[h].post
           /\ Update(h) => ~tx'[h].post /\ (tx'[h].pc = "commit" => Of(h).type # "succeeded")
           /\ Post(h) => tx'[h].post \/ Posted(EntryKind(Of(h).type), Intent(h))
  <1> DEFINE t == tx[h]
  <1>1. t \in Transaction /\ Shaped(t) /\ h \in DOMAIN tx
    BY DEF TypeInv, TypeOK, TxShape
  <1>2. ASSUME Read(h) PROVE ~tx'[h].row /\ ~tx'[h].post
    <2>1. ~t.row /\ ~t.post
      BY <1>1, <1>2 DEF Read, Reads, Goes, Shaped
    <2>2. tx'[h] \in {At(h, "commit"), At(h, "update"), [At(h, "commit") EXCEPT !.mark = "unmatched"]}
      BY <1>1, <1>2 DEF Read, Reads, Goes
    <2> QED BY <1>1, <2>1, <2>2 DEF At, Transaction
  <1>3. ASSUME Update(h) PROVE ~tx'[h].post /\ (tx'[h].pc = "commit" => Of(h).type # "succeeded")
    <2>1. ~t.post
      BY <1>1, <1>3 DEF Update, Goes, Shaped
    <2> QED BY <1>1, <1>3, <2>1 DEF Update, Updated, Goes, At, Transaction
  <1>4. ASSUME Post(h) PROVE tx'[h].post \/ Posted(EntryKind(Of(h).type), Intent(h))
    <2> DEFINE there == AlreadyPosted(EntryKind(Of(h).type), Intent(h))
    <2>1. tx'[h] = [At(h, "commit") EXCEPT !.post = ~there]
      BY <1>1, <1>4 DEF Post, Goes
    <2>2. CASE there
      BY <2>2 DEF AlreadyPosted
    <2>3. CASE ~there
      <3>1. (~there) = TRUE
        BY <2>3
      <3>2. tx'[h] = [At(h, "commit") EXCEPT !.post = TRUE]
        BY <2>1, <3>1
      <3> QED BY <1>1, <3>2 DEF At, Transaction
    <2> QED BY <2>2, <2>3
  <1> QED BY <1>2, <1>3, <1>4

\* A transaction that ends without effect, or has not begun to have one.
LEMMA EndsEmpty ==
    ASSUME TypeInv, NEW h \in Handlers,
           (\E x \in EventIds : Deliver(h, x)) \/ PostThrows(h) \/ Abort(h)
    PROVE  /\ tx' = [tx EXCEPT ![h] = tx'[h]]
           /\ tx'[h].pc \in {"idle", "claim"} /\ ~tx'[h].row /\ ~tx'[h].post
           /\ UNCHANGED <<providerVars, creating, dbVars>>
  <1>1. CASE \E x \in EventIds : Deliver(h, x)
    BY ZenonT(60), <1>1 DEF Deliver, Goes, Idle, TypeInv, TypeOK
  <1>2. CASE PostThrows(h) \/ Abort(h)
    BY <1>2 DEF PostThrows, Abort, Goes, Idle, TypeInv, TypeOK
  <1> QED BY <1>1, <1>2

\* A claim writes nothing but itself.
LEMMA ClaimWrites ==
    ASSUME TypeInv, NEW h \in Handlers, Claim(h)
    PROVE  /\ tx' = [tx EXCEPT ![h] = tx'[h]] /\ ~tx'[h].row /\ ~tx'[h].post
           /\ UNCHANGED <<providerVars, creating, dbVars, aborts>>
  BY DEF Claim, Goes, At, Idle, TypeInv, TypeOK, TxShape, Shaped, Transaction

LEMMA ClaimsWebhook ==
    ASSUME TypeInv, Claims, NEW h \in Handlers,
           (\E x \in EventIds : Deliver(h, x)) \/ Runs(h) \/ Abort(h)
    PROVE  Claims'
  <1> USE DEF TypeInv, TypeOK, Claims, Claimed, dbVars, providerVars
  <1>1. tx[h] \in Transaction /\ Shaped(tx[h])
    BY DEF TxShape
  <1>2. CASE (\E x \in EventIds : Deliver(h, x)) \/ PostThrows(h) \/ Abort(h)
    BY <1>2, EndsEmpty
  <1>3. CASE Claim(h)
    BY <1>1, <1>3 DEF Claim, ClaimHeld, Goes, At, Of, Idle, FirstStep, Transaction, Shaped
  <1>4. CASE Read(h) \/ Update(h) \/ Post(h)
    BY <1>4, StepsOn
  <1>5. CASE Commit(h)
    BY <1>1, <1>5 DEF Commit, Goes, Idle, Transaction, Shaped
  <1> QED BY <1>2, <1>3, <1>4, <1>5 DEF Runs

-----------------------------------------------------------------------------
(* An entry is posted once. *)

KeyOf(x) == <<EntryKind(event[x].type), event[x].intent>>

LEMMA KeysWebhook ==
    ASSUME TypeInv, Keys, NEW h \in Handlers,
           (\E x \in EventIds : Deliver(h, x)) \/ Runs(h) \/ Abort(h)
    PROVE  Keys'
  <1> USE DEF TypeInv, TypeOK, Keys, Posted, Of, Intent, SameKey, dbVars, providerVars
  <1>1. tx[h] \in Transaction /\ Shaped(tx[h])
    BY DEF TxShape
  <1>2. CASE (\E x \in EventIds : Deliver(h, x)) \/ PostThrows(h) \/ Abort(h)
    BY <1>2, EndsEmpty DEF PostedOnce
  <1>3. CASE Claim(h) \/ Read(h) \/ Update(h)
    <2>1. CASE Claim(h)
      BY <2>1, ClaimWrites DEF PostedOnce
    <2>2. CASE Read(h) \/ Update(h)
      <3>1. ~tx'[h].post
        BY <2>2, StepWrites
      <3> QED BY <2>2, <3>1, StepsOn DEF PostedOnce
    <2> QED BY <1>3, <2>1, <2>2
  <1>4. CASE Post(h)
    <2>1. /\ tx'[h].post => ~Posted(EntryKind(Of(h).type), Intent(h))
          /\ \A g \in Handlers \ {h} : ~(tx[g].post /\ SameKey(tx[g].ev, tx[h].ev))
      BY <1>4 DEF Post, AlreadyPosted, KeyHeld, Goes, At, Transaction
    <2> QED BY <1>4, <2>1, StepsOn DEF PostedOnce
  <1>5. CASE Commit(h)
    <2>1. /\ tx' = [tx EXCEPT ![h] = tx'[h]] /\ ~tx'[h].post /\ UNCHANGED event
          /\ journal' = IF tx[h].post THEN journal \cup {EntryOf(h)} ELSE journal
          /\ EntryOf(h).kind = EntryKind(Of(h).type) /\ EntryOf(h).reference = Intent(h)
      BY <1>5 DEF Commit, Goes, Idle, EntryOf
    <2>2. PostedOnce'
      BY <2>1 DEF PostedOnce
    <2>3. \A g \in Handlers : tx'[g].post => ~Posted(EntryKind(Of(g).type), Intent(g))'
      BY <2>1
    <2> QED BY <2>1, <2>2, <2>3
  <1> QED BY <1>2, <1>3, <1>4, <1>5 DEF Runs

-----------------------------------------------------------------------------
(* A success and its charge commit together. *)

LEMMA SettledWebhook ==
    ASSUME TypeInv, Settled, NEW h \in Handlers,
           (\E x \in EventIds : Deliver(h, x)) \/ Runs(h) \/ Abort(h)
    PROVE  Settled'
  <1> USE DEF TypeInv, TypeOK, Settled, SettledHasCharge, Charged, Posted, Of, Intent,
              dbVars, providerVars
  <1>1. tx[h] \in Transaction /\ Shaped(tx[h])
    BY DEF TxShape
  <1>2. CASE (\E x \in EventIds : Deliver(h, x)) \/ PostThrows(h) \/ Abort(h)
    BY <1>2, EndsEmpty
  <1>3. CASE Claim(h)
    BY <1>3, ClaimWrites
  <1>4. CASE Read(h) \/ Update(h)
    <2>1. tx'[h].pc = "commit" /\ Of(h).type = "succeeded" => ~tx'[h].row
      BY <1>4, StepWrites
    <2> QED BY <1>4, <2>1, StepsOn
  <1>5. CASE Post(h)
    <2>1. Of(h).type = "succeeded" => tx'[h].post \/ Charged(Intent(h))
      <3>1. EntryKind("succeeded") = "charge"
        BY DEF EntryKind
      <3> QED BY <1>5, <3>1, StepWrites
    <2> QED BY <1>5, <2>1, StepsOn
  <1>6. CASE Commit(h)
    <2>1. /\ tx' = [tx EXCEPT ![h] = tx'[h]] /\ ~tx'[h].row /\ UNCHANGED event
          /\ journal' = IF tx[h].post THEN journal \cup {EntryOf(h)} ELSE journal
          /\ EntryOf(h).kind = EntryKind(Of(h).type) /\ EntryOf(h).reference = Intent(h)
          /\ tx[h].pc = "commit"
      BY <1>6 DEF Commit, Goes, Idle, EntryOf
    <2>2. ASSUME NEW i \in Intents, status'[i] = "succeeded" PROVE Charged(i)'
      <3>1. CASE status[i] = "succeeded"
        BY <2>1, <3>1
      <3>2. CASE status[i] # "succeeded"
        <4>1. tx[h].row /\ Intent(h) = i /\ StatusOf(Of(h).type) = "succeeded"
          BY <1>6, <2>2, <3>2 DEF Commit
        <4>2. Of(h).type = "succeeded"
          BY <1>1, <4>1 DEF StatusOf, Shaped
        <4> QED BY <2>1, <4>1, <4>2 DEF EntryKind
      <3> QED BY <3>1, <3>2
    <2>3. \A g \in Handlers \ {h} : Charged(Intent(g)) => Charged(Intent(g))'
      <3>1. journal \subseteq journal' /\ \A g \in Handlers \ {h} : tx'[g] = tx[g]
        BY <2>1
      <3> QED BY <2>1, <3>1
    <2> QED BY <2>1, <2>2, <2>3
  <1> QED BY <1>2, <1>3, <1>4, <1>5, <1>6 DEF Runs

-----------------------------------------------------------------------------
(* An event and its effects commit together. *)

LEMMA EffectsWebhook ==
    ASSUME TypeInv, Claims, Effects, NEW h \in Handlers,
           (\E x \in EventIds : Deliver(h, x)) \/ Runs(h) \/ Abort(h)
    PROVE  Effects'
  <1> USE DEF TypeInv, TypeOK, Effects, ClaimWithEffects, Posted, Of, Intent,
              dbVars, providerVars
  <1>1. tx[h] \in Transaction /\ Shaped(tx[h])
    BY DEF TxShape
  <1>2. CASE (\E x \in EventIds : Deliver(h, x)) \/ PostThrows(h) \/ Abort(h)
    BY <1>2, EndsEmpty
  <1>3. CASE Claim(h)
    <2>1. tx'[h].pc = "commit" => Of(h).type \notin LedgerTypes
      BY <1>1, <1>3 DEF Claim, Goes, At, Idle, FirstStep, Transaction
    <2>2. tx'[h].pc = "commit" => tx'[h].ev = tx[h].ev
      BY <1>3 DEF Claim, Goes, At, Idle, Transaction
    <2> QED BY <1>3, <2>1, <2>2, ClaimWrites
  <1>4. CASE Read(h) \/ Update(h)
    <2>1. Of(h).type \notin LedgerTypes
      BY <1>1, <1>4 DEF Read, Reads, Update, Goes, Shaped
    <2> QED BY <1>4, <2>1, StepsOn
  <1>5. CASE Post(h)
    <2>1. tx'[h].post \/ Posted(EntryKind(Of(h).type), Intent(h))
      BY <1>5, StepWrites
    <2> QED BY <1>5, <2>1, StepsOn
  <1>6. CASE Commit(h)
    <2>1. /\ tx' = [tx EXCEPT ![h] = tx'[h]] /\ tx'[h].pc = "idle" /\ UNCHANGED event
          /\ journal' = IF tx[h].post THEN journal \cup {EntryOf(h)} ELSE journal
          /\ inbox' = [inbox EXCEPT ![tx[h].ev] = tx[h].mark]
          /\ tx[h].pc = "commit" /\ tx[h].ev \in EventIds
      BY <1>1, <1>6 DEF Commit, Goes, Idle, Shaped
    <2>2. /\ EntryOf(h).kind = EntryKind(Of(h).type) /\ EntryOf(h).reference = Intent(h)
          /\ EntryOf(h).by = tx[h].ev
      BY DEF EntryOf
    <2>3. inbox[tx[h].ev] = "absent"
      BY <2>1 DEF Claims, Claimed
    <2>4. tx[h].post => tx[h].mark = "processed"
      BY <1>1 DEF Shaped
    <2>5. ASSUME NEW e \in journal' PROVE inbox'[e.by] = "processed"
      BY <2>1, <2>2, <2>3, <2>4, <2>5 DEF Entry
    <2>6. ASSUME NEW x \in EventIds, inbox'[x] = "processed", event[x].type \in LedgerTypes
          PROVE  Posted(EntryKind(event[x].type), event[x].intent)'
      <3>1. CASE x = tx[h].ev
        BY <2>1, <2>2, <2>6, <3>1
      <3>2. CASE x # tx[h].ev
        BY <2>1, <2>6, <3>2
      <3> QED BY <3>1, <3>2
    <2>7. ASSUME NEW g \in Handlers, tx'[g].pc = "commit", Of(g)'.type \in LedgerTypes
          PROVE  (tx[g].post \/ Posted(EntryKind(Of(g).type), Intent(g)))'
      <3>1. g # h
        BY <2>1, <2>7
      <3> QED BY <2>1, <2>7, <3>1
    <2> QED BY <2>1, <2>5, <2>6, <2>7
  <1> QED BY <1>2, <1>3, <1>4, <1>5, <1>6 DEF Runs

-----------------------------------------------------------------------------
(* The inductive invariant. *)

LEMMA IInvInit == Init => IInv
  <1> SUFFICES ASSUME Init PROVE Claims /\ Keys /\ Settled /\ Effects
    BY TypeInvInit DEF IInv
  <1>1. /\ \A h \in Handlers : tx[h].pc = "idle" /\ ~tx[h].row /\ ~tx[h].post
        /\ journal = {} /\ \A x \in EventIds : inbox[x] = "absent"
        /\ \A i \in Intents : status[i] = "none"
    BY DEF Init, Idle
  <1> QED BY <1>1 DEF Claims, Claimed, Keys, PostedOnce, Settled, SettledHasCharge,
                      Effects, ClaimWithEffects

\* The steps that leave webhook transactions, the inbox and the journal alone.
LEMMA QuietKeeps ==
    ASSUME IInv, Quiet, \A i \in Intents : status'[i] = "succeeded" => status[i] = "succeeded"
    PROVE  Claims' /\ Keys' /\ Settled' /\ Effects'
  <1>1. \A h \in Handlers : tx[h].pc # "idle" =>
            /\ tx[h].ev \in EventIds /\ event'[tx[h].ev] = event[tx[h].ev]
    BY DEF IInv, TypeInv, TxShape, Shaped, Quiet, EventsKept
  <1>2. \A h \in Handlers : tx[h].row \/ tx[h].post \/ Claimed(h) => tx[h].pc # "idle"
    BY DEF IInv, TypeInv, TxShape, Shaped, Claimed
  <1>3. Claims'
    BY DEF IInv, Claims, Claimed, Quiet, EventsKept, TypeInv, TypeOK
  <1>4. Keys'
    BY <1>1, <1>2 DEF IInv, Keys, PostedOnce, Posted, SameKey, Of, Intent, Quiet
  <1>5. Settled'
    BY <1>1, <1>2 DEF IInv, Settled, SettledHasCharge, Charged, Posted, Of, Intent, Quiet
  <1>6. Effects'
    BY <1>1, <1>2 DEF IInv, Effects, ClaimWithEffects, Posted, Of, Intent, Quiet, Claims,
                      EventsKept
  <1> QED BY <1>3, <1>4, <1>5, <1>6

LEMMA IInvNext == IInv /\ [Next]_vars => IInv'
  <1> SUFFICES ASSUME IInv, [Next]_vars PROVE Claims' /\ Keys' /\ Settled' /\ Effects'
    BY TypeInvNext DEF IInv
  <1>1. CASE Provider
    BY <1>1, ProviderKeeps, QuietKeeps DEF IInv, TypeInv
  <1>2. CASE Checkout
    BY <1>2, CheckoutKeeps, QuietKeeps DEF IInv, TypeInv
  <1>3. CASE Webhook
    <2>1. PICK h \in Handlers : (\E x \in EventIds : Deliver(h, x)) \/ Runs(h) \/ Abort(h)
      BY <1>3 DEF Webhook
    <2> QED BY <2>1, ClaimsWebhook, KeysWebhook, SettledWebhook, EffectsWebhook DEF IInv
  <1>4. CASE UNCHANGED vars
    BY <1>4, QuietKeeps DEF vars, Quiet, EventsKept
  <1> QED BY <1>1, <1>2, <1>3, <1>4 DEF Next

\* A payment shown as succeeded has its charge in the journal: the webhook
\* transaction writes both or neither, for any number of concurrent requests.
THEOREM SuccessIsCharged == Spec => []SettledHasCharge
  <1>1. IInv => SettledHasCharge
    BY DEF IInv, Settled
  <1> QED BY IInvInit, IInvNext, <1>1, PTL DEF Spec

\* One money movement is one journal entry, however many events, deliveries and
\* requests tell of it.
THEOREM MovementPostedOnce == Spec => []PostedOnce
  <1>1. IInv => PostedOnce
    BY DEF IInv, Keys
  <1> QED BY IInvInit, IInvNext, <1>1, PTL DEF Spec

\* The claim of an event and the entry it posts commit together or not at all.
THEOREM ClaimCommitsWithEffects == Spec => []ClaimWithEffects
  <1>1. IInv => ClaimWithEffects
    BY DEF IInv, Effects
  <1> QED BY IInvInit, IInvNext, <1>1, PTL DEF Spec

-----------------------------------------------------------------------------
(* What the events say of the provider, and what becomes of a success. *)

\* The provider has done what its events say, and what the books say.
BooksInv ==
    /\ BooksAreTrue
    /\ \A x \in EventIds : event[x] # NoEvent =>
        /\ event[x].type \in PostingTypes => provider[event[x].intent] = "succeeded"
        /\ event[x].type = "canceled" => provider[event[x].intent] = "canceled"

\* Only a cancellation overtakes the INSERT: any other event that found no row is
\* of a foreign intent or of a deleted account.
UnmatchedExplained ==
    \A x \in EventIds :
        inbox[x] = "unmatched" =>
            \/ event[x].intent \in OutOfBand
            \/ event[x].type = "canceled"
            \/ Owner[event[x].intent] \notin accounts

\* An intent that can be paid has its row, unless it is foreign or its account
\* is gone; so a transaction that found no row had a reason.
FoundInv ==
    /\ UnmatchedExplained
    /\ \A i \in secret : i \in OutOfBand \/ status[i] # "none" \/ Owner[i] \notin accounts
    /\ \A x \in EventIds :
        event[x] # NoEvent /\ event[x].type \in PaymentTypes \ {"canceled"}
            => event[x].intent \in secret
    /\ \A h \in Handlers :
        tx[h].pc = "commit" /\ tx[h].mark = "unmatched" =>
            \/ Intent(h) \in OutOfBand
            \/ Of(h).type = "canceled"
            \/ Owner[Intent(h)] \notin accounts

\* A success is the last thing that happens to an intent.
OrderInv ==
    /\ \A x \in EventIds : event[x] # NoEvent => event[x].at <= now
    /\ \A x, y \in EventIds :
        /\ event[x] # NoEvent /\ event[y] # NoEvent
        /\ event[x].type = "succeeded" /\ event[y].type \in PaymentTypes
        /\ event[x].intent = event[y].intent
        => event[y].at <= event[x].at
    /\ \A i \in Intents : lastAt[i] # 0 =>
        \E y \in EventIds : /\ event[y] # NoEvent /\ event[y].type \in PaymentTypes
                            /\ event[y].intent = i /\ event[y].at = lastAt[i]

Declined(i) ==
    \E y \in EventIds : /\ inbox[y] = "processed"
                        /\ event[y].type = "payment_failed"
                        /\ event[y].intent = i

Accounted(i) == Charged(i) \/ Declined(i)

\* A processed success was charged or hidden by a decline; a transaction that
\* commits one updates the row, or found it charged or declined.
SuccessInv ==
    /\ \A x \in EventIds, i \in Intents :
        inbox[x] = "processed" /\ event[x].type = "succeeded" /\ event[x].intent = i
            => Accounted(i)
    /\ \A i \in Intents : status[i] = "failed" => Declined(i)
    /\ \A h \in Handlers : tx[h].row => tx[h].mark = "processed"
    /\ \A h \in Handlers, i \in Intents :
        /\ tx[h].pc = "commit" /\ tx[h].mark = "processed"
        /\ Of(h).type = "succeeded" /\ Intent(h) = i
        => tx[h].row \/ Accounted(i)

\* An event the provider emits now, with `state` what it has done by then.
Fresh(e, state) ==
    /\ e \in Event /\ e.at = now
    /\ e.type \in PostingTypes => state[e.intent] = "succeeded"
    /\ e.type = "canceled" => state[e.intent] = "canceled"
    /\ e.type \in PaymentTypes => provider[e.intent] \notin {"succeeded", "canceled"}
    /\ e.type \in PaymentTypes \ {"canceled"} => e.intent \in secret

\* Every event there is after a step was there before, repeats one that was, or
\* is fresh.
Old(e) == \E y \in EventIds : event[y] # NoEvent /\ event[y] = e

LEMMA EmitsFresh ==
    ASSUME TypeOK, NEW i \in Intents, NEW type \in Types, Emit(type, i),
           Fresh([type |-> type, intent |-> i, at |-> now], provider')
    PROVE  \A x \in EventIds : event'[x] # NoEvent => Old(event'[x]) \/ Fresh(event'[x], provider')
  <1> DEFINE e == [type |-> type, intent |-> i, at |-> now]
  <1>1. PICK x \in EventIds : event[x] = NoEvent /\ event' = [event EXCEPT ![x] = e]
    BY DEF Emit
  <1>2. ASSUME NEW y \in EventIds, event'[y] # NoEvent
        PROVE  Old(event'[y]) \/ Fresh(event'[y], provider')
    <2>1. CASE y = x
      BY <1>1, <2>1 DEF TypeOK
    <2>2. CASE y # x
      BY <1>1, <1>2, <2>2 DEF TypeOK, Old
    <2> QED BY <2>1, <2>2
  <1> QED BY <1>2

LEMMA EventsAreOldOrFresh ==
    ASSUME TypeOK, Provider
    PROVE  /\ \A x \in EventIds : event'[x] # NoEvent =>
                Old(event'[x]) \/ Fresh(event'[x], provider')
           /\ now <= now' /\ secret' = secret
  <1> DEFINE Goal == \A x \in EventIds : event'[x] # NoEvent =>
                        Old(event'[x]) \/ Fresh(event'[x], provider')
  <1>0. now \in Nat /\ now \in 1..MaxTime
    BY ConstantsAssumption DEF TypeOK
  <1>1. ASSUME NEW i \in Intents, NEW from, NEW to, NEW type \in PaymentTypes,
               ProviderMoves(i, from, to, type),
               from \cap {"succeeded", "canceled"} = {},
               type = "succeeded" => to = "succeeded",
               type = "canceled" => to = "canceled",
               type # "canceled" => i \in secret
        PROVE  Goal /\ now' = now /\ secret' = secret
    <2>1. provider[i] \notin {"succeeded", "canceled"} /\ provider' = [provider EXCEPT ![i] = to]
          /\ Emit(type, i) /\ now' = now /\ secret' = secret
      BY <1>1 DEF ProviderMoves
    <2>2. provider'[i] = to
      BY <2>1 DEF TypeOK
    <2>3. Fresh([type |-> type, intent |-> i, at |-> now], provider')
      BY <1>0, <1>1, <2>1, <2>2 DEF Fresh, Event, PostingTypes
    <2> QED BY <2>1, <2>3, EmitsFresh
  <1>2. ASSUME NEW i \in Intents,
               Confirms(i) \/ Settles(i) \/ Declines(i) \/ Cancels(i)
        PROVE  Goal /\ now' = now /\ secret' = secret
    <2>1. CASE Confirms(i)
      BY <1>1, <2>1 DEF Confirms
    <2>2. CASE Settles(i)
      BY <1>1, <2>2 DEF Settles
    <2>3. CASE Declines(i)
      BY <1>1, <2>3 DEF Declines
    <2>4. CASE Cancels(i)
      BY <1>1, <2>4 DEF Cancels
    <2> QED BY <1>2, <2>1, <2>2, <2>3, <2>4
  <1>3. ASSUME NEW i \in Intents, NEW type \in LedgerTypes \cup {"other"}, Announces(i, type)
        PROVE  Goal /\ now' = now /\ secret' = secret
    <2>1. Emit(type, i) /\ provider' = provider /\ now' = now /\ secret' = secret
          /\ (type \in LedgerTypes => provider[i] = "succeeded")
      BY <1>3 DEF Announces
    <2>2. Fresh([type |-> type, intent |-> i, at |-> now], provider')
      BY <1>0, <2>1 DEF Fresh, Event, PostingTypes
    <2> QED BY <2>1, <2>2, EmitsFresh
  <1>4. ASSUME NEW x \in EventIds, Repeats(x) PROVE Goal /\ now' = now /\ secret' = secret
    BY <1>4 DEF Repeats, Old, TypeOK
  <1>5. ASSUME Tick PROVE Goal /\ now' = now + 1 /\ secret' = secret
    BY <1>5 DEF Tick, Old
  <1> QED BY <1>0, <1>2, <1>3, <1>4, <1>5 DEF Provider

\* What is settled or canceled at the provider stays so.
ProviderFinal ==
    \A i \in Intents : provider[i] \in {"succeeded", "canceled"} => provider'[i] = provider[i]

LEMMA ProviderIsFinal ==
    ASSUME TypeOK, Next
    PROVE  ProviderFinal
  <1> USE DEF ProviderFinal
  <1>1. ASSUME NEW i \in Intents, Confirms(i) \/ Settles(i) \/ Declines(i) \/ Cancels(i)
        PROVE  ProviderFinal
    BY <1>1 DEF Confirms, Settles, Declines, Cancels, ProviderMoves, TypeOK
  <1>2. CASE Provider
    BY <1>1, <1>2 DEF Provider, Announces, Repeats, Tick
  <1>3. CASE Checkout
    BY <1>3 DEF Checkout, CreateIntent, AskProvider, RecordCreatedPayment, CreateFails,
                DeleteAccount, providerVars, TypeOK
  <1>4. CASE Webhook
    BY <1>4 DEF Webhook, Runs, Deliver, Claim, Read, Reads, Update, Post, PostThrows, Commit,
                Abort, providerVars
  <1> QED BY <1>2, <1>3, <1>4 DEF Next

\* What each kind of step does to the rows.
LEMMA WebhookRows ==
    ASSUME TypeInv, NEW h \in Handlers,
           (\E x \in EventIds : Deliver(h, x)) \/ Runs(h) \/ Abort(h)
    PROVE  /\ UNCHANGED <<providerVars, creating, accounts>>
           /\ UNCHANGED <<status, lastAt, inbox, journal>> \/ Commit(h)
           /\ tx' = [tx EXCEPT ![h] = tx'[h]]
           /\ (tx'[h].pc = "commit" => tx'[h].ev = tx[h].ev /\ tx[h].ev \in EventIds
                                       /\ event[tx[h].ev] # NoEvent)
  <1> USE DEF dbVars, providerVars, TypeInv, TypeOK
  <1>1. tx[h] \in Transaction /\ Shaped(tx[h])
    BY DEF TxShape
  <1>2. CASE (\E x \in EventIds : Deliver(h, x)) \/ PostThrows(h) \/ Abort(h)
    BY <1>2, EndsEmpty
  <1>3. CASE Claim(h)
    <2>1. tx'[h].pc = "commit" => tx'[h].ev = tx[h].ev
      BY <1>1, <1>3 DEF Claim, Goes, At, Idle, Transaction
    <2>2. tx[h].pc # "idle"
      BY <1>3 DEF Claim, Goes
    <2> QED BY <1>1, <1>3, <2>1, <2>2, ClaimWrites DEF Shaped
  <1>4. CASE Read(h) \/ Update(h) \/ Post(h)
    BY <1>1, <1>4, StepsOn DEF Shaped
  <1>5. CASE Commit(h)
    BY <1>5 DEF Commit, Goes, Idle
  <1> QED BY <1>2, <1>3, <1>4, <1>5 DEF Runs


\* The statements of checkout leave the events alone, and what they do to a row
\* and to the secrets.
LEMMA CheckoutRows ==
    ASSUME TypeOK, Checkout
    PROVE  /\ UNCHANGED <<event, now, inbox, journal, tx>> /\ accounts' \subseteq accounts
           /\ \A i \in Intents :
                /\ status'[i] = status[i] \/ status'[i] \in {"created", "none"}
                /\ lastAt'[i] = lastAt[i] \/ lastAt'[i] = 0
                /\ status'[i] = "none" => status[i] = "none" \/ Owner[i] \notin accounts'
           /\ secret \subseteq secret'
           /\ \A i \in secret' : i \in secret \/ status'[i] # "none"
  <1> USE DEF dbVars, providerVars, TypeOK
  <1>1. ASSUME NEW i \in Intents, CreateIntent(i) \/ CreateFails(i)
        PROVE  UNCHANGED <<event, now, secret, dbVars, tx>>
    BY <1>1 DEF CreateIntent, AskProvider, CreateFails
  <1>2. ASSUME NEW i \in Intents, RecordCreatedPayment(i)
        PROVE  /\ UNCHANGED <<event, now, inbox, journal, tx, accounts, lastAt>>
               /\ secret' = secret \cup {i} /\ status'[i] # "none"
               /\ \A j \in Intents : status'[j] = status[j] \/ status'[j] = "created"
    BY <1>2 DEF RecordCreatedPayment
  <1>3. ASSUME NEW u \in Users, DeleteAccount(u)
        PROVE  /\ UNCHANGED <<event, now, secret, inbox, journal, tx>>
               /\ accounts' = accounts \ {u}
               /\ \A j \in Intents :
                    /\ status'[j] = status[j] \/ (status'[j] = "none" /\ Owner[j] = u)
                    /\ lastAt'[j] = lastAt[j] \/ lastAt'[j] = 0
    BY <1>3 DEF DeleteAccount
  <1> QED BY <1>1, <1>2, <1>3 DEF Checkout

-----------------------------------------------------------------------------
(* The books say only what the provider did. *)

LEMMA BooksNext ==
    ASSUME IInv, BooksInv, [Next]_vars
    PROVE  BooksInv'
  <1> USE DEF BooksInv, BooksAreTrue
  <1>0. TypeInv /\ TypeOK
    BY DEF IInv, TypeInv
  <1>1. CASE Provider
    <2>1. ProviderFinal /\ UNCHANGED <<status, journal>>
      BY <1>0, <1>1, ProviderIsFinal, ProviderKeeps DEF Next, Quiet
    <2>2. BooksAreTrue'
      BY <1>0, <2>1 DEF ProviderFinal, TypeOK, Entry
    <2>3. ASSUME NEW x \in EventIds, event'[x] # NoEvent
          PROVE  /\ event'[x].type \in PostingTypes => provider'[event'[x].intent] = "succeeded"
                 /\ event'[x].type = "canceled" => provider'[event'[x].intent] = "canceled"
      <3>1. CASE Old(event'[x])
        BY <1>0, <2>1, <3>1 DEF Old, ProviderFinal, TypeOK, Event
      <3>2. CASE Fresh(event'[x], provider')
        BY <3>2 DEF Fresh
      <3> QED BY <1>0, <1>1, <2>3, <3>1, <3>2, EventsAreOldOrFresh
    <2> QED BY <2>2, <2>3
  <1>2. CASE Checkout
    <2>1. ProviderFinal
      BY <1>0, <1>2, ProviderIsFinal DEF Next
    <2>2. UNCHANGED <<event, journal>> /\ \A i \in Intents :
            status'[i] \in {"succeeded", "canceled"} => status'[i] = status[i]
      BY <1>0, <1>2, CheckoutRows
    <2> QED BY <1>0, <2>1, <2>2 DEF ProviderFinal, TypeOK, Entry, Event
  <1>3. CASE Webhook
    <2>1. PICK h \in Handlers : (\E x \in EventIds : Deliver(h, x)) \/ Runs(h) \/ Abort(h)
      BY <1>3 DEF Webhook
    <2>2. UNCHANGED <<provider, event>> /\ (UNCHANGED <<status, journal>> \/ Commit(h))
      BY <1>0, <2>1, WebhookRows DEF providerVars
    <2>3. CASE Commit(h)
      <3>1. /\ Shaped(tx[h]) /\ tx[h].ev \in EventIds /\ Of(h) # NoEvent
            /\ Of(h) \in Event /\ Intent(h) \in Intents
        BY <1>0, <2>3 DEF Commit, Goes, TypeInv, TxShape, Shaped, Of, Intent, TypeOK, Event
      <3>2. ASSUME NEW i \in Intents, status'[i] \in {"succeeded", "canceled"}
            PROVE  provider[i] = status'[i]
        <4>1. CASE status'[i] = status[i]
          BY <3>2, <4>1
        <4>2. CASE status'[i] # status[i]
          <5>1. tx[h].row /\ i = Intent(h) /\ status'[i] = StatusOf(Of(h).type)
            BY <1>0, <2>3, <3>1, <4>2 DEF Commit, TypeOK
          <5> QED BY <3>1, <3>2, <5>1 DEF StatusOf, PostingTypes, Of, Intent
        <4> QED BY <4>1, <4>2
      <3>3. ASSUME NEW e \in journal' PROVE provider[e.reference] = "succeeded"
        <4>1. CASE e \in journal
          BY <4>1
        <4>2. CASE e \notin journal
          <5>1. tx[h].post /\ e.reference = Intent(h)
            BY <2>3, <3>3, <4>2 DEF Commit, EntryOf
          <5> QED BY <3>1, <5>1 DEF Shaped, Of, Intent
        <4> QED BY <4>1, <4>2
      <3> QED BY <2>2, <3>2, <3>3
    <2> QED BY <2>2, <2>3
  <1>4. CASE UNCHANGED vars
    BY <1>4 DEF vars
  <1> QED BY <1>1, <1>2, <1>3, <1>4 DEF Next

-----------------------------------------------------------------------------
(* Events that find no row. *)

LEMMA FoundNext ==
    ASSUME IInv, FoundInv, [Next]_vars
    PROVE  FoundInv'
  <1> USE DEF FoundInv, UnmatchedExplained, Of, Intent
  <1>0. TypeInv /\ TypeOK /\ Claims
    BY DEF IInv, TypeInv
  <1>1. \A h \in Handlers : tx[h].pc = "commit" => tx[h].ev \in EventIds /\ Of(h) # NoEvent
    BY <1>0 DEF TypeInv, TxShape, Shaped
  <1>2. CASE Provider
    <2>1. Quiet /\ UNCHANGED <<accounts, status, lastAt>> /\ secret' = secret
      BY <1>0, <1>2, ProviderKeeps, EventsAreOldOrFresh
    <2>2. ASSUME NEW x \in EventIds, event'[x] # NoEvent,
                 event'[x].type \in PaymentTypes \ {"canceled"}
          PROVE  event'[x].intent \in secret
      BY <1>0, <1>2, <2>2, EventsAreOldOrFresh DEF Old, Fresh
    <2>3. UnmatchedExplained'
      BY <1>0, <2>1 DEF Quiet, EventsKept, Claims, TypeOK
    <2> QED BY <1>1, <2>1, <2>2, <2>3 DEF Quiet, EventsKept
  <1>3. CASE Checkout
    BY <1>0, <1>1, <1>3, CheckoutRows DEF TypeOK, Event
  <1>4. CASE Webhook
    <2>1. PICK h \in Handlers : (\E x \in EventIds : Deliver(h, x)) \/ Runs(h) \/ Abort(h)
      BY <1>4 DEF Webhook
    <2>2. /\ UNCHANGED <<event, secret, accounts>>
          /\ UNCHANGED <<status, inbox>> \/ Commit(h)
          /\ tx' = [tx EXCEPT ![h] = tx'[h]]
          /\ (tx'[h].pc = "commit" => tx'[h].ev = tx[h].ev /\ tx[h].ev \in EventIds
                                      /\ event[tx[h].ev] # NoEvent)
      BY <1>0, <2>1, WebhookRows DEF providerVars
    <2>3. CASE Commit(h)
      <3>1. /\ tx[h].pc = "commit" /\ tx[h].ev \in EventIds /\ tx'[h].pc = "idle"
            /\ inbox' = [inbox EXCEPT ![tx[h].ev] = tx[h].mark]
            /\ Intent(h) \in Intents /\ tx[h] \in Transaction /\ Shaped(tx[h]) /\ Of(h) \in Event
        BY <1>0, <1>1, <2>3 DEF Commit, Goes, Idle, TypeInv, TxShape, TypeOK, Event
      <3>2. \A i \in Intents : status[i] # "none" => status'[i] # "none"
        <4>1. tx[h].row => StatusOf(Of(h).type) # "none"
          BY <3>1 DEF StatusOf, Shaped
        <4> QED BY <1>0, <2>3, <3>1, <4>1 DEF Commit, TypeOK
      <3>3. UnmatchedExplained'
        BY <1>0, <2>2, <3>1 DEF TypeOK
      <3>4. \A i \in secret : i \in OutOfBand \/ status'[i] # "none" \/ Owner[i] \notin accounts
        BY <1>0, <3>2 DEF TypeOK
      <3>5. \A g \in Handlers \ {h} : tx'[g] = tx[g]
        BY <1>0, <2>2 DEF TypeOK
      <3>6. ASSUME NEW g \in Handlers, tx'[g].pc = "commit", tx'[g].mark = "unmatched"
            PROVE  (\/ Intent(g) \in OutOfBand \/ Of(g).type = "canceled"
                    \/ Owner[Intent(g)] \notin accounts)'
        BY <2>2, <3>1, <3>5, <3>6
      <3> QED BY <2>2, <3>3, <3>4, <3>6
    <2>4. CASE ~Commit(h)
      <3>1. ASSUME tx'[h].pc = "commit", tx'[h].mark = "unmatched"
            PROVE  \/ Intent(h) \in OutOfBand \/ Of(h).type = "canceled"
                   \/ Owner[Intent(h)] \notin accounts
        <4>1. tx[h] \in Transaction /\ Shaped(tx[h]) /\ h \in DOMAIN tx
          BY <1>0 DEF TypeInv, TxShape, TypeOK
        <4>2. ~Claim(h)
          <5>1. \A mark : [[tx[h] EXCEPT !.pc = FirstStep(Of(h).type)] EXCEPT !.mark = mark].mark = mark
            BY <4>1 DEF Transaction
          <5>2. Claim(h) => tx'[h].pc = "idle" \/ tx'[h].mark \in {"unhandled", "processed"}
            BY <4>1, <5>1 DEF Claim, Goes, At, Idle
          <5> QED BY <3>1, <5>2
        <4>3. ~Update(h) /\ ~Post(h)
          BY ZenonT(60), <3>1, <4>1 DEF Update, Post, Updated, Goes, At, Transaction, Shaped
        <4>4. Read(h)
          BY <1>0, <2>1, <2>4, <3>1, <4>2, <4>3, EndsEmpty DEF Runs
        <4>5. status[Intent(h)] = "none" /\ Of(h).type \in PaymentTypes
          BY <3>1, <4>1, <4>4 DEF Read, Reads, Goes, At, Transaction, Shaped
        <4> QED BY <2>2, <3>1, <4>5
      <3>2. \A g \in Handlers \ {h} : tx'[g] = tx[g]
        BY <1>0, <2>2 DEF TypeOK
      <3>3. UNCHANGED <<event, secret, accounts, status, inbox>>
        BY <2>2, <2>4
      <3>4. UnmatchedExplained'
        BY <3>3
      <3>5. ASSUME NEW g \in Handlers, tx'[g].pc = "commit", tx'[g].mark = "unmatched"
            PROVE  (\/ Intent(g) \in OutOfBand \/ Of(g).type = "canceled"
                    \/ Owner[Intent(g)] \notin accounts)'
        <4>1. CASE g = h
          BY <2>2, <3>1, <3>3, <3>5, <4>1
        <4>2. CASE g # h
          BY <3>2, <3>3, <3>5, <4>2
        <4> QED BY <4>1, <4>2
      <3> QED BY <3>3, <3>4, <3>5
    <2> QED BY <2>3, <2>4
  <1>5. CASE UNCHANGED vars
    BY <1>5 DEF vars
  <1> QED BY <1>2, <1>3, <1>4, <1>5 DEF Next


-----------------------------------------------------------------------------
(* Nothing happens to an intent after its success. *)

LEMMA OrderNext ==
    ASSUME IInv, BooksInv, OrderInv, [Next]_vars
    PROVE  OrderInv'
  <1> USE DEF OrderInv
  <1>0. TypeInv /\ TypeOK /\ now \in Nat /\ lastAt \in [Intents -> Nat]
        /\ \A x \in EventIds : event[x] # NoEvent => event[x] \in Event /\ event[x].at \in Nat
    <2>1. TypeInv /\ TypeOK
      BY DEF IInv, TypeInv
    <2> QED BY <2>1, ConstantsAssumption DEF TypeOK, Event
  <1>1. CASE Provider
    <2>1. EventsKept /\ UNCHANGED lastAt /\ now <= now' /\ now' \in Nat
      BY <1>0, <1>1, ProviderKeeps, EventsAreOldOrFresh, ConstantsAssumption DEF Quiet, TypeOK
    <2>2. \A x \in EventIds : event'[x] # NoEvent =>
                /\ Old(event'[x]) \/ Fresh(event'[x], provider')
                /\ event'[x].at \in Nat /\ event'[x].at <= now
      BY <1>0, <1>1, EventsAreOldOrFresh, ConstantsAssumption DEF Old, Fresh, Event
    <2>3. ASSUME NEW x \in EventIds, NEW y \in EventIds, event'[x] # NoEvent, event'[y] # NoEvent,
                 event'[x].type = "succeeded", event'[y].type \in PaymentTypes,
                 event'[x].intent = event'[y].intent
          PROVE  event'[y].at <= event'[x].at
      <3>1. CASE Fresh(event'[x], provider')
        BY <2>2, <2>3, <3>1 DEF Fresh
      <3>2. CASE Old(event'[x])
        <4>1. provider[event'[x].intent] = "succeeded"
          BY <2>3, <3>2 DEF BooksInv, Old, PostingTypes
        <4>2. Old(event'[y])
          BY <2>2, <2>3, <4>1 DEF Fresh
        <4> QED BY <2>3, <3>2, <4>2 DEF Old
      <3> QED BY <2>2, <2>3, <3>1, <3>2
    <2>4. \A x \in EventIds : event'[x] # NoEvent => event'[x].at <= now'
      BY <1>0, <2>1, <2>2
    <2>5. ASSUME NEW i \in Intents, lastAt'[i] # 0
          PROVE  \E y \in EventIds : /\ event'[y] # NoEvent /\ event'[y].type \in PaymentTypes
                                     /\ event'[y].intent = i /\ event'[y].at = lastAt'[i]
      <3>1. PICK y \in EventIds : /\ event[y] # NoEvent /\ event[y].type \in PaymentTypes
                                  /\ event[y].intent = i /\ event[y].at = lastAt[i]
        BY <2>1, <2>5
      <3> QED BY <2>1, <3>1 DEF EventsKept
    <2> QED BY <2>3, <2>4, <2>5
  <1>2. CASE Checkout
    BY <1>0, <1>2, CheckoutRows
  <1>3. CASE Webhook
    <2>1. PICK h \in Handlers : (\E x \in EventIds : Deliver(h, x)) \/ Runs(h) \/ Abort(h)
      BY <1>3 DEF Webhook
    <2>2. UNCHANGED <<event, now>> /\ (UNCHANGED lastAt \/ Commit(h))
      BY <1>0, <2>1, WebhookRows DEF providerVars
    <2>3. CASE Commit(h)
      <3>1. Shaped(tx[h]) /\ tx[h].ev \in EventIds /\ Of(h) # NoEvent
        BY <1>0, <2>3 DEF Commit, Goes, TypeInv, TxShape, Shaped, Of
      <3>2. ASSUME NEW i \in Intents, lastAt'[i] # lastAt[i]
            PROVE  lastAt'[i] = Of(h).at /\ Intent(h) = i /\ Of(h).type \in PaymentTypes
        BY <1>0, <2>3, <3>1, <3>2 DEF Commit, TypeOK, Shaped, Of
      <3> QED BY <2>2, <3>1, <3>2 DEF Of, Intent
    <2> QED BY <2>2, <2>3
  <1>4. CASE UNCHANGED vars
    BY <1>4 DEF vars
  <1> QED BY <1>1, <1>2, <1>3, <1>4 DEF Next

-----------------------------------------------------------------------------
(* What becomes of a success. *)

\* Entries and processed events stay.
LEMMA AccountedStays ==
    ASSUME IInv, Next, NEW i \in Intents, Accounted(i)
    PROVE  Accounted(i)' /\ (Declined(i) => Declined(i)')
  <1> USE DEF Accounted, Charged, Posted, Declined
  <1>0. TypeInv /\ TypeOK /\ Claims
    BY DEF IInv, TypeInv
  <1>1. CASE Provider \/ Checkout
    BY <1>0, <1>1, ProviderKeeps, CheckoutKeeps DEF Quiet, EventsKept, Claims
  <1>2. CASE Webhook
    <2>1. PICK h \in Handlers : (\E x \in EventIds : Deliver(h, x)) \/ Runs(h) \/ Abort(h)
      BY <1>2 DEF Webhook
    <2>2. UNCHANGED event /\ (UNCHANGED <<inbox, journal>> \/ Commit(h))
      BY <1>0, <2>1, WebhookRows DEF providerVars
    <2>3. CASE Commit(h)
      <3>1. journal \subseteq journal' /\ inbox[tx[h].ev] = "absent"
            /\ inbox' = [inbox EXCEPT ![tx[h].ev] = tx[h].mark]
        BY <1>0, <2>3 DEF Commit, Goes, Claims, Claimed
      <3> QED BY <1>0, <2>2, <3>1 DEF TypeOK
    <2> QED BY <2>2, <2>3
  <1> QED BY <1>1, <1>2 DEF Next

\* A success that a transaction leaves alone was charged or declined before: the
\* row is not canceled, and nothing newer has been applied to it.
LEMMA LeftAlone ==
    ASSUME IInv, BooksInv, OrderInv, SuccessInv, NEW h \in Handlers, Read(h),
           tx'[h].pc = "commit", tx'[h].mark = "processed", Of(h).type = "succeeded"
    PROVE  Accounted(Intent(h))
  <1>0. /\ TypeOK /\ tx[h] \in Transaction /\ h \in DOMAIN tx
        /\ tx[h].ev \in EventIds /\ Of(h) # NoEvent /\ Of(h) \in Event /\ Intent(h) \in Intents
        /\ tx[h].pc = "read"
    BY DEF IInv, TypeInv, TypeOK, TxShape, Shaped, Read, Reads, Goes, Of, Intent, Event
  <1>1. status[Intent(h)] \in TERMINAL \/ Stale(Intent(h), Of(h))
    BY <1>0 DEF Read, Reads, Goes, At, Transaction
  <1>2. provider[Intent(h)] = "succeeded"
    BY <1>0 DEF BooksInv, PostingTypes, Of, Intent
  <1>3. ~Stale(Intent(h), Of(h))
    <2>1. SUFFICES ASSUME lastAt[Intent(h)] # 0, lastAt[Intent(h)] > Of(h).at PROVE FALSE
      BY DEF Stale
    <2>2. PICK y \in EventIds : /\ event[y] # NoEvent /\ event[y].type \in PaymentTypes
                                /\ event[y].intent = Intent(h) /\ event[y].at = lastAt[Intent(h)]
      BY <1>0, <2>1 DEF OrderInv
    <2>3. event[y].at <= Of(h).at
      BY <1>0, <2>2 DEF OrderInv, Of, Intent
    <2>4. event[y].at \in Nat /\ Of(h).at \in Nat
      BY <1>0, <2>2, ConstantsAssumption DEF TypeOK, Event
    <2> QED BY <2>1, <2>2, <2>3, <2>4
  <1>4. status[Intent(h)] # "canceled"
    BY <1>0, <1>2 DEF BooksInv, BooksAreTrue
  <1>5. status[Intent(h)] = "succeeded" => Charged(Intent(h))
    BY <1>0 DEF IInv, Settled, SettledHasCharge
  <1>6. status[Intent(h)] = "failed" => Declined(Intent(h))
    BY <1>0 DEF SuccessInv
  <1> QED BY <1>1, <1>3, <1>4, <1>5, <1>6 DEF Accounted

\* What the transaction of h becomes keeps the promise of SuccessInv.
LEMMA SuccessTx ==
    ASSUME IInv, BooksInv, OrderInv, SuccessInv, NEW h \in Handlers,
           (\E x \in EventIds : Deliver(h, x)) \/ Runs(h) \/ Abort(h)
    PROVE  /\ tx'[h].row => tx'[h].mark = "processed"
           /\ tx'[h].pc = "commit" /\ Of(h).type = "succeeded" /\ tx'[h].mark = "processed"
                => tx'[h].row \/ Accounted(Intent(h))
  <1>0. TypeInv /\ tx[h] \in Transaction /\ Shaped(tx[h]) /\ h \in DOMAIN tx
    BY DEF IInv, TypeInv, TypeOK, TxShape
  <1>1. CASE (\E x \in EventIds : Deliver(h, x)) \/ PostThrows(h) \/ Abort(h)
    BY <1>0, <1>1, EndsEmpty
  <1>2. CASE Claim(h)
    <2>1. tx'[h].pc = "commit" => Of(h).type # "succeeded"
      BY <1>0, <1>2 DEF Claim, Goes, At, Idle, FirstStep, Transaction
    <2> QED BY <1>0, <1>2, <2>1, ClaimWrites
  <1>3. CASE Read(h)
    BY <1>0, <1>3, LeftAlone, StepWrites
  <1>4. CASE Update(h)
    <2>1. tx'[h].mark = "processed"
      BY <1>0, <1>4 DEF Update, Updated, Goes, At, Transaction, Shaped
    <2> QED BY <1>0, <1>4, <2>1, StepWrites
  <1>5. CASE Post(h)
    <2>1. tx'[h].mark = tx[h].mark /\ tx'[h].row = tx[h].row
      BY <1>0, <1>5 DEF Post, Goes, At, Transaction
    <2>2. Of(h).type = "succeeded" => tx[h].row
      BY <1>5 DEF Post, RowGone
    <2> QED BY <1>0, <1>5, <2>1, <2>2 DEF Post, Goes, Shaped
  <1>6. CASE Commit(h)
    BY <1>0, <1>6 DEF Commit, Goes, Idle
  <1> QED BY <1>1, <1>2, <1>3, <1>4, <1>5, <1>6 DEF Runs

LEMMA SuccessNext ==
    ASSUME IInv, BooksInv, OrderInv, SuccessInv, [Next]_vars
    PROVE  SuccessInv'
  <1> USE DEF SuccessInv
  <1>0. TypeInv /\ TypeOK /\ Claims /\ Settled
    BY DEF IInv, TypeInv
  <1>1. ASSUME Next, NEW i \in Intents
        PROVE  /\ Accounted(i) => Accounted(i)'
               /\ Declined(i) => Declined(i)'
    BY <1>1, AccountedStays DEF Accounted
  <1>2. \A g \in Handlers : tx[g].pc = "commit" => tx[g].ev \in EventIds /\ event[tx[g].ev] # NoEvent
    BY <1>0 DEF TypeInv, TxShape, Shaped
  <1>3. CASE Provider \/ Checkout
    <2>1. /\ UNCHANGED <<inbox, tx>> /\ EventsKept
          /\ \A i \in Intents : status'[i] = "failed" => status[i] = "failed"
      BY <1>0, <1>3, ProviderKeeps, CheckoutKeeps, CheckoutRows DEF Quiet
    <2>2. \A x \in EventIds : inbox'[x] = "processed" => event'[x] = event[x]
      BY <1>0, <2>1 DEF Claims, EventsKept
    <2>3. \A g \in Handlers : tx'[g].pc = "commit" => Of(g)' = Of(g)
      BY <1>2, <2>1 DEF EventsKept, Of
    <2> HIDE DEF SuccessInv
    <2>4. \A x \in EventIds, i \in Intents :
            inbox'[x] = "processed" /\ event'[x].type = "succeeded" /\ event'[x].intent = i
                => Accounted(i)'
      BY <1>1, <1>3, <2>1, <2>2 DEF SuccessInv, Next
    <2>5. \A i \in Intents : status'[i] = "failed" => Declined(i)'
      BY <1>1, <1>3, <2>1 DEF SuccessInv, Next
    <2>6. \A h \in Handlers, i \in Intents :
            /\ tx'[h].pc = "commit" /\ tx'[h].mark = "processed"
            /\ Of(h)'.type = "succeeded" /\ Intent(h)' = i
            => tx'[h].row \/ Accounted(i)'
      BY <1>1, <1>3, <2>1, <2>3 DEF SuccessInv, Next, Intent
    <2> QED BY <2>1, <2>4, <2>5, <2>6 DEF SuccessInv
  <1>4. CASE Webhook
    <2>1. PICK h \in Handlers : (\E x \in EventIds : Deliver(h, x)) \/ Runs(h) \/ Abort(h)
      BY <1>4 DEF Webhook
    <2>2. /\ UNCHANGED event
          /\ UNCHANGED <<status, inbox, journal>> \/ Commit(h)
          /\ \A g \in Handlers \ {h} : tx'[g] = tx[g]
          /\ tx'[h].pc = "commit" => tx'[h].ev = tx[h].ev
      BY <1>0, <2>1, WebhookRows DEF providerVars, TypeOK
    <2>3. \A i \in Intents : Accounted(i) => Accounted(i)'
      BY <1>1, <1>4 DEF Next
    <2>4. \A g \in Handlers : tx'[g].row => tx'[g].mark = "processed"
      BY <2>1, <2>2, SuccessTx
    <2>5. ASSUME NEW g \in Handlers, NEW i \in Intents, tx'[g].pc = "commit",
                 tx'[g].mark = "processed", Of(g)'.type = "succeeded", Intent(g)' = i
          PROVE  tx'[g].row \/ Accounted(i)'
      <3>1. CASE g = h
        BY <2>1, <2>2, <2>3, <2>5, <3>1, SuccessTx DEF Of, Intent
      <3>2. CASE g # h
        BY <2>2, <2>3, <2>5, <3>2 DEF Of, Intent
      <3> QED BY <3>1, <3>2
    <2>6. ASSUME Commit(h)
          PROVE  /\ \A x \in EventIds, i \in Intents :
                      inbox'[x] = "processed" /\ event[x].type = "succeeded"
                          /\ event[x].intent = i => Accounted(i)'
                 /\ \A i \in Intents : status'[i] = "failed" => Declined(i)'
      <3>1. /\ tx[h].pc = "commit" /\ tx[h].ev \in EventIds /\ Shaped(tx[h])
            /\ inbox' = [inbox EXCEPT ![tx[h].ev] = tx[h].mark]
            /\ journal' = IF tx[h].post THEN journal \cup {EntryOf(h)} ELSE journal
            /\ event' = event
        BY <1>0, <1>2, <2>2, <2>6 DEF Commit, Goes, TypeInv, TxShape
      <3>2. ASSUME NEW i \in Intents, tx[h].mark = "processed", Of(h).type = "succeeded",
                   Intent(h) = i
            PROVE  Accounted(i)'
        <4>1. tx[h].row \/ Accounted(i)
          BY <3>1, <3>2
        <4>2. tx[h].row => tx[h].post \/ Charged(i)
          BY <1>0, <3>1, <3>2 DEF Settled
        <4>3. EntryOf(h).kind = "charge" /\ EntryOf(h).reference = i
          BY <3>2 DEF EntryOf, EntryKind
        <4>4. tx[h].post => Charged(i)'
          BY <3>1, <4>3 DEF Charged, Posted
        <4> QED BY <2>3, <4>1, <4>2, <4>4 DEF Accounted
      <3>3. ASSUME NEW x \in EventIds, NEW i \in Intents, inbox'[x] = "processed",
                   event[x].type = "succeeded", event[x].intent = i
            PROVE  Accounted(i)'
        <4>1. CASE x = tx[h].ev
          BY <1>0, <3>1, <3>2, <3>3, <4>1 DEF Of, Intent, TypeOK
        <4>2. CASE x # tx[h].ev
          BY <1>0, <2>3, <3>1, <3>3, <4>2 DEF TypeOK
        <4> QED BY <4>1, <4>2
      <3>4. ASSUME NEW i \in Intents, status'[i] = "failed" PROVE Declined(i)'
        <4>1. CASE status[i] = "failed"
          BY <1>1, <1>4, <4>1 DEF Next
        <4>2. CASE status[i] # "failed"
          <5>1. tx[h].row /\ Intent(h) = i /\ StatusOf(Of(h).type) = "failed"
            BY <1>0, <2>6, <3>4, <4>2 DEF Commit, TypeOK
          <5>2. Of(h).type = "payment_failed" /\ tx[h].mark = "processed"
            BY <3>1, <5>1 DEF StatusOf, Shaped, Of
          <5>3. inbox'[tx[h].ev] = "processed"
            BY <1>0, <3>1, <5>2 DEF TypeOK
          <5> QED BY <3>1, <5>1, <5>2, <5>3 DEF Declined, Of, Intent
        <4> QED BY <4>1, <4>2
      <3> QED BY <3>3, <3>4
    <2>7. ASSUME UNCHANGED <<status, inbox, journal>>
          PROVE  /\ \A x \in EventIds, i \in Intents :
                      inbox'[x] = "processed" /\ event[x].type = "succeeded"
                          /\ event[x].intent = i => Accounted(i)'
                 /\ \A i \in Intents : status'[i] = "failed" => Declined(i)'
      BY <1>1, <1>4, <2>3, <2>7 DEF Next
    <2> QED BY <2>2, <2>4, <2>5, <2>6, <2>7
  <1>5. CASE UNCHANGED vars
    BY <1>5 DEF vars, Accounted, Declined, Charged, Posted, Of, Intent
  <1> QED BY <1>3, <1>4, <1>5 DEF Next

-----------------------------------------------------------------------------
(* All of it together. *)

AllInv == IInv /\ BooksInv /\ FoundInv /\ OrderInv /\ SuccessInv

LEMMA AllInvInit == Init => AllInv
  <1> SUFFICES ASSUME Init PROVE BooksInv /\ FoundInv /\ OrderInv /\ SuccessInv
    BY IInvInit DEF AllInv
  <1>1. /\ \A h \in Handlers : tx[h].pc = "idle" /\ ~tx[h].row
        /\ journal = {} /\ secret = OutOfBand
        /\ \A x \in EventIds : inbox[x] = "absent" /\ event[x] = NoEvent
        /\ \A i \in Intents : status[i] = "none" /\ lastAt[i] = 0
    BY DEF Init, Idle
  <1>2. BooksInv
    BY <1>1 DEF BooksInv, BooksAreTrue
  <1>3. FoundInv
    BY <1>1 DEF FoundInv, UnmatchedExplained
  <1>4. OrderInv
    BY <1>1 DEF OrderInv
  <1>5. SuccessInv
    BY <1>1 DEF SuccessInv
  <1> QED BY <1>2, <1>3, <1>4, <1>5

LEMMA AllInvNext == AllInv /\ [Next]_vars => AllInv'
  BY IInvNext, BooksNext, FoundNext, OrderNext, SuccessNext DEF AllInv

\* The payments table and the journal never say what the provider has not done,
\* whatever is delivered late, twice or out of order to however many requests.
THEOREM BooksSayWhatHappened == Spec => []BooksAreTrue
  <1>1. AllInv => BooksAreTrue
    BY DEF AllInv, BooksInv
  <1> QED BY AllInvInit, AllInvNext, <1>1, PTL DEF Spec

\* A success that was processed is in the journal, unless a decline of the same
\* intent was processed: neither staleness nor a replay swallows it.  None of a
\* payment of ours is put away as unmatched.
THEOREM SuccessesAreAccountedFor == Spec => []SuccessAccountedFor
  <1>1. AllInv => SuccessAccountedFor
    <2> SUFFICES ASSUME AllInv, NEW x \in EventIds, event[x] # NoEvent,
                        event[x].type = "succeeded"
                 PROVE  /\ inbox[x] = "processed" => Accounted(event[x].intent)
                        /\ inbox[x] = "unmatched" =>
                             \/ event[x].intent \in OutOfBand
                             \/ Owner[event[x].intent] \notin accounts
      BY DEF SuccessAccountedFor, Accounted, Declined
    <2>1. event[x].intent \in Intents
      BY DEF AllInv, IInv, TypeInv, TypeOK, Event
    <2>2. inbox[x] = "processed" => Accounted(event[x].intent)
      BY <2>1 DEF AllInv, SuccessInv
    <2>3. inbox[x] = "unmatched" =>
            event[x].intent \in OutOfBand \/ Owner[event[x].intent] \notin accounts
      BY DEF AllInv, FoundInv, UnmatchedExplained
    <2> QED BY <2>2, <2>3
  <1> QED BY AllInvInit, AllInvNext, <1>1, PTL DEF Spec

=============================================================================
