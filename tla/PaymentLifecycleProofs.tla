---------------------- MODULE PaymentLifecycleProofs ----------------------
(***************************************************************************)
(* PaymentPipeline implements PaymentLifecycle with any number of webhook   *)
(* requests at once: each of its steps is a step of the lifecycle or a      *)
(* stutter.  While one request runs at a time, and only then, a finished    *)
(* payment never moves: the SELECT of applyPaymentEvent takes no lock.      *)
(***************************************************************************)
EXTENDS PaymentPipelineProofs

\* A payment has a row only while its account exists, an updated row stays until
\* its one writer is done, and a charge is posted from an updated row.
RowInv ==
    /\ \A i \in Intents : status[i] # "none" => Owner[i] \in accounts
    /\ \A h \in Handlers, i \in Intents :
        tx[h].row /\ Intent(h) = i => status[i] # "none"
    /\ \A g, h \in Handlers : tx[g].row /\ tx[h].row /\ Intent(g) = Intent(h) => g = h
    /\ \A h \in Handlers : tx[h].post /\ Of(h).type = "succeeded" => tx[h].row

\* One request at a time.
Serial == \A g, h \in Handlers : g = h

\* The payment row of an event has not moved since the transaction read it, but
\* for the deletion of its account; and it cannot once it has been updated.
SerialInv ==
    \A h \in Handlers, i \in Intents :
        /\ tx[h].pc = "update" /\ Intent(h) = i => status[i] \in {"none", "created", "processing"}
        /\ tx[h].row /\ Intent(h) = i => status[i] \in {"created", "processing"}

-----------------------------------------------------------------------------
(* The strengthenings. *)

LEMMA RowInit == Init => RowInv /\ SerialInv
  BY ConstantsAssumption DEF Init, RowInv, SerialInv, Idle

\* What a step of a webhook request does to its transaction and to the table.
Rest(h) == ~tx[h].row /\ ~tx[h].post /\ tx[h].pc # "update"

LEMMA RestsOrWorks ==
    ASSUME TypeInv, NEW h \in Handlers,
           (\E x \in EventIds : Deliver(h, x)) \/ Runs(h) \/ Abort(h)
    PROVE  \/ UNCHANGED status /\ Rest(h)'
           \/ Read(h) /\ UNCHANGED status /\ tx'[h].ev = tx[h].ev /\ ~tx'[h].row /\ ~tx'[h].post
              /\ tx[h].pc = "read"
              /\ (tx'[h].pc = "update" => status[Intent(h)] \notin TERMINAL \cup {"none"})
           \/ Update(h) /\ UNCHANGED status /\ tx'[h].ev = tx[h].ev /\ ~tx'[h].post
              /\ tx[h].pc = "update" /\ tx'[h].pc # "update"
              /\ (tx'[h].row => status[Intent(h)] # "none") /\ ~RowLocked(h, Intent(h))
           \/ Post(h) /\ UNCHANGED status /\ tx'[h].ev = tx[h].ev /\ tx[h].pc = "post"
              /\ tx'[h].pc = "commit" /\ tx'[h].row = tx[h].row
              /\ (Of(h).type = "succeeded" => tx[h].row)
           \/ Commit(h) /\ Rest(h)' /\ tx[h].pc = "commit"
  <1>0. /\ TypeOK /\ tx[h] \in Transaction /\ Shaped(tx[h])
        /\ UNCHANGED status \/ Commit(h)
    BY WebhookRows DEF TypeInv, TxShape, TypeOK
  <1>1. CASE (\E x \in EventIds : Deliver(h, x)) \/ PostThrows(h) \/ Abort(h)
    BY <1>0, <1>1, EndsEmpty DEF dbVars, Rest
  <1>2. CASE Claim(h)
    <2>1. tx'[h].pc # "update"
      BY <1>0, <1>2 DEF Claim, Goes, At, Idle, FirstStep, TypeOK, Transaction
    <2> QED BY <1>0, <1>2, <2>1, ClaimWrites DEF dbVars, Rest
  <1>3. CASE Read(h)
    <2>1. UNCHANGED status /\ tx'[h].ev = tx[h].ev /\ ~tx'[h].row /\ ~tx'[h].post
      BY <1>0, <1>3, StepsOn, StepWrites DEF dbVars
    <2>2. /\ tx[h].pc = "read"
          /\ tx'[h].pc = "update" => status[Intent(h)] \notin TERMINAL \cup {"none"}
      BY <1>0, <1>3 DEF Read, Reads, Goes, At, Transaction, TypeOK
    <2> QED BY <1>3, <2>1, <2>2
  <1>4. CASE Update(h)
    <2>1. UNCHANGED status /\ tx'[h].ev = tx[h].ev /\ ~tx'[h].post /\ tx[h].pc = "update"
      BY <1>0, <1>4, StepsOn, StepWrites DEF dbVars, Update, Goes
    <2>2. /\ tx'[h].pc # "update" /\ (tx'[h].row => status[Intent(h)] # "none")
          /\ ~RowLocked(h, Intent(h))
      BY <1>0, <1>4 DEF Update, Updated, Goes, At, Transaction, TypeOK
    <2> QED BY <1>4, <2>1, <2>2
  <1>5. CASE Post(h)
    <2>1. UNCHANGED status /\ tx'[h].ev = tx[h].ev
      BY <1>0, <1>5, StepsOn DEF dbVars
    <2>2. tx[h].pc = "post" /\ tx'[h].pc = "commit" /\ tx'[h].row = tx[h].row
      BY <1>0, <1>5 DEF Post, Goes, At, Transaction, TypeOK
    <2>3. Of(h).type = "succeeded" => tx[h].row
      BY <1>5 DEF Post, RowGone
    <2> QED BY <1>5, <2>1, <2>2, <2>3
  <1>6. CASE Commit(h)
    BY <1>0, <1>6 DEF Commit, Goes, Idle, TypeOK, Rest
  <1> QED BY <1>1, <1>2, <1>3, <1>4, <1>5, <1>6 DEF Runs

\* Steps that leave transactions, accounts and rows alone, and old events too.
LEMMA NothingMoves ==
    ASSUME TypeInv, UNCHANGED <<tx, accounts, status>>, EventsKept
    PROVE  /\ RowInv => RowInv'
           /\ SerialInv => SerialInv'
  <1>1. \A h \in Handlers : tx[h].pc # "idle" => tx[h].ev \in EventIds /\ event[tx[h].ev] # NoEvent
    BY DEF TypeInv, TxShape, Shaped
  <1>2. \A h \in Handlers : tx[h].pc = "update" \/ tx[h].row \/ tx[h].post =>
                               /\ tx'[h] = tx[h] /\ Of(h)' = Of(h) /\ Intent(h)' = Intent(h)
    BY <1>1 DEF TypeInv, TxShape, Shaped, EventsKept, Of, Intent
  <1> QED BY <1>2 DEF RowInv, SerialInv

LEMMA CheckoutRowsKept ==
    ASSUME TypeInv, Checkout
    PROVE  /\ RowInv => RowInv'
           /\ SerialInv /\ RowInv => SerialInv'
  <1>0. TypeOK
    BY DEF TypeInv
  <1>1. ASSUME NEW i \in Intents, CreateIntent(i) \/ CreateFails(i)
        PROVE  /\ RowInv => RowInv'
               /\ SerialInv => SerialInv'
    BY <1>1, NothingMoves DEF CreateIntent, AskProvider, CreateFails, providerVars, dbVars, EventsKept
  <1>2. ASSUME NEW i \in Intents, RecordCreatedPayment(i)
        PROVE  /\ RowInv => RowInv'
               /\ SerialInv => SerialInv'
    BY <1>0, <1>2 DEF RecordCreatedPayment, TypeOK, Of, Intent, RowInv, SerialInv
  <1>3. ASSUME NEW u \in Users, DeleteAccount(u)
        PROVE  /\ RowInv => RowInv'
               /\ SerialInv => SerialInv'
    <2>1. /\ UNCHANGED <<tx, event>> /\ accounts' = accounts \ {u}
          /\ \A i \in Intents : status'[i] = IF Owner[i] = u THEN "none" ELSE status[i]
          /\ \A h \in Handlers : tx[h].row => Owner[Intent(h)] # u
      BY <1>3 DEF DeleteAccount, providerVars, Intent, Of
    <2> QED BY <1>0, <2>1, ConstantsAssumption DEF Of, Intent, RowInv, SerialInv
  <1> QED BY <1>1, <1>2, <1>3 DEF Checkout

LEMMA RowNext ==
    ASSUME IInv, RowInv, [Next]_vars
    PROVE  RowInv'
  <1>0. TypeInv /\ TypeOK
    BY DEF IInv, TypeInv
  <1>1. CASE Provider
    BY <1>0, <1>1, ProviderKeeps, NothingMoves DEF Quiet
  <1>2. CASE Checkout
    BY <1>0, <1>2, CheckoutRowsKept
  <1>3. CASE Webhook
    <2>1. PICK h \in Handlers : (\E x \in EventIds : Deliver(h, x)) \/ Runs(h) \/ Abort(h)
      BY <1>3 DEF Webhook
    <2>2. /\ UNCHANGED <<event, accounts>>
          /\ \A g \in Handlers \ {h} : tx'[g] = tx[g]
          /\ Shaped(tx[h])
      BY <1>0, <2>1, WebhookRows DEF providerVars, TypeInv, TxShape, TypeOK
    <2>3. CASE UNCHANGED status /\ Rest(h)'
      BY <2>2, <2>3 DEF RowInv, Rest, Of, Intent
    <2>4. CASE Read(h) /\ UNCHANGED status /\ tx'[h].ev = tx[h].ev /\ ~tx'[h].row /\ ~tx'[h].post
      BY <2>2, <2>4 DEF RowInv, Of, Intent
    <2>5. CASE Update(h) /\ UNCHANGED status /\ tx'[h].ev = tx[h].ev /\ ~tx'[h].post
               /\ (tx'[h].row => status[Intent(h)] # "none") /\ ~RowLocked(h, Intent(h))
      BY <2>2, <2>5 DEF RowInv, RowLocked, Of, Intent
    <2>6. CASE Post(h) /\ UNCHANGED status /\ tx'[h].ev = tx[h].ev /\ tx'[h].row = tx[h].row
               /\ (Of(h).type = "succeeded" => tx[h].row)
      BY <2>2, <2>6 DEF RowInv, Of, Intent
    <2>7. CASE Commit(h) /\ Rest(h)' /\ tx[h].pc = "commit"
      <3>1. \A i \in Intents : status'[i] # "none" => status[i] # "none"
        <4>1. tx[h].row /\ Intent(h) \in Intents => status[Intent(h)] # "none"
          BY DEF RowInv
        <4> QED BY <1>0, <2>7, <4>1 DEF Commit, TypeOK
      <3>2. \A i \in Intents : status[i] # "none" => status'[i] # "none"
        <4>1. tx[h].row => StatusOf(Of(h).type) # "none"
          BY <2>2 DEF StatusOf, Shaped, Of, PaymentTypes
        <4> QED BY <1>0, <2>7, <4>1 DEF Commit, TypeOK
      <3> QED BY <2>2, <2>7, <3>1, <3>2 DEF RowInv, Rest, Of, Intent
    <2> QED BY <1>0, <2>1, <2>3, <2>4, <2>5, <2>6, <2>7, RestsOrWorks
  <1>4. CASE UNCHANGED vars
    BY <1>0, <1>4, NothingMoves DEF vars, EventsKept
  <1> QED BY <1>1, <1>2, <1>3, <1>4 DEF Next

LEMMA SerialNext ==
    ASSUME Serial, IInv, RowInv, SerialInv, [Next]_vars
    PROVE  SerialInv'
  <1>0. TypeInv /\ TypeOK
    BY DEF IInv, TypeInv
  <1>1. CASE Provider
    BY <1>0, <1>1, ProviderKeeps, NothingMoves DEF Quiet
  <1>2. CASE Checkout
    BY <1>0, <1>2, CheckoutRowsKept
  <1>3. CASE Webhook
    <2>1. PICK h \in Handlers : (\E x \in EventIds : Deliver(h, x)) \/ Runs(h) \/ Abort(h)
      BY <1>3 DEF Webhook
    <2>2. UNCHANGED event /\ \A g \in Handlers : g = h
      BY <1>0, <2>1, WebhookRows DEF providerVars, Serial
    <2>3. CASE Rest(h)'
      BY <2>2, <2>3 DEF SerialInv, Rest
    <2>4. CASE Read(h) /\ UNCHANGED status /\ tx'[h].ev = tx[h].ev /\ ~tx'[h].row
               /\ (tx'[h].pc = "update" => status[Intent(h)] \notin TERMINAL \cup {"none"})
      <3>1. \A i \in Intents : status[i] \in PaymentStatus \cup {"none"}
        BY <1>0 DEF TypeOK
      <3> QED BY <2>2, <2>4, <3>1 DEF SerialInv, Of, Intent, PaymentStatus, TERMINAL
    <2>5. CASE Update(h) /\ UNCHANGED status /\ tx'[h].ev = tx[h].ev
               /\ tx[h].pc = "update" /\ tx'[h].pc # "update"
               /\ (tx'[h].row => status[Intent(h)] # "none")
      BY <2>2, <2>5 DEF SerialInv, Of, Intent
    <2>6. CASE Post(h) /\ UNCHANGED status /\ tx'[h].ev = tx[h].ev
               /\ tx'[h].pc = "commit" /\ tx'[h].row = tx[h].row
      BY <2>2, <2>6 DEF SerialInv, Of, Intent
    <2> QED BY <1>0, <2>1, <2>3, <2>4, <2>5, <2>6, RestsOrWorks
  <1>4. CASE UNCHANGED vars
    BY <1>0, <1>4, NothingMoves DEF vars, EventsKept
  <1> QED BY <1>1, <1>2, <1>3, <1>4 DEF Next

-----------------------------------------------------------------------------
(* Each step of the pipeline is a step of the lifecycle. *)

\* What the lifecycle sees of the tables.
State == [i \in Intents |-> IF Owner[i] \in accounts THEN status[i] ELSE "erased"]
Paid  == {i \in Intents : Charged(i)}

\* The decision a request holds, if it does.
Holds(h)    == tx[h].pc = "update" \/ tx[h].row
Decision(h) == <<Intent(h), StatusOf(Of(h).type)>>
SameHold(h) == Holds(h)' = Holds(h) /\ (Holds(h) => Decision(h)' = Decision(h))

LEMMA InitIsLifecycle == Init => Lifecycle!Init
  BY ConstantsAssumption DEF Init, Lifecycle!Init, Charged, Posted, Decisions, Idle

LEMMA SameDecisions ==
    ASSUME \A h \in Handlers : SameHold(h)
    PROVE  Decisions' = Decisions
  BY DEF Decisions, SameHold, Holds, Decision

LEMMA TakesDecision ==
    ASSUME NEW h \in Handlers, ~Holds(h), Holds(h)', \A g \in Handlers \ {h} : SameHold(g)
    PROVE  Decisions' = Decisions \cup {Decision(h)'}
  BY DEF Decisions, SameHold, Holds, Decision

LEMMA DropsDecision ==
    ASSUME NEW h \in Handlers, Holds(h), ~Holds(h)', \A g \in Handlers \ {h} : SameHold(g)
    PROVE  /\ Decision(h) \in Decisions
           /\ Decisions' \in {Decisions, Decisions \ {Decision(h)}}
  BY DEF Decisions, SameHold, Holds, Decision

LEMMA MovesNone ==
    ASSUME State' = State, Paid' = Paid, Decisions' = Decisions
    PROVE  UNCHANGED Lifecycle!vars
  BY DEF State, Paid, Lifecycle!vars

LEMMA DropsOnly ==
    ASSUME NEW i \in Intents, NEW to \in Lifecycle!Statuses, State' = State, Paid' = Paid,
           Decisions' \in {Decisions, Decisions \ {<<i, to>>}}
    PROVE  [Lifecycle!Next]_Lifecycle!vars
  <1>1. CASE Decisions' = Decisions
    BY <1>1, MovesNone
  <1>2. CASE Decisions' = Decisions \ {<<i, to>>}
    BY <1>2 DEF State, Paid, Lifecycle!Next, Lifecycle!Withdraw
  <1> QED BY <1>1, <1>2

\* What a request has decided on is a payment of ours and a status it can get.
LEMMA DecisionIsOne ==
    ASSUME TypeInv, NEW h \in Handlers, Holds(h) \/ tx[h].pc = "read"
    PROVE  /\ Intent(h) \in Intents /\ StatusOf(Of(h).type) \in Lifecycle!Statuses
           /\ tx[h].ev \in EventIds /\ Of(h) # NoEvent
  BY DEF TypeInv, TypeOK, TxShape, Shaped, Holds, Of, Intent, Event, StatusOf, PaymentTypes,
         Lifecycle!Statuses

\* A commit moves the row it has updated, as decided, and charges a success; any
\* other leaves the table and the charges alone.
LEMMA CommitIsLifecycle ==
    ASSUME IInv, RowInv, NEW h \in Handlers, Commit(h),
           \A g \in Handlers \ {h} : SameHold(g)
    PROVE  [Lifecycle!Next]_Lifecycle!vars
  <1>0. /\ TypeOK /\ TypeInv /\ Shaped(tx[h]) /\ tx[h].pc = "commit"
        /\ tx[h].ev \in EventIds /\ Of(h) # NoEvent /\ Of(h) \in Event /\ Intent(h) \in Intents
        /\ UNCHANGED <<accounts, event>> /\ ~Holds(h)'
    BY DEF IInv, TypeInv, TypeOK, TxShape, Shaped, Commit, Goes, Of, Intent, Event, providerVars,
           Idle, Holds
  <1>1. \A e \in journal' : e \in journal \/ (tx[h].post /\ e = EntryOf(h))
    BY DEF Commit
  <1>2. journal \subseteq journal' /\ (tx[h].post => EntryOf(h) \in journal')
    BY DEF Commit
  <1>3. EntryOf(h).kind = EntryKind(Of(h).type) /\ EntryOf(h).reference = Intent(h)
    BY DEF EntryOf
  <1>4. tx[h].post => Of(h).type \in PostingTypes
    BY <1>0 DEF Shaped, Of
  <1>5. Of(h).type # "succeeded" => Paid' = Paid
    <2>1. Of(h).type # "succeeded" /\ tx[h].post => EntryOf(h).kind # "charge"
      BY <1>3, <1>4 DEF EntryKind, PostingTypes, LedgerTypes
    <2> QED BY <1>1, <1>2, <2>1 DEF Paid, Charged, Posted
  <1>6. CASE tx[h].row
    <2> DEFINE to == StatusOf(Of(h).type)
    <2>1. to \in Lifecycle!Statuses /\ (to = "succeeded" <=> Of(h).type = "succeeded")
      BY <1>0, <1>6 DEF Shaped, Of, StatusOf, PaymentTypes, Lifecycle!Statuses
    <2>2. to = "succeeded" => Paid' = Paid \cup {Intent(h)}
      <3>1. SUFFICES ASSUME Of(h).type = "succeeded" PROVE Paid' = Paid \cup {Intent(h)}
        BY <2>1
      <3>2. tx[h].post \/ Charged(Intent(h))
        BY <1>0, <1>6, <3>1 DEF IInv, Settled
      <3>3. EntryOf(h).kind = "charge"
        BY <1>3, <3>1 DEF EntryKind
      <3> QED BY <1>0, <1>1, <1>2, <1>3, <3>2, <3>3 DEF Paid, Charged, Posted
    <2>3. /\ State' = [State EXCEPT ![Intent(h)] = to]
          /\ State[Intent(h)] \notin {"none", "erased"}
      BY <1>0, <1>6 DEF State, Commit, TypeOK, PaymentStatus, RowInv
    <2>4. <<Intent(h), to>> \in Decisions
          /\ Decisions' \in {Decisions, Decisions \ {<<Intent(h), to>>}}
      <3>1. Holds(h)
        BY <1>6 DEF Holds
      <3> QED BY <1>0, <3>1, DropsDecision DEF Decision
    <2> HIDE DEF to
    <2> QED BY <1>0, <1>5, <2>1, <2>2, <2>3, <2>4
          DEF State, Paid, Lifecycle!Next, Lifecycle!Apply
  <1>7. CASE ~tx[h].row
    <2>1. Paid' = Paid
      <3>1. Of(h).type = "succeeded" => ~tx[h].post
        BY <1>7 DEF RowInv
      <3> QED BY <1>1, <1>2, <1>5, <3>1 DEF Paid, Charged, Posted
    <2>2. SameHold(h)
      BY <1>0, <1>7 DEF SameHold, Holds
    <2>3. Decisions' = Decisions
      BY <2>2, SameDecisions
    <2> QED BY <1>0, <1>7, <2>1, <2>3, MovesNone DEF State, Commit
  <1> QED BY <1>6, <1>7

LEMMA WebhookIsLifecycle ==
    ASSUME IInv, RowInv, NEW h \in Handlers,
           (\E x \in EventIds : Deliver(h, x)) \/ Runs(h) \/ Abort(h)
    PROVE  [Lifecycle!Next]_Lifecycle!vars
  <1>0. TypeInv /\ TypeOK
    BY DEF IInv, TypeInv
  <1>1. /\ UNCHANGED <<event, accounts>>
        /\ UNCHANGED <<status, journal>> \/ Commit(h)
        /\ \A g \in Handlers \ {h} : tx'[g] = tx[g]
    BY <1>0, WebhookRows DEF providerVars, TypeOK
  <1>2. \A g \in Handlers \ {h} : SameHold(g)
    BY <1>1 DEF SameHold, Holds, Decision, Intent, Of
  <1>3. CASE Commit(h)
    BY <1>2, <1>3, CommitIsLifecycle
  <1>4. CASE ~Commit(h)
    <2>1. State' = State /\ Paid' = Paid
      BY <1>1, <1>4 DEF State, Paid, Charged, Posted
    <2>2. tx'[h].ev = tx[h].ev => Decision(h)' = Decision(h)
      BY <1>1 DEF Decision, Intent, Of
    <2>3. CASE Holds(h)' = Holds(h) /\ (Holds(h) => tx'[h].ev = tx[h].ev)
      <3>1. Decisions' = Decisions
        BY <1>2, <2>2, <2>3, SameDecisions DEF SameHold
      <3> QED BY <2>1, <3>1, MovesNone
    <2>4. CASE Holds(h) /\ ~Holds(h)'
      <3>1. Intent(h) \in Intents /\ StatusOf(Of(h).type) \in Lifecycle!Statuses
        BY <1>0, <2>4, DecisionIsOne
      <3> QED BY <1>2, <2>1, <2>4, <3>1, DropsDecision, DropsOnly DEF Decision
    <2>5. CASE Read(h) /\ tx'[h].pc = "update" /\ tx'[h].ev = tx[h].ev /\ tx[h].pc = "read"
               /\ status[Intent(h)] \notin TERMINAL \cup {"none"}
      <3>1. Intent(h) \in Intents /\ StatusOf(Of(h).type) \in Lifecycle!Statuses
        BY <1>0, <2>5, DecisionIsOne
      <3>2. ~Holds(h) /\ Holds(h)'
        BY <1>0, <2>5 DEF TypeInv, TxShape, Shaped, Holds
      <3>3. Decisions' = Decisions \cup {<<Intent(h), StatusOf(Of(h).type)>>}
        BY <1>2, <2>2, <2>5, <3>2, TakesDecision DEF Decision
      <3>4. State[Intent(h)] \in {"created", "processing"}
        BY <1>0, <2>5, <3>1 DEF State, RowInv, TypeOK, TERMINAL, PaymentStatus
      <3> QED BY <2>1, <3>1, <3>3, <3>4
            DEF State, Paid, Lifecycle!Next, Lifecycle!Decide, Lifecycle!Live
    <2>6. ASSUME Rest(h)' PROVE ~Holds(h)'
      BY <2>6 DEF Rest, Holds
    <2>7. tx[h].pc \in {"read", "post"} => (Holds(h) <=> tx[h].row)
      BY DEF Holds
    <2>8. tx[h].pc = "read" => ~tx[h].row
      BY <1>0 DEF TypeInv, TxShape, Shaped
    <2>9. Holds(h) \in BOOLEAN /\ Holds(h)' \in BOOLEAN
      BY DEF Holds
    <2>10. CASE Rest(h)'
      BY <2>3, <2>4, <2>6, <2>9, <2>10
    <2>11. CASE Read(h) /\ tx'[h].ev = tx[h].ev /\ ~tx'[h].row /\ tx[h].pc = "read"
                /\ (tx'[h].pc = "update" => status[Intent(h)] \notin TERMINAL \cup {"none"})
      <3>1. tx'[h].pc # "update" => ~Holds(h)' /\ ~Holds(h)
        BY <2>7, <2>8, <2>11 DEF Holds
      <3> QED BY <2>3, <2>5, <2>9, <2>11, <3>1
    <2>12. CASE Update(h) /\ tx'[h].ev = tx[h].ev /\ tx[h].pc = "update"
      <3>1. Holds(h)
        BY <2>12 DEF Holds
      <3> QED BY <2>3, <2>4, <2>9, <2>12, <3>1
    <2>13. CASE Post(h) /\ tx'[h].ev = tx[h].ev /\ tx[h].pc = "post" /\ tx'[h].pc = "commit"
                /\ tx'[h].row = tx[h].row
      <3>1. Holds(h)' = Holds(h)
        BY <2>13 DEF Holds
      <3> QED BY <2>3, <2>13, <3>1
    <2> QED BY <1>0, <1>4, <2>10, <2>11, <2>12, <2>13, RestsOrWorks
  <1> QED BY <1>3, <1>4

LEMMA StepIsLifecycle ==
    ASSUME IInv, RowInv, [Next]_vars
    PROVE  [Lifecycle!Next]_Lifecycle!vars
  <1>0. TypeInv /\ TypeOK
    BY DEF IInv, TypeInv
  <1>1. ASSUME UNCHANGED tx, EventsKept PROVE Decisions' = Decisions
    <2>1. \A h \in Handlers : SameHold(h)
      BY <1>0, <1>1, DecisionIsOne DEF SameHold, Holds, Decision, Intent, Of, EventsKept
    <2> QED BY <2>1, SameDecisions
  <1>2. ASSUME UNCHANGED <<tx, accounts, status, journal>>, EventsKept
        PROVE  UNCHANGED Lifecycle!vars
    BY <1>1, <1>2, MovesNone DEF State, Paid, Charged, Posted
  <1>3. CASE Provider
    BY <1>0, <1>2, <1>3, ProviderKeeps DEF Quiet
  <1>4. ASSUME NEW i \in Intents, CreateIntent(i) \/ CreateFails(i)
        PROVE  UNCHANGED Lifecycle!vars
    BY <1>2, <1>4 DEF CreateIntent, AskProvider, CreateFails, dbVars, providerVars, EventsKept
  <1>5. ASSUME NEW i \in Intents, RecordCreatedPayment(i)
        PROVE  [Lifecycle!Next]_Lifecycle!vars
    <2>1. /\ Paid' = Paid /\ Owner[i] \in accounts /\ accounts' = accounts
          /\ UNCHANGED <<tx, journal>> /\ EventsKept
      BY <1>5 DEF RecordCreatedPayment, Paid, Charged, Posted, EventsKept
    <2>2. CASE status[i] = "none"
      <3>1. State[i] = "none" /\ State' = [State EXCEPT ![i] = "created"]
        BY <1>0, <1>5, <2>1, <2>2 DEF RecordCreatedPayment, State, TypeOK
      <3> QED BY <1>1, <2>1, <3>1 DEF State, Paid, Lifecycle!Next, Lifecycle!Record
    <2>3. CASE status[i] # "none"
      <3>1. status' = status
        BY <1>0, <1>5, <2>3 DEF RecordCreatedPayment, TypeOK
      <3> QED BY <1>2, <2>1, <3>1
    <2> QED BY <2>2, <2>3
  <1>6. ASSUME NEW u \in Users, DeleteAccount(u)
        PROVE  Lifecycle!Next
    <2> DEFINE gone == {i \in Intents : Owner[i] = u}
    <2>1. Paid' = Paid /\ UNCHANGED tx /\ EventsKept
      BY <1>6 DEF DeleteAccount, Paid, Charged, Posted, providerVars, EventsKept
    <2>2. State' = [i \in Intents |-> IF i \in gone THEN "erased" ELSE State[i]]
      BY <1>6 DEF DeleteAccount, State
    <2>3. Decisions' = Decisions
      BY <1>1, <2>1
    <2> QED BY <2>1, <2>2, <2>3 DEF State, Paid, Lifecycle!Next, Lifecycle!Erase
  <1>7. CASE Checkout
    BY <1>4, <1>5, <1>6, <1>7 DEF Checkout
  <1>8. CASE Webhook
    BY <1>8, WebhookIsLifecycle DEF Webhook
  <1>9. CASE UNCHANGED vars
    BY <1>2, <1>9 DEF vars, EventsKept
  <1> QED BY <1>3, <1>7, <1>8, <1>9 DEF Next

\* The refinement, for any number of requests at once: a payment is recorded, moved
\* as a request decided while it was live, charged as it settles, or erased.
THEOREM PipelineFollowsLifecycle == Spec => FollowsLifecycle
  <1>1. Init => IInv /\ RowInv
    BY IInvInit, RowInit
  <1>2. IInv /\ RowInv /\ [Next]_vars => IInv' /\ RowInv'
    BY IInvNext, RowNext
  <1>3. IInv /\ RowInv /\ [Next]_vars => [Lifecycle!Next]_Lifecycle!vars
    BY StepIsLifecycle
  <1> QED BY <1>1, <1>2, <1>3, InitIsLifecycle, PTL DEF Spec, FollowsLifecycle, Lifecycle!Spec

-----------------------------------------------------------------------------
(* Finished payments. *)

\* One step of the pipeline leaves a finished payment as it is, or erases it.
LEMMA StepKeepsFinished ==
    ASSUME Serial, IInv, SerialInv, [Next]_vars
    PROVE  [\A i \in Intents :
              status[i] \in {"succeeded", "failed", "canceled"}
                => status'[i] = status[i] \/ Owner[i] \notin accounts']_vars
  <1>0. TypeInv /\ TypeOK
    BY DEF IInv, TypeInv
  <1> SUFFICES ASSUME Next, NEW i \in Intents, status[i] \in {"succeeded", "failed", "canceled"},
                      status'[i] # status[i]
               PROVE  Owner[i] \notin accounts'
    OBVIOUS
  <1>1. CASE Provider
    BY <1>0, <1>1, ProviderKeeps
  <1>2. CASE Checkout
    <2>1. ASSUME NEW j \in Intents, CreateIntent(j) \/ CreateFails(j) \/ RecordCreatedPayment(j)
          PROVE  FALSE
      BY <1>0, <2>1 DEF CreateIntent, AskProvider, CreateFails, RecordCreatedPayment, dbVars, TypeOK
    <2>2. ASSUME NEW u \in Users, DeleteAccount(u) PROVE Owner[i] \notin accounts'
      BY <2>2 DEF DeleteAccount
    <2> QED BY <1>2, <2>1, <2>2 DEF Checkout
  <1>3. CASE Webhook
    <2>1. PICK h \in Handlers : (\E x \in EventIds : Deliver(h, x)) \/ Runs(h) \/ Abort(h)
      BY <1>3 DEF Webhook
    <2>2. Commit(h)
      BY <1>0, <2>1, WebhookRows
    <2>3. tx[h].row /\ Intent(h) = i
      BY <1>0, <2>2 DEF Commit, TypeOK
    <2>4. status[i] \in {"created", "processing"}
      BY <2>3 DEF SerialInv
    <2> QED BY <2>4
  <1> QED BY <1>1, <1>2, <1>3 DEF Next

\* One request at a time, "once a payment reaches one of these it never moves
\* again", but for the deletion of its account (applyPaymentEvent, TERMINAL).
THEOREM FinishedPaymentsStay ==
    ASSUME Serial
    PROVE  Spec => TerminalNeverMoves
  <1>1. Init => IInv /\ RowInv /\ SerialInv
    BY IInvInit, RowInit
  <1>2. IInv /\ RowInv /\ SerialInv /\ [Next]_vars => IInv' /\ RowInv' /\ SerialInv'
    BY IInvNext, RowNext, SerialNext
  <1>3. IInv /\ SerialInv /\ [Next]_vars =>
          [\A i \in Intents :
              status[i] \in {"succeeded", "failed", "canceled"}
                => status'[i] = status[i] \/ Owner[i] \notin accounts']_vars
    BY StepKeepsFinished
  <1> QED BY <1>1, <1>2, <1>3, PTL DEF Spec, TerminalNeverMoves

=============================================================================
