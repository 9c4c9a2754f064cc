--------------------------- MODULE RefundsProofs ---------------------------
(***************************************************************************)
(* Refunds is correct for every number of payments, keys and requests, every  *)
(* captured amount and ceiling, and any number of crashes and lost answers.   *)
(***************************************************************************)
EXTENDS Refunds, FiniteSetTheorems, TLAPS

\* The provider has refunded amount a of payment p under key k.
Refunded(k, p, a) ==
    provider[k] # NoRefund /\ provider[k].payment = p /\ provider[k].amount = a

\* A key is of one payment, and what a request is about to record was refunded.
CallInv ==
    /\ \A p \in Payments, h \in Headers :
          LET k == RefundKey(p, h) IN provider[k] # NoRefund => provider[k].payment = p
    /\ \A r \in Requests :
          /\ req[r].pc = "call" => req[r].ask \in 1..Captured
          /\ req[r].pc = "record" => Refunded(Key(r), req[r].payment, req[r].ask)

Inv == TypeOK /\ CallInv /\ RowsMatchProvider /\ RepliesAreTrue /\ AnsweredIsRecorded

\* The provider never refunds more of a payment than was captured.
NeverOverRefunded == \A p \in Payments : Total(p, provider) <= Captured

-----------------------------------------------------------------------------
(* Keys and totals. *)

LEMMA KeysAreFinite == IsFiniteSet(Keys)
  <1>1. Keys = Payments \X Headers
    BY DEF Keys, RefundKey
  <1> QED BY <1>1, FS_Product, ConstantsAssumption

\* A key names its payment and its header.
LEMMA KeyIsOne ==
    ASSUME NEW p \in Payments, NEW h \in Headers
    PROVE  /\ RefundKey(p, h) \in Keys
           /\ \A q \in Payments, g \in Headers :
                 RefundKey(q, g) = RefundKey(p, h) => q = p /\ g = h
  BY DEF RefundKey, Keys

\* The units of money that Total counts.
Units(p, store) == {u \in RefundsOf(p, store) \X (1..Captured) : u[2] <= store[u[1]].amount}

LEMMA UnitsAreFinite ==
    ASSUME NEW p, NEW store
    PROVE  IsFiniteSet(Units(p, store)) /\ Total(p, store) \in Nat
  <1>1. IsFiniteSet(RefundsOf(p, store))
    BY KeysAreFinite, FS_Subset DEF RefundsOf
  <1>2. IsFiniteSet(1..Captured)
    BY ConstantsAssumption, FS_Interval
  <1>3. IsFiniteSet(RefundsOf(p, store) \X (1..Captured))
    BY <1>1, <1>2, FS_Product
  <1>4. IsFiniteSet(Units(p, store))
    BY <1>3, FS_Subset DEF Units
  <1> QED BY <1>4, FS_CardinalityType DEF Total, Units

\* One more refund adds its amount to the total of its payment.
LEMMA TotalOfOneMore ==
    ASSUME NEW store \in [Keys -> Refund \cup {NoRefund}], NEW k \in Keys, store[k] = NoRefund,
           NEW new \in Refund, NEW p \in Payments
    PROVE  LET after == [store EXCEPT ![k] = new]
           IN  Total(p, after) = IF new.payment = p THEN Total(p, store) + new.amount
                                 ELSE Total(p, store)
  <1> DEFINE after == [store EXCEPT ![k] = new]
  <1> DEFINE added == {k} \X (1..new.amount)
  <1>1. new # NoRefund /\ new.amount \in 1..Captured /\ Captured \in Nat
    BY NoRefundAssumption, ConstantsAssumption DEF Refund
  <1>2. \A j \in Keys : after[j] = IF j = k THEN new ELSE store[j]
    OBVIOUS
  <1>3. CASE new.payment # p
    <2>1. RefundsOf(p, after) = RefundsOf(p, store)
      BY <1>2, <1>3 DEF RefundsOf
    <2>2. Units(p, after) = Units(p, store)
      <3>1. \A j \in RefundsOf(p, store) : after[j] = store[j]
        BY <1>2 DEF RefundsOf
      <3> QED BY <2>1, <3>1 DEF Units
    <2> QED BY <1>3, <2>2 DEF Total, Units
  <1>4. CASE new.payment = p
    <2>1. RefundsOf(p, after) = RefundsOf(p, store) \cup {k} /\ k \notin RefundsOf(p, store)
      BY <1>1, <1>2, <1>4 DEF RefundsOf
    <2>2. Units(p, after) = Units(p, store) \cup added
      <3> HIDE DEF after
      <3>1. ASSUME NEW u PROVE u \in Units(p, after) <=> u \in Units(p, store) \cup added
        <4>1. CASE u \in Keys \X (1..Captured)
          <5>1. CASE u[1] = k
            BY <1>1, <1>2, <2>1, <4>1, <5>1 DEF Units
          <5>2. CASE u[1] # k
            BY <1>2, <2>1, <4>1, <5>2 DEF Units
          <5> QED BY <5>1, <5>2
        <4>2. CASE u \notin Keys \X (1..Captured)
          <5>1. u \notin added
            BY <1>1, <4>2
          <5> QED BY <4>2, <5>1 DEF Units, RefundsOf
        <4> QED BY <4>1, <4>2
      <3> QED BY <3>1
    <2>3. IsFiniteSet(added) /\ Cardinality(added) = new.amount
      <3>1. IsFiniteSet(1..new.amount) /\ Cardinality(1..new.amount) = new.amount
        BY <1>1, FS_Interval
      <3>2. IsFiniteSet({k}) /\ Cardinality({k}) = 1
        BY FS_Singleton
      <3>3. IsFiniteSet(added) /\ Cardinality(added) = 1 * new.amount
        BY ZenonT(60), <3>1, <3>2, FS_Product
      <3> QED BY <1>1, <3>3
    <2>4. Units(p, store) \cap added = {}
      BY <2>1 DEF Units
    <2>5. Cardinality(Units(p, store) \cup added)
            = Cardinality(Units(p, store)) + new.amount - 0
      BY <2>3, <2>4, UnitsAreFinite, FS_Union, FS_EmptySet
    <2>6. Total(p, after) = Total(p, store) + new.amount - 0
      BY <2>2, <2>5 DEF Total, Units
    <2> QED BY <1>1, <1>4, <2>6, UnitsAreFinite
  <1> QED BY <1>3, <1>4

-----------------------------------------------------------------------------
(* Types. *)

LEMMA IdleIsIdle == Idle.pc = "idle" /\ Idle \notin Request
  BY DEF Idle, Request

\* A request at a step of its handler is a Request, and its key is a key.
LEMMA ActiveRequest ==
    ASSUME TypeOK, NEW r \in Requests, req[r].pc # "idle"
    PROVE  /\ req[r] \in Request /\ Key(r) \in Keys
           /\ req[r].payment \in Payments /\ req[r].header \in Headers
           /\ Key(r) = RefundKey(req[r].payment, req[r].header)
  <1>1. req[r] \in Request
    BY IdleIsIdle DEF TypeOK
  <1>2. req[r].payment \in Payments /\ req[r].header \in Headers
    BY <1>1 DEF Request
  <1> QED BY <1>1, <1>2, KeyIsOne DEF Key

\* What Check lets through is an amount that is left to refund.
LEMMA AmountInRange ==
    ASSUME TypeOK, NEW r \in Requests, req[r].pc = "total", MayRefund(r)
    PROVE  AskedAmount(r) \in 1..Captured
  <1>1. Total(req[r].payment, rows) \in Nat
    BY UnitsAreFinite
  <1>2. AskedAmount(r) \in Int
    <2>1. req[r].ask \in Asks \cup 1..Captured
      BY ActiveRequest DEF Request
    <2>2. req[r].ask \in 1..(Captured + 1) \/ req[r].ask = Rest \/ req[r].ask \in 1..Captured
      BY <2>1, ConstantsAssumption
    <2> QED BY <1>1, <2>2, ConstantsAssumption DEF AskedAmount
  <1>3. AskedAmount(r) > 0 /\ AskedAmount(r) <= Captured - Total(req[r].payment, rows)
    BY DEF MayRefund
  <1> QED BY <1>1, <1>2, <1>3, ConstantsAssumption

LEMMA InvInit == Init => Inv
  <1> SUFFICES ASSUME Init PROVE Inv
    OBVIOUS
  <1>1. TypeOK
    BY ConstantsAssumption DEF Init, TypeOK
  <1>2. CallInv
    <2>1. \A p \in Payments, h \in Headers : provider[RefundKey(p, h)] = NoRefund
      BY KeyIsOne DEF Init
    <2> QED BY <2>1, IdleIsIdle DEF Init, CallInv
  <1> QED BY <1>1, <1>2 DEF Init, Inv, RowsMatchProvider, RepliesAreTrue, AnsweredIsRecorded

\* The provider answers a call it accepts with the refund under the key.
LEMMA ProviderGives ==
    ASSUME TypeOK, CallInv, NEW k \in Keys, NEW p \in Payments, NEW a \in 1..Captured,
           NEW over \in BOOLEAN, Accepts(k, p, a), Gives(k, p, a, over)
    PROVE  /\ provider' \in [Keys -> Refund \cup {NoRefund}]
           /\ Refunded(k, p, a)'
           /\ \A j \in Keys : provider[j] # NoRefund => provider'[j] = provider[j]
           /\ \A j \in Keys \ {k} : provider'[j] = provider[j]
  <1> DEFINE new == [payment |-> p, amount |-> a, over |-> over]
  <1>1. new \in Refund /\ new # NoRefund
    BY NoRefundAssumption DEF Refund
  <1>2. CASE Fresh(k)
    BY <1>1, <1>2 DEF TypeOK, Gives, Fresh, Refunded
  <1>3. CASE ~Fresh(k)
    BY <1>3 DEF TypeOK, Gives, Fresh, Refunded, Accepts, Same
  <1> QED BY <1>2, <1>3

\* Every step of a request moves only its own record; outside the provider's
\* call, what the provider did stays, and a refund stays what it is.
LEMMA StepShape ==
    ASSUME TypeOK, CallInv, NEW r \in Requests,
           Ask(r) \/ Runs(r) \/ CallLosesAnswer(r) \/ Dies(r)
    PROVE  /\ req' \in [Requests -> Request \cup {Idle}]
           /\ \A s \in Requests \ {r} : req'[s] = req[s]
           /\ req'[r].pc = "call" => req'[r].ask \in 1..Captured
           /\ req'[r].pc = "record" =>
                 /\ req[r].pc = "call" /\ Call(r) /\ Accepts(Key(r), req[r].payment, req[r].ask)
                 /\ Gives(Key(r), req[r].payment, req[r].ask, req[r].over)
                 /\ req'[r].payment = req[r].payment /\ req'[r].header = req[r].header
                 /\ req'[r].ask = req[r].ask
  <1>1. CASE Ask(r)
    BY <1>1, IdleIsIdle DEF Ask, Goes, TypeOK, Request
  <1>2. CASE Find(r)
    <2>1. req[r].pc = "find"
      BY <1>2 DEF Find, Goes
    <2>2. req[r] \in Request
      BY <2>1, ActiveRequest
    <2>3. At(r, "total") \in Request /\ At(r, "total").pc = "total"
      BY <2>2 DEF At, Request
    <2>4. req' = [req EXCEPT ![r] = At(r, "total")] \/ req' = [req EXCEPT ![r] = Idle]
      BY <1>2 DEF Find, Goes
    <2> QED BY <2>3, <2>4, IdleIsIdle DEF TypeOK
  <1>3. CASE Check(r)
    <2>1. req[r].pc = "total"
      BY <1>3 DEF Check, Goes
    <2>2. req[r] \in Request
      BY <2>1, ActiveRequest
    <2>3. CASE MayRefund(r)
      <3> DEFINE to == [At(r, "call") EXCEPT !.ask = AskedAmount(r)]
      <3>1. AskedAmount(r) \in 1..Captured
        BY <2>1, <2>3, AmountInRange
      <3>2. to \in Request /\ to.pc = "call" /\ to.ask \in 1..Captured
        BY <2>2, <3>1 DEF At, Request
      <3>3. req' = [req EXCEPT ![r] = to]
        BY <1>3, <2>3 DEF Check, Goes
      <3> QED BY <3>2, <3>3 DEF TypeOK
    <2>4. CASE ~MayRefund(r)
      BY <1>3, <2>4, IdleIsIdle DEF Check, Goes, TypeOK
    <2> QED BY <2>3, <2>4
  <1>4. CASE Call(r)
    <2>1. req[r].pc = "call" /\ req[r] \in Request
      BY <1>4, ActiveRequest DEF Call, Goes
    <2>2. /\ At(r, "record") \in Request /\ At(r, "record").pc = "record"
          /\ At(r, "record").payment = req[r].payment /\ At(r, "record").header = req[r].header
          /\ At(r, "record").ask = req[r].ask
      BY <2>1 DEF At, Request
    <2>3. CASE req' = [req EXCEPT ![r] = At(r, "record")]
      BY <1>4, <2>1, <2>2, <2>3, IdleIsIdle DEF Call, Goes, TypeOK
    <2>4. CASE req' = [req EXCEPT ![r] = Idle]
      BY <2>4, IdleIsIdle DEF TypeOK
    <2> QED BY <1>4, <2>3, <2>4 DEF Call, Goes
  <1>5. CASE CallLosesAnswer(r) \/ Record(r) \/ Dies(r)
    <2>1. req' = [req EXCEPT ![r] = Idle]
      BY <1>5 DEF CallLosesAnswer, Record, Dies, Goes
    <2> QED BY <2>1, IdleIsIdle DEF TypeOK
  <1> QED BY <1>1, <1>2, <1>3, <1>4, <1>5 DEF Runs

\* What each step does to the provider, the table and the answers.
LEMMA ProviderStep ==
    ASSUME TypeOK, CallInv, Next
    PROVE  /\ provider' \in [Keys -> Refund \cup {NoRefund}]
           /\ \A j \in Keys : provider[j] # NoRefund => provider'[j] = provider[j]
           /\ \/ provider' = provider
              \/ \E k \in Keys, p \in Payments, a \in 1..Captured, over \in BOOLEAN :
                    /\ k \in {RefundKey(p, h) : h \in Headers}
                    /\ Accepts(k, p, a) /\ Gives(k, p, a, over)
  <1>1. ASSUME NEW r \in Requests, Call(r) \/ CallLosesAnswer(r), provider' # provider
        PROVE  \E k \in Keys, p \in Payments, a \in 1..Captured, over \in BOOLEAN :
                  /\ k \in {RefundKey(p, h) : h \in Headers}
                  /\ Accepts(k, p, a) /\ Gives(k, p, a, over)
    <2>1. req[r].pc = "call"
      BY <1>1 DEF Call, CallLosesAnswer, Goes
    <2>2. req[r].over \in BOOLEAN /\ req[r].ask \in 1..Captured
      BY <2>1, ActiveRequest DEF Request, CallInv
    <2>3. /\ Accepts(Key(r), req[r].payment, req[r].ask)
          /\ Gives(Key(r), req[r].payment, req[r].ask, req[r].over)
      BY <1>1 DEF Call, CallLosesAnswer
    <2> QED BY <2>1, <2>2, <2>3, ActiveRequest
  <1>2. ASSUME NEW r \in Requests, Ask(r) \/ Find(r) \/ Check(r) \/ Record(r) \/ Dies(r)
        PROVE  provider' = provider
    BY <1>2 DEF Ask, Find, Check, Record, Dies
  <1>3. ASSUME NEW p \in Payments, Settle(p) \/ Delete(p) PROVE provider' = provider
    BY <1>3 DEF Settle, Delete
  <1>4. \/ provider' = provider
        \/ \E k \in Keys, p \in Payments, a \in 1..Captured, over \in BOOLEAN :
              /\ k \in {RefundKey(p, h) : h \in Headers}
              /\ Accepts(k, p, a) /\ Gives(k, p, a, over)
    BY <1>1, <1>2, <1>3 DEF Next, Runs
  <1>5. CASE provider' = provider
    BY <1>5 DEF TypeOK
  <1>6. CASE provider' # provider
    BY <1>4, <1>6, ProviderGives
  <1> QED BY <1>4, <1>5, <1>6

\* What a request is about to record is a refund.
LEMMA RecordedIsRefund ==
    ASSUME TypeOK, CallInv, NEW r \in Requests, req[r].pc = "record"
    PROVE  Recorded(r) \in Refund /\ Recorded(r) # NoRefund
  <1>1. Refunded(Key(r), req[r].payment, req[r].ask) /\ Key(r) \in Keys
    BY ActiveRequest DEF CallInv
  <1>2. req[r].ask \in 1..Captured
    BY <1>1 DEF Refunded, TypeOK, Refund
  <1>3. req[r].payment \in Payments /\ req[r].over \in BOOLEAN
    BY ActiveRequest DEF Request
  <1> QED BY <1>2, <1>3, NoRefundAssumption DEF Recorded, Refund

\* What a step adds to the answers and to the table, and what it removes.
LEMMA TableStep ==
    ASSUME TypeOK, CallInv, Next
    PROVE  \/ rows' = rows /\ replies' = replies
           \/ \E r \in Requests :
                 /\ req[r].pc = "find" /\ rows[Key(r)] # NoRefund
                 /\ Answer(r, rows[Key(r)].amount) /\ rows' = rows
           \/ \E r \in Requests :
                 /\ req[r].pc = "record" /\ Answer(r, req[r].ask)
                 /\ rows' = IF rows[Key(r)] = NoRefund
                            THEN [rows EXCEPT ![Key(r)] = Recorded(r)] ELSE rows
           \/ \E p \in Payments : Delete(p)
  <1>1. ASSUME NEW r \in Requests, Ask(r) \/ Check(r) \/ Call(r) \/ CallLosesAnswer(r) \/ Dies(r)
        PROVE  rows' = rows /\ replies' = replies
    BY <1>1 DEF Ask, Check, Call, CallLosesAnswer, Dies
  <1>2. ASSUME NEW p \in Payments, Settle(p) PROVE rows' = rows /\ replies' = replies
    BY <1>2 DEF Settle
  <1>3. ASSUME NEW r \in Requests, Find(r)
        PROVE  \/ rows' = rows /\ replies' = replies
               \/ /\ req[r].pc = "find" /\ rows[Key(r)] # NoRefund
                  /\ Answer(r, rows[Key(r)].amount) /\ rows' = rows
    BY <1>3 DEF Find, Goes
  <1>4. ASSUME NEW r \in Requests, Record(r)
        PROVE  \/ rows' = rows /\ replies' = replies
               \/ /\ req[r].pc = "record" /\ Answer(r, req[r].ask)
                  /\ rows' = IF rows[Key(r)] = NoRefund
                             THEN [rows EXCEPT ![Key(r)] = Recorded(r)] ELSE rows
    BY <1>4 DEF Record, Goes
  <1> QED BY <1>1, <1>2, <1>3, <1>4 DEF Next, Runs

LEMMA TypeOKNext == TypeOK /\ CallInv /\ [Next]_vars => TypeOK'
  <1> SUFFICES ASSUME TypeOK, CallInv, [Next]_vars PROVE TypeOK'
    OBVIOUS
  <1>1. CASE UNCHANGED vars
    BY <1>1 DEF vars, TypeOK
  <1>2. CASE Next
    <2>1. provider' \in [Keys -> Refund \cup {NoRefund}]
      BY <1>2, ProviderStep
    <2>2. rows' \in [Keys -> Refund \cup {NoRefund}] /\ replies' \subseteq Reply
      <3>1. ASSUME NEW r \in Requests, req[r].pc # "idle", NEW a \in 1..Captured, Answer(r, a)
            PROVE  replies' \subseteq Reply
        BY <3>1, ActiveRequest DEF Answer, Reply, TypeOK
      <3>2. ASSUME NEW r \in Requests, req[r].pc = "find", rows[Key(r)] # NoRefund
            PROVE  rows[Key(r)].amount \in 1..Captured
        BY <3>2, ActiveRequest DEF TypeOK, Refund
      <3>3. ASSUME NEW r \in Requests, req[r].pc = "record"
            PROVE  Recorded(r) \in Refund /\ req[r].ask \in 1..Captured
        BY <3>3, RecordedIsRefund DEF Recorded, Refund
      <3>4. ASSUME NEW p \in Payments, Delete(p)
            PROVE  rows' \in [Keys -> Refund \cup {NoRefund}] /\ replies' = replies
        BY <3>4 DEF Delete, TypeOK
      <3> QED BY <1>2, <3>1, <3>2, <3>3, <3>4, TableStep DEF TypeOK
    <2>3. /\ status' \in [Payments -> {"open", "succeeded", "gone"}]
          /\ req' \in [Requests -> Request \cup {Idle}]
          /\ lost' \in 0..MaxLost
      <3>1. ASSUME NEW r \in Requests, Ask(r) \/ Runs(r)
            PROVE  UNCHANGED <<status, lost>>
        BY <3>1 DEF Ask, Runs, Find, Check, Call, Record
      <3>2. ASSUME NEW r \in Requests, CallLosesAnswer(r) \/ Dies(r)
            PROVE  status' = status /\ lost' \in 0..MaxLost
        BY <3>2, ConstantsAssumption DEF CallLosesAnswer, Dies, TypeOK
      <3>3. ASSUME NEW p \in Payments, Settle(p) \/ Delete(p)
            PROVE  /\ status' \in [Payments -> {"open", "succeeded", "gone"}]
                   /\ UNCHANGED <<req, lost>>
        BY <3>3 DEF Settle, Delete, TypeOK
      <3> QED BY <1>2, <3>1, <3>2, <3>3, StepShape DEF Next, TypeOK
    <2> QED BY <2>1, <2>2, <2>3 DEF TypeOK
  <1> QED BY <1>1, <1>2

-----------------------------------------------------------------------------
(* The provider's refunds and the calls under way. *)

LEMMA CallInvNext == TypeOK /\ CallInv /\ [Next]_vars => CallInv'
  <1> SUFFICES ASSUME TypeOK, CallInv, [Next]_vars PROVE CallInv'
    OBVIOUS
  <1>1. CASE UNCHANGED vars
    BY <1>1 DEF vars, CallInv, Key, Refunded
  <1>2. CASE Next
    <2>1. ASSUME NEW p \in Payments, NEW h \in Headers, provider'[RefundKey(p, h)] # NoRefund
          PROVE  provider'[RefundKey(p, h)].payment = p
      <3>1. CASE provider[RefundKey(p, h)] # NoRefund
        BY <1>2, <3>1, KeyIsOne, ProviderStep DEF CallInv
      <3>2. CASE provider[RefundKey(p, h)] = NoRefund
        <4>1. PICK k \in Keys, q \in Payments, a \in 1..Captured, over \in BOOLEAN :
                 /\ k \in {RefundKey(q, g) : g \in Headers}
                 /\ Accepts(k, q, a) /\ Gives(k, q, a, over)
          BY <1>2, <2>1, <3>2, ProviderStep
        <4>2. provider'[k].payment = q /\ \A j \in Keys \ {k} : provider'[j] = provider[j]
          BY <4>1, ProviderGives DEF Refunded
        <4>3. k = RefundKey(p, h)
          BY <2>1, <3>2, <4>2, KeyIsOne
        <4> QED BY <4>1, <4>2, <4>3, KeyIsOne
      <3> QED BY <3>1, <3>2
    <2>2. ASSUME NEW s \in Requests
          PROVE  /\ req'[s].pc = "call" => req'[s].ask \in 1..Captured
                 /\ req'[s].pc = "record" => Refunded(Key(s), req[s].payment, req[s].ask)'
      <3>1. CASE req'[s] = req[s]
        <4>1. req[s].pc = "record" => Refunded(Key(s), req[s].payment, req[s].ask)'
          BY <1>2, <3>1, ActiveRequest, ProviderStep DEF CallInv, Refunded, Key
        <4> QED BY <3>1, <4>1 DEF CallInv
      <3>2. CASE req'[s] # req[s]
        <4>1. Ask(s) \/ Runs(s) \/ CallLosesAnswer(s) \/ Dies(s)
          BY <1>2, <3>2, StepShape DEF Next, Settle, Delete
        <4>2. ASSUME req'[s].pc = "record" PROVE Refunded(Key(s), req[s].payment, req[s].ask)'
          <5>1. /\ req[s].pc = "call"
                /\ Accepts(Key(s), req[s].payment, req[s].ask)
                /\ Gives(Key(s), req[s].payment, req[s].ask, req[s].over)
                /\ req'[s].payment = req[s].payment /\ req'[s].header = req[s].header
                /\ req'[s].ask = req[s].ask
            BY <4>1, <4>2, StepShape
          <5>2. req[s].over \in BOOLEAN /\ req[s].ask \in 1..Captured
            BY <5>1, ActiveRequest DEF Request, CallInv
          <5>3. Key(s) \in Keys /\ req[s].payment \in Payments
            BY <5>1, ActiveRequest
          <5>4. Key(s)' = Key(s)
            BY <5>1 DEF Key
          <5>5. LET k == Key(s)
                IN  /\ provider'[k] # NoRefund /\ provider'[k].payment = req[s].payment
                    /\ provider'[k].amount = req[s].ask
            BY <5>1, <5>2, <5>3, ProviderGives DEF Refunded
          <5> QED BY <5>1, <5>4, <5>5 DEF Refunded
        <4> QED BY <4>1, <4>2, StepShape
      <3> QED BY <3>1, <3>2
    <2> QED BY <2>1, <2>2 DEF CallInv
  <1> QED BY <1>1, <1>2

-----------------------------------------------------------------------------
(* The table and the answers. *)

LEMMA RowsNext == TypeOK /\ CallInv /\ RowsMatchProvider /\ [Next]_vars => RowsMatchProvider'
  <1> SUFFICES ASSUME TypeOK, CallInv, RowsMatchProvider, [Next]_vars,
                      NEW k \in Keys, rows'[k] # NoRefund
               PROVE  /\ provider'[k] # NoRefund
                      /\ rows'[k].payment = provider'[k].payment
                      /\ rows'[k].amount = provider'[k].amount
    BY DEF RowsMatchProvider
  <1>1. provider[k] # NoRefund => provider'[k] = provider[k]
    BY ProviderStep DEF vars
  <1>2. CASE rows'[k] = rows[k]
    BY <1>1, <1>2 DEF RowsMatchProvider
  <1>3. CASE rows'[k] # rows[k]
    <2>1. PICK r \in Requests :
             /\ req[r].pc = "record"
             /\ rows' = [rows EXCEPT ![Key(r)] = Recorded(r)]
      <3>1. ASSUME NEW p \in Payments, Delete(p) PROVE FALSE
        BY <1>3, <3>1 DEF Delete
      <3> QED BY <1>3, <3>1, TableStep DEF vars
    <2>2. k = Key(r) /\ rows'[k] = Recorded(r)
      BY <1>3, <2>1 DEF TypeOK
    <2>3. Refunded(Key(r), req[r].payment, req[r].ask)
      BY <2>1 DEF CallInv
    <2> QED BY <1>1, <2>2, <2>3 DEF Refunded, Recorded
  <1> QED BY <1>2, <1>3

\* A new answer is of a row, or of the refund that is recorded with it.
LEMMA NewReply ==
    ASSUME TypeOK, CallInv, RowsMatchProvider, Next, NEW a \in replies', a \notin replies
    PROVE  /\ a.payment \in Payments /\ a.header \in Headers
           /\ Refunded(RefundKey(a.payment, a.header), a.payment, a.amount)
           /\ rows'[RefundKey(a.payment, a.header)] # NoRefund
  <1>1. PICK r \in Requests :
           \/ /\ req[r].pc = "find" /\ rows[Key(r)] # NoRefund
              /\ Answer(r, rows[Key(r)].amount) /\ rows' = rows
           \/ /\ req[r].pc = "record" /\ Answer(r, req[r].ask)
              /\ rows' = IF rows[Key(r)] = NoRefund
                         THEN [rows EXCEPT ![Key(r)] = Recorded(r)] ELSE rows
    <2>1. ASSUME NEW p \in Payments, Delete(p) PROVE FALSE
      BY <2>1 DEF Delete
    <2> QED BY <2>1, TableStep
  <1>2. /\ req[r].payment \in Payments /\ req[r].header \in Headers
        /\ Key(r) = RefundKey(req[r].payment, req[r].header) /\ Key(r) \in Keys
    BY <1>1, ActiveRequest
  <1>3. CASE req[r].pc = "find"
    <2>1. /\ rows[Key(r)] # NoRefund /\ rows' = rows
          /\ a = [payment |-> req[r].payment, header |-> req[r].header, amount |-> rows[Key(r)].amount]
      BY <1>1, <1>3 DEF Answer
    <2>2. Refunded(Key(r), req[r].payment, rows[Key(r)].amount)
      BY <1>2, <2>1 DEF Refunded, RowsMatchProvider, CallInv
    <2> QED BY <1>2, <2>1, <2>2
  <1>4. CASE req[r].pc = "record"
    <2>1. a = [payment |-> req[r].payment, header |-> req[r].header, amount |-> req[r].ask]
      BY <1>1, <1>4 DEF Answer
    <2>2. rows'[Key(r)] # NoRefund
      BY <1>1, <1>2, <1>4, RecordedIsRefund DEF TypeOK
    <2>3. Refunded(Key(r), req[r].payment, req[r].ask)
      BY <1>4 DEF CallInv
    <2> QED BY <1>2, <2>1, <2>2, <2>3
  <1> QED BY <1>1, <1>3, <1>4

LEMMA RepliesNext ==
    /\ TypeOK /\ CallInv /\ RowsMatchProvider
    /\ RepliesAreTrue /\ AnsweredIsRecorded /\ [Next]_vars
    => RepliesAreTrue' /\ AnsweredIsRecorded'
  <1> SUFFICES ASSUME TypeOK, CallInv, RowsMatchProvider, RepliesAreTrue, AnsweredIsRecorded,
                      [Next]_vars
               PROVE  RepliesAreTrue' /\ AnsweredIsRecorded'
    OBVIOUS
  <1>1. CASE UNCHANGED vars
    BY <1>1 DEF vars, RepliesAreTrue, AnsweredIsRecorded
  <1>2. CASE Next
    <2> SUFFICES ASSUME NEW a \in replies'
                 PROVE  LET k == RefundKey(a.payment, a.header)
                        IN  /\ provider'[k] # NoRefund
                            /\ provider'[k].payment = a.payment /\ provider'[k].amount = a.amount
                            /\ status'[a.payment] # "gone" => rows'[k] # NoRefund
      BY DEF RepliesAreTrue, AnsweredIsRecorded
    <2> DEFINE k == RefundKey(a.payment, a.header)
    <2>1. a.payment \in Payments /\ a.header \in Headers /\ k \in Keys
      BY <1>2, TypeOKNext, KeyIsOne DEF TypeOK, Reply
    <2>2. provider[k] # NoRefund => provider'[k] = provider[k]
      BY <1>2, <2>1, ProviderStep
    <2>3. CASE a \notin replies
      BY <1>2, <2>2, <2>3, NewReply DEF Refunded
    <2>4. CASE a \in replies
      <3>1. status'[a.payment] # "gone" => status[a.payment] # "gone" /\ rows'[k] = rows[k]
        <4>1. ASSUME NEW r \in Requests, Ask(r) \/ Runs(r) \/ CallLosesAnswer(r) \/ Dies(r)
              PROVE  status' = status
          BY <4>1 DEF Ask, Runs, Find, Check, Call, Record, CallLosesAnswer, Dies
        <4>2. ASSUME NEW r \in Requests, Ask(r) \/ Runs(r) \/ CallLosesAnswer(r) \/ Dies(r)
              PROVE  rows[k] # NoRefund => rows'[k] = rows[k]
          BY <2>1, <4>2 DEF Ask, Runs, Find, Check, Call, Record, CallLosesAnswer, Dies, TypeOK
        <4>3. ASSUME NEW p \in Payments, Settle(p)
              PROVE  rows' = rows /\ (status[a.payment] = "gone" => status'[a.payment] = "gone")
          BY <2>1, <4>3 DEF Settle, TypeOK
        <4>4. ASSUME NEW p \in Payments, Delete(p), status'[a.payment] # "gone"
              PROVE  status[a.payment] # "gone" /\ (rows[k] # NoRefund => rows'[k] = rows[k])
          <5>1. a.payment # p /\ status'[a.payment] = status[a.payment]
            BY <2>1, <4>4 DEF Delete, TypeOK
          <5>2. rows[k] # NoRefund => rows[k].payment = a.payment
            BY <2>1 DEF RowsMatchProvider, CallInv
          <5>3. k \notin RefundsOf(p, rows)
            BY <5>1, <5>2 DEF RefundsOf
          <5> QED BY <2>1, <4>4, <5>1, <5>3 DEF Delete
        <4>5. status[a.payment] # "gone" => rows[k] # NoRefund
          BY <2>4 DEF AnsweredIsRecorded
        <4> QED BY <1>2, <4>1, <4>2, <4>3, <4>4, <4>5 DEF Next
      <3>2. /\ provider[k] # NoRefund
            /\ provider[k].payment = a.payment /\ provider[k].amount = a.amount
        BY <2>4 DEF RepliesAreTrue
      <3>3. status[a.payment] # "gone" => rows[k] # NoRefund
        BY <2>4 DEF AnsweredIsRecorded
      <3> QED BY <2>2, <3>1, <3>2, <3>3
    <2> QED BY <2>3, <2>4
  <1> QED BY <1>1, <1>2

LEMMA InvNext == Inv /\ [Next]_vars => Inv'
  BY TypeOKNext, CallInvNext, RowsNext, RepliesNext DEF Inv

-----------------------------------------------------------------------------
(* The provider's ceiling. *)

LEMMA TotalInit == Init => NeverOverRefunded
  <1> SUFFICES ASSUME Init, NEW p \in Payments PROVE Total(p, provider) <= Captured
    BY DEF NeverOverRefunded
  <1>1. Units(p, provider) = {}
    BY DEF Init, Units, RefundsOf
  <1>2. Total(p, provider) = 0
    BY <1>1, FS_EmptySet DEF Total, Units
  <1> QED BY <1>2, ConstantsAssumption

LEMMA TotalNext == TypeOK /\ CallInv /\ NeverOverRefunded /\ [Next]_vars => NeverOverRefunded'
  <1> SUFFICES ASSUME TypeOK, CallInv, NeverOverRefunded, [Next]_vars, NEW p \in Payments
               PROVE  Total(p, provider') <= Captured
    BY DEF NeverOverRefunded, Total, RefundsOf
  <1>1. CASE provider' = provider
    BY <1>1 DEF NeverOverRefunded
  <1>2. CASE provider' # provider
    <2>1. PICK k \in Keys, q \in Payments, a \in 1..Captured, over \in BOOLEAN :
             Accepts(k, q, a) /\ Gives(k, q, a, over)
      BY <1>2, ProviderStep DEF vars
    <2> DEFINE new == [payment |-> q, amount |-> a, over |-> over]
    <2>2. provider' = [provider EXCEPT ![k] = new] /\ provider[k] = NoRefund
      BY <1>2, <2>1 DEF Gives, Fresh
    <2>3. Total(q, provider) + a <= Captured
      BY <2>1, <2>2 DEF Accepts, Same, Fresh, Fits
    <2>4. new \in Refund /\ new.payment = q /\ new.amount = a
      BY DEF Refund
    <2> HIDE DEF new
    <2>5. provider \in [Keys -> Refund \cup {NoRefund}]
      BY DEF TypeOK
    <2>6. Total(p, [provider EXCEPT ![k] = new])
             = IF new.payment = p THEN Total(p, provider) + new.amount ELSE Total(p, provider)
      BY ZenonT(60), <2>2, <2>4, <2>5, TotalOfOneMore
    <2>7. Total(p, provider') = IF q = p THEN Total(p, provider) + a ELSE Total(p, provider)
      BY <2>2, <2>4, <2>6
    <2> QED BY <2>3, <2>7 DEF NeverOverRefunded
  <1> QED BY <1>1, <1>2

-----------------------------------------------------------------------------
(* The theorems. *)

LEMMA InvAlways == Spec => []Inv
  BY InvInit, InvNext, PTL DEF Spec

\* Every variable of the refund handler keeps its type.
THEOREM TypeCorrect == Spec => []TypeOK
  BY InvAlways, PTL DEF Inv

\* Whatever requests, retries, crashes and deletions do, a row of the refunds
\* table is the provider's refund under the same key.
THEOREM RowsAreRefunds == Spec => []RowsMatchProvider
  BY InvAlways, PTL DEF Inv

\* Every 200 answer names an amount that was refunded on that payment under that key.
THEOREM AnswersAreRefunds == Spec => []RepliesAreTrue
  BY InvAlways, PTL DEF Inv

\* A refund that was answered stays recorded until the payment is erased.
THEOREM AnswersAreRecorded == Spec => []AnsweredIsRecorded
  BY InvAlways, PTL DEF Inv

\* The provider's refunds of a payment add up to no more than its amount, however
\* many requests, under however many keys, are in flight.
THEOREM NothingOverRefunded == Spec => []NeverOverRefunded
  BY InvAlways, TotalInit, TotalNext, PTL DEF Spec, Inv
=============================================================================
