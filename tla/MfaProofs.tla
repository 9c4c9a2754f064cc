----------------------------- MODULE MfaProofs -----------------------------
(***************************************************************************)
(* Mfa is correct for every number of requests, challenges, secrets and      *)
(* batches of recovery codes, and every length of the clock.                 *)
(***************************************************************************)
EXTENDS Mfa, TLAPS

InTransaction == {"delete", "commit"}

\* What the step of a request says about the rest of its record.
Shaped(r) ==
    /\ r.pc = "stage" => r.kind = "setup"
    /\ r.pc = "load" => r.kind = "enable"
    /\ r.pc \in {"update", "delete", "commit"} =>
          r.kind = "enable" \/ (r.kind = "disable" /\ r.proved)
    /\ r.pc \in {"code", "advance"} => r.kind \in {"disable", "login"}
    /\ r.pc = "advance" => r.saw \in Secrets /\ r.step \in Steps
    /\ r.pc = "proved" => r.kind = "login"
    /\ r.challenge # None <=> r.kind = "login" /\ r.pc \in {"code", "advance", "proved"}

TypeInv == TypeOK /\ \A h \in Handlers : Shaped(req[h])

\* What a transaction's DELETE has found covers the codes there are, until it commits.
BatchInv ==
    /\ OneBatch
    /\ \A h \in Handlers : At(h, "commit") => recovery \subseteq req[h].gone

\* Steps that have been used are not above the last one; live codes are unspent.
CodeInv ==
    /\ \A s \in Secrets, t \in Steps :
          uses[<<s, t>>] <= 1 /\ (uses[<<s, t>>] # 0 => t <= lastStep)
    /\ \A b \in Batches : spent[b] <= 1 /\ (b \in recovery \/ b > batches => spent[b] = 0)

\* A challenge is of one request, and then of none.
ChallengeInv ==
    /\ \A c \in Challenges :
          opened[c] <= 1 /\ (opened[c] # 0 => challenge[c] = "spent")
    /\ \A h \in Handlers : req[h].challenge # None =>
          challenge[req[h].challenge] = "spent" /\ opened[req[h].challenge] = 0
    /\ \A g, h \in Handlers :
          req[g].challenge # None /\ req[g].challenge = req[h].challenge => g = h

\* An enable past its check has a confirmed secret before it, or was crossed.
ConfirmInv ==
    /\ EnabledIsConfirmed
    /\ \A h \in Handlers :
          req[h].kind = "enable" /\ req[h].pc \in {"update", "delete", "commit"}
              => secret \in confirmed \/ crossed

\* A setup that finds MFA on was there before it.
EarlyInv == \A h \in Handlers : At(h, "stage") /\ enabled => req[h].early

-----------------------------------------------------------------------------
(* Types. *)

LEMMA IdleIsRequest == Idle \in Request /\ Shaped(Idle) /\ Idle.pc = "idle"
  BY ConstantsAssumption DEF Idle, Request, Shaped

LEMMA TypeInvInit == Init => TypeInv
  <1> SUFFICES ASSUME Init PROVE TypeInv
    OBVIOUS
  <1>1. TypeOK
    <2>1. 0 \in 0..MaxSecrets /\ 0 \in 0..MaxBatches /\ 0 \in 0..(MaxNow + 1) /\ 1 \in 1..MaxNow
      BY ConstantsAssumption
    <2>2. \A h \in Handlers : Idle.pc \in {"delete", "commit"} <=> None = h
      BY ConstantsAssumption, IdleIsRequest
    <2> QED BY <2>1, <2>2, IdleIsRequest DEF Init, TypeOK
  <1>2. \A h \in Handlers : Shaped(req[h])
    BY IdleIsRequest DEF Init
  <1> QED BY <1>1, <1>2 DEF TypeInv

\* The part of TypeOK that requests share.
RequestsOK ==
    /\ req \in [Handlers -> Request]
    /\ holder \in Handlers \cup {None}
    /\ \A h \in Handlers : req[h].pc \in InTransaction <=> holder = h
    /\ \A h \in Handlers : Shaped(req[h])

LEMMA RequestsSplit == TypeInv => RequestsOK
  BY DEF TypeInv, TypeOK, RequestsOK, InTransaction

\* A step of one request that leaves the row with the right one.
LEMMA StepKeeps ==
    ASSUME RequestsOK, NEW h \in Handlers, NEW to \in Request, Shaped(to),
           req' = [req EXCEPT ![h] = to],
           \/ holder' = holder /\ (to.pc \in InTransaction <=> req[h].pc \in InTransaction)
           \/ holder = None /\ holder' = h /\ to.pc \in InTransaction
           \/ holder = h /\ holder' = None /\ to.pc \notin InTransaction
    PROVE  RequestsOK'
  <1>1. req' \in [Handlers -> Request] /\ \A g \in Handlers : Shaped(req'[g])
    BY DEF RequestsOK
  <1>2. holder' \in Handlers \cup {None}
    BY DEF RequestsOK
  <1>3. \A g \in Handlers : req'[g].pc \in InTransaction <=> holder' = g
    BY ConstantsAssumption DEF RequestsOK
  <1> QED BY <1>1, <1>2, <1>3 DEF RequestsOK

LEMMA RequestsNext == TypeInv /\ Next => RequestsOK'
  <1> SUFFICES ASSUME TypeInv, Next PROVE RequestsOK'
    OBVIOUS
  <1>1. RequestsOK
    BY RequestsSplit
  <1>2. ASSUME NEW h \in Handlers, Setup(h) PROVE RequestsOK'
    <2> DEFINE to == [Idle EXCEPT !.pc = "stage", !.kind = "setup"]
    <2>1. to \in Request /\ Shaped(to) /\ to.pc \notin InTransaction
      BY IdleIsRequest DEF Idle, Request, Shaped, InTransaction
    <2> QED BY <1>1, <1>2, <2>1, StepKeeps DEF Setup, Begins, At, InTransaction
  <1>3. ASSUME NEW h \in Handlers, Enable(h) PROVE RequestsOK'
    <2> DEFINE to == [Idle EXCEPT !.pc = "load", !.kind = "enable"]
    <2>1. to \in Request /\ Shaped(to) /\ to.pc \notin InTransaction
      BY IdleIsRequest DEF Idle, Request, Shaped, InTransaction
    <2> QED BY <1>1, <1>3, <2>1, StepKeeps DEF Enable, Begins, At, InTransaction
  <1>4. ASSUME NEW h \in Handlers, Disable(h) PROVE RequestsOK'
    <2> DEFINE to == [Idle EXCEPT !.pc = "code", !.kind = "disable"]
    <2>1. to \in Request /\ Shaped(to) /\ to.pc \notin InTransaction
      BY IdleIsRequest DEF Idle, Request, Shaped, InTransaction
    <2> QED BY <1>1, <1>4, <2>1, StepKeeps DEF Disable, Begins, At, InTransaction
  <1>5. ASSUME NEW h \in Handlers, LoginBegins(h) PROVE RequestsOK'
    <2> DEFINE to == [Idle EXCEPT !.pc = "challenge", !.kind = "login"]
    <2>1. to \in Request /\ Shaped(to) /\ to.pc \notin InTransaction
      BY IdleIsRequest DEF Idle, Request, Shaped, InTransaction
    <2> QED BY <1>1, <1>5, <2>1, StepKeeps DEF LoginBegins, Begins, At, InTransaction
  <1>6. ASSUME NEW h \in Handlers,
               \/ Stage(h) \/ WrongCode(h) \/ CompleteLogin(h) \/ DisableCommits(h) \/ Fails(h)
               \/ \E c \in Challenges : IssueMfaChallenge(h, c)
        PROVE  RequestsOK'
    <2>1. req' = [req EXCEPT ![h] = Idle]
      BY <1>6 DEF Stage, Stages, WrongCode, CompleteLogin, DisableCommits, Fails,
                  IssueMfaChallenge, Ends
    <2>2. \/ holder' = holder /\ req[h].pc \notin InTransaction
          \/ holder = h /\ holder' = None
      BY <1>1, <1>6 DEF Stage, Stages, WrongCode, CompleteLogin, DisableCommits, Fails,
                        IssueMfaChallenge, At, RequestsOK, InTransaction
    <2> QED BY <1>1, <2>1, <2>2, IdleIsRequest, StepKeeps DEF InTransaction
  <1>7. ASSUME NEW h \in Handlers, Load(h) PROVE RequestsOK'
    <2>1. CASE Ends(h)
      BY <1>1, <1>7, <2>1, IdleIsRequest, StepKeeps DEF Load, Ends, At, InTransaction
    <2>2. CASE ~Ends(h)
      <3> DEFINE to == [req[h] EXCEPT !.pc = "update", !.saw = secret]
      <3>1. req[h] \in Request /\ Shaped(req[h]) /\ req[h].pc = "load"
        BY <1>1, <1>7 DEF RequestsOK, Load, At
      <3>2. to \in Request /\ Shaped(to) /\ to.pc \notin InTransaction
        BY <3>1 DEF TypeInv, TypeOK, Request, Shaped, InTransaction
      <3>3. req' = [req EXCEPT ![h] = to]
        BY <1>1, <1>7, <2>2 DEF Load, RequestsOK, Request
      <3> QED BY <1>1, <1>7, <3>1, <3>2, <3>3, StepKeeps DEF Load, InTransaction
    <2> QED BY <2>1, <2>2
  <1>8. ASSUME NEW h \in Handlers, Update(h) PROVE RequestsOK'
    <2> DEFINE to == [req[h] EXCEPT !.pc = "delete"]
    <2>1. to \in Request /\ Shaped(to) /\ to.pc \in InTransaction
      BY <1>1, <1>8 DEF RequestsOK, Update, At, Request, Shaped, InTransaction
    <2>2. req' = [req EXCEPT ![h] = to]
      BY <1>1, <1>8 DEF Update, Goes, RequestsOK, Request
    <2> QED BY <1>1, <1>8, <2>1, <2>2, StepKeeps DEF Update
  <1>9. ASSUME NEW h \in Handlers, DeleteCodes(h) PROVE RequestsOK'
    <2> DEFINE to == [req[h] EXCEPT !.pc = "commit", !.gone = recovery]
    <2>1. to \in Request /\ Shaped(to) /\ to.pc \in InTransaction /\ req[h].pc \in InTransaction
      BY ZenonT(60), <1>1, <1>9 DEF RequestsOK, DeleteCodes, At, Request, Shaped, InTransaction,
                        TypeInv, TypeOK
    <2>2. req' = [req EXCEPT ![h] = to]
      BY <1>1, <1>9 DEF DeleteCodes, RequestsOK, Request
    <2> QED BY <1>1, <1>9, <2>1, <2>2, StepKeeps DEF DeleteCodes
  <1>10. ASSUME NEW h \in Handlers, EnableCommits(h) PROVE RequestsOK'
    <2>1. \A g \in Handlers :
             LET to == [req[g] EXCEPT !.early = TRUE]
             IN  to \in Request /\ (Shaped(req[g]) => Shaped(to)) /\ to.pc = req[g].pc
      BY ZenonT(60), <1>1 DEF RequestsOK, Request, Shaped
    <2>2. req' \in [Handlers -> Request] /\ \A g \in Handlers : Shaped(req'[g])
      BY <1>1, <1>10, <2>1, IdleIsRequest DEF EnableCommits, RequestsOK
    <2>3. holder = h /\ holder' = None
      BY <1>1, <1>10 DEF EnableCommits, At, RequestsOK, InTransaction
    <2>4. \A g \in Handlers : req'[g].pc = IF g = h THEN "idle" ELSE req[g].pc
      BY <1>10, <2>1, IdleIsRequest DEF EnableCommits
    <2> QED BY <1>1, <2>2, <2>3, <2>4, ConstantsAssumption DEF RequestsOK, InTransaction
  <1>11. ASSUME NEW h \in Handlers, NEW c \in Challenges, ConsumeMfaChallenge(h, c)
         PROVE  RequestsOK'
    <2> DEFINE to == [Idle EXCEPT !.pc = "code", !.kind = "login", !.challenge = c]
    <2>1. to \in Request /\ Shaped(to) /\ to.pc \notin InTransaction
      BY ConstantsAssumption, IdleIsRequest DEF Idle, Request, Shaped, InTransaction
    <2> QED BY <1>1, <1>11, <2>1, StepKeeps
            DEF ConsumeMfaChallenge, Consumes, At, InTransaction
  <1>12. ASSUME NEW h \in Handlers, ReadsRow(h) PROVE RequestsOK'
    <2>1. PICK t \in Window :
             req' = [req EXCEPT ![h].pc = "advance", ![h].saw = secret, ![h].step = t]
      BY <1>12 DEF ReadsRow
    <2> DEFINE to == [req[h] EXCEPT !.pc = "advance", !.saw = secret, !.step = t]
    <2>2. t \in Steps /\ t \in 0..(MaxNow + 1) /\ secret \in Secrets /\ secret \in 0..MaxSecrets
      BY <1>12, ConstantsAssumption DEF Window, Steps, ReadsRow, Secrets, TypeInv, TypeOK
    <2>3. req[h] \in Request /\ Shaped(req[h]) /\ req[h].pc = "code"
      BY <1>1, <1>12 DEF RequestsOK, ReadsRow, At
    <2>4. to \in Request /\ Shaped(to) /\ to.pc \notin InTransaction
      BY <2>2, <2>3 DEF Request, Shaped, InTransaction
    <2>5. req' = [req EXCEPT ![h] = to]
      BY <1>1, <2>1 DEF RequestsOK, Request
    <2> QED BY <1>1, <1>12, <2>3, <2>4, <2>5, StepKeeps DEF ReadsRow, InTransaction
  <1>13. ASSUME NEW h \in Handlers, Advance(h) \/ ConsumeRecoveryCode(h) PROVE RequestsOK'
    <2>1. req[h] \in Request /\ Shaped(req[h]) /\ req[h].pc \in {"code", "advance"}
      BY <1>1, <1>13 DEF RequestsOK, Advance, Advances, ConsumeRecoveryCode, At
    <2>2. CASE Ends(h)
      BY <1>1, <1>13, <2>1, <2>2, IdleIsRequest, StepKeeps
         DEF Advance, Advances, ConsumeRecoveryCode, Ends, InTransaction
    <2>3. CASE Proves(h)
      <3> DEFINE to == [req[h] EXCEPT !.pc = IF req[h].kind = "disable" THEN "update" ELSE "proved",
                                      !.proved = TRUE]
      <3>1. to \in Request /\ Shaped(to) /\ to.pc \notin InTransaction
        BY <2>1 DEF Request, Shaped, InTransaction
      <3>2. req' = [req EXCEPT ![h] = to]
        BY <1>1, <2>3 DEF Proves, RequestsOK, Request
      <3> QED BY <1>1, <1>13, <2>1, <3>1, <3>2, StepKeeps
              DEF Advance, Advances, ConsumeRecoveryCode, InTransaction
    <2> QED BY <1>13, <2>2, <2>3 DEF Advance, Advances, ConsumeRecoveryCode
  <1>14. ASSUME UNCHANGED <<req, holder>> PROVE RequestsOK'
    BY <1>1, <1>14 DEF RequestsOK
  <1>15. Tick \/ (\E c \in Challenges : ChallengeExpires(c)) => UNCHANGED <<req, holder>>
    BY DEF Tick, ChallengeExpires
  <1> QED BY <1>2, <1>3, <1>4, <1>5, <1>6, <1>7, <1>8, <1>9, <1>10, <1>11, <1>12, <1>13,
             <1>14, <1>15 DEF Next

LEMMA TypeInvNext == TypeInv /\ [Next]_vars => TypeInv'
  <1> SUFFICES ASSUME TypeInv, [Next]_vars PROVE TypeInv'
    OBVIOUS
  <1> USE DEF TypeInv, TypeOK, RequestsOK, InTransaction
  <1>1. ASSUME UNCHANGED <<now, user, challenge, counted, history>>, Next PROVE TypeInv'
    BY <1>1, RequestsNext DEF user, counted, history
  <1>2. CASE Tick
    BY <1>2, ConstantsAssumption DEF Tick, user, counted, history
  <1>3. ASSUME NEW h \in Handlers,
               \/ Setup(h) \/ Enable(h) \/ Update(h) \/ DeleteCodes(h) \/ Disable(h)
               \/ LoginBegins(h) \/ ReadsRow(h) \/ WrongCode(h) \/ Fails(h)
        PROVE  TypeInv'
    <2>1. Next
      BY <1>3 DEF Next
    <2> QED BY <1>1, <1>3, <2>1 DEF Setup, Enable, Update, DeleteCodes, Disable, LoginBegins,
                                    ReadsRow, WrongCode, Fails
  <1>4. ASSUME NEW h \in Handlers, Stage(h) PROVE TypeInv'
    <2>1. RequestsOK'
      BY <1>4, RequestsNext DEF Next
    <2>2. crossed' \in BOOLEAN
      BY <1>4 DEF Stage, Stages
    <2>3. enabled' \in BOOLEAN
      BY <1>4 DEF Stage, Stages
    <2>4. secrets' = secrets + 1 /\ secret' = secrets + 1 /\ secrets < MaxSecrets
      BY <1>4 DEF Stage, Stages
    <2>5. secrets' \in 0..MaxSecrets /\ secret' \in 0..MaxSecrets
      BY <2>4, ConstantsAssumption
    <2> QED BY <1>4, <2>1, <2>2, <2>3, <2>5 DEF Stage, Stages
  <1>5. ASSUME NEW h \in Handlers, Load(h) PROVE TypeInv'
    <2>1. RequestsOK'
      BY <1>5, RequestsNext DEF Next
    <2> QED BY <1>5, <2>1 DEF Load, user, counted, Secrets
  <1>6. ASSUME NEW h \in Handlers, EnableCommits(h) PROVE TypeInv'
    <2>1. RequestsOK'
      BY <1>6, RequestsNext DEF Next
    <2>2. /\ batches' \in 0..MaxBatches /\ lastStep' \in 0..(MaxNow + 1)
          /\ recovery' \subseteq Batches /\ uses' \in [Secrets \X Steps -> Nat]
      BY <1>6, ConstantsAssumption DEF EnableCommits, Batches
    <2> QED BY <1>6, <2>1, <2>2 DEF EnableCommits
  <1>7. ASSUME NEW h \in Handlers, DisableCommits(h) PROVE TypeInv'
    <2>1. RequestsOK'
      BY <1>7, RequestsNext DEF Next
    <2>2. crossed' \in BOOLEAN
      BY <1>7 DEF DisableCommits
    <2>3. enabled' \in BOOLEAN
      BY <1>7 DEF DisableCommits
    <2>4. secret' = 0 /\ recovery' \subseteq recovery
      BY <1>7 DEF DisableCommits
    <2>5. secret' \in 0..MaxSecrets /\ recovery' \subseteq Batches
      BY <2>4, ConstantsAssumption
    <2> QED BY <1>7, <2>1, <2>2, <2>3, <2>5 DEF DisableCommits, counted
  <1>8. ASSUME NEW h \in Handlers, NEW c \in Challenges,
               IssueMfaChallenge(h, c) \/ ConsumeMfaChallenge(h, c)
        PROVE  TypeInv'
    <2>1. RequestsOK'
      BY <1>8, RequestsNext DEF Next
    <2> QED BY <1>8, <2>1 DEF IssueMfaChallenge, ConsumeMfaChallenge, Consumes,
                              user, counted, history
  <1>9. ASSUME NEW c \in Challenges, ChallengeExpires(c) PROVE TypeInv'
    BY <1>9 DEF ChallengeExpires, user, counted, history
  <1>10. ASSUME NEW h \in Handlers, Advance(h) PROVE TypeInv'
    <2>1. RequestsOK'
      BY <1>10, RequestsNext DEF Next
    <2>2. req[h].saw \in Secrets /\ req[h].step \in Steps
      BY <1>10 DEF Advance, Advances, At, Shaped
    <2>3. lastStep' \in 0..(MaxNow + 1)
      BY <1>10, <2>2, ConstantsAssumption DEF Advance, Advances, Steps
    <2>4. uses' \in [Secrets \X Steps -> Nat]
      <3> DEFINE p == <<req[h].saw, req[h].step>>
      <3>1. p \in Secrets \X Steps
        BY <2>2
      <3>2. uses' = uses \/ uses' = [uses EXCEPT ![p] = uses[p] + 1]
        BY <1>10 DEF Advance, Advances
      <3> HIDE DEF p
      <3> QED BY <3>1, <3>2
    <2> QED BY <1>10, <2>1, <2>3, <2>4 DEF Advance, Advances, counted
  <1>11. ASSUME NEW h \in Handlers, ConsumeRecoveryCode(h) PROVE TypeInv'
    <2>1. RequestsOK'
      BY <1>11, RequestsNext DEF Next
    <2> QED BY <1>11, <2>1 DEF ConsumeRecoveryCode, counted
  <1>12. ASSUME NEW h \in Handlers, CompleteLogin(h) PROVE TypeInv'
    <2>1. RequestsOK'
      BY <1>12, RequestsNext DEF Next
    <2>2. req[h].challenge \in Challenges
      BY <1>12 DEF CompleteLogin, At, Shaped, Request
    <2>3. opened' \in [Challenges -> Nat]
      BY <1>12, <2>2 DEF CompleteLogin
    <2> QED BY <1>12, <2>1, <2>3 DEF CompleteLogin, user, counted
  <1>13. CASE UNCHANGED vars
    BY <1>13 DEF vars, user, counted, history
  <1> QED BY <1>2, <1>3, <1>4, <1>5, <1>6, <1>7, <1>8, <1>9, <1>10, <1>11, <1>12, <1>13
          DEF Next

-----------------------------------------------------------------------------
(* Codes and recovery codes. *)

LEMMA CodeInvInit == Init => CodeInv
  BY DEF Init, CodeInv

LEMMA CodeInvNext == TypeInv /\ BatchInv /\ CodeInv /\ [Next]_vars => CodeInv'
  <1> SUFFICES ASSUME TypeInv, BatchInv, CodeInv, [Next]_vars PROVE CodeInv'
    OBVIOUS
  <1>1. ASSUME UNCHANGED <<lastStep, recovery, batches, uses, spent>> PROVE CodeInv'
    BY <1>1 DEF CodeInv
  <1>2. ASSUME NEW h \in Handlers, Advance(h) PROVE CodeInv'
    <2>1. /\ req[h].saw \in Secrets /\ req[h].step \in Steps
          /\ uses \in [Secrets \X Steps -> Nat] /\ lastStep \in Nat
      BY <1>2, ConstantsAssumption DEF Advance, Advances, At, TypeInv, TypeOK, Shaped
    <2>2. CASE lastStep < req[h].step
      <3> DEFINE p == <<req[h].saw, req[h].step>>
      <3>1. uses[p] = 0
        BY <2>1, <2>2 DEF CodeInv, Steps
      <3>2. /\ lastStep' = req[h].step /\ uses' = [uses EXCEPT ![p] = 1]
            /\ UNCHANGED <<recovery, batches, spent>>
        BY <1>2, <2>1, <2>2, <3>1 DEF Advance, Advances, counted
      <3>3. ASSUME NEW s \in Secrets, NEW t \in Steps
            PROVE  uses'[<<s, t>>] <= 1 /\ (uses'[<<s, t>>] # 0 => t <= lastStep')
        <4>1. CASE <<s, t>> = p
          BY <2>1, <3>2, <4>1 DEF Steps
        <4>2. CASE <<s, t>> # p
          <5>1. uses'[<<s, t>>] = uses[<<s, t>>]
            BY <2>1, <3>2, <4>2
          <5> QED BY <2>1, <2>2, <3>2, <5>1 DEF CodeInv, Steps
        <4> QED BY <4>1, <4>2
      <3> QED BY <3>2, <3>3 DEF CodeInv
    <2> QED BY <1>1, <1>2, <2>2 DEF Advance, Advances, counted
  <1>3. ASSUME NEW h \in Handlers, ConsumeRecoveryCode(h) PROVE CodeInv'
    <2>1. PICK b \in recovery :
             recovery' = recovery \ {b} /\ spent' = [spent EXCEPT ![b] = @ + 1]
      BY <1>3 DEF ConsumeRecoveryCode
    <2>2. spent[b] = 0 /\ spent \in [Batches -> Nat] /\ b \in Batches
      BY <2>1 DEF CodeInv, TypeInv, TypeOK
    <2>3. \A d \in Batches :
             spent'[d] <= 1 /\ (d \in recovery' \/ d > batches => spent'[d] = 0)
      <3>1. b <= batches
        BY <2>1, <2>2 DEF CodeInv, TypeInv, TypeOK, BatchInv, OneBatch
      <3> SUFFICES ASSUME NEW d \in Batches
                   PROVE  spent'[d] <= 1 /\ (d \in recovery' \/ d > batches => spent'[d] = 0)
        OBVIOUS
      <3>2. CASE d = b
        <4>1. spent'[d] = 1 /\ d \notin recovery' /\ ~(d > batches)
          BY <2>1, <2>2, <3>1, <3>2 DEF Batches, TypeInv, TypeOK
        <4> QED BY <4>1
      <3>3. CASE d # b
        <4>1. spent'[d] = spent[d] /\ (d \in recovery' <=> d \in recovery)
          BY <2>1, <2>2, <3>3
        <4> QED BY <4>1 DEF CodeInv
      <3> QED BY <3>2, <3>3
    <2> QED BY <1>3, <2>3 DEF ConsumeRecoveryCode, CodeInv, counted
  <1>4. ASSUME NEW h \in Handlers, EnableCommits(h) PROVE CodeInv'
    <2>1. \A s \in Secrets, t \in Steps : uses'[<<s, t>>] = 0
      BY <1>4 DEF EnableCommits, TypeInv, TypeOK
    <2>2. \A b \in Batches : spent'[b] <= 1 /\ (b \in recovery' \/ b > batches' => spent'[b] = 0)
      BY <1>4, ConstantsAssumption DEF EnableCommits, CodeInv, TypeInv, TypeOK, Batches
    <2> QED BY <2>1, <2>2 DEF CodeInv
  <1>5. ASSUME NEW h \in Handlers, DisableCommits(h) PROVE CodeInv'
    BY <1>5 DEF DisableCommits, CodeInv, counted
  <1>6. ASSUME NEW h \in Handlers,
               \/ Setup(h) \/ Stage(h) \/ Enable(h) \/ Load(h) \/ Update(h) \/ DeleteCodes(h)
               \/ Disable(h) \/ LoginBegins(h) \/ ReadsRow(h) \/ WrongCode(h)
               \/ CompleteLogin(h) \/ Fails(h)
               \/ \E c \in Challenges : IssueMfaChallenge(h, c) \/ ConsumeMfaChallenge(h, c)
        PROVE  CodeInv'
    BY <1>1, <1>6 DEF Setup, Stage, Stages, Enable, Load, Update, DeleteCodes, Disable,
          LoginBegins, ReadsRow, WrongCode, CompleteLogin, Fails, IssueMfaChallenge,
          ConsumeMfaChallenge, Consumes, user, counted, history
  <1>7. CASE Tick \/ \E c \in Challenges : ChallengeExpires(c)
    BY <1>1, <1>7 DEF Tick, ChallengeExpires, user, counted, history
  <1>8. CASE UNCHANGED vars
    BY <1>1, <1>8 DEF vars, user, counted, history
  <1> QED BY <1>2, <1>3, <1>4, <1>5, <1>6, <1>7, <1>8 DEF Next

LEMMA BatchInvInit == Init => BatchInv
  BY IdleIsRequest DEF Init, BatchInv, OneBatch, At

LEMMA BatchInvNext == TypeInv /\ BatchInv /\ [Next]_vars => BatchInv'
  <1> SUFFICES ASSUME TypeInv, BatchInv, [Next]_vars PROVE BatchInv'
    OBVIOUS
  <1>1. ASSUME UNCHANGED batches, recovery' \subseteq recovery,
               \A g \in Handlers : req'[g].pc = "commit" =>
                   \/ req[g].pc = "commit" /\ req'[g].gone = req[g].gone
                   \/ req'[g].gone = recovery
        PROVE  BatchInv'
    BY <1>1 DEF BatchInv, OneBatch, At
  <1>2. req \in [Handlers -> Request] /\ Idle.pc # "commit"
    BY IdleIsRequest DEF TypeInv, TypeOK
  <1>3. ASSUME NEW h \in Handlers, EnableCommits(h) PROVE BatchInv'
    <2>1. recovery' = {batches + 1} /\ batches' = batches + 1
      BY <1>3 DEF EnableCommits, BatchInv, At
    <2>2. \A g \in Handlers : req'[g].pc # "commit"
      BY <1>2, <1>3, ConstantsAssumption DEF EnableCommits, TypeInv, TypeOK, At, Request
    <2> QED BY <2>1, <2>2 DEF BatchInv, OneBatch, At
  <1>4. ASSUME NEW h \in Handlers,
               \/ Setup(h) \/ Enable(h) \/ Disable(h) \/ LoginBegins(h)
               \/ Stage(h) \/ WrongCode(h) \/ CompleteLogin(h) \/ DisableCommits(h) \/ Fails(h)
               \/ \E c \in Challenges : IssueMfaChallenge(h, c) \/ ConsumeMfaChallenge(h, c)
        PROVE  BatchInv'
    <2>1. /\ \A g \in Handlers \ {h} : req'[g] = req[g]
          /\ req'[h].pc # "commit"
      BY ZenonT(60), <1>2, <1>4 DEF Setup, Enable, Disable, LoginBegins, Begins, Idle, Stage, Stages,
            WrongCode, CompleteLogin, DisableCommits, Fails, IssueMfaChallenge,
            ConsumeMfaChallenge, Consumes, Ends
    <2>2. UNCHANGED batches /\ recovery' \subseteq recovery
      BY <1>4 DEF Setup, Enable, Disable, LoginBegins, Stage, Stages, WrongCode,
            CompleteLogin, DisableCommits, Fails, IssueMfaChallenge,
            ConsumeMfaChallenge, Consumes, user, counted
    <2> QED BY <1>1, <2>1, <2>2
  <1>5. ASSUME NEW h \in Handlers,
               \/ Load(h) \/ Update(h) \/ DeleteCodes(h) \/ ReadsRow(h) \/ Advance(h)
               \/ ConsumeRecoveryCode(h)
        PROVE  BatchInv'
    <2>1. /\ \A g \in Handlers \ {h} : req'[g] = req[g]
          /\ req'[h].pc = "commit" => req'[h].gone = recovery
      BY <1>2, <1>5 DEF Load, Update, DeleteCodes, ReadsRow, Advance, Advances,
            ConsumeRecoveryCode, Ends, Goes, Proves, Request
    <2>2. UNCHANGED batches /\ recovery' \subseteq recovery
      BY <1>5 DEF Load, Update, DeleteCodes, ReadsRow, Advance, Advances,
            ConsumeRecoveryCode, user, counted
    <2> QED BY <1>1, <2>1, <2>2
  <1>6. CASE Tick \/ \E c \in Challenges : ChallengeExpires(c)
    BY <1>1, <1>6 DEF Tick, ChallengeExpires, user, counted
  <1>7. CASE UNCHANGED vars
    BY <1>1, <1>7 DEF vars, user, counted
  <1> QED BY <1>3, <1>4, <1>5, <1>6, <1>7 DEF Next

-----------------------------------------------------------------------------
(* Challenges. *)

LEMMA ChallengeInvInit == Init => ChallengeInv
  BY DEF Init, ChallengeInv, Idle

LEMMA ChallengeInvNext == TypeInv /\ ChallengeInv /\ [Next]_vars => ChallengeInv'
  <1> SUFFICES ASSUME TypeInv, ChallengeInv, [Next]_vars PROVE ChallengeInv'
    OBVIOUS
  <1>1. /\ req \in [Handlers -> Request] /\ Idle.challenge = None
        /\ challenge \in [Challenges -> {"none", "open", "spent"}]
        /\ opened \in [Challenges -> Nat]
        /\ \A h \in Handlers : req[h].challenge \in Challenges \cup {None}
    BY DEF TypeInv, TypeOK, Idle, Request
  <1>2. ASSUME UNCHANGED <<challenge, opened>>,
               \A g \in Handlers : req'[g].challenge \in {None, req[g].challenge}
        PROVE  ChallengeInv'
    BY <1>2 DEF ChallengeInv
  <1>3. ASSUME NEW c \in Challenges, NEW to \in {"open", "spent"}, challenge[c] # "spent",
               challenge' = [challenge EXCEPT ![c] = to], UNCHANGED opened,
               \A g \in Handlers : req'[g].challenge \in {None, req[g].challenge}
        PROVE  ChallengeInv'
    <2>1. opened[c] = 0 /\ \A g \in Handlers : req[g].challenge # c
      BY <1>1, <1>3, ConstantsAssumption DEF ChallengeInv
    <2> QED BY <1>1, <1>3, <2>1 DEF ChallengeInv
  <1>4. ASSUME NEW h \in Handlers, NEW c \in Challenges, IssueMfaChallenge(h, c)
        PROVE  ChallengeInv'
    BY <1>1, <1>3, <1>4 DEF IssueMfaChallenge, Ends, history
  <1>5. ASSUME NEW c \in Challenges, ChallengeExpires(c) PROVE ChallengeInv'
    BY <1>1, <1>3, <1>5 DEF ChallengeExpires, history
  <1>6. ASSUME NEW h \in Handlers, NEW c \in Challenges, ConsumeMfaChallenge(h, c)
        PROVE  ChallengeInv'
    <2>1. /\ challenge[c] = "open" /\ challenge' = [challenge EXCEPT ![c] = "spent"]
          /\ UNCHANGED opened
          /\ req'[h].challenge = c /\ \A g \in Handlers \ {h} : req'[g] = req[g]
      BY <1>1, <1>6 DEF ConsumeMfaChallenge, Consumes, Idle, history
    <2>2. opened[c] = 0 /\ \A g \in Handlers : req[g].challenge # c
      BY <1>1, <2>1, ConstantsAssumption DEF ChallengeInv
    <2>3. \A d \in Challenges : opened'[d] <= 1 /\ (opened'[d] # 0 => challenge'[d] = "spent")
      BY <1>1, <2>1, <2>2 DEF ChallengeInv
    <2>4. \A g \in Handlers : req'[g].challenge # None =>
             challenge'[req'[g].challenge] = "spent" /\ opened'[req'[g].challenge] = 0
      BY <1>1, <2>1, <2>2 DEF ChallengeInv
    <2>5. \A f, g \in Handlers :
             req'[f].challenge # None /\ req'[f].challenge = req'[g].challenge => f = g
      BY <1>1, <2>1, <2>2 DEF ChallengeInv
    <2> QED BY <2>3, <2>4, <2>5 DEF ChallengeInv
  <1>7. ASSUME NEW h \in Handlers, CompleteLogin(h) PROVE ChallengeInv'
    <2> DEFINE c == req[h].challenge
    <2>1. c \in Challenges /\ c # None /\ opened[c] = 0 /\ challenge[c] = "spent"
      BY <1>1, <1>7 DEF CompleteLogin, At, TypeInv, Shaped, ChallengeInv
    <2>2. /\ opened' = [opened EXCEPT ![c] = 1] /\ UNCHANGED challenge
          /\ req'[h].challenge = None /\ \A g \in Handlers \ {h} : req'[g] = req[g]
      BY <1>1, <1>7, <2>1 DEF CompleteLogin, Ends
    <2>3. \A g \in Handlers \ {h} : req[g].challenge # c
      BY <2>1 DEF ChallengeInv
    <2>4. \A d \in Challenges : opened'[d] <= 1 /\ (opened'[d] # 0 => challenge'[d] = "spent")
      BY <1>1, <2>1, <2>2 DEF ChallengeInv
    <2> QED BY <1>1, <2>1, <2>2, <2>3, <2>4 DEF ChallengeInv
  <1>8. ASSUME NEW h \in Handlers,
               \/ Setup(h) \/ Enable(h) \/ Disable(h) \/ LoginBegins(h)
               \/ Stage(h) \/ WrongCode(h) \/ DisableCommits(h) \/ Fails(h)
        PROVE  ChallengeInv'
    <2>1. req'[h].challenge = None /\ \A g \in Handlers \ {h} : req'[g] = req[g]
      BY <1>1, <1>8 DEF Setup, Enable, Disable, LoginBegins, Begins, Idle, Stage, Stages,
            WrongCode, DisableCommits, Fails, Ends
    <2>2. UNCHANGED <<challenge, opened>>
      BY <1>8 DEF Setup, Enable, Disable, LoginBegins, Stage, Stages,
            WrongCode, DisableCommits, Fails, history
    <2> QED BY <1>2, <2>1, <2>2
  <1>9. ASSUME NEW h \in Handlers,
               \/ Load(h) \/ Update(h) \/ DeleteCodes(h) \/ ReadsRow(h) \/ Advance(h)
               \/ ConsumeRecoveryCode(h) \/ EnableCommits(h)
        PROVE  ChallengeInv'
    <2>1. \A g \in Handlers : req'[g].challenge \in {None, req[g].challenge}
      BY <1>1, <1>9 DEF Load, Update, DeleteCodes, ReadsRow, Advance, Advances,
            ConsumeRecoveryCode, EnableCommits, Ends, Goes, Proves, Request
    <2>2. UNCHANGED <<challenge, opened>>
      BY <1>9 DEF Load, Update, DeleteCodes, ReadsRow, Advance, Advances,
            ConsumeRecoveryCode, EnableCommits, history
    <2> QED BY <1>2, <2>1, <2>2
  <1>10. CASE Tick \/ UNCHANGED vars
    BY <1>2, <1>10 DEF Tick, vars, history
  <1> QED BY <1>4, <1>5, <1>6, <1>7, <1>8, <1>9, <1>10 DEF Next

-----------------------------------------------------------------------------
(* Enabling and disabling. *)

LEMMA ConfirmInvInit == Init => ConfirmInv /\ EarlyInv
  BY IdleIsRequest DEF Init, ConfirmInv, EnabledIsConfirmed, EarlyInv, Idle, At

PastCheck(h) == req[h].kind = "enable" /\ req[h].pc \in {"update", "delete", "commit"}

\* A step that takes the secret away has found no enable in its transaction, and
\* says so if one is before it.
LEMMA SecretTaken ==
    ASSUME TypeInv, NEW h \in Handlers, Stage(h) \/ DisableCommits(h)
    PROVE  /\ ~enabled' /\ req' = [req EXCEPT ![h] = Idle]
           /\ \A g \in Handlers : (PastCheck(g))' => crossed'
  <1>1. ~enabled' /\ req' = [req EXCEPT ![h] = Idle] /\ (InEnable => crossed')
    BY DEF Stage, Stages, DisableCommits, Ends
  <1>2. ASSUME NEW g \in Handlers, g # h, PastCheck(g) PROVE InEnable
    <2>1. req[g].pc \notin {"delete", "commit"}
      BY <1>2, ConstantsAssumption DEF Stage, Stages, DisableCommits, At, TypeInv, TypeOK
    <2> QED BY <1>2, <2>1 DEF PastCheck, InEnable, At
  <1>3. ASSUME NEW g \in Handlers, (PastCheck(g))' PROVE g # h /\ PastCheck(g)
    BY <1>1, <1>3, IdleIsRequest DEF PastCheck, TypeInv, TypeOK
  <1> QED BY <1>1, <1>2, <1>3

LEMMA ConfirmInvNext == TypeInv /\ ConfirmInv /\ [Next]_vars => ConfirmInv'
  <1> SUFFICES ASSUME TypeInv, ConfirmInv, [Next]_vars PROVE ConfirmInv'
    OBVIOUS
  <1>1. req \in [Handlers -> Request] /\ Idle.pc = "idle" /\ Idle.kind = "none"
    BY IdleIsRequest DEF TypeInv, TypeOK, Idle
  <1>2. ASSUME UNCHANGED <<secret, confirmed, crossed>>, enabled' => enabled,
               \A g \in Handlers : (PastCheck(g))' => PastCheck(g)
        PROVE  ConfirmInv'
    BY <1>2 DEF ConfirmInv, EnabledIsConfirmed, PastCheck
  <1>3. ASSUME NEW h \in Handlers, Stage(h) \/ DisableCommits(h) PROVE ConfirmInv'
    BY <1>3, SecretTaken DEF ConfirmInv, EnabledIsConfirmed, PastCheck
  <1>4. ASSUME NEW h \in Handlers, Load(h) PROVE ConfirmInv'
    <2>1. CASE Ends(h) /\ UNCHANGED confirmed
      <3>1. \A g \in Handlers : (PastCheck(g))' => PastCheck(g)
        BY <1>1, <2>1 DEF Ends, PastCheck
      <3> QED BY <1>2, <1>4, <2>1, <3>1 DEF Load, user
    <2>2. CASE confirmed' = confirmed \cup {secret}
      BY <1>4, <2>2 DEF Load, user, ConfirmInv, EnabledIsConfirmed
    <2> QED BY <1>4, <2>1, <2>2 DEF Load
  <1>5. ASSUME NEW h \in Handlers, EnableCommits(h) PROVE ConfirmInv'
    <2>1. secret \in confirmed \/ crossed
      BY <1>5 DEF EnableCommits, At, ConfirmInv
    <2>2. UNCHANGED <<secret, confirmed, crossed>>
      BY <1>5 DEF EnableCommits
    <2> QED BY <2>1, <2>2 DEF ConfirmInv, EnabledIsConfirmed
  <1>6. ASSUME NEW h \in Handlers,
               \/ Setup(h) \/ Enable(h) \/ Disable(h) \/ LoginBegins(h)
               \/ WrongCode(h) \/ CompleteLogin(h) \/ Fails(h)
               \/ \E c \in Challenges : IssueMfaChallenge(h, c) \/ ConsumeMfaChallenge(h, c)
        PROVE  ConfirmInv'
    <2>1. req'[h].pc \notin {"update", "delete", "commit"}
          /\ \A g \in Handlers \ {h} : req'[g] = req[g]
      BY ZenonT(60), <1>1, <1>6 DEF Setup, Enable, Disable, LoginBegins, Begins, Idle, WrongCode,
            CompleteLogin, Fails, IssueMfaChallenge, ConsumeMfaChallenge, Consumes, Ends
    <2>2. UNCHANGED <<secret, enabled, confirmed, crossed>>
      BY <1>6 DEF Setup, Enable, Disable, LoginBegins, WrongCode, CompleteLogin, Fails,
            IssueMfaChallenge, ConsumeMfaChallenge, Consumes, user, history
    <2> QED BY <1>2, <2>1, <2>2 DEF PastCheck
  <1>7. ASSUME NEW h \in Handlers,
               \/ Update(h) \/ DeleteCodes(h) \/ ReadsRow(h) \/ Advance(h)
               \/ ConsumeRecoveryCode(h)
        PROVE  ConfirmInv'
    <2>1. req[h].pc \in {"code", "advance"} => req[h].kind # "enable"
      BY DEF TypeInv, Shaped
    <2>2. \A g \in Handlers : (PastCheck(g))' => PastCheck(g)
      BY <1>1, <1>7, <2>1 DEF Update, DeleteCodes, ReadsRow, Advance, Advances,
            ConsumeRecoveryCode, Ends, Goes, Proves, Request, PastCheck, At
    <2>3. UNCHANGED <<secret, enabled, confirmed, crossed>>
      BY <1>7 DEF Update, DeleteCodes, ReadsRow, Advance, Advances,
            ConsumeRecoveryCode, user, history
    <2> QED BY <1>2, <2>2, <2>3
  <1>8. CASE Tick \/ (\E c \in Challenges : ChallengeExpires(c)) \/ UNCHANGED vars
    BY <1>2, <1>8 DEF Tick, ChallengeExpires, vars, user, history, PastCheck
  <1> QED BY <1>3, <1>4, <1>5, <1>6, <1>7, <1>8 DEF Next

LEMMA EarlyInvNext == TypeInv /\ EarlyInv /\ [Next]_vars => EarlyInv'
  <1> SUFFICES ASSUME TypeInv, EarlyInv, [Next]_vars PROVE EarlyInv'
    OBVIOUS
  <1>1. req \in [Handlers -> Request] /\ Idle.pc = "idle"
    BY IdleIsRequest DEF TypeInv, TypeOK
  <1>2. ASSUME enabled' => enabled,
               \A g \in Handlers : req'[g].pc = "stage" => req'[g] = req[g]
        PROVE  EarlyInv'
    BY <1>2 DEF EarlyInv, At
  <1>3. ASSUME NEW h \in Handlers, Setup(h) PROVE EarlyInv'
    BY <1>3 DEF Setup, user, EarlyInv
  <1>4. ASSUME NEW h \in Handlers, EnableCommits(h) PROVE EarlyInv'
    BY <1>1, <1>4 DEF EnableCommits, EarlyInv, At, Request
  <1>5. ASSUME NEW h \in Handlers,
               \/ Enable(h) \/ Disable(h) \/ LoginBegins(h) \/ Stage(h) \/ DisableCommits(h)
               \/ WrongCode(h) \/ CompleteLogin(h) \/ Fails(h)
               \/ \E c \in Challenges : IssueMfaChallenge(h, c) \/ ConsumeMfaChallenge(h, c)
        PROVE  EarlyInv'
    <2>1. req'[h].pc # "stage" /\ \A g \in Handlers \ {h} : req'[g] = req[g]
      BY <1>1, <1>5 DEF Enable, Disable, LoginBegins, Begins, Idle, WrongCode, Stage, Stages,
            DisableCommits, CompleteLogin, Fails, IssueMfaChallenge, ConsumeMfaChallenge,
            Consumes, Ends
    <2>2. enabled' => enabled
      BY <1>5 DEF Enable, Disable, LoginBegins, WrongCode, CompleteLogin, Fails, Stage, Stages,
            DisableCommits, IssueMfaChallenge, ConsumeMfaChallenge, Consumes, user
    <2> QED BY <1>2, <2>1, <2>2
  <1>6. ASSUME NEW h \in Handlers,
               \/ Load(h) \/ Update(h) \/ DeleteCodes(h) \/ ReadsRow(h) \/ Advance(h)
               \/ ConsumeRecoveryCode(h)
        PROVE  EarlyInv'
    <2>1. req'[h].pc # "stage" /\ \A g \in Handlers \ {h} : req'[g] = req[g]
      BY <1>1, <1>6 DEF Load, Update, DeleteCodes, ReadsRow, Advance, Advances,
            ConsumeRecoveryCode, Ends, Goes, Proves, Request
    <2>2. UNCHANGED enabled
      BY <1>6 DEF Load, Update, DeleteCodes, ReadsRow, Advance, Advances,
            ConsumeRecoveryCode, user
    <2> QED BY <1>2, <2>1, <2>2
  <1>7. CASE Tick \/ (\E c \in Challenges : ChallengeExpires(c)) \/ UNCHANGED vars
    BY <1>2, <1>7 DEF Tick, ChallengeExpires, vars, user
  <1> QED BY <1>3, <1>4, <1>5, <1>6, <1>7 DEF Next

-----------------------------------------------------------------------------

\* The state of the model always has its type, and the row of users is held by one
\* transaction at most (enableTotp, disableTotp).
THEOREM TypeCorrect == Spec => []TypeOK
  <1>1. TypeInv => TypeOK
    BY DEF TypeInv
  <1> QED BY TypeInvInit, TypeInvNext, <1>1, PTL DEF Spec

\* Enables and disables that race leave one sheet of recovery codes at most, the newest.
THEOREM NewestBatchOnly == Spec => []OneBatch
  <1>1. BatchInv => OneBatch
    BY DEF BatchInv
  <1> QED BY TypeInvInit, TypeInvNext, BatchInvInit, BatchInvNext, <1>1, PTL DEF Spec

\* A code of a step, a recovery code and a challenge are each good once, for any
\* number of requests that race for them.
THEOREM CodesAreSingleUse == Spec => []SingleUse
  <1>1. TypeInv /\ CodeInv /\ ChallengeInv => SingleUse
    BY DEF TypeInv, TypeOK, CodeInv, ChallengeInv, SingleUse
  <1> QED BY TypeInvInit, TypeInvNext, BatchInvInit, BatchInvNext, CodeInvInit, CodeInvNext,
             ChallengeInvInit, ChallengeInvNext, <1>1, PTL DEF Spec

\* A secret that gates the login was confirmed, or a setup or a disable crossed the
\* enable that confirmed another.
THEOREM SecretIsConfirmed == Spec => []EnabledIsConfirmed
  <1>1. ConfirmInv => EnabledIsConfirmed
    BY DEF ConfirmInv
  <1> QED BY TypeInvInit, TypeInvNext, ConfirmInvInit, ConfirmInvNext, <1>1, PTL DEF Spec

\* MFA is turned off by a code, or by a setup under way when it was enabled.
THEOREM OnlyCodesEndMfa == Spec => MfaEndsByCode
  <1> DEFINE Ended == enabled /\ ~enabled' =>
                         \E h \in Handlers :
                             \/ At(h, "commit") /\ req[h].proved
                             \/ At(h, "stage") /\ req[h].early
  <1>1. TypeInv /\ EarlyInv /\ [Next]_vars => [Ended]_vars
    <2> SUFFICES ASSUME TypeInv, EarlyInv, Next, enabled, ~enabled' PROVE Ended
      BY DEF vars
    <2>1. ASSUME NEW h \in Handlers, Stage(h) PROVE Ended
      BY <2>1 DEF Stage, Stages, EarlyInv, At
    <2>2. ASSUME NEW h \in Handlers, DisableCommits(h) PROVE Ended
      BY <2>2 DEF DisableCommits, TypeInv, Shaped, At
    <2>3. ASSUME \A h \in Handlers : ~Stage(h) /\ ~DisableCommits(h) PROVE FALSE
      BY <2>3 DEF Next, Tick, Setup, Enable, Load, Update, DeleteCodes, EnableCommits, Disable,
            LoginBegins, ReadsRow, Advance, Advances, ConsumeRecoveryCode, WrongCode,
            CompleteLogin, Fails, IssueMfaChallenge, ConsumeMfaChallenge, Consumes,
            ChallengeExpires, user
    <2> QED BY <2>1, <2>2, <2>3
  <1>2. Init => TypeInv /\ EarlyInv
    BY TypeInvInit, ConfirmInvInit
  <1> QED BY TypeInvNext, EarlyInvNext, <1>1, <1>2, PTL DEF Spec, MfaEndsByCode
=============================================================================
