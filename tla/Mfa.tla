-------------------------------- MODULE Mfa --------------------------------
(***************************************************************************)
(* The second factor of one account: setting it up, enabling and disabling   *)
(* it, and signing in with it, as interleaved requests.  One action per       *)
(* await; a transaction holds the users row from its UPDATE to its end.       *)
(***************************************************************************)
EXTENDS Naturals, FiniteSets

CONSTANTS
    Handlers,     \* requests that run at once
    Challenges,   \* ids that can be given to challenges
    None,
    MaxSecrets,   \* bound: setups
    MaxBatches,   \* bound: batches of recovery codes, so enables
    MaxNow        \* bound: the clock, in steps of 30 seconds

ASSUME ConstantsAssumption ==
    /\ None \notin Handlers \cup Challenges
    /\ MaxSecrets \in Nat /\ MaxBatches \in Nat /\ MaxNow \in Nat \ {0}

Secrets == 1..MaxSecrets
Batches == 1..MaxBatches
Steps   == 1..(MaxNow + 1)

VARIABLES
    now,
    secret, enabled, lastStep,  \* users: totp_secret, totp_enabled_at, totp_last_step; 0 is NULL
    recovery,    \* live recovery codes: one of each batch stands for its ten
    challenge,   \* mfa_challenges
    holder,      \* the transaction that holds the users row
    req,
    secrets, batches,   \* how many there have been
    uses,        \* of a step's code of a secret since MFA was last enabled,
    spent,       \* of a recovery code, ever,
    opened,      \* sessions opened by a challenge
    confirmed,   \* secrets a code has confirmed
    crossed      \* a setup or a disable has committed inside an enable

user    == <<secret, enabled, lastStep, recovery>>
counted == <<secrets, batches>>
history == <<uses, spent, opened, confirmed, crossed>>
vars == <<now, user, challenge, holder, req, counted, history>>

\* kind: the route; saw: the secret it has read; step: of the code that was sent;
\* gone: the recovery codes its DELETE has found; early: MFA was enabled since
\* its preHandler ran; proved: it has had a right code.
Request ==
    [pc : {"idle", "stage", "load", "update", "delete", "commit",
           "challenge", "code", "advance", "proved"},
     kind : {"none", "setup", "enable", "disable", "login"},
     saw : 0..MaxSecrets, step : 0..(MaxNow + 1),
     gone : SUBSET Batches, challenge : Challenges \cup {None}, early : BOOLEAN, proved : BOOLEAN]
Idle == [pc |-> "idle", kind |-> "none", saw |-> 0, step |-> 0,
         gone |-> {}, challenge |-> None, early |-> FALSE, proved |-> FALSE]

\* Every variable has its type; the row is held by a transaction, and by no other.
TypeOK ==
    /\ now \in 1..MaxNow
    /\ secret \in 0..MaxSecrets /\ enabled \in BOOLEAN /\ lastStep \in 0..(MaxNow + 1)
    /\ recovery \subseteq Batches
    /\ challenge \in [Challenges -> {"none", "open", "spent"}]
    /\ holder \in Handlers \cup {None}
    /\ \A h \in Handlers : req[h].pc \in {"delete", "commit"} <=> holder = h
    /\ req \in [Handlers -> Request]
    /\ secrets \in 0..MaxSecrets /\ batches \in 0..MaxBatches
    /\ uses \in [Secrets \X Steps -> Nat] /\ spent \in [Batches -> Nat]
    /\ opened \in [Challenges -> Nat]
    /\ confirmed \subseteq Secrets /\ crossed \in BOOLEAN

Init ==
    /\ now = 1
    /\ secret = 0 /\ enabled = FALSE /\ lastStep = 0 /\ recovery = {}
    /\ challenge = [c \in Challenges |-> "none"]
    /\ holder = None
    /\ req = [h \in Handlers |-> Idle]
    /\ secrets = 0 /\ batches = 0
    /\ uses = [c \in Secrets \X Steps |-> 0]
    /\ spent = [b \in Batches |-> 0]
    /\ opened = [c \in Challenges |-> 0]
    /\ confirmed = {} /\ crossed = FALSE

At(h, pc) == req[h].pc = pc
Goes(h, pc) == req' = [req EXCEPT ![h].pc = pc]
Ends(h) == req' = [req EXCEPT ![h] = Idle]
Begins(h, kind, pc) ==
    At(h, "idle") /\ req' = [req EXCEPT ![h] = [Idle EXCEPT !.pc = pc, !.kind = kind]]

\* The codes the authenticator shows now, and those of the steps beside it.
Window == {t \in Steps : t + 1 >= now /\ t <= now + 1}

Tick ==
    /\ now < MaxNow /\ now' = now + 1
    /\ UNCHANGED <<user, challenge, holder, req, counted, history>>

-----------------------------------------------------------------------------
(* POST /mfa/setup. *)

\* The user of the session, as the preHandler read it.  Faulty variant: no 409.
SetupAlways(h) ==
    /\ Begins(h, "setup", "stage")
    /\ UNCHANGED <<now, user, challenge, holder, counted, history>>
Setup(h) ==
    /\ ~enabled
    /\ Begins(h, "setup", "stage")
    /\ UNCHANGED <<now, user, challenge, holder, counted, history>>

InEnable == \E g \in Handlers : req[g].kind = "enable" /\ At(g, "update")

\* stageTotpSecret.  Faulty variant: the new secret is enabled as the old one was.
Stages(h, on) ==
    /\ At(h, "stage") /\ holder = None /\ secrets < MaxSecrets
    /\ secrets' = secrets + 1 /\ secret' = secrets + 1
    /\ enabled' = on
    /\ Ends(h)
    /\ crossed' = (crossed \/ InEnable)
    /\ UNCHANGED <<now, lastStep, recovery, challenge, holder, batches,
                   uses, spent, opened, confirmed>>
StageKeepsEnabled(h) == Stages(h, enabled)
Stage(h) == Stages(h, FALSE)

-----------------------------------------------------------------------------
(* POST /mfa/enable. *)

Enable(h) ==
    /\ ~enabled
    /\ Begins(h, "enable", "load")
    /\ UNCHANGED <<now, user, challenge, holder, counted, history>>

\* loadSecret and a code of it; with no secret, or a wrong code, the answer is 400.
Load(h) ==
    /\ At(h, "load")
    /\ \/ /\ secret # 0 /\ confirmed' = confirmed \cup {secret}
          /\ req' = [req EXCEPT ![h].pc = "update", ![h].saw = secret]
       \/ Ends(h) /\ UNCHANGED confirmed
    /\ UNCHANGED <<now, user, challenge, holder, counted, uses, spent, opened, crossed>>

\* UPDATE users, the first statement of enableTotp and of disableTotp.  Faulty
\* variant: each statement commits by itself.
UpdateAutocommit(h) ==
    /\ At(h, "update") /\ holder = None
    /\ Goes(h, "delete")
    /\ UNCHANGED <<now, user, challenge, holder, counted, history>>
Update(h) ==
    /\ At(h, "update") /\ holder = None
    /\ holder' = h
    /\ Goes(h, "delete")
    /\ UNCHANGED <<now, user, challenge, counted, history>>

\* DELETE FROM mfa_recovery_codes: the committed ones.
DeleteCodes(h) ==
    /\ At(h, "delete")
    /\ req' = [req EXCEPT ![h].pc = "commit", ![h].gone = recovery]
    /\ UNCHANGED <<now, user, challenge, holder, counted, history>>

\* INSERT of the new codes, and the end of the transaction.
EnableCommits(h) ==
    /\ At(h, "commit") /\ req[h].kind = "enable" /\ batches < MaxBatches
    /\ batches' = batches + 1
    /\ enabled' = TRUE /\ lastStep' = 0
    /\ recovery' = (recovery \ req[h].gone) \cup {batches + 1}
    /\ holder' = None
    /\ uses' = [c \in DOMAIN uses |-> 0]
    /\ req' = [g \in Handlers |->
                  IF g = h THEN Idle
                  ELSE IF At(g, "stage") THEN [req[g] EXCEPT !.early = TRUE] ELSE req[g]]
    /\ UNCHANGED <<now, secret, challenge, secrets, spent, opened, confirmed, crossed>>

-----------------------------------------------------------------------------
(* POST /mfa/disable: a code, then disableTotp. *)

Disable(h) ==
    /\ enabled
    /\ Begins(h, "disable", "code")
    /\ UNCHANGED <<now, user, challenge, holder, counted, history>>

DisableCommits(h) ==
    /\ At(h, "commit") /\ req[h].kind = "disable"
    /\ secret' = 0 /\ enabled' = FALSE
    /\ recovery' = recovery \ req[h].gone
    /\ holder' = None
    /\ Ends(h)
    /\ crossed' = (crossed \/ InEnable)
    /\ UNCHANGED <<now, lastStep, challenge, counted, uses, spent, opened, confirmed>>

-----------------------------------------------------------------------------
(* Signing in. *)

\* POST /login after the password: with MFA on, a challenge.
LoginBegins(h) ==
    /\ enabled
    /\ Begins(h, "login", "challenge")
    /\ UNCHANGED <<now, user, challenge, holder, counted, history>>

IssueMfaChallenge(h, c) ==
    /\ At(h, "challenge") /\ challenge[c] = "none"
    /\ challenge' = [challenge EXCEPT ![c] = "open"]
    /\ Ends(h)
    /\ UNCHANGED <<now, user, holder, counted, history>>

ChallengeExpires(c) ==
    /\ challenge[c] = "open"
    /\ challenge' = [challenge EXCEPT ![c] = "spent"]
    /\ UNCHANGED <<now, user, holder, req, counted, history>>

\* POST /login/mfa: consumeMfaChallenge.  Faulty variant: spent at the end.
Consumes(h, c, after) ==
    /\ challenge[c] = "open"
    /\ At(h, "idle")
    /\ req' = [req EXCEPT ![h] = [Idle EXCEPT !.pc = "code", !.kind = "login", !.challenge = c]]
    /\ challenge' = [challenge EXCEPT ![c] = after]
    /\ UNCHANGED <<now, user, holder, counted, history>>
ConsumeLater(h, c) == Consumes(h, c, "open")
ConsumeMfaChallenge(h, c) == Consumes(h, c, "spent")

\* verifyTotpForUser: the row is read and the code checked against its secret.
ReadsRow(h) ==
    /\ At(h, "code") /\ secret # 0
    /\ \E t \in Window :
          req' = [req EXCEPT ![h].pc = "advance", ![h].saw = secret, ![h].step = t]
    /\ UNCHANGED <<now, user, challenge, holder, counted, history>>

\* A code is right: a login goes on to its session, a disable to its UPDATE.
Proves(h) ==
    req' = [req EXCEPT ![h].pc = IF req[h].kind = "disable" THEN "update" ELSE "proved",
                       ![h].proved = TRUE]

\* UPDATE ... WHERE totp_last_step < step.  Faulty variant: the guard is left to the read.
Advances(h, fresh) ==
    /\ At(h, "advance") /\ holder = None
    /\ IF fresh
       THEN /\ lastStep' = req[h].step
            /\ uses' = [uses EXCEPT ![<<req[h].saw, req[h].step>>] = @ + 1]
            /\ Proves(h)
       ELSE Ends(h) /\ UNCHANGED <<lastStep, uses>>
    /\ UNCHANGED <<now, secret, enabled, recovery, challenge, holder, counted,
                   spent, opened, confirmed, crossed>>
AdvanceUnguarded(h) == Advances(h, TRUE)
Advance(h) == Advances(h, lastStep < req[h].step)

\* consumeRecoveryCode: it waits for a DELETE of the row, and then finds nothing.
ConsumeRecoveryCode(h) ==
    /\ At(h, "code")
    /\ \E b \in recovery :
          /\ \A g \in Handlers : At(g, "commit") => b \notin req[g].gone
          /\ recovery' = recovery \ {b}
          /\ spent' = [spent EXCEPT ![b] = @ + 1]
    /\ Proves(h)
    /\ UNCHANGED <<now, secret, enabled, lastStep, challenge, holder, counted,
                   uses, opened, confirmed, crossed>>

WrongCode(h) ==
    /\ At(h, "code")
    /\ Ends(h)
    /\ UNCHANGED <<now, user, challenge, holder, counted, history>>

\* completeLogin.
CompleteLogin(h) ==
    /\ At(h, "proved")
    /\ opened' = [opened EXCEPT ![req[h].challenge] = @ + 1]
    /\ Ends(h)
    /\ UNCHANGED <<now, user, challenge, holder, counted, uses, spent, confirmed, crossed>>

-----------------------------------------------------------------------------

\* A statement fails or the process dies: a transaction is rolled back.
Fails(h) ==
    /\ ~At(h, "idle")
    /\ Ends(h)
    /\ holder' = IF holder = h THEN None ELSE holder
    /\ UNCHANGED <<now, user, challenge, counted, history>>

Next ==
    \/ Tick
    \/ \E h \in Handlers :
          \/ Setup(h) \/ Stage(h)
          \/ Enable(h) \/ Load(h) \/ Update(h) \/ DeleteCodes(h) \/ EnableCommits(h)
          \/ Disable(h) \/ DisableCommits(h)
          \/ LoginBegins(h) \/ ReadsRow(h) \/ Advance(h) \/ ConsumeRecoveryCode(h)
          \/ WrongCode(h) \/ CompleteLogin(h) \/ Fails(h)
          \/ \E c \in Challenges : IssueMfaChallenge(h, c) \/ ConsumeMfaChallenge(h, c)
    \/ \E c \in Challenges : ChallengeExpires(c)

Spec == Init /\ [][Next]_vars

-----------------------------------------------------------------------------

\* A code of one step is accepted once until MFA is enabled again, a recovery code
\* once, and a challenge opens one session, whichever requests race for them
\* (verifyTotpForUser, consumeRecoveryCode, consumeMfaChallenge).
SingleUse ==
    /\ \A c \in DOMAIN uses : uses[c] <= 1
    /\ \A b \in Batches : spent[b] <= 1
    /\ \A c \in Challenges : opened[c] <= 1

\* Enables and disables that race leave the recovery codes of one batch at most, the
\* newest: a code of an older sheet is dead (enableTotp's UPDATE before its DELETE).
OneBatch == recovery \subseteq {batches}

\* A secret that gates the login was confirmed by a code, unless a setup or a disable
\* committed between an enable's check and its UPDATE (stageTotpSecret, enableTotp).
EnabledIsConfirmed == enabled => secret \in confirmed \/ crossed

\* MFA is turned off by a code alone: a disable that has proved one, or a setup that
\* was under way when MFA was enabled (routes/mfa.ts).
MfaEndsByCode ==
    [][enabled /\ ~enabled' =>
          \E h \in Handlers :
              \/ At(h, "commit") /\ req[h].proved
              \/ At(h, "stage") /\ req[h].early]_vars
=============================================================================
