------------------------------- MODULE SignIn -------------------------------
(***************************************************************************)
(* Signing in to one account, and the settings of that account: the auth   *)
(* handlers Login, LoginTOTP, Logout, DeleteSession, ChangePassword, and   *)
(* EnrollTOTP, VerifyEnrollTOTP, DisableTOTP, RegenerateRecoveryCodes.     *)
(*                                                                         *)
(* Requests run concurrently, from browsers that hold a session cookie and *)
(* a challenge cookie; one browser may have several requests in flight.  A *)
(* step of a request is one SQL statement or transaction, with the code up *)
(* to the next one; what it read before it keeps in req.  The              *)
(* second-factor counter is the one Lockout promises.  Per-IP windows and  *)
(* the password lockout only refuse more logins and are left out.          *)
(* Passwords, secrets and codes are numbers: a hash matches what it was    *)
(* made from and nothing else.                                             *)
(***************************************************************************)
EXTENDS Integers, FiniteSets

CONSTANTS
  Req, Browser, Session, Challenge,
  None,
  MaxPassword,    \* bound: passwords the account has had
  MaxSecret,      \* bound: secrets ever generated
  MaxBatch,       \* bound: batches of recovery codes
  CodeCount,      \* recoveryCodeCount
  MaxAttempts,    \* maxTOTPAttempts
  SFThreshold,    \* secondFactorFailThreshold
  SFLock, SFDecay,\* secondFactorLock, failureDecay
  MaxWork,        \* bound: challenges and account settings requests over all
  SettingsTabs    \* account settings requests in flight at once

ASSUME BoundsAssumption ==
  /\ MaxAttempts \in Nat \ {0} /\ SFThreshold \in Nat \ {0}
  /\ SFDecay \in Nat /\ SFLock \in 1..(SFDecay - 1)
  /\ MaxPassword \in Nat /\ CodeCount \in Nat /\ MaxWork \in Nat /\ SettingsTabs \in Nat
  /\ MaxSecret \in Nat \ {0} /\ MaxBatch \in Nat \ {0}
  /\ IsFiniteSet(Req) /\ None \notin Browser \cup Session \cup Challenge

VARIABLES
  user,    \* users row: password, legacy (bcrypt), totp_enabled
  secret,  \* totp_secrets row: id (0: no row), confirmed_at set, and
           \* (history) the secret whose code was shown for that
  codes,   \* recovery_codes: the current batch and its unused codes
  chal,    \* login_challenges
  sess,    \* sessions: live, dead (revoked or expired), and (history) what issued it
  jar,     \* the browsers' cookies
  req,     \* requests in flight
  sf,      \* LoginLimiter.secondFactor
  guessed, \* history: second factors tried since time last passed or one was right
  work,    \* challenges and account settings requests so far
  retired  \* history: passwords given up by ChangePassword

vars == <<user, secret, codes, chal, sess, jar, req, sf, guessed, work, retired>>

SF == INSTANCE Lockout WITH
        Key <- {"user"}, Kind <- {"secondFactor"}, kind <- "secondFactor",
        streak <- sf, Threshold <- [secondFactor |-> SFThreshold],
        LockBase <- [secondFactor |-> SFLock], LockMax <- [secondFactor |-> SFLock],
        Escalate <- [secondFactor |-> FALSE], Decay <- SFDecay,
        FailCap <- SFThreshold + 1

Password == 0..MaxPassword
User == [password : Password, legacy : BOOLEAN, totp : BOOLEAN]
TOTPSecret == [id : 0..MaxSecret, confirmed : BOOLEAN, proof : 0..MaxSecret]
Unconfirmed(n) == [id |-> n, confirmed |-> FALSE, proof |-> 0]
NoSecret == Unconfirmed(0)
Batch(n) == [batch |-> n, unused |-> IF n = 0 THEN {} ELSE 1..CodeCount]
LoginChallenge == [st : {"none", "open", "consumed", "expired"}, attempts : 0..MaxAttempts]
NoCode == [batch |-> 0, code |-> 0]
Code == [batch : 0..MaxBatch, code : 0..CodeCount]
SessionRow == [st : {"none", "live", "dead"},
               via : Challenge \cup {None}, code : Code]
NoRequest == [pc |-> "idle", b |-> None, password |-> 0,
              snap |-> [password |-> 0, legacy |-> FALSE, totp |-> FALSE],
              secret |-> 0, chal |-> None, code |-> NoCode, sid |-> None, old |-> None]

\* An admin seeded with a bcrypt hash, or an account that has TOTP on.
Init ==
  /\ \/ /\ user = [password |-> 0, legacy |-> TRUE, totp |-> FALSE]
        /\ secret = NoSecret /\ codes = Batch(0)
     \/ /\ user = [password |-> 0, legacy |-> FALSE, totp |-> TRUE]
        /\ secret = [id |-> 1, confirmed |-> TRUE, proof |-> 1] /\ codes = Batch(1)
  /\ chal = [c \in Challenge |-> [st |-> "none", attempts |-> 0]]
  /\ sess = [s \in Session |-> [st |-> "none", via |-> None, code |-> NoCode]]
  /\ jar = [b \in Browser |-> [sid |-> None, chal |-> None]]
  /\ req = [r \in Req |-> NoRequest]
  /\ sf = [k \in {"user"} |-> SF!Zero]
  /\ guessed = 0 /\ work = 0 /\ retired = {}

----------------------------------------------------------------------------
\* Live and Verify: the browser's cookie names a session that is still good.
Live(s) == s # None /\ sess[s].st = "live"
SignedIn(b) == Live(jar[b].sid)

At(r, pc) == req[r].pc = pc
Go(r, q) == req' = [req EXCEPT ![r] = q]
Done(r) == Go(r, NoRequest)
\* A request arrives with the browser's session cookie.
Begin(b, pc) == [NoRequest EXCEPT !.pc = pc, !.b = b, !.sid = jar[b].sid]

Counted == work < MaxWork /\ work' = work + 1

\* A query fails, the audit intent cannot be written, or the code gives up:
\* the request ends with an error and what it did so far stays done.
Fail(r) ==
  /\ ~At(r, "idle")
  /\ Done(r)
  /\ UNCHANGED <<user, secret, codes, chal, sess, jar, sf, guessed, work, retired>>

----------------------------------------------------------------------------
(* Login                                                                   *)

\* The hash is compared with the row as it was loaded.
LoginLoad(r, b, p) ==
  /\ At(r, "idle")
  /\ Go(r, IF p = user.password THEN [Begin(b, "verify") EXCEPT !.snap = user]
           ELSE [NoRequest EXCEPT !.pc = "refuse"])
  /\ UNCHANGED <<user, secret, codes, chal, sess, jar, sf, guessed, work, retired>>

\* A hash that is still bcrypt is replaced: by the password just typed.
LoginRehash(r) ==
  /\ At(r, "verify")
  /\ req[r].snap.legacy
  /\ user' \in {user, [user EXCEPT !.password = req[r].snap.password, !.legacy = FALSE]}
  /\ Go(r, [req[r] EXCEPT !.snap.legacy = FALSE])
  /\ UNCHANGED <<secret, codes, chal, sess, jar, sf, guessed, work, retired>>

LoginVerified(r) == At(r, "verify") /\ ~req[r].snap.legacy

\* RecordFailure, and the same 401 for every reason.
LoginRefused(r) ==
  /\ At(r, "refuse")
  /\ Done(r)
  /\ UNCHANGED <<user, secret, codes, chal, sess, jar, sf, guessed, work, retired>>

\* TOTP was on when the account was loaded: a challenge, and no session.
LoginChallenged_FreshCount(r) ==
  /\ LoginVerified(r) /\ req[r].snap.totp
  /\ \E c \in Challenge :
       /\ chal[c].st = "none"
       /\ chal' = [chal EXCEPT ![c].st = "open"]
       /\ jar' = [jar EXCEPT ![req[r].b].chal = c]
  /\ Counted
  /\ sf' = [sf EXCEPT !["user"] = SF!Zero]
  /\ Done(r)
  /\ UNCHANGED <<user, secret, codes, sess, guessed, retired>>
LoginChallenged(r) ==
  /\ LoginVerified(r) /\ req[r].snap.totp
  /\ \E c \in Challenge :
       /\ chal[c].st = "none"
       /\ chal' = [chal EXCEPT ![c].st = "open"]
       /\ jar' = [jar EXCEPT ![req[r].b].chal = c]
  /\ Counted
  /\ Done(r)
  /\ UNCHANGED <<user, secret, codes, sess, sf, guessed, retired>>

\* Issue: the prior session of this browser is noted, to be revoked below.
Issue(r) ==
  \E s \in Session :
    /\ sess[s].st = "none"
    /\ sess' = [sess EXCEPT ![s] = [st |-> "live", via |-> req[r].chal, code |-> req[r].code]]
    /\ Go(r, [NoRequest EXCEPT !.pc = "rotate", !.b = req[r].b, !.chal = req[r].chal, !.sid = s,
                               !.old = IF Live(req[r].sid) THEN req[r].sid ELSE None])

LoginIssue(r) ==
  /\ LoginVerified(r) /\ ~req[r].snap.totp
  /\ Issue(r)
  /\ UNCHANGED <<user, secret, codes, chal, jar, sf, guessed, work, retired>>

\* The revocation of the prior session may fail: the sign-in succeeds anyway.
Rotate(r) ==
  /\ At(r, "rotate")
  /\ LET old == req[r].old IN
       sess' \in {sess, IF Live(old) THEN [sess EXCEPT ![old].st = "dead"] ELSE sess}
  /\ jar' = [jar EXCEPT ![req[r].b].sid = req[r].sid,
                        ![req[r].b].chal = IF req[r].chal = None THEN @ ELSE None]
  /\ Done(r)
  /\ IF req[r].chal = None THEN UNCHANGED <<sf, guessed>>
     ELSE SF!Succeed("user") /\ guessed' = 0
  /\ UNCHANGED <<user, secret, codes, chal, work, retired>>

----------------------------------------------------------------------------
(* LoginTOTP                                                               *)

\* The challenge is good; the attempt is counted with the check of the lock.
TOTPReserve(r, b) ==
  LET c == jar[b].chal IN
  /\ At(r, "idle") /\ c # None
  /\ chal[c].st = "open"
  /\ sf["user"].lock = 0
  /\ SF!Fail("user")
  /\ guessed' = guessed + 1
  /\ Go(r, [Begin(b, "second") EXCEPT !.chal = c])
  /\ UNCHANGED <<user, secret, codes, chal, sess, jar, work, retired>>

\* A challenge that is spent or expired is cleared from the browser.
TOTPExpired(r, b) ==
  LET c == jar[b].chal IN
  /\ At(r, "idle") /\ c # None
  /\ chal[c].st # "open"
  /\ jar' = [jar EXCEPT ![b].chal = None]
  /\ UNCHANGED <<user, secret, codes, chal, sess, req, sf, guessed, work, retired>>

\* secondFactorValid, on six digits made from secret n.
TOTPCode(r, n) ==
  /\ At(r, "second")
  /\ Go(r, [req[r] EXCEPT !.pc = IF secret.confirmed /\ secret.id = n THEN "right" ELSE "wrong"])
  /\ UNCHANGED <<user, secret, codes, chal, sess, jar, sf, guessed, work, retired>>

\* ConsumeRecoveryCode: an unused code is spent as it is checked.
ConsumeRecoveryCode_ReadOnly(r, k) ==
  /\ At(r, "second")
  /\ LET ok == k.batch = codes.batch /\ k.code \in codes.unused
     IN Go(r, [req[r] EXCEPT !.pc = IF ok THEN "right" ELSE "wrong",
                             !.code = IF ok THEN k ELSE NoCode])
  /\ UNCHANGED <<user, secret, codes, chal, sess, jar, sf, guessed, work, retired>>
ConsumeRecoveryCode(r, k) ==
  /\ At(r, "second")
  /\ LET ok == k.batch = codes.batch /\ k.code \in codes.unused
     IN /\ codes' = IF ok THEN [codes EXCEPT !.unused = @ \ {k.code}] ELSE codes
        /\ Go(r, [req[r] EXCEPT !.pc = IF ok THEN "right" ELSE "wrong",
                                !.code = IF ok THEN k ELSE NoCode])
  /\ UNCHANGED <<user, secret, chal, sess, jar, sf, guessed, work, retired>>

\* The challenge consumes itself with its last attempt; one that is already
\* consumed counts no more.
RecordChallengeFailure(r) ==
  LET c == req[r].chal
      n == chal[c].attempts + 1
      counts == chal[c].st \in {"open", "expired"} IN
  /\ At(r, "wrong")
  /\ chal' = IF ~counts THEN chal
             ELSE [chal EXCEPT ![c].attempts = n,
                               ![c].st = IF n >= MaxAttempts THEN "consumed" ELSE @]
  /\ jar' = IF counts /\ n < MaxAttempts THEN jar
            ELSE [jar EXCEPT ![req[r].b].chal = None]
  /\ Done(r)
  /\ UNCHANGED <<user, secret, codes, sess, sf, guessed, work, retired>>

\* The winner of the challenge goes on to a session, a loser is turned away.
ConsumeLoginChallenge(r) ==
  LET c == req[r].chal
      won == chal[c].st \in {"open", "expired"} IN
  /\ At(r, "right")
  /\ chal' = IF won THEN [chal EXCEPT ![c].st = "consumed"] ELSE chal
  /\ jar' = IF won THEN jar ELSE [jar EXCEPT ![req[r].b].chal = None]
  /\ IF won THEN Go(r, [req[r] EXCEPT !.pc = "won"]) ELSE Done(r)
  /\ UNCHANGED <<user, secret, codes, sess, sf, guessed, work, retired>>

TOTPIssue(r) ==
  /\ At(r, "won")
  /\ Issue(r)
  /\ UNCHANGED <<user, secret, codes, chal, jar, sf, guessed, work, retired>>

----------------------------------------------------------------------------
(* Account settings: authenticated requests.                               *)

Settings == {"enroll", "confirm", "disable", "regenerate", "change", "revoke"}
Tabs == {r \in Req : req[r].pc \in Settings}
SettingsLoad(r, b) ==
  /\ At(r, "idle") /\ SignedIn(b)
  /\ Cardinality(Tabs) < SettingsTabs
  /\ Counted
  /\ UNCHANGED <<user, secret, codes, chal, sess, jar, sf, guessed, retired>>

\* EnrollTOTP
EnrollLoad(r, b) ==
  /\ SettingsLoad(r, b)
  /\ ~user.totp
  /\ Go(r, Begin(b, "enroll"))
UpsertTOTPSecret(r) ==
  /\ At(r, "enroll")
  /\ \E n \in 1..MaxSecret :
       /\ n # secret.id /\ \A q \in Req : n # req[q].secret
       /\ secret' = Unconfirmed(n)
  /\ Done(r)
  /\ UNCHANGED <<user, codes, chal, sess, jar, sf, guessed, work, retired>>

\* VerifyEnrollTOTP: the pending secret is loaded and a code of it is shown.
VerifyEnrollLoad(r, b) ==
  /\ SettingsLoad(r, b)
  /\ secret # NoSecret /\ ~secret.confirmed
  /\ Go(r, [Begin(b, "confirm") EXCEPT !.secret = secret.id])

\* ReplaceRecoveryCodes: all rows deleted, a fresh batch inserted.
FreshBatch == codes.batch < MaxBatch /\ codes' = Batch(codes.batch + 1)

\* One transaction: confirm the unconfirmed row, enable, replace the codes.
EnableTOTP(r) ==
  /\ At(r, "confirm")
  /\ IF secret # NoSecret /\ ~secret.confirmed
     THEN /\ secret' = [secret EXCEPT !.confirmed = TRUE, !.proof = req[r].secret]
          /\ user' = [user EXCEPT !.totp = TRUE]
          /\ FreshBatch
     ELSE UNCHANGED <<secret, user, codes>>
  /\ Done(r)
  /\ UNCHANGED <<chal, sess, jar, sf, guessed, work, retired>>

\* DisableTOTP: the password is verified, then one transaction.
DisableLoad(r, b, p) ==
  /\ SettingsLoad(r, b)
  /\ p = user.password
  /\ Go(r, Begin(b, "disable"))
DisableTx_KeepsSecret(r) ==
  /\ At(r, "disable")
  /\ codes' = [codes EXCEPT !.unused = {}]
  /\ user' = [user EXCEPT !.totp = FALSE]
  /\ Done(r)
  /\ UNCHANGED <<secret, chal, sess, jar, sf, guessed, work, retired>>
DisableTx(r) ==
  /\ At(r, "disable")
  /\ secret' = NoSecret
  /\ codes' = [codes EXCEPT !.unused = {}]
  /\ user' = [user EXCEPT !.totp = FALSE]
  /\ Done(r)
  /\ UNCHANGED <<chal, sess, jar, sf, guessed, work, retired>>

RegenerateLoad(r, b, p) ==
  /\ SettingsLoad(r, b)
  /\ p = user.password /\ user.totp
  /\ Go(r, Begin(b, "regenerate"))
RegenerateTx(r) ==
  /\ At(r, "regenerate")
  /\ FreshBatch
  /\ Done(r)
  /\ UNCHANGED <<user, secret, chal, sess, jar, sf, guessed, work, retired>>

\* ChangePassword: verify the current one, write the new hash, then revoke
\* the other sessions; a failed revocation is only logged.
ChangeLoad(r, b, p, new) ==
  /\ SettingsLoad(r, b)
  /\ p = user.password /\ new > p
  /\ Go(r, [Begin(b, "change") EXCEPT !.password = new, !.snap = user])
UpdatePasswordHash(r) ==
  /\ At(r, "change")
  /\ user' = [user EXCEPT !.password = req[r].password, !.legacy = FALSE]
  /\ retired' = (retired \cup {req[r].snap.password}) \ {req[r].password}
  /\ Go(r, [req[r] EXCEPT !.pc = "revoke"])
  /\ UNCHANGED <<secret, codes, chal, sess, jar, sf, guessed, work>>
RevokeOtherUserSessions(r) ==
  /\ At(r, "revoke")
  /\ sess' \in {sess, [s \in Session |->
                  IF s # req[r].sid /\ Live(s) THEN [sess[s] EXCEPT !.st = "dead"]
                  ELSE sess[s]]}
  /\ Done(r)
  /\ UNCHANGED <<user, secret, codes, chal, jar, sf, guessed, work, retired>>

\* Logout and DeleteSession: one of the caller's own live sessions.
Logout(b) ==
  /\ SignedIn(b)
  /\ sess' = [sess EXCEPT ![jar[b].sid].st = "dead"]
  /\ jar' = [jar EXCEPT ![b].sid = None]
  /\ UNCHANGED <<user, secret, codes, chal, req, sf, guessed, work, retired>>
DeleteSession(b, s) ==
  /\ SignedIn(b) /\ Live(s)
  /\ sess' = [sess EXCEPT ![s].st = "dead"]
  /\ UNCHANGED <<user, secret, codes, chal, jar, req, sf, guessed, work, retired>>

----------------------------------------------------------------------------
(* Time: the idle and absolute limits of a session, a challenge's lifetime *)
(* and the second-factor lock.                                             *)

SessionExpires(s) ==
  /\ Live(s)
  /\ sess' = [sess EXCEPT ![s].st = "dead"]
  /\ UNCHANGED <<user, secret, codes, chal, jar, req, sf, guessed, work, retired>>
ChallengeExpires(c) ==
  /\ chal[c].st = "open"
  /\ chal' = [chal EXCEPT ![c].st = "expired"]
  /\ UNCHANGED <<user, secret, codes, sess, jar, req, sf, guessed, work, retired>>
Tick ==
  /\ SF!Tick
  /\ guessed' = 0
  /\ UNCHANGED <<user, secret, codes, chal, sess, jar, req, work, retired>>

RequestStep(r) ==
  \/ LoginRehash(r) \/ LoginRefused(r) \/ LoginChallenged(r) \/ LoginIssue(r)
  \/ Rotate(r) \/ Fail(r)
  \/ \E n \in 0..MaxSecret : TOTPCode(r, n)
  \/ \E k \in [batch : 1..MaxBatch, code : 1..CodeCount] : ConsumeRecoveryCode(r, k)
  \/ RecordChallengeFailure(r) \/ ConsumeLoginChallenge(r) \/ TOTPIssue(r)
  \/ UpsertTOTPSecret(r) \/ EnableTOTP(r) \/ DisableTx(r) \/ RegenerateTx(r)
  \/ UpdatePasswordHash(r) \/ RevokeOtherUserSessions(r)

Arrive(r, b) ==
  \/ TOTPReserve(r, b) \/ TOTPExpired(r, b) \/ EnrollLoad(r, b) \/ VerifyEnrollLoad(r, b)
  \/ \E p \in Password :
       \/ LoginLoad(r, b, p) \/ DisableLoad(r, b, p) \/ RegenerateLoad(r, b, p)
       \/ \E new \in Password : ChangeLoad(r, b, p, new)

Next ==
  \/ \E r \in Req : RequestStep(r) \/ \E b \in Browser : Arrive(r, b)
  \/ \E b \in Browser : Logout(b) \/ \E s \in Session : DeleteSession(b, s)
  \/ \E s \in Session : SessionExpires(s)
  \/ \E c \in Challenge : ChallengeExpires(c)
  \/ Tick

Spec == Init /\ [][Next]_vars

----------------------------------------------------------------------------
\* The account's rows, the cookies and the requests are of their types.
TypeOK ==
  /\ user \in User /\ secret \in TOTPSecret
  /\ codes.batch \in 0..MaxBatch /\ codes.unused \subseteq 1..CodeCount
  /\ chal \in [Challenge -> LoginChallenge]
  /\ sess \in [Session -> SessionRow]
  /\ jar \in [Browser -> [sid : Session \cup {None}, chal : Challenge \cup {None}]]
  /\ guessed \in Nat /\ work \in 0..MaxWork /\ retired \subseteq Password

\* A second factor signs in once: no two sessions rest on one challenge or on
\* one recovery code, however many requests race for it, over any number of
\* challenges, regenerations and re-enrolments; and none on a challenge whose
\* attempts are used up (ConsumeLoginChallenge, ConsumeRecoveryCode,
\* RecordChallengeFailure).
SecondFactorSingleUse ==
  /\ \A s, t \in Session : s # t =>
       /\ sess[s].via # None => sess[s].via # sess[t].via
       /\ sess[s].code # NoCode => sess[s].code # sess[t].code
  /\ \A s \in Session : sess[s].via # None =>
       chal[sess[s].via].st = "consumed" /\ chal[sess[s].via].attempts < MaxAttempts

\* Between two ticks of time no more second factors are tried than the
\* threshold, however many challenges a correct password mints ("a
\* known-password attacker cannot grind TOTP").
GuessesBounded == guessed <= SFThreshold

\* TOTP is on exactly while a confirmed secret is stored, of which the
\* account's owner has shown a code; recovery codes exist only while it is on.
TotpSettled ==
  /\ user.totp <=> secret.confirmed
  /\ secret.confirmed => secret.id = secret.proof
  /\ codes.unused # {} => user.totp

\* "old password no longer works": a password given up by ChangePassword is
\* never the account's password again.
RetiredPasswordStaysOut == user.password \notin retired
=============================================================================
