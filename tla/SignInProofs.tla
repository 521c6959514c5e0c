---------------------------- MODULE SignInProofs ----------------------------
(***************************************************************************)
(* Proofs about signing in, for any number of concurrent requests,         *)
(* browsers, sessions, challenges, secrets and codes, and any thresholds;  *)
(* then about the limiters in front of it: the request limiter             *)
(* (ApiRateLimiter), the window per address (LoginLimiter) and the failure *)
(* trackers (FailureTracker), which are shown to implement Lockout.        *)
(***************************************************************************)
EXTENDS SignIn, Limits, FiniteSetTheorems, TLAPS

PC == {"idle", "verify", "refuse", "rotate", "second", "right", "wrong", "won"} \cup Settings
Request == [pc : PC, b : Browser \cup {None}, password : Password, snap : User,
            secret : 0..MaxSecret, chal : Challenge \cup {None}, code : Code,
            sid : Session \cup {None}, old : Session \cup {None}]
Streak == [failures : 0..(SFThreshold + 1), age : Nat, lock : 0..SFLock]
CodesRow == [batch : 0..MaxBatch, unused : SUBSET (1..CodeCount)]
Jar == [sid : Session \cup {None}, chal : Challenge \cup {None}]

\* What a request has with it where its next statement needs it.
Carries(q) ==
  /\ q.pc \in {"second", "right", "wrong", "won"} => q.chal \in Challenge
  /\ q.pc = "verify" => q.chal = None
  /\ q.code # NoCode => q.pc \in {"right", "won"}

AccountTypes == user \in User /\ secret \in TOTPSecret /\ codes \in CodesRow
ChalTypes == chal \in [Challenge -> LoginChallenge]
SessTypes == sess \in [Session -> SessionRow]
JarTypes == jar \in [Browser -> Jar]
ReqTypes == req \in [Req -> Request] /\ \A r \in Req : Carries(req[r])
CountTypes == guessed \in Nat /\ work \in 0..MaxWork /\ retired \subseteq Password
SFTypes == sf \in [{"user"} -> Streak]

\* The types, with those of the requests and of the second-factor counter.
TypeInv ==
  AccountTypes /\ ChalTypes /\ SessTypes /\ JarTypes /\ ReqTypes /\ CountTypes /\ SFTypes

----------------------------------------------------------------------------
(* Types                                                                   *)

LEMMA TypeInvImplies == TypeInv => TypeOK
BY DEF TypeInv, TypeOK, AccountTypes, ChalTypes, SessTypes, JarTypes, CountTypes, CodesRow, Jar

LEMMA NoRequestType == NoRequest \in Request /\ Carries(NoRequest)
BY BoundsAssumption DEF NoRequest, Request, PC, Password, User, Code, NoCode, Carries

LEMMA CodeTypes == NoCode \in Code /\ [batch : 1..MaxBatch, code : 1..CodeCount] \subseteq Code
BY BoundsAssumption DEF NoCode, Code

\* A request that has just arrived.
LEMMA BeginType ==
  ASSUME NEW b \in Browser, NEW pc \in PC, JarTypes
  PROVE  /\ Begin(b, pc) \in Request /\ Begin(b, pc).pc = pc /\ Begin(b, pc).b = b
         /\ Begin(b, pc).chal = None /\ Begin(b, pc).code = NoCode
         /\ Begin(b, pc).secret = 0
<1>1. jar[b].sid \in Session \cup {None}
  BY DEF JarTypes, Jar
<1> QED BY <1>1, NoRequestType DEF NoRequest, Request, Begin

LEMMA GoTypes ==
  ASSUME ReqTypes, NEW r \in Req, NEW q \in Request, Carries(q), Go(r, q)
  PROVE  /\ ReqTypes'
         /\ req'[r] = q
         /\ \A p \in Req : p # r => req'[p] = req[p]
BY DEF ReqTypes, Go

LEMMA DoneTypes ==
  ASSUME ReqTypes, NEW r \in Req, Done(r)
  PROVE  /\ ReqTypes'
         /\ req'[r] = NoRequest
         /\ \A p \in Req : p # r => req'[p] = req[p]
BY GoTypes, NoRequestType DEF Done

LEMMA BatchType == \A n \in 0..MaxBatch : Batch(n) \in CodesRow
BY BoundsAssumption DEF Batch, CodesRow

LEMMA ZeroType == SF!Zero \in Streak /\ SF!Zero.failures = 0 /\ SF!Zero.lock = 0
BY BoundsAssumption DEF SF!Zero, Streak

\* A failure counts up and locks from the threshold on.
LEMMA BumpedType ==
  ASSUME NEW s \in Streak
  PROVE  /\ SF!Bumped(s) \in Streak
         /\ SF!Bumped(s).failures = IF s.failures < SFThreshold THEN s.failures + 1
                                    ELSE SFThreshold + 1
         /\ SF!Bumped(s).failures >= SFThreshold => SF!Bumped(s).lock = SFLock
<1> DEFINE f == SF!LeastOf(s.failures + 1, SFThreshold + 1)
<1>1. f \in 0..(SFThreshold + 1) /\ f = IF s.failures < SFThreshold THEN s.failures + 1
                                        ELSE SFThreshold + 1
  BY BoundsAssumption DEF SF!LeastOf, Streak
<1>2. SF!LockFor(f) = IF f < SFThreshold THEN 0 ELSE SFLock
  BY <1>1 DEF SF!LockFor
<1>3. SF!Bumped(s) = [failures |-> f, age |-> 0, lock |-> SF!LockFor(f)]
  BY DEF SF!Bumped
<1> HIDE DEF f
<1> QED BY <1>1, <1>2, <1>3, BoundsAssumption DEF Streak

LEMMA AgedType ==
  ASSUME NEW s \in Streak
  PROVE  SF!Aged(s) \in Streak
BY ZeroType, BoundsAssumption DEF SF!Aged, Streak

LEMMA InitTypes == Init => TypeInv
<1> SUFFICES ASSUME Init PROVE TypeInv
  OBVIOUS
<1>0. Batch(0) \in CodesRow /\ Batch(1) \in CodesRow
  BY BatchType, BoundsAssumption
<1>1. AccountTypes
  <2>1. NoSecret \in TOTPSecret /\ [id |-> 1, confirmed |-> TRUE, proof |-> 1] \in TOTPSecret
    BY BoundsAssumption DEF TOTPSecret, NoSecret, Unconfirmed
  <2>2. \A x, y \in BOOLEAN : [password |-> 0, legacy |-> x, totp |-> y] \in User
    BY BoundsAssumption DEF User, Password
  <2> QED BY <1>0, <2>1, <2>2 DEF Init, AccountTypes
<1>2. ChalTypes /\ SessTypes /\ JarTypes
  BY CodeTypes, BoundsAssumption
  DEF Init, ChalTypes, SessTypes, JarTypes, LoginChallenge, SessionRow, Jar
<1>3. ReqTypes
  BY NoRequestType DEF Init, ReqTypes
<1>4. CountTypes /\ SFTypes
  BY ZeroType, BoundsAssumption DEF Init, CountTypes, SFTypes
<1> QED BY <1>1, <1>2, <1>3, <1>4 DEF TypeInv

\* An account settings request that was let in.
LEMMA SettingsTypes ==
  ASSUME TypeInv, NEW r \in Req, NEW b \in Browser, SettingsLoad(r, b), ReqTypes'
  PROVE  TypeInv'
<1>1. work' \in 0..MaxWork
  BY BoundsAssumption DEF TypeInv, CountTypes, SettingsLoad, Counted
<1> QED BY <1>1 DEF TypeInv, SettingsLoad, AccountTypes, ChalTypes, SessTypes, JarTypes,
                    CountTypes, SFTypes

LEMMA FreshBatchType ==
  ASSUME codes \in CodesRow, FreshBatch
  PROVE  /\ codes' \in CodesRow
         /\ codes'.batch = codes.batch + 1
<1>1. codes.batch + 1 \in 0..MaxBatch /\ codes.batch + 1 # 0
  BY BoundsAssumption DEF CodesRow, FreshBatch
<1> QED BY <1>1, BatchType DEF FreshBatch, Batch

\* Issue writes a fresh row that names the second factor it rests on.
LEMMA IssueTypes ==
  ASSUME TypeInv, NEW r \in Req, Issue(r)
  PROVE  /\ SessTypes' /\ ReqTypes'
         /\ \E s \in Session :
              /\ sess[s].st = "none"
              /\ sess'[s].via = req[r].chal /\ sess'[s].code = req[r].code
              /\ \A t \in Session : t # s => sess'[t] = sess[t]
         /\ req'[r].pc = "rotate" /\ req'[r].code = NoCode
         /\ \A p \in Req : p # r => req'[p] = req[p]
<1>1. PICK s \in Session :
        /\ sess[s].st = "none"
        /\ sess' = [sess EXCEPT ![s] = [st |-> "live", via |-> req[r].chal, code |-> req[r].code]]
        /\ Go(r, [NoRequest EXCEPT !.pc = "rotate", !.b = req[r].b, !.chal = req[r].chal, !.sid = s,
                                   !.old = IF Live(req[r].sid) THEN req[r].sid ELSE None])
  BY DEF Issue
<1> DEFINE o == IF Live(req[r].sid) THEN req[r].sid ELSE None
           q == [NoRequest EXCEPT !.pc = "rotate", !.b = req[r].b, !.chal = req[r].chal, !.sid = s,
                                  !.old = o]
<1>2. req[r] \in Request
  BY DEF TypeInv, ReqTypes
<1>3. [st |-> "live", via |-> req[r].chal, code |-> req[r].code] \in SessionRow
  BY <1>2 DEF Request, SessionRow
<1>4. q \in Request /\ q.pc = "rotate" /\ q.code = NoCode
  <2>1. o \in Session \cup {None}
    BY <1>2 DEF Request
  <2> HIDE DEF o
  <2>2. q \in Request
    BY <1>2, <2>1, NoRequestType DEF NoRequest, Request, PC
  <2>3. q.pc = "rotate" /\ q.code = NoCode
    BY DEF NoRequest
  <2> QED BY <2>2, <2>3
<1>5. Carries(q)
  BY <1>4 DEF Carries
<1> HIDE DEF q
<1>6. ReqTypes' /\ req'[r] = q /\ \A p \in Req : p # r => req'[p] = req[p]
  BY <1>1, <1>4, <1>5, GoTypes DEF TypeInv, q
<1>7. SessTypes'
  BY <1>1, <1>3 DEF TypeInv, SessTypes
<1> QED BY <1>1, <1>4, <1>6, <1>7 DEF TypeInv, SessTypes

LEMMA NextTypes == TypeInv /\ [Next]_vars => TypeInv'
<1> SUFFICES ASSUME TypeInv, [Next]_vars PROVE TypeInv'
  OBVIOUS
<1> USE DEF TypeInv
<1>u. CASE UNCHANGED vars
  BY <1>u DEF vars, AccountTypes, ChalTypes, SessTypes, JarTypes, ReqTypes, CountTypes, SFTypes
<1>r. \A r \in Req : req[r] \in Request /\ Carries(req[r])
  BY DEF ReqTypes
\* What stays as it is keeps its type.
<1>k. /\ UNCHANGED <<user, secret, codes>> => AccountTypes'
      /\ UNCHANGED chal => ChalTypes'
      /\ UNCHANGED sess => SessTypes'
      /\ UNCHANGED jar => JarTypes'
      /\ UNCHANGED req => ReqTypes'
      /\ UNCHANGED <<guessed, work, retired>> => CountTypes'
      /\ UNCHANGED sf => SFTypes'
  BY DEF AccountTypes, ChalTypes, SessTypes, JarTypes, ReqTypes, CountTypes, SFTypes
<1>1. ASSUME NEW r \in Req, Fail(r) PROVE TypeInv'
  BY <1>1, <1>k, DoneTypes DEF Fail
<1>2. ASSUME NEW r \in Req, LoginRefused(r) PROVE TypeInv'
  BY <1>2, <1>k, DoneTypes DEF LoginRefused
<1>3. ASSUME NEW r \in Req, LoginRehash(r) PROVE TypeInv'
  <2> DEFINE q == [req[r] EXCEPT !.snap.legacy = FALSE]
  <2>1. q \in Request /\ q.pc = req[r].pc /\ q.chal = req[r].chal /\ q.code = req[r].code
    BY <1>r DEF Request, User
  <2>2. Carries(q)
    BY <2>1, <1>r DEF Carries
  <2> HIDE DEF q
  <2>3. ReqTypes'
    BY <1>3, <2>1, <2>2, GoTypes DEF LoginRehash, q
  <2>4. req[r].snap \in User
    BY <1>r DEF Request
  <2>5. AccountTypes'
    BY <1>3, <2>4 DEF LoginRehash, AccountTypes, User
  <2> QED BY <1>3, <2>3, <2>5, <1>k DEF LoginRehash
<1>4. ASSUME NEW r \in Req, LoginChallenged(r) PROVE TypeInv'
  <2>1. PICK c \in Challenge :
          chal' = [chal EXCEPT ![c].st = "open"] /\ jar' = [jar EXCEPT ![req[r].b].chal = c]
    BY <1>4 DEF LoginChallenged
  <2>2. ChalTypes'
    BY <2>1 DEF ChalTypes, LoginChallenge
  <2>3. JarTypes'
    BY <2>1 DEF JarTypes, Jar
  <2>4. CountTypes'
    BY <1>4, BoundsAssumption DEF LoginChallenged, Counted, CountTypes
  <2> QED BY <1>4, <2>2, <2>3, <2>4, <1>k, DoneTypes DEF LoginChallenged
<1>5. ASSUME NEW r \in Req, LoginIssue(r) PROVE TypeInv'
  BY <1>5, <1>k, IssueTypes DEF LoginIssue
<1>6. ASSUME NEW r \in Req, TOTPIssue(r) PROVE TypeInv'
  BY <1>6, <1>k, IssueTypes DEF TOTPIssue
<1>7. ASSUME NEW r \in Req, Rotate(r) PROVE TypeInv'
  <2>1. SessTypes'
    BY <1>7 DEF Rotate, SessTypes, SessionRow, Live
  <2>2. req[r].sid \in Session \cup {None}
    BY <1>r DEF Request
  <2>3. JarTypes'
    BY <1>7, <2>2 DEF Rotate, JarTypes, Jar
  <2>4. CountTypes' /\ SFTypes'
    BY <1>7, ZeroType DEF Rotate, CountTypes, SFTypes, SF!Succeed
  <2> QED BY <1>7, <2>1, <2>3, <2>4, <1>k, DoneTypes DEF Rotate
<1>8. ASSUME NEW r \in Req, NEW b \in Browser, TOTPReserve(r, b) PROVE TypeInv'
  <2> DEFINE q == [Begin(b, "second") EXCEPT !.chal = jar[b].chal]
  <2>1. jar[b].chal \in Challenge
    BY <1>8 DEF TOTPReserve, JarTypes, Jar
  <2>2. q \in Request /\ q.pc = "second" /\ q.chal = jar[b].chal /\ q.code = NoCode
    BY <2>1, BeginType DEF PC, Request
  <2>3. Carries(q)
    BY <2>1, <2>2 DEF Carries
  <2> HIDE DEF q
  <2>4. ReqTypes'
    BY <1>8, <2>2, <2>3, GoTypes DEF TOTPReserve, q
  <2>5. SFTypes'
    <3>1. sf' = [j \in {"user"} |-> SF!Bumped(sf["user"])]
      BY <1>8 DEF TOTPReserve, SF!Fail
    <3> QED BY <3>1, BumpedType DEF SFTypes
  <2>6. CountTypes'
    BY <1>8 DEF TOTPReserve, CountTypes
  <2> QED BY <1>8, <2>4, <2>5, <2>6, <1>k DEF TOTPReserve
<1>9. ASSUME NEW r \in Req, NEW b \in Browser, TOTPExpired(r, b) PROVE TypeInv'
  <2>1. JarTypes'
    BY <1>9 DEF TOTPExpired, JarTypes, Jar
  <2> QED BY <1>9, <2>1, <1>k DEF TOTPExpired
<1>10. ASSUME NEW r \in Req, NEW n \in 0..MaxSecret, TOTPCode(r, n) PROVE TypeInv'
  <2> DEFINE q == [req[r] EXCEPT !.pc = IF secret.confirmed /\ secret.id = n
                                        THEN "right" ELSE "wrong"]
  <2>1. /\ q \in Request /\ q.pc \in {"right", "wrong"} /\ q.chal = req[r].chal
        /\ q.code = req[r].code
    BY <1>r DEF Request, PC
  <2>2. Carries(q)
    BY <1>10, <2>1, <1>r DEF Carries, TOTPCode, At
  <2> HIDE DEF q
  <2>3. ReqTypes'
    BY <1>10, <2>1, <2>2, GoTypes DEF TOTPCode, q
  <2> QED BY <1>10, <2>3, <1>k DEF TOTPCode
<1>11. ASSUME NEW r \in Req, NEW k \in [batch : 1..MaxBatch, code : 1..CodeCount],
              ConsumeRecoveryCode(r, k) PROVE TypeInv'
  <2> DEFINE ok == k.batch = codes.batch /\ k.code \in codes.unused
             q == [req[r] EXCEPT !.pc = IF ok THEN "right" ELSE "wrong",
                                 !.code = IF ok THEN k ELSE NoCode]
  <2>1. /\ q \in Request /\ q.pc = (IF ok THEN "right" ELSE "wrong") /\ q.chal = req[r].chal
        /\ q.code = IF ok THEN k ELSE NoCode
    BY <1>r, CodeTypes DEF Request, PC
  <2>2. Carries(q)
    BY <1>11, <2>1, <1>r DEF Carries, ConsumeRecoveryCode, At
  <2>a. Go(r, q) /\ codes' = IF ok THEN [codes EXCEPT !.unused = @ \ {k.code}] ELSE codes
    BY <1>11 DEF ConsumeRecoveryCode
  <2> HIDE DEF q
  <2>3. ReqTypes'
    BY <2>a, <2>1, <2>2, GoTypes
  <2>4. AccountTypes'
    BY <1>11, <2>a DEF AccountTypes, CodesRow, ConsumeRecoveryCode
  <2> QED BY <1>11, <2>3, <2>4, <1>k DEF ConsumeRecoveryCode
<1>12. ASSUME NEW r \in Req, RecordChallengeFailure(r) PROVE TypeInv'
  <2>1. req[r].chal \in Challenge
    BY <1>12, <1>r DEF RecordChallengeFailure, At, Carries
  <2>2. ChalTypes'
    BY <1>12, <2>1, BoundsAssumption DEF RecordChallengeFailure, ChalTypes, LoginChallenge
  <2>3. JarTypes'
    BY <1>12 DEF RecordChallengeFailure, JarTypes, Jar
  <2> QED BY <1>12, <2>2, <2>3, <1>k, DoneTypes DEF RecordChallengeFailure
<1>13. ASSUME NEW r \in Req, ConsumeLoginChallenge(r) PROVE TypeInv'
  <2> DEFINE q == [req[r] EXCEPT !.pc = "won"]
  <2>1. req[r].chal \in Challenge
    BY <1>13, <1>r DEF ConsumeLoginChallenge, At, Carries
  <2>2. ChalTypes' /\ JarTypes'
    BY <1>13, <2>1 DEF ConsumeLoginChallenge, ChalTypes, LoginChallenge, JarTypes, Jar
  <2>3. q \in Request /\ q.pc = "won" /\ q.chal = req[r].chal
    BY <1>r DEF Request, PC
  <2>4. Carries(q)
    BY <2>1, <2>3 DEF Carries
  <2>5. Go(r, q) \/ Done(r)
    BY <1>13 DEF ConsumeLoginChallenge
  <2> HIDE DEF q
  <2>6. ReqTypes'
    BY <2>3, <2>4, <2>5, GoTypes, DoneTypes
  <2> QED BY <1>13, <2>2, <2>6, <1>k DEF ConsumeLoginChallenge
<1>14. ASSUME NEW r \in Req, NEW b \in Browser, EnrollLoad(r, b) PROVE TypeInv'
  <2>1. Begin(b, "enroll") \in Request /\ Carries(Begin(b, "enroll"))
    BY BeginType DEF PC, Settings, Carries
  <2> QED BY <1>14, <2>1, GoTypes, SettingsTypes DEF EnrollLoad
<1>15. ASSUME NEW r \in Req, UpsertTOTPSecret(r) PROVE TypeInv'
  <2>1. AccountTypes'
    BY <1>15, BoundsAssumption DEF UpsertTOTPSecret, AccountTypes, TOTPSecret, Unconfirmed
  <2> QED BY <1>15, <2>1, <1>k, DoneTypes DEF UpsertTOTPSecret
<1>16. ASSUME NEW r \in Req, NEW b \in Browser, VerifyEnrollLoad(r, b) PROVE TypeInv'
  <2> DEFINE q == [Begin(b, "confirm") EXCEPT !.secret = secret.id]
  <2>1. q \in Request /\ Carries(q)
    BY BeginType DEF PC, Settings, Carries, Request, AccountTypes, TOTPSecret
  <2> HIDE DEF q
  <2> QED BY <1>16, <2>1, GoTypes, SettingsTypes DEF VerifyEnrollLoad, q
<1>17. ASSUME NEW r \in Req, EnableTOTP(r) PROVE TypeInv'
  <2>1. req[r].secret \in 0..MaxSecret
    BY <1>r DEF Request
  <2>2. AccountTypes'
    BY <1>17, <2>1, FreshBatchType DEF EnableTOTP, AccountTypes, TOTPSecret, User
  <2> QED BY <1>17, <2>2, <1>k, DoneTypes DEF EnableTOTP
<1>18. ASSUME NEW r \in Req, NEW b \in Browser, NEW p \in Password, DisableLoad(r, b, p)
       PROVE  TypeInv'
  <2>1. Begin(b, "disable") \in Request /\ Carries(Begin(b, "disable"))
    BY BeginType DEF PC, Settings, Carries
  <2> QED BY <1>18, <2>1, GoTypes, SettingsTypes DEF DisableLoad
<1>19. ASSUME NEW r \in Req, DisableTx(r) PROVE TypeInv'
  <2>1. AccountTypes'
    <3>1. NoSecret \in TOTPSecret
      BY BoundsAssumption DEF TOTPSecret, NoSecret, Unconfirmed
    <3> QED BY <1>19, <3>1 DEF DisableTx, AccountTypes, CodesRow, User
  <2> QED BY <1>19, <2>1, <1>k, DoneTypes DEF DisableTx
<1>20. ASSUME NEW r \in Req, NEW b \in Browser, NEW p \in Password, RegenerateLoad(r, b, p)
       PROVE  TypeInv'
  <2>1. Begin(b, "regenerate") \in Request /\ Carries(Begin(b, "regenerate"))
    BY BeginType DEF PC, Settings, Carries
  <2> QED BY <1>20, <2>1, GoTypes, SettingsTypes DEF RegenerateLoad
<1>21. ASSUME NEW r \in Req, RegenerateTx(r) PROVE TypeInv'
  <2>1. AccountTypes'
    BY <1>21, FreshBatchType DEF RegenerateTx, AccountTypes
  <2> QED BY <1>21, <2>1, <1>k, DoneTypes DEF RegenerateTx
<1>22. ASSUME NEW r \in Req, NEW b \in Browser, NEW p \in Password, NEW new \in Password,
              ChangeLoad(r, b, p, new) PROVE TypeInv'
  <2> DEFINE q == [Begin(b, "change") EXCEPT !.password = new, !.snap = user]
  <2>0. "change" \in PC /\ user \in User
    BY DEF PC, Settings, AccountTypes
  <2>1. q \in Request /\ q.pc = "change" /\ q.code = NoCode
    <3> DEFINE q0 == Begin(b, "change")
    <3>1. q0 \in Request /\ q0.pc = "change" /\ q0.code = NoCode
      BY <2>0, BeginType
    <3>2. q = [q0 EXCEPT !.password = new, !.snap = user]
      OBVIOUS
    <3> HIDE DEF q0
    <3> QED BY <2>0, <3>1, <3>2 DEF Request
  <2>2. Carries(q)
    BY <2>1 DEF Carries
  <2> HIDE DEF q
  <2> QED BY <1>22, <2>1, <2>2, GoTypes, SettingsTypes DEF ChangeLoad, q
<1>23. ASSUME NEW r \in Req, UpdatePasswordHash(r) PROVE TypeInv'
  <2> DEFINE q == [req[r] EXCEPT !.pc = "revoke"]
  <2>1. q \in Request /\ q.pc = "revoke" /\ q.code = req[r].code
    BY <1>r DEF PC, Settings, Request
  <2>2. Carries(q)
    BY <1>23, <2>1, <1>r DEF Carries, UpdatePasswordHash, At
  <2> HIDE DEF q
  <2>3. ReqTypes'
    BY <1>23, <2>1, <2>2, GoTypes DEF UpdatePasswordHash, q
  <2>4. req[r].password \in Password /\ req[r].snap.password \in Password
    BY <1>r DEF Request, User
  <2>5. AccountTypes' /\ CountTypes'
    BY <1>23, <2>4 DEF UpdatePasswordHash, AccountTypes, CountTypes, User
  <2> QED BY <1>23, <2>3, <2>5, <1>k DEF UpdatePasswordHash
<1>24. ASSUME NEW r \in Req, RevokeOtherUserSessions(r) PROVE TypeInv'
  <2>1. SessTypes'
    BY <1>24 DEF RevokeOtherUserSessions, SessTypes, SessionRow
  <2> QED BY <1>24, <2>1, <1>k, DoneTypes DEF RevokeOtherUserSessions
<1>25. ASSUME NEW r \in Req, NEW b \in Browser, NEW p \in Password, LoginLoad(r, b, p)
       PROVE  TypeInv'
  <2> DEFINE q == IF p = user.password THEN [Begin(b, "verify") EXCEPT !.snap = user]
                  ELSE [NoRequest EXCEPT !.pc = "refuse"]
  <2>1. /\ [Begin(b, "verify") EXCEPT !.snap = user] \in Request
        /\ Carries([Begin(b, "verify") EXCEPT !.snap = user])
    BY BeginType DEF PC, Carries, Request, AccountTypes
  <2>2. /\ [NoRequest EXCEPT !.pc = "refuse"] \in Request
        /\ Carries([NoRequest EXCEPT !.pc = "refuse"])
    BY NoRequestType DEF PC, Carries, Request, NoRequest
  <2>3. q \in Request /\ Carries(q)
    BY <2>1, <2>2
  <2> HIDE DEF q
  <2> QED BY <1>25, <2>3, <1>k, GoTypes DEF LoginLoad, q
<1>26. ASSUME NEW b \in Browser, Logout(b) PROVE TypeInv'
  <2>1. SessTypes' /\ JarTypes'
    BY <1>26 DEF Logout, SessTypes, SessionRow, JarTypes, Jar
  <2> QED BY <1>26, <2>1, <1>k DEF Logout
<1>27. ASSUME NEW b \in Browser, NEW s \in Session, DeleteSession(b, s) PROVE TypeInv'
  <2>1. SessTypes'
    BY <1>27 DEF DeleteSession, SessTypes, SessionRow
  <2> QED BY <1>27, <2>1, <1>k DEF DeleteSession
<1>28. ASSUME NEW s \in Session, SessionExpires(s) PROVE TypeInv'
  <2>1. SessTypes'
    BY <1>28 DEF SessionExpires, SessTypes, SessionRow
  <2> QED BY <1>28, <2>1, <1>k DEF SessionExpires
<1>29. ASSUME NEW c \in Challenge, ChallengeExpires(c) PROVE TypeInv'
  <2>1. ChalTypes'
    BY <1>29 DEF ChallengeExpires, ChalTypes, LoginChallenge
  <2> QED BY <1>29, <2>1, <1>k DEF ChallengeExpires
<1>30. ASSUME Tick PROVE TypeInv'
  <2>1. SFTypes' /\ CountTypes'
    BY <1>30, AgedType DEF Tick, SF!Tick, SFTypes, CountTypes
  <2> QED BY <1>30, <2>1, <1>k DEF Tick
<1> QED BY <1>u, <1>1, <1>2, <1>3, <1>4, <1>5, <1>6, <1>7, <1>8, <1>9, <1>10, <1>11, <1>12,
           <1>13, <1>14, <1>15, <1>16, <1>17, <1>18, <1>19, <1>20, <1>21, <1>22, <1>23, <1>24,
           <1>25, <1>26, <1>27, <1>28, <1>29, <1>30
  DEF Next, RequestStep, Arrive

\* The types hold of every reachable state, and a request that is about to use
\* a challenge or a recovery code has one.
THEOREM TypesHold == Spec => [](TypeInv /\ TypeOK)
BY InitTypes, NextTypes, TypeInvImplies, PTL DEF Spec

----------------------------------------------------------------------------
(* A second factor signs in once.                                          *)

Won(r, c) == req[r].pc = "won" /\ req[r].chal = c
\* Consumed by the right answer, not by its last wrong one.
Spent(c) == chal[c].st = "consumed" /\ chal[c].attempts < MaxAttempts

\* A challenge has one winner: the request on its way to a session, or the
\* session.
ChallengeInv ==
  /\ \A c \in Challenge : chal[c].st # "consumed" => chal[c].attempts < MaxAttempts
  /\ \A c \in Challenge, s \in Session : sess[s].via = c => Spent(c)
  /\ \A c \in Challenge, r \in Req : Won(r, c) =>
       /\ Spent(c)
       /\ \A s \in Session : sess[s].via # c
       /\ \A q \in Req : Won(q, c) => q = r
  /\ \A s, t \in Session : s # t /\ sess[s].via # None => sess[s].via # sess[t].via

\* A recovery code that is in a request or in a session is unused no longer,
\* and is in no other.
Used(k) == k.batch <= codes.batch /\ (k.batch = codes.batch => k.code \notin codes.unused)
CodeInv ==
  /\ \A s \in Session : sess[s].code # NoCode => Used(sess[s].code)
  /\ \A r \in Req : req[r].code # NoCode =>
       /\ Used(req[r].code)
       /\ \A s \in Session : sess[s].code # req[r].code
       /\ \A q \in Req : req[q].code = req[r].code => q = r
  /\ \A s, t \in Session : s # t /\ sess[s].code # NoCode => sess[s].code # sess[t].code

\* A step that makes no session, no winner and no attempt on a challenge, and
\* takes no recovery code.
SameSessions ==
  \A s \in Session : sess'[s].via = sess[s].via /\ sess'[s].code = sess[s].code
SameChallenges ==
  \A c \in Challenge : /\ chal'[c].attempts = chal[c].attempts
                       /\ chal'[c].st = "consumed" <=> chal[c].st = "consumed"
NoWinner ==
  \A r \in Req : /\ req'[r].pc = "won" => req[r].pc = "won" /\ req'[r].chal = req[r].chal
                 /\ req'[r].code \in {NoCode, req[r].code}
CodesOnlyFresh ==
  /\ codes'.batch >= codes.batch
  /\ codes'.batch = codes.batch => codes'.unused \subseteq codes.unused
Quiet == SameSessions /\ SameChallenges /\ NoWinner /\ CodesOnlyFresh

LEMMA QuietKeeps ==
  ASSUME TypeInv, TypeInv', ChallengeInv, CodeInv, Quiet
  PROVE  ChallengeInv' /\ CodeInv'
<1>1. ChallengeInv'
  BY DEF Quiet, SameSessions, SameChallenges, NoWinner, ChallengeInv, Won, Spent
<1>t. /\ codes.batch \in Int /\ codes'.batch \in Int
      /\ \A s \in Session : sess[s].code.batch \in Int
      /\ \A r \in Req : req[r].code.batch \in Int
  BY DEF TypeInv, AccountTypes, CodesRow, SessTypes, SessionRow, ReqTypes, Request, Code
<1>2. ASSUME NEW k \in Code, Used(k) PROVE Used(k)'
  <2>1. k.batch \in Int
    BY DEF Code
  <2> QED BY <1>t, <1>2, <2>1 DEF Quiet, CodesOnlyFresh, Used
<1>c. /\ \A s \in Session : sess[s].code \in Code
      /\ \A r \in Req : req[r].code \in Code
  BY DEF TypeInv, SessTypes, SessionRow, ReqTypes, Request
<1>3. ASSUME NEW s \in Session, sess'[s].code # NoCode PROVE Used(sess[s].code)'
  BY <1>2, <1>3, <1>c DEF Quiet, SameSessions, CodeInv
<1>4. ASSUME NEW r \in Req, req'[r].code # NoCode
      PROVE  /\ req'[r].code = req[r].code
             /\ Used(req[r].code)'
             /\ \A s \in Session : sess'[s].code # req'[r].code
             /\ \A q \in Req : req'[q].code = req'[r].code => q = r
  BY <1>2, <1>4, <1>c DEF Quiet, NoWinner, SameSessions, CodeInv
<1>5. CodeInv'
  BY <1>3, <1>4 DEF Quiet, SameSessions, CodeInv
<1> QED BY <1>1, <1>5

\* A request moves on and wins nothing.
LEMMA GoQuiet ==
  ASSUME ReqTypes, NEW r \in Req, NEW q, Go(r, q),
         q.pc # "won", q.code \in {NoCode, req[r].code}
  PROVE  NoWinner
BY DEF ReqTypes, Go, NoWinner

LEMMA DoneQuiet ==
  ASSUME ReqTypes, NEW r \in Req, Done(r)
  PROVE  NoWinner
<1>1. NoRequest.pc # "won" /\ NoRequest.code = NoCode
  BY DEF NoRequest
<1> QED BY <1>1, GoQuiet DEF Done

LEMMA SettingsQuiet ==
  ASSUME TypeInv, NEW r \in Req, NEW b \in Browser, SettingsLoad(r, b), NoWinner
  PROVE  Quiet
BY DEF SettingsLoad, Quiet, SameSessions, SameChallenges, CodesOnlyFresh, TypeInv, AccountTypes,
       CodesRow

\* The steps that are about a second factor.
FactorStep(r) ==
  \/ LoginIssue(r) \/ TOTPIssue(r) \/ RecordChallengeFailure(r) \/ ConsumeLoginChallenge(r)
  \/ \E k \in [batch : 1..MaxBatch, code : 1..CodeCount] : ConsumeRecoveryCode(r, k)

\* All others are quiet.
LEMMA QuietSteps ==
  ASSUME TypeInv, [Next]_vars, \A r \in Req : ~FactorStep(r)
  PROVE  Quiet
<1> USE DEF TypeInv
<1>b. codes.batch \in Int
  BY DEF AccountTypes, CodesRow
<1>k. /\ UNCHANGED sess => SameSessions
      /\ UNCHANGED chal => SameChallenges
      /\ UNCHANGED req => NoWinner
      /\ UNCHANGED codes => CodesOnlyFresh
  BY <1>b DEF SameSessions, SameChallenges, NoWinner, CodesOnlyFresh
<1> USE DEF Quiet
<1>u. CASE UNCHANGED vars
  BY <1>u, <1>k DEF vars
<1>r. \A r \in Req : req[r] \in Request /\ Carries(req[r])
  BY DEF ReqTypes
<1>1. ASSUME NEW r \in Req, Fail(r) PROVE Quiet
  BY <1>1, <1>k, DoneQuiet DEF Fail
<1>2. ASSUME NEW r \in Req, LoginRefused(r) PROVE Quiet
  BY <1>2, <1>k, DoneQuiet DEF LoginRefused
<1>3. ASSUME NEW r \in Req, LoginRehash(r) PROVE Quiet
  <2> DEFINE q == [req[r] EXCEPT !.snap.legacy = FALSE]
  <2>1. q.pc = req[r].pc /\ q.chal = req[r].chal /\ q.code = req[r].code
    BY <1>r DEF Request, User
  <2> HIDE DEF q
  <2>2. req[r].pc # "won"
    BY <1>3 DEF LoginRehash, At
  <2> QED BY <1>3, <1>k, <2>1, <2>2, GoQuiet DEF LoginRehash, q
<1>4. ASSUME NEW r \in Req, LoginChallenged(r) PROVE Quiet
  <2>1. SameChallenges
    BY <1>4 DEF LoginChallenged, SameChallenges, ChalTypes, LoginChallenge
  <2> QED BY <1>4, <1>k, <2>1, DoneQuiet DEF LoginChallenged
<1>5. ASSUME NEW r \in Req, Rotate(r) PROVE Quiet
  <2>1. SameSessions
    BY <1>5 DEF Rotate, SameSessions, SessTypes, SessionRow, Live
  <2> QED BY <1>5, <1>k, <2>1, DoneQuiet DEF Rotate
<1>6. ASSUME NEW r \in Req, NEW b \in Browser, TOTPReserve(r, b) PROVE Quiet
  <2> DEFINE q == [Begin(b, "second") EXCEPT !.chal = jar[b].chal]
  <2>1. q.pc = "second" /\ q.code = NoCode
    BY BeginType DEF PC, Request
  <2> HIDE DEF q
  <2> QED BY <1>6, <1>k, <2>1, GoQuiet DEF TOTPReserve, q
<1>7. ASSUME NEW r \in Req, NEW b \in Browser, TOTPExpired(r, b) PROVE Quiet
  BY <1>7, <1>k DEF TOTPExpired
<1>8. ASSUME NEW r \in Req, NEW n \in 0..MaxSecret, TOTPCode(r, n) PROVE Quiet
  <2> DEFINE q == [req[r] EXCEPT !.pc = IF secret.confirmed /\ secret.id = n
                                        THEN "right" ELSE "wrong"]
  <2>1. q.pc \in {"right", "wrong"} /\ q.code = req[r].code
    BY <1>r DEF Request, PC
  <2> HIDE DEF q
  <2> QED BY <1>8, <1>k, <2>1, GoQuiet DEF TOTPCode, q
<1>9. ASSUME NEW r \in Req, NEW b \in Browser, EnrollLoad(r, b) PROVE Quiet
  <2>1. Begin(b, "enroll").pc = "enroll" /\ Begin(b, "enroll").code = NoCode
    BY BeginType DEF PC, Settings
  <2> QED BY <1>9, <2>1, GoQuiet, SettingsQuiet DEF EnrollLoad
<1>10. ASSUME NEW r \in Req, UpsertTOTPSecret(r) PROVE Quiet
  BY <1>10, <1>k, DoneQuiet DEF UpsertTOTPSecret
<1>11. ASSUME NEW r \in Req, NEW b \in Browser, VerifyEnrollLoad(r, b) PROVE Quiet
  <2> DEFINE q == [Begin(b, "confirm") EXCEPT !.secret = secret.id]
  <2>1. q.pc = "confirm" /\ q.code = NoCode
    BY BeginType DEF PC, Settings, Request
  <2> HIDE DEF q
  <2> QED BY <1>11, <2>1, GoQuiet, SettingsQuiet DEF VerifyEnrollLoad, q
<1>12. ASSUME NEW r \in Req, EnableTOTP(r) PROVE Quiet
  <2>1. CodesOnlyFresh
    BY <1>12, <1>b, <1>k, FreshBatchType DEF EnableTOTP, CodesOnlyFresh, AccountTypes
  <2> QED BY <1>12, <1>k, <2>1, DoneQuiet DEF EnableTOTP
<1>13. ASSUME NEW r \in Req, NEW b \in Browser, NEW p \in Password, DisableLoad(r, b, p)
       PROVE  Quiet
  <2>1. Begin(b, "disable").pc = "disable" /\ Begin(b, "disable").code = NoCode
    BY BeginType DEF PC, Settings
  <2> QED BY <1>13, <2>1, GoQuiet, SettingsQuiet DEF DisableLoad
<1>14. ASSUME NEW r \in Req, DisableTx(r) PROVE Quiet
  <2>1. CodesOnlyFresh
    BY <1>14, <1>b DEF DisableTx, CodesOnlyFresh, AccountTypes, CodesRow
  <2> QED BY <1>14, <1>k, <2>1, DoneQuiet DEF DisableTx
<1>15. ASSUME NEW r \in Req, NEW b \in Browser, NEW p \in Password, RegenerateLoad(r, b, p)
       PROVE  Quiet
  <2>1. Begin(b, "regenerate").pc = "regenerate" /\ Begin(b, "regenerate").code = NoCode
    BY BeginType DEF PC, Settings
  <2> QED BY <1>15, <2>1, GoQuiet, SettingsQuiet DEF RegenerateLoad
<1>16. ASSUME NEW r \in Req, RegenerateTx(r) PROVE Quiet
  <2>1. CodesOnlyFresh
    BY <1>16, <1>b, FreshBatchType DEF RegenerateTx, CodesOnlyFresh, AccountTypes
  <2> QED BY <1>16, <1>k, <2>1, DoneQuiet DEF RegenerateTx
<1>17. ASSUME NEW r \in Req, NEW b \in Browser, NEW p \in Password, NEW new \in Password,
              ChangeLoad(r, b, p, new) PROVE Quiet
  <2> DEFINE q0 == Begin(b, "change")
             q == [q0 EXCEPT !.password = new, !.snap = user]
  <2>1. q0 \in Request /\ q0.pc = "change" /\ q0.code = NoCode
    BY BeginType DEF PC, Settings
  <2>2. Go(r, q)
    BY <1>17 DEF ChangeLoad
  <2> HIDE DEF q0
  <2>3. q.pc = "change" /\ q.code = NoCode
    BY <2>1 DEF Request
  <2> HIDE DEF q
  <2> QED BY <1>17, <2>2, <2>3, GoQuiet, SettingsQuiet DEF ChangeLoad
<1>18. ASSUME NEW r \in Req, UpdatePasswordHash(r) PROVE Quiet
  <2> DEFINE q == [req[r] EXCEPT !.pc = "revoke"]
  <2>1. q.pc = "revoke" /\ q.code = req[r].code
    BY <1>r DEF Request
  <2> HIDE DEF q
  <2> QED BY <1>18, <1>k, <2>1, GoQuiet DEF UpdatePasswordHash, q
<1>19. ASSUME NEW r \in Req, RevokeOtherUserSessions(r) PROVE Quiet
  <2>1. SameSessions
    BY <1>19 DEF RevokeOtherUserSessions, SameSessions, SessTypes, SessionRow
  <2> QED BY <1>19, <1>k, <2>1, DoneQuiet DEF RevokeOtherUserSessions
<1>20. ASSUME NEW r \in Req, NEW b \in Browser, NEW p \in Password, LoginLoad(r, b, p) PROVE Quiet
  <2> DEFINE q == IF p = user.password THEN [Begin(b, "verify") EXCEPT !.snap = user]
                  ELSE [NoRequest EXCEPT !.pc = "refuse"]
  <2>1. /\ [Begin(b, "verify") EXCEPT !.snap = user].pc = "verify"
        /\ [Begin(b, "verify") EXCEPT !.snap = user].code = NoCode
    BY BeginType DEF PC, Request
  <2>2. /\ [NoRequest EXCEPT !.pc = "refuse"].pc = "refuse"
        /\ [NoRequest EXCEPT !.pc = "refuse"].code = NoCode
    BY DEF NoRequest
  <2>3. q.pc # "won" /\ q.code = NoCode
    BY <2>1, <2>2
  <2> HIDE DEF q
  <2> QED BY <1>20, <2>3, <1>k, GoQuiet DEF LoginLoad, q
<1>21. ASSUME NEW b \in Browser, Logout(b) PROVE Quiet
  <2>1. SameSessions
    BY <1>21 DEF Logout, SignedIn, Live, SameSessions, SessTypes, SessionRow
  <2> QED BY <1>21, <2>1, <1>k DEF Logout
<1>22. ASSUME NEW b \in Browser, NEW s \in Session, DeleteSession(b, s) PROVE Quiet
  <2>1. SameSessions
    BY <1>22 DEF DeleteSession, SameSessions, SessTypes, SessionRow
  <2> QED BY <1>22, <2>1, <1>k DEF DeleteSession
<1>23. ASSUME NEW s \in Session, SessionExpires(s) PROVE Quiet
  <2>1. SameSessions
    BY <1>23 DEF SessionExpires, SameSessions, SessTypes, SessionRow
  <2> QED BY <1>23, <2>1, <1>k DEF SessionExpires
<1>24. ASSUME NEW c \in Challenge, ChallengeExpires(c) PROVE Quiet
  <2>1. SameChallenges
    BY <1>24 DEF ChallengeExpires, SameChallenges, ChalTypes, LoginChallenge
  <2> QED BY <1>24, <2>1, <1>k DEF ChallengeExpires
<1>25. ASSUME Tick PROVE Quiet
  BY <1>25, <1>k DEF Tick
<1> QED BY <1>u, <1>1, <1>2, <1>3, <1>4, <1>5, <1>6, <1>7, <1>8, <1>9, <1>10, <1>11, <1>12,
           <1>13, <1>14, <1>15, <1>16, <1>17, <1>18, <1>19, <1>20, <1>21, <1>22, <1>23, <1>24,
           <1>25
  DEF Next, RequestStep, Arrive, FactorStep

\* Issue hands the second factor on from the request to the session.
LEMMA IssueKeeps ==
  ASSUME TypeInv, ChallengeInv, CodeInv, NEW r \in Req, Issue(r), UNCHANGED <<chal, codes>>,
         At(r, "won") \/ At(r, "verify")
  PROVE  ChallengeInv' /\ CodeInv'
<1>1. PICK s \in Session :
        /\ sess'[s].via = req[r].chal /\ sess'[s].code = req[r].code
        /\ \A t \in Session : t # s => sess'[t] = sess[t]
  BY IssueTypes
<1>2. /\ req'[r].pc = "rotate" /\ req'[r].code = NoCode
      /\ \A p \in Req : p # r => req'[p] = req[p]
  BY IssueTypes
<1>3. Carries(req[r])
  BY DEF TypeInv, ReqTypes
<1>4. (At(r, "won") /\ req[r].chal \in Challenge) \/ (req[r].chal = None /\ req[r].code = NoCode)
  BY <1>3 DEF Carries, At
<1>5. None \notin Challenge
  BY BoundsAssumption
<1>6. \A c \in Challenge : Spent(c)' <=> Spent(c)
  BY DEF Spent
<1>7. \A p \in Req, c \in Challenge : Won(p, c)' => p # r /\ Won(p, c)
  BY <1>2 DEF Won
<1>8. \A t \in Session : sess'[t].via = IF t = s THEN req[r].chal ELSE sess[t].via
  BY <1>1
<1>c. ChallengeInv'
  <2>1. \A c \in Challenge, t \in Session : sess'[t].via = c => Spent(c)
    BY <1>4, <1>5, <1>8 DEF ChallengeInv, Won, At
  <2>2. ASSUME NEW c \in Challenge, NEW p \in Req, Won(p, c)'
        PROVE  /\ Spent(c)
               /\ \A t \in Session : sess'[t].via # c
               /\ \A q \in Req : Won(q, c)' => q = p
    BY <2>2, <1>4, <1>5, <1>7, <1>8 DEF ChallengeInv, Won, At
  <2>3. \A t, u \in Session : t # u /\ sess'[t].via # None => sess'[t].via # sess'[u].via
    BY <1>4, <1>5, <1>8 DEF ChallengeInv, Won, At
  <2> QED BY <1>6, <2>1, <2>2, <2>3 DEF ChallengeInv
<1>9. \A t \in Session : sess'[t].code = IF t = s THEN req[r].code ELSE sess[t].code
  BY <1>1
<1>k. CodeInv'
  <2>1. \A t \in Session : sess'[t].code # NoCode => Used(sess[t].code)'
    BY <1>9 DEF CodeInv, Used
  <2>2. ASSUME NEW p \in Req, req'[p].code # NoCode
        PROVE  /\ Used(req[p].code)'
               /\ \A t \in Session : sess'[t].code # req'[p].code
               /\ \A q \in Req : req'[q].code = req'[p].code => q = p
    BY <2>2, <1>2, <1>9 DEF CodeInv, Used
  <2>3. \A t, u \in Session : t # u /\ sess'[t].code # NoCode => sess'[t].code # sess'[u].code
    BY <1>9 DEF CodeInv
  <2> QED BY <2>1, <2>2, <2>3 DEF CodeInv
<1> QED BY <1>c, <1>k

\* A wrong answer may use a challenge up, but never one that somebody has won.
LEMMA FailureKeeps ==
  ASSUME TypeInv, ChallengeInv, CodeInv, NEW r \in Req, RecordChallengeFailure(r)
  PROVE  ChallengeInv' /\ CodeInv'
<1> DEFINE c == req[r].chal
<1>1. c \in Challenge
  BY DEF RecordChallengeFailure, TypeInv, ReqTypes, Carries, At
<1>2. NoWinner
  BY DoneQuiet DEF RecordChallengeFailure, TypeInv
<1>3. \A d \in Challenge : d # c \/ chal[c].st \notin {"open", "expired"} => chal'[d] = chal[d]
  BY <1>1 DEF RecordChallengeFailure, TypeInv, ChalTypes
<1>4. chal[c].st \in {"open", "expired"} =>
        /\ chal'[c].st # "consumed" => chal'[c].attempts < MaxAttempts
        /\ ~Spent(c)
  BY <1>1, BoundsAssumption
  DEF RecordChallengeFailure, TypeInv, ChalTypes, LoginChallenge, Spent
<1>5. \A d \in Challenge : Spent(d) => Spent(d)'
  BY <1>3, <1>4 DEF Spent
<1>6. UNCHANGED <<sess, codes>>
  BY DEF RecordChallengeFailure
<1> HIDE DEF c
<1>7. ChallengeInv'
  <2>1. \A d \in Challenge : chal'[d].st # "consumed" => chal'[d].attempts < MaxAttempts
    BY <1>3, <1>4 DEF ChallengeInv
  <2> QED BY <2>1, <1>2, <1>5, <1>6 DEF ChallengeInv, NoWinner, Won
<1>8. CodeInv'
  BY <1>2, <1>6 DEF CodeInv, NoWinner, Used
<1> QED BY <1>7, <1>8

\* The UPDATE ... WHERE consumed_at IS NULL lets one request win.
LEMMA ConsumeKeeps ==
  ASSUME TypeInv, ChallengeInv, CodeInv, NEW r \in Req, ConsumeLoginChallenge(r)
  PROVE  ChallengeInv' /\ CodeInv'
<1>1. PICK c \in Challenge : c = req[r].chal /\ req[r] \in Request
  BY DEF ConsumeLoginChallenge, TypeInv, ReqTypes, Carries, At
<1>2. CASE chal[c].st \in {"open", "expired"}
  <2> DEFINE q == [req[r] EXCEPT !.pc = "won"]
  <2>1. q.pc = "won" /\ q.chal = c /\ q.code = req[r].code
    BY <1>1 DEF Request
  <2>2. req' = [req EXCEPT ![r] = q] /\ UNCHANGED <<sess, codes>>
    BY <1>1, <1>2 DEF ConsumeLoginChallenge, Go
  <2>3. \A d \in Challenge :
          chal'[d] = IF d = c THEN [chal[c] EXCEPT !.st = "consumed"] ELSE chal[d]
    BY <1>1, <1>2 DEF ConsumeLoginChallenge, TypeInv, ChalTypes
  <2>4. chal'[c].st = "consumed" /\ chal'[c].attempts = chal[c].attempts
    BY <1>1, <2>3 DEF TypeInv, ChalTypes, LoginChallenge
  <2>5. ~Spent(c) /\ Spent(c)'
    BY <1>1, <1>2, <2>4 DEF Spent, ChallengeInv
  <2>6. \A d \in Challenge : Spent(d) => Spent(d)'
    BY <2>3, <2>5 DEF Spent
  <2> HIDE DEF q
  <2>7. \A p \in Req : req'[p] = IF p = r THEN q ELSE req[p]
    BY <2>2 DEF TypeInv, ReqTypes
  <2>8. \A p \in Req, d \in Challenge : Won(p, d)' => (p = r /\ d = c) \/ (p # r /\ Won(p, d))
    BY <2>1, <2>7 DEF Won
  <2>9. ChallengeInv'
    <3>1. \A d \in Challenge : chal'[d].st # "consumed" => chal'[d].attempts < MaxAttempts
      BY <2>3, <2>4 DEF ChallengeInv
    <3>2. \A s \in Session : sess[s].via # c
      BY <2>5, <1>1 DEF ChallengeInv
    <3>3. \A p \in Req : ~Won(p, c)
      BY <2>5, <1>1 DEF ChallengeInv
    <3>4. ASSUME NEW d \in Challenge, NEW p \in Req, Won(p, d)'
          PROVE  /\ Spent(d)'
                 /\ \A s \in Session : sess[s].via # d
                 /\ \A o \in Req : Won(o, d)' => o = p
      BY <3>2, <3>3, <3>4, <2>5, <2>6, <2>8 DEF ChallengeInv
    <3> QED BY <3>1, <3>4, <2>2, <2>6 DEF ChallengeInv
  <2>10. CodeInv'
    BY <2>1, <2>2, <2>7 DEF CodeInv, Used
  <2> QED BY <2>9, <2>10
<1>3. CASE ~(chal[c].st \in {"open", "expired"})
  <2>1. Done(r) /\ UNCHANGED <<sess, codes, chal>>
    BY <1>1, <1>3 DEF ConsumeLoginChallenge
  <2>2. Quiet
    BY <2>1, DoneQuiet
    DEF Quiet, SameSessions, SameChallenges, CodesOnlyFresh, TypeInv, AccountTypes, CodesRow
  <2>3. TypeInv'
    BY NextTypes DEF Next, RequestStep
  <2> QED BY <2>2, <2>3, QuietKeeps
<1> QED BY <1>2, <1>3

\* A recovery code is checked and spent by one UPDATE ... WHERE used_at IS NULL.
LEMMA RecoveryKeeps ==
  ASSUME TypeInv, ChallengeInv, CodeInv, NEW r \in Req,
         NEW k \in [batch : 1..MaxBatch, code : 1..CodeCount], ConsumeRecoveryCode(r, k)
  PROVE  ChallengeInv' /\ CodeInv'
<1> DEFINE ok == k.batch = codes.batch /\ k.code \in codes.unused
           q == [req[r] EXCEPT !.pc = IF ok THEN "right" ELSE "wrong",
                               !.code = IF ok THEN k ELSE NoCode]
<1>1. req[r] \in Request /\ codes \in CodesRow /\ req[r].code = NoCode
  BY DEF ConsumeRecoveryCode, TypeInv, ReqTypes, Carries, At, AccountTypes
<1>2. q.pc \in {"right", "wrong"} /\ q.code = IF ok THEN k ELSE NoCode
  BY <1>1 DEF Request
<1>3. Go(r, q) /\ codes' = IF ok THEN [codes EXCEPT !.unused = @ \ {k.code}] ELSE codes
  BY DEF ConsumeRecoveryCode
<1>4. UNCHANGED <<sess, chal>>
  BY DEF ConsumeRecoveryCode
<1>5. /\ codes'.batch = codes.batch /\ codes'.unused \subseteq codes.unused
      /\ ok => k.code \notin codes'.unused
  BY <1>1, <1>3 DEF CodesRow
<1>o. ok => ~Used(k)
  BY DEF Used
<1>i. k.batch \in Int /\ k.batch <= k.batch
  OBVIOUS
<1>p. ok => k.batch <= codes'.batch
  BY <1>5, <1>i
<1> HIDE DEF q
<1>6. \A p \in Req : req'[p] = IF p = r THEN q ELSE req[p]
  BY <1>3 DEF TypeInv, ReqTypes, Go
<1>7. ChallengeInv'
  BY <1>2, <1>4, <1>6 DEF ChallengeInv, Won, Spent
<1>8. CodeInv'
  <2>1. ASSUME NEW s \in Session, sess'[s].code # NoCode PROVE Used(sess[s].code)'
    BY <1>4, <1>5, <2>1 DEF CodeInv, Used
  <2>2. ASSUME NEW p \in Req, req'[p].code # NoCode
        PROVE  /\ Used(req[p].code)'
               /\ \A s \in Session : sess'[s].code # req'[p].code
               /\ \A o \in Req : req'[o].code = req'[p].code => o = p
    <3>1. CASE p # r
      <4>1. Used(req[p].code) /\ Used(req[p].code)'
        BY <3>1, <2>2, <1>5, <1>6 DEF CodeInv, Used
      <4>2. \A s \in Session : sess'[s].code # req'[p].code
        BY <3>1, <2>2, <1>4, <1>6 DEF CodeInv
      <4>3. \A o \in Req : req'[o].code = req'[p].code => o = p
        BY <3>1, <2>2, <4>1, <1>2, <1>o, <1>6 DEF CodeInv
      <4> QED BY <4>1, <4>2, <4>3
    <3>2. CASE p = r
      <4>1. ok /\ req'[p].code = k /\ k # NoCode
        BY <3>2, <2>2, <1>2, <1>6
      <4>2. Used(req[p].code)'
        BY <4>1, <1>5, <1>p DEF Used
      <4>3. \A s \in Session : sess'[s].code # req'[p].code
        BY <4>1, <1>4, <1>o DEF CodeInv
      <4>4. \A o \in Req : req'[o].code = req'[p].code => o = p
        BY <3>2, <4>1, <1>o, <1>6 DEF CodeInv
      <4> QED BY <4>2, <4>3, <4>4
    <3> QED BY <3>1, <3>2
  <2>3. \A s, t \in Session : s # t /\ sess'[s].code # NoCode => sess'[s].code # sess'[t].code
    BY <1>4 DEF CodeInv
  <2> QED BY <2>1, <2>2, <2>3 DEF CodeInv
<1> QED BY <1>7, <1>8

\* One session at most rests on a challenge or on a recovery code, however many
\* requests answer it at once: what LoginTOTP took with it between its
\* statements (ConsumeRecoveryCode, ConsumeLoginChallenge, Issue) nobody else
\* can take, over any number of batches and challenges; and a challenge that its
\* wrong answers used up signs nobody in.
THEOREM FactorsSignInOnce == Spec => []SecondFactorSingleUse
<1>1. Init => ChallengeInv /\ CodeInv
  <2>1. NoRequest.pc = "idle" /\ NoRequest.code = NoCode
    BY DEF NoRequest
  <2> QED BY <2>1, BoundsAssumption DEF Init, ChallengeInv, CodeInv, Won
<1>2. ASSUME TypeInv, ChallengeInv, CodeInv, [Next]_vars PROVE ChallengeInv' /\ CodeInv'
  <2>1. ASSUME NEW r \in Req, LoginIssue(r) \/ TOTPIssue(r) PROVE ChallengeInv' /\ CodeInv'
    BY <1>2, <2>1, IssueKeeps DEF LoginIssue, TOTPIssue, LoginVerified
  <2>2. ASSUME NEW r \in Req, FactorStep(r) PROVE ChallengeInv' /\ CodeInv'
    BY <1>2, <2>1, <2>2, FailureKeeps, ConsumeKeeps, RecoveryKeeps DEF FactorStep
  <2> QED BY <1>2, <2>2, QuietSteps, QuietKeeps, NextTypes
<1>3. TypeInv /\ ChallengeInv /\ CodeInv => SecondFactorSingleUse
  BY DEF TypeInv, SessTypes, SessionRow, ChallengeInv, CodeInv, Spent, SecondFactorSingleUse
<1> QED BY <1>1, <1>2, <1>3, TypesHold, PTL DEF Spec

----------------------------------------------------------------------------
(* Guesses are bounded.                                                    *)

\* Every guess since time last passed is in the streak, and one that reached
\* the threshold locked it.
GuessInv ==
  /\ guessed <= sf["user"].failures /\ guessed <= SFThreshold
  /\ sf["user"].lock = 0 => guessed = 0 \/ sf["user"].failures < SFThreshold

LEMMA ReserveKeepsGuesses ==
  ASSUME TypeInv, GuessInv, NEW r \in Req, NEW b \in Browser, TOTPReserve(r, b)
  PROVE  GuessInv'
<1>1. sf' = [j \in {"user"} |-> SF!Bumped(sf["user"])]
  BY DEF TOTPReserve, SF!Fail
<1>2. sf["user"] \in Streak /\ sf["user"].lock = 0 /\ guessed \in Nat
  BY DEF TOTPReserve, TypeInv, SFTypes, CountTypes
<1>3. sf'["user"] = SF!Bumped(sf["user"])
  BY <1>1
<1>4. guessed' = guessed + 1
  BY DEF TOTPReserve
<1> QED BY <1>2, <1>3, <1>4, BumpedType, BoundsAssumption DEF GuessInv, Streak

\* A password that is known buys no more than secondFactorFailThreshold tries of
\* the second factor at a time, whatever number of challenges it mints and
\* however many requests answer them at once: ReserveSecondFactorAttempt counts
\* it in the critical section that looks at the lock.
THEOREM GuessesAreBounded == Spec => []GuessesBounded
<1>1. Init => GuessInv
  BY ZeroType, BoundsAssumption DEF Init, GuessInv
<1>2. ASSUME TypeInv, GuessInv, [Next]_vars PROVE GuessInv'
  <2>1. ASSUME NEW r \in Req, Rotate(r) PROVE GuessInv'
    <3>1. CASE UNCHANGED <<sf, guessed>>
      BY <1>2, <3>1 DEF GuessInv
    <3>2. CASE SF!Succeed("user") /\ guessed' = 0
      <4>1. sf'["user"] = SF!Zero
        BY <1>2, <3>2 DEF SF!Succeed, TypeInv, SFTypes
      <4> QED BY <3>2, <4>1, ZeroType, BoundsAssumption DEF GuessInv
    <3> QED BY <2>1, <3>1, <3>2 DEF Rotate
  <2>2. ASSUME Tick PROVE GuessInv'
    <3>1. sf'["user"] \in Streak /\ guessed' = 0
      BY <1>2, <2>2, NextTypes DEF Tick, TypeInv, SFTypes
    <3> QED BY <3>1, BoundsAssumption DEF GuessInv, Streak
  <2>3. CASE UNCHANGED <<sf, guessed>>
    BY <1>2, <2>3 DEF GuessInv
  <2>4. ASSUME NEW r \in Req, RequestStep(r) PROVE UNCHANGED <<sf, guessed>> \/ Rotate(r)
    BY <2>4 DEF RequestStep, LoginRehash, LoginRefused, LoginChallenged, LoginIssue, Fail,
       TOTPCode, ConsumeRecoveryCode, RecordChallengeFailure, ConsumeLoginChallenge, TOTPIssue,
       UpsertTOTPSecret, EnableTOTP, DisableTx, RegenerateTx, UpdatePasswordHash,
       RevokeOtherUserSessions
  <2>5. ASSUME NEW r \in Req, NEW b \in Browser, Arrive(r, b)
        PROVE UNCHANGED <<sf, guessed>> \/ TOTPReserve(r, b)
    BY <2>5 DEF Arrive, TOTPExpired, EnrollLoad, VerifyEnrollLoad, LoginLoad, DisableLoad,
       RegenerateLoad, ChangeLoad, SettingsLoad
  <2> QED BY <1>2, <2>1, <2>2, <2>3, <2>4, <2>5, ReserveKeepsGuesses
          DEF Next, vars, Logout, DeleteSession, SessionExpires, ChallengeExpires
<1>3. GuessInv => GuessesBounded
  BY DEF GuessInv, GuessesBounded
<1> QED BY <1>1, <1>2, <1>3, TypesHold, PTL DEF Spec

----------------------------------------------------------------------------
(* TOTP is on exactly with a confirmed secret.                             *)

\* Only one account settings request is under way; what it loaded still holds.
SettingsInv ==
  /\ \A r, q \in Tabs : r = q
  /\ \A r \in Req :
       /\ At(r, "enroll") => ~user.totp
       /\ At(r, "confirm") => req[r].secret = secret.id
       /\ At(r, "regenerate") => user.totp
  /\ TotpSettled

\* A step that leaves the second factor's settings alone and lets no settings
\* request in; recovery codes may be used.
RequestsAside ==
  \A r \in Req : req'[r].pc \in Settings =>
    /\ req[r].pc \in Settings /\ req'[r].pc \in {req[r].pc, "revoke"}
    /\ req'[r].secret = req[r].secret
Aside ==
  /\ user'.totp = user.totp /\ secret' = secret /\ codes'.unused \subseteq codes.unused
  /\ RequestsAside

LEMMA AsideKeeps ==
  ASSUME TypeInv, SettingsInv, Aside
  PROVE  SettingsInv'
<1>1. \A r \in Tabs' : r \in Tabs
  BY DEF Aside, RequestsAside, Tabs
<1>2. \A r \in Req : /\ At(r, "enroll")' => At(r, "enroll")
                     /\ At(r, "confirm")' => At(r, "confirm") /\ req'[r].secret = req[r].secret
                     /\ At(r, "regenerate")' => At(r, "regenerate")
  BY DEF Aside, RequestsAside, Settings, At
<1>3. TotpSettled'
  BY DEF Aside, SettingsInv, TotpSettled
<1> QED BY <1>1, <1>2, <1>3 DEF SettingsInv, Aside

LEMMA GoAside ==
  ASSUME ReqTypes, NEW r \in Req, NEW q, Go(r, q), q.pc \notin Settings
  PROVE  RequestsAside
BY DEF ReqTypes, Go, RequestsAside

LEMMA DoneAside ==
  ASSUME ReqTypes, NEW r \in Req, Done(r)
  PROVE  RequestsAside
<1>1. NoRequest.pc \notin Settings
  BY DEF NoRequest, Settings
<1> QED BY <1>1, GoAside DEF Done

\* The steps that are about the settings of the second factor, or let a settings
\* request in.
SettingsStep(r) ==
  \/ UpsertTOTPSecret(r) \/ EnableTOTP(r) \/ DisableTx(r) \/ RegenerateTx(r)
  \/ \E b \in Browser :
       \/ EnrollLoad(r, b) \/ VerifyEnrollLoad(r, b)
       \/ \E p \in Password :
            \/ DisableLoad(r, b, p) \/ RegenerateLoad(r, b, p)
            \/ \E new \in Password : ChangeLoad(r, b, p, new)

LEMMA AsideSteps ==
  ASSUME TypeInv, [Next]_vars, \A r \in Req : ~SettingsStep(r)
  PROVE  Aside
<1> USE DEF TypeInv
<1>k. /\ UNCHANGED <<user, secret, codes>> => Aside \/ ~RequestsAside
      /\ UNCHANGED req => RequestsAside
  BY DEF Aside, RequestsAside
<1>u. CASE UNCHANGED vars
  BY <1>u, <1>k DEF vars
<1>r. \A r \in Req : req[r] \in Request /\ Carries(req[r])
  BY DEF ReqTypes
<1>1. ASSUME NEW r \in Req, Fail(r) PROVE Aside
  BY <1>1, <1>k, DoneAside DEF Fail
<1>2. ASSUME NEW r \in Req, LoginRefused(r) PROVE Aside
  BY <1>2, <1>k, DoneAside DEF LoginRefused
<1>3. ASSUME NEW r \in Req, LoginRehash(r) PROVE Aside
  <2> DEFINE q == [req[r] EXCEPT !.snap.legacy = FALSE]
  <2>1. q.pc = req[r].pc
    BY <1>r DEF Request, User
  <2> HIDE DEF q
  <2>2. req[r].pc \notin Settings
    BY <1>3 DEF LoginRehash, At, Settings
  <2>3. RequestsAside
    BY <1>3, <2>1, <2>2, GoAside DEF LoginRehash, q
  <2>4. user'.totp = user.totp
    BY <1>3 DEF LoginRehash, AccountTypes, User
  <2> QED BY <1>3, <2>3, <2>4 DEF LoginRehash, Aside
<1>4. ASSUME NEW r \in Req, LoginChallenged(r) PROVE Aside
  BY <1>4, <1>k, DoneAside DEF LoginChallenged
<1>5. ASSUME NEW r \in Req, LoginIssue(r) \/ TOTPIssue(r) PROVE Aside
  <2>1. RequestsAside
    BY <1>5, IssueTypes DEF LoginIssue, TOTPIssue, RequestsAside, Settings
  <2> QED BY <1>5, <2>1, <1>k DEF LoginIssue, TOTPIssue
<1>6. ASSUME NEW r \in Req, Rotate(r) PROVE Aside
  BY <1>6, <1>k, DoneAside DEF Rotate
<1>7. ASSUME NEW r \in Req, NEW b \in Browser, TOTPReserve(r, b) PROVE Aside
  <2> DEFINE q == [Begin(b, "second") EXCEPT !.chal = jar[b].chal]
  <2>1. q.pc \notin Settings
    BY BeginType DEF PC, Request, Settings
  <2> HIDE DEF q
  <2> QED BY <1>7, <1>k, <2>1, GoAside DEF TOTPReserve, q
<1>8. ASSUME NEW r \in Req, NEW b \in Browser, TOTPExpired(r, b) PROVE Aside
  BY <1>8, <1>k DEF TOTPExpired
<1>9. ASSUME NEW r \in Req, NEW n \in 0..MaxSecret, TOTPCode(r, n) PROVE Aside
  <2> DEFINE q == [req[r] EXCEPT !.pc = IF secret.confirmed /\ secret.id = n
                                        THEN "right" ELSE "wrong"]
  <2>1. q.pc \notin Settings
    BY <1>r DEF Request, Settings
  <2> HIDE DEF q
  <2> QED BY <1>9, <1>k, <2>1, GoAside DEF TOTPCode, q
<1>10. ASSUME NEW r \in Req, NEW k \in [batch : 1..MaxBatch, code : 1..CodeCount],
              ConsumeRecoveryCode(r, k) PROVE Aside
  <2> DEFINE ok == k.batch = codes.batch /\ k.code \in codes.unused
             q == [req[r] EXCEPT !.pc = IF ok THEN "right" ELSE "wrong",
                                 !.code = IF ok THEN k ELSE NoCode]
  <2>1. q.pc \notin Settings
    BY <1>r DEF Request, Settings
  <2>2. Go(r, q) /\ codes' = IF ok THEN [codes EXCEPT !.unused = @ \ {k.code}] ELSE codes
    BY <1>10 DEF ConsumeRecoveryCode
  <2> HIDE DEF q
  <2>3. codes'.unused \subseteq codes.unused
    BY <2>2 DEF AccountTypes, CodesRow
  <2> QED BY <1>10, <2>1, <2>2, <2>3, GoAside DEF ConsumeRecoveryCode, Aside
<1>11. ASSUME NEW r \in Req, RecordChallengeFailure(r) PROVE Aside
  BY <1>11, <1>k, DoneAside DEF RecordChallengeFailure
<1>12. ASSUME NEW r \in Req, ConsumeLoginChallenge(r) PROVE Aside
  <2> DEFINE q == [req[r] EXCEPT !.pc = "won"]
  <2>1. q.pc \notin Settings
    BY <1>r DEF Request, Settings
  <2>2. Go(r, q) \/ Done(r)
    BY <1>12 DEF ConsumeLoginChallenge
  <2> HIDE DEF q
  <2> QED BY <1>12, <1>k, <2>1, <2>2, GoAside, DoneAside DEF ConsumeLoginChallenge
<1>13. ASSUME NEW r \in Req, UpdatePasswordHash(r) PROVE Aside
  <2> DEFINE q == [req[r] EXCEPT !.pc = "revoke"]
  <2>1. q.pc = "revoke" /\ q.secret = req[r].secret
    BY <1>r DEF Request
  <2>2. Go(r, q) /\ req[r].pc \in Settings
    BY <1>13 DEF UpdatePasswordHash, At, Settings
  <2> HIDE DEF q
  <2>3. RequestsAside
    BY <2>1, <2>2 DEF RequestsAside, Go, ReqTypes
  <2>4. user'.totp = user.totp
    BY <1>13 DEF UpdatePasswordHash, AccountTypes, User
  <2> QED BY <1>13, <2>3, <2>4 DEF UpdatePasswordHash, Aside
<1>14. ASSUME NEW r \in Req, RevokeOtherUserSessions(r) PROVE Aside
  BY <1>14, <1>k, DoneAside DEF RevokeOtherUserSessions
<1>15. ASSUME NEW r \in Req, NEW b \in Browser, NEW p \in Password, LoginLoad(r, b, p) PROVE Aside
  <2> DEFINE q == IF p = user.password THEN [Begin(b, "verify") EXCEPT !.snap = user]
                  ELSE [NoRequest EXCEPT !.pc = "refuse"]
  <2>1. [Begin(b, "verify") EXCEPT !.snap = user].pc = "verify"
    BY BeginType DEF PC, Request
  <2>2. [NoRequest EXCEPT !.pc = "refuse"].pc = "refuse"
    BY DEF NoRequest
  <2>3. q.pc \notin Settings
    BY <2>1, <2>2 DEF Settings
  <2> HIDE DEF q
  <2> QED BY <1>15, <2>3, <1>k, GoAside DEF LoginLoad, q
<1>16. ASSUME \/ \E b \in Browser : Logout(b) \/ \E s \in Session : DeleteSession(b, s)
              \/ \E s \in Session : SessionExpires(s)
              \/ \E c \in Challenge : ChallengeExpires(c)
              \/ Tick
       PROVE Aside
  BY <1>16, <1>k DEF Logout, DeleteSession, SessionExpires, ChallengeExpires, Tick
<1>17. ASSUME NEW r \in Req, RequestStep(r) PROVE Aside
  <2>1. ~(UpsertTOTPSecret(r) \/ EnableTOTP(r) \/ DisableTx(r) \/ RegenerateTx(r))
    BY DEF SettingsStep
  <2> QED BY <1>17, <2>1, <1>1, <1>2, <1>3, <1>4, <1>5, <1>6, <1>9, <1>10, <1>11, <1>12, <1>13,
             <1>14 DEF RequestStep
<1>18. ASSUME NEW r \in Req, NEW b \in Browser, Arrive(r, b) PROVE Aside
  <2>1. /\ ~(EnrollLoad(r, b) \/ VerifyEnrollLoad(r, b))
        /\ \A p \in Password : /\ ~(DisableLoad(r, b, p) \/ RegenerateLoad(r, b, p))
                               /\ \A new \in Password : ~ChangeLoad(r, b, p, new)
    BY DEF SettingsStep
  <2> QED BY <1>18, <2>1, <1>7, <1>8, <1>15 DEF Arrive
<1> QED BY <1>u, <1>16, <1>17, <1>18 DEF Next

\* The gate lets a settings request in only when no other is under way.
LEMMA GateOpens ==
  ASSUME TypeInv, SettingsTabs <= 1, NEW r \in Req, NEW b \in Browser, SettingsLoad(r, b)
  PROVE  Tabs = {}
<1>1. Cardinality(Tabs) < 1
  BY BoundsAssumption, FS_Subset, FS_CardinalityType DEF SettingsLoad, Tabs
<1>2. IsFiniteSet(Tabs)
  BY BoundsAssumption, FS_Subset DEF Tabs
<1> QED BY <1>1, <1>2, FS_CardinalityType, FS_EmptySet

\* A request that was let in: it is alone.
LEMMA LoadKeeps ==
  ASSUME TypeInv, SettingsInv, SettingsTabs <= 1, NEW r \in Req, NEW b \in Browser,
         SettingsLoad(r, b), NEW q, Go(r, q),
         q.pc = "enroll" => ~user.totp,
         q.pc = "confirm" => q.secret = secret.id,
         q.pc = "regenerate" => user.totp
  PROVE  SettingsInv'
<1>1. Tabs = {}
  BY GateOpens
<1>2. \A p \in Req : req'[p] = IF p = r THEN q ELSE req[p]
  BY DEF Go, TypeInv, ReqTypes
<1>3. \A p \in Req : req[p].pc \notin Settings
  BY <1>1 DEF Tabs
<1>4. \A p \in Tabs' : p = r
  BY <1>2, <1>3 DEF Tabs
<1>5. UNCHANGED <<user, secret, codes>>
  BY DEF SettingsLoad
<1>6. \A p \in Req : p # r => ~(At(p, "enroll")' \/ At(p, "confirm")' \/ At(p, "regenerate")')
  BY <1>2, <1>3 DEF At, Settings
<1>7. /\ At(r, "enroll")' => ~user'.totp
      /\ At(r, "confirm")' => req'[r].secret = secret'.id
      /\ At(r, "regenerate")' => user'.totp
  BY <1>2, <1>5 DEF At
<1>8. TotpSettled'
  BY <1>5 DEF SettingsInv, TotpSettled
<1> QED BY <1>4, <1>6, <1>7, <1>8 DEF SettingsInv

\* A settings transaction: no other request rests on what it changes.
LEMMA TxKeeps ==
  ASSUME TypeInv, SettingsInv, NEW r \in Req, req[r].pc \in Settings, Done(r), TotpSettled'
  PROVE  SettingsInv'
<1>1. req'[r] = NoRequest /\ \A p \in Req : p # r => req'[p] = req[p]
  BY DoneTypes DEF TypeInv
<1>2. NoRequest.pc \notin Settings
  BY DEF NoRequest, Settings
<1>3. \A p \in Req : p # r => req[p].pc \notin Settings
  BY DEF SettingsInv, Tabs
<1>4. \A p \in Req : req'[p].pc \notin Settings
  BY <1>1, <1>2, <1>3
<1> QED BY <1>4 DEF SettingsInv, Tabs, At, Settings

\* As long as account settings requests come one at a time, TOTP is on exactly
\* with a confirmed secret whose code the owner has shown, and recovery codes
\* exist only then, whatever logins, recovery codes and password changes do in
\* between.  Nothing in the code keeps two tabs apart: with two, RegenerateTx
\* and DisableTx break it.
THEOREM TotpStaysSettled == SettingsTabs <= 1 => (Spec => []TotpSettled)
<1> SUFFICES ASSUME SettingsTabs <= 1 PROVE Spec => []TotpSettled
  OBVIOUS
<1>1. Init => SettingsInv
  <2>1. NoRequest.pc = "idle"
    BY DEF NoRequest
  <2> QED BY <2>1 DEF Init, SettingsInv, Tabs, Settings, At, TotpSettled, NoSecret, Unconfirmed,
                      Batch
<1>2. ASSUME TypeInv, SettingsInv, [Next]_vars PROVE SettingsInv'
  <2> USE <1>2
  <2>1. ASSUME NEW r \in Req, NEW b \in Browser, EnrollLoad(r, b) PROVE SettingsInv'
    <3>1. Begin(b, "enroll").pc = "enroll"
      BY BeginType DEF TypeInv, PC, Settings
    <3> QED BY <2>1, <3>1, LoadKeeps DEF EnrollLoad
  <2>2. ASSUME NEW r \in Req, NEW b \in Browser, VerifyEnrollLoad(r, b) PROVE SettingsInv'
    <3> DEFINE q == [Begin(b, "confirm") EXCEPT !.secret = secret.id]
    <3>1. q.pc = "confirm" /\ q.secret = secret.id
      BY BeginType DEF TypeInv, PC, Settings, Request
    <3> HIDE DEF q
    <3> QED BY <2>2, <3>1, LoadKeeps DEF VerifyEnrollLoad, q
  <2>3. ASSUME NEW r \in Req, NEW b \in Browser, NEW p \in Password, DisableLoad(r, b, p)
        PROVE SettingsInv'
    <3>1. Begin(b, "disable").pc = "disable"
      BY BeginType DEF TypeInv, PC, Settings
    <3> QED BY <2>3, <3>1, LoadKeeps DEF DisableLoad
  <2>4. ASSUME NEW r \in Req, NEW b \in Browser, NEW p \in Password, RegenerateLoad(r, b, p)
        PROVE SettingsInv'
    <3>1. Begin(b, "regenerate").pc = "regenerate"
      BY BeginType DEF TypeInv, PC, Settings
    <3> QED BY <2>4, <3>1, LoadKeeps DEF RegenerateLoad
  <2>5. ASSUME NEW r \in Req, NEW b \in Browser, NEW p \in Password, NEW new \in Password,
               ChangeLoad(r, b, p, new)
        PROVE SettingsInv'
    <3> DEFINE q0 == Begin(b, "change")
               q == [q0 EXCEPT !.password = new, !.snap = user]
    <3>1. q0 \in Request /\ q0.pc = "change"
      BY BeginType DEF TypeInv, PC, Settings
    <3>2. Go(r, q)
      BY <2>5 DEF ChangeLoad
    <3> HIDE DEF q0
    <3>3. q.pc = "change"
      BY <3>1 DEF Request
    <3> HIDE DEF q
    <3> QED BY <2>5, <3>2, <3>3, LoadKeeps DEF ChangeLoad
  <2>6. ASSUME NEW r \in Req, UpsertTOTPSecret(r) PROVE SettingsInv'
    <3>1. TotpSettled'
      BY <2>6 DEF UpsertTOTPSecret, SettingsInv, TotpSettled, Unconfirmed
    <3> QED BY <2>6, <3>1, TxKeeps DEF UpsertTOTPSecret, At, Settings
  <2>7. ASSUME NEW r \in Req, EnableTOTP(r) PROVE SettingsInv'
    <3>1. TotpSettled'
      <4>1. CASE secret # NoSecret /\ ~secret.confirmed
        <5>1. secret' = [secret EXCEPT !.confirmed = TRUE, !.proof = req[r].secret]
          BY <2>7, <4>1 DEF EnableTOTP
        <5>2. secret'.confirmed /\ secret'.id = secret'.proof
          BY <2>7, <5>1 DEF EnableTOTP, SettingsInv, TypeInv, AccountTypes, TOTPSecret
        <5>3. user'.totp = TRUE
          BY <2>7, <4>1 DEF EnableTOTP, TypeInv, AccountTypes, User
        <5> QED BY <5>2, <5>3 DEF TotpSettled
      <4>2. CASE ~(secret # NoSecret /\ ~secret.confirmed)
        BY <2>7, <4>2 DEF EnableTOTP, SettingsInv, TotpSettled
      <4> QED BY <4>1, <4>2
    <3> QED BY <2>7, <3>1, TxKeeps DEF EnableTOTP, At, Settings
  <2>8. ASSUME NEW r \in Req, DisableTx(r) PROVE SettingsInv'
    <3>1. secret'.confirmed = FALSE
      BY <2>8 DEF DisableTx, NoSecret, Unconfirmed
    <3>2. codes'.unused = {} /\ user'.totp = FALSE
      BY <2>8 DEF DisableTx, TypeInv, AccountTypes, CodesRow, User
    <3>3. TotpSettled'
      BY <3>1, <3>2 DEF TotpSettled
    <3> QED BY <2>8, <3>3, TxKeeps DEF DisableTx, At, Settings
  <2>9. ASSUME NEW r \in Req, RegenerateTx(r) PROVE SettingsInv'
    <3>1. TotpSettled'
      BY <2>9 DEF RegenerateTx, SettingsInv, TotpSettled
    <3> QED BY <2>9, <3>1, TxKeeps DEF RegenerateTx, At, Settings
  <2>10. ASSUME NEW r \in Req, SettingsStep(r) PROVE SettingsInv'
    BY <2>1, <2>2, <2>3, <2>4, <2>5, <2>6, <2>7, <2>8, <2>9, <2>10 DEF SettingsStep
  <2> QED BY <2>10, AsideSteps, AsideKeeps
<1>3. SettingsInv => TotpSettled
  BY DEF SettingsInv
<1> QED BY <1>1, <1>2, <1>3, TypesHold, PTL DEF Spec

----------------------------------------------------------------------------
(* The request limiter.                                                    *)

ApiRow == [pc : {"idle", "allow", "auth", "remember", "forget"},
           cookie : Cookie \cup {Absent}, key : Account \cup ApiAddress \cup {Absent}]

ApiTypes ==
  /\ IsFiniteSet(DOMAIN buckets)
  /\ IsFiniteSet(DOMAIN marks) /\ DOMAIN marks \subseteq Cookie
  /\ \A c \in DOMAIN marks : marks[c] \in 0..MaxAge
  /\ dead \in [Cookie -> (0..MaxAge) \cup {Absent}]
  /\ apiReq \in [ApiReq -> ApiRow]
  /\ \A r \in ApiReq : apiReq[r].pc \in {"auth", "remember", "forget"} => apiReq[r].cookie \in Cookie

\* A mark is at least as old as the revocation of its cookie: no request that
\* Authenticate turned away refreshes it.
MarksOlder == \A c \in DOMAIN marks : dead[c] = Absent \/ dead[c] <= marks[c]

\* Between the verdict of Authenticate and rememberSession no time passes.
VerdictFresh ==
  \A r \in ApiReq : apiReq[r].pc = "remember" =>
    dead[apiReq[r].cookie] = Absent \/ dead[apiReq[r].cookie] = 0

\* A request that spends an account's budget has a cookie.
SpendsByCookie ==
  \A r \in ApiReq : apiReq[r].pc = "allow" /\ apiReq[r].key \in Account =>
    apiReq[r].cookie \in Cookie

\* Neither map has outgrown its limit.
LimiterRoom == Cardinality(DOMAIN buckets) <= MaxBuckets /\ Cardinality(DOMAIN marks) <= MaxMarks

ApiInv ==
  /\ Api!LimiterConstants
  /\ ApiTypes
  /\ MarksOlder
  /\ VerdictFresh
  /\ SpendsByCookie
  /\ Api!RevokedLapses
  /\ LimiterRoom

\* Once room for one was made, an entry more is not too many.
LEMMA RoomForOne ==
  ASSUME NEW S, NEW K \in SUBSET S, NEW k, NEW n \in Nat \ {0}, IsFiniteSet(S),
         Cardinality(K) < n
  PROVE  IsFiniteSet(K \cup {k}) /\ Cardinality(K \cup {k}) <= n
<1>1. IsFiniteSet(K)
  BY FS_Subset
<1>2. Cardinality(K) \in Nat
  BY <1>1, FS_CardinalityType
<1>3. /\ IsFiniteSet(K \cup {k})
      /\ Cardinality(K \cup {k}) = IF k \in K THEN Cardinality(K) ELSE Cardinality(K) + 1
  BY <1>1, FS_AddElement
<1> QED
  BY <1>2, <1>3

\* The limiter counts with the same Cardinality.
LEMMA ApiCardinality == \A S : Api!Cardinality(S) = Cardinality(S)
BY Zenon DEF Api!Cardinality, Cardinality

LEMMA ApiInit == ASSUME Api!LimiterConstants, Api!Init PROVE ApiInv
<1>1. /\ DOMAIN buckets = {} /\ DOMAIN marks = {}
      /\ apiReq = [r \in ApiReq |-> [pc |-> "idle", cookie |-> Absent, key |-> Absent]]
      /\ dead = [c \in Cookie |-> Absent]
  BY DEF Api!Init, Api!NoRequest
<1>2. IsFiniteSet({}) /\ Cardinality({}) = 0
  BY FS_EmptySet
<1>3. ApiTypes
  BY <1>1, <1>2 DEF ApiTypes, ApiRow
<1>4. LimiterRoom
  BY <1>1, <1>2 DEF LimiterRoom, Api!LimiterConstants
<1> QED
  BY <1>1, <1>3, <1>4 DEF ApiInv, MarksOlder, VerdictFresh, SpendsByCookie, Api!RevokedLapses

\* keyFor: the mark that names the account has not lapsed, and the cookie was
\* revoked no earlier than the mark was made.
LEMMA ApiKeyFor ==
  ASSUME ApiInv, NEW r \in ApiReq, NEW c \in Cookie \cup {Absent}, NEW ip \in ApiAddress,
         Api!KeyFor(r, c, ip)
  PROVE  ApiInv'
<1> DEFINE key == IF Api!Marked(c) THEN UserOf[c] ELSE ip
<1>1. /\ apiReq' = [apiReq EXCEPT ![r] = [pc |-> "allow", cookie |-> c, key |-> key]]
      /\ dead' = dead /\ buckets' = buckets
      /\ DOMAIN marks' \subseteq DOMAIN marks
      /\ \A m \in DOMAIN marks' : marks'[m] = marks[m]
  BY DEF Api!KeyFor
<1>2. Api!Marked(c) => c \in Cookie /\ marks[c] \in 0..MaxAge /\ marks[c] < MarkTTL
  BY DEF Api!Marked, ApiInv, ApiTypes
<1>3. key \in Account \cup ApiAddress /\ (key \in Account => Api!Marked(c))
  BY <1>2 DEF ApiInv, Api!LimiterConstants
<1>4. key \in Account => c \in Cookie /\ (dead[c] = Absent \/ dead[c] < MarkTTL)
  <2>1. SUFFICES ASSUME key \in Account, dead[c] # Absent
                 PROVE  c \in Cookie /\ dead[c] < MarkTTL
    BY <1>2, <1>3
  <2>2. c \in DOMAIN marks /\ c \in Cookie /\ marks[c] < MarkTTL /\ marks[c] \in 0..MaxAge
    BY <1>2, <1>3, <2>1 DEF Api!Marked
  <2>3. dead[c] <= marks[c] /\ dead[c] \in 0..MaxAge
    BY <2>1, <2>2 DEF ApiInv, MarksOlder, ApiTypes
  <2> QED
    BY <2>2, <2>3 DEF ApiInv, Api!LimiterConstants
<1> HIDE DEF key
<1>5. IsFiniteSet(DOMAIN marks') /\ Cardinality(DOMAIN marks') <= Cardinality(DOMAIN marks)
  BY <1>1, FS_Subset DEF ApiInv, ApiTypes
<1>6. ApiTypes'
  BY <1>1, <1>3, <1>5 DEF ApiInv, ApiTypes, ApiRow
<1>7. LimiterRoom'
  <2>1. Cardinality(DOMAIN marks) \in Nat /\ Cardinality(DOMAIN marks') \in Nat
    BY <1>5, FS_CardinalityType DEF ApiInv, ApiTypes
  <2> QED
    BY <1>1, <1>5, <2>1 DEF ApiInv, Api!LimiterConstants, LimiterRoom
<1>8. MarksOlder'
  BY <1>1 DEF ApiInv, MarksOlder
<1>9. VerdictFresh' /\ SpendsByCookie' /\ Api!RevokedLapses'
  BY <1>1, <1>4 DEF ApiInv, ApiTypes, VerdictFresh, SpendsByCookie, Api!RevokedLapses
<1> QED
  BY <1>6, <1>7, <1>8, <1>9 DEF ApiInv, Api!LimiterConstants

\* allow: makeRoomLocked leaves room for the new bucket.
LEMMA ApiAllow ==
  ASSUME ApiInv, NEW r \in ApiReq, Api!Allow(r) PROVE ApiInv'
<1> DEFINE k == apiReq[r].key
<1>1. PICK kept \in SUBSET DOMAIN buckets, prune \in BOOLEAN :
         /\ IF k \in DOMAIN buckets THEN kept = DOMAIN buckets /\ ~prune
            ELSE Api!MakeRoom(kept, prune)
         /\ DOMAIN buckets' = kept \cup {k}
  BY DEF Api!Allow
<1>2. IsFiniteSet(DOMAIN buckets') /\ Cardinality(DOMAIN buckets') <= MaxBuckets
  <2>1. CASE k \in DOMAIN buckets
    <3>1. DOMAIN buckets' = DOMAIN buckets
      BY <1>1, <2>1
    <3> QED
      BY <3>1 DEF ApiInv, ApiTypes, LimiterRoom
  <2>2. CASE k \notin DOMAIN buckets
    <3>1. PICK alive \in SUBSET DOMAIN buckets :
             /\ kept \subseteq alive
             /\ IF Cardinality(alive) < MaxBuckets THEN kept = alive
                ELSE Cardinality(kept) = MaxBuckets - 1
      BY <1>1, <2>2, ApiCardinality, Zenon DEF Api!MakeRoom
    <3>2. Cardinality(kept) < MaxBuckets
      BY <3>1 DEF ApiInv, Api!LimiterConstants
    <3>3. IsFiniteSet(kept \cup {k}) /\ Cardinality(kept \cup {k}) <= MaxBuckets
      BY <3>2, RoomForOne DEF ApiInv, ApiTypes, Api!LimiterConstants
    <3> QED
      BY <1>1, <3>3, Zenon
  <2> QED
    BY <2>1, <2>2
<1>3. /\ marks' = marks /\ dead' = dead
      /\ \/ apiReq' = [apiReq EXCEPT ![r] = [pc |-> "idle", cookie |-> Absent, key |-> Absent]]
         \/ apiReq[r].cookie # Absent /\ apiReq' = [apiReq EXCEPT ![r].pc = "auth"]
  BY DEF Api!Allow, Api!NoRequest
<1>4. ApiTypes'
  BY <1>2, <1>3 DEF ApiInv, ApiTypes, ApiRow
<1>5. VerdictFresh' /\ SpendsByCookie' /\ Api!RevokedLapses'
  BY <1>3 DEF ApiInv, ApiTypes, ApiRow, VerdictFresh, SpendsByCookie, Api!RevokedLapses
<1> QED
  BY <1>2, <1>3, <1>4, <1>5 DEF ApiInv, Api!LimiterConstants, MarksOlder, LimiterRoom

\* Authenticate reads what is revoked now.
LEMMA ApiAuthenticate ==
  ASSUME ApiInv, NEW r \in ApiReq, Api!Authenticate(r) PROVE ApiInv'
<1> DEFINE pc == IF dead[apiReq[r].cookie] = Absent THEN "remember" ELSE "forget"
<1>1. /\ apiReq[r].pc = "auth" /\ apiReq' = [apiReq EXCEPT ![r].pc = pc]
      /\ buckets' = buckets /\ marks' = marks /\ dead' = dead
      /\ pc \in {"remember", "forget"} /\ (pc = "remember" => dead[apiReq[r].cookie] = Absent)
  BY DEF Api!Authenticate
<1> HIDE DEF pc
<1>2. ApiTypes'
  BY <1>1 DEF ApiInv, ApiTypes, ApiRow
<1>3. VerdictFresh' /\ SpendsByCookie' /\ Api!RevokedLapses'
  BY <1>1 DEF ApiInv, ApiTypes, ApiRow, VerdictFresh, SpendsByCookie, Api!RevokedLapses
<1> QED
  BY <1>1, <1>2, <1>3 DEF ApiInv, Api!LimiterConstants, MarksOlder, LimiterRoom

\* rememberSession: the new mark is as old as the verdict, so no older than
\* the revocation, and a full set has lost another.
LEMMA ApiRemember ==
  ASSUME ApiInv, NEW r \in ApiReq, Api!RememberSession(r) PROVE ApiInv'
<1> DEFINE c == apiReq[r].cookie
<1>1. PICK kept \in SUBSET DOMAIN marks :
         /\ IF c \in DOMAIN marks \/ Cardinality(DOMAIN marks) < MaxMarks THEN kept = DOMAIN marks
            ELSE Cardinality(kept) = MaxMarks - 1
         /\ marks' = [m \in kept \cup {c} |-> IF m = c THEN 0 ELSE marks[m]]
  BY ApiCardinality, Zenon DEF Api!RememberSession
<1>2. /\ apiReq[r].pc = "remember" /\ buckets' = buckets /\ dead' = dead
      /\ apiReq' = [apiReq EXCEPT ![r] = [pc |-> "idle", cookie |-> Absent, key |-> Absent]]
  BY DEF Api!RememberSession, Api!NoRequest
<1>3. c \in Cookie /\ (dead[c] = Absent \/ dead[c] = 0)
  BY <1>2 DEF ApiInv, ApiTypes, VerdictFresh
<1>4. IsFiniteSet(DOMAIN marks') /\ Cardinality(DOMAIN marks') <= MaxMarks
  <2>1. CASE c \in DOMAIN marks
    <3>1. DOMAIN marks' = DOMAIN marks
      BY <1>1, <2>1
    <3> QED
      BY <3>1 DEF ApiInv, ApiTypes, LimiterRoom
  <2>2. CASE c \notin DOMAIN marks
    <3>1. Cardinality(kept) < MaxMarks
      BY <1>1, <2>2 DEF ApiInv, Api!LimiterConstants
    <3> QED
      BY <1>1, <3>1, RoomForOne DEF ApiInv, ApiTypes, Api!LimiterConstants
  <2> QED
    BY <2>1, <2>2
<1>5. /\ DOMAIN marks' \subseteq DOMAIN marks \cup {c}
      /\ \A m \in DOMAIN marks' : IF m = c THEN marks'[m] = 0
                                  ELSE m \in DOMAIN marks /\ marks'[m] = marks[m]
  BY <1>1
<1> HIDE DEF c
<1>6. ApiTypes'
  BY <1>2, <1>3, <1>4, <1>5 DEF ApiInv, ApiTypes, ApiRow, Api!LimiterConstants
<1>7. MarksOlder'
  BY <1>2, <1>3, <1>5 DEF ApiInv, MarksOlder
<1>8. VerdictFresh' /\ SpendsByCookie' /\ Api!RevokedLapses'
  BY <1>2 DEF ApiInv, ApiTypes, ApiRow, VerdictFresh, SpendsByCookie, Api!RevokedLapses
<1> QED
  BY <1>2, <1>4, <1>6, <1>7, <1>8 DEF ApiInv, Api!LimiterConstants, LimiterRoom

\* forgetSession.
LEMMA ApiForget ==
  ASSUME ApiInv, NEW r \in ApiReq, Api!ForgetSession(r) PROVE ApiInv'
<1>1. /\ DOMAIN marks' \subseteq DOMAIN marks /\ \A m \in DOMAIN marks' : marks'[m] = marks[m]
      /\ buckets' = buckets /\ dead' = dead
      /\ apiReq' = [apiReq EXCEPT ![r] = [pc |-> "idle", cookie |-> Absent, key |-> Absent]]
  BY DEF Api!ForgetSession, Api!NoRequest
<1>2. IsFiniteSet(DOMAIN marks') /\ Cardinality(DOMAIN marks') <= Cardinality(DOMAIN marks)
  BY <1>1, FS_Subset DEF ApiInv, ApiTypes
<1>3. Cardinality(DOMAIN marks) \in Nat /\ Cardinality(DOMAIN marks') \in Nat
  BY <1>2, FS_CardinalityType DEF ApiInv, ApiTypes
<1>4. LimiterRoom'
  BY <1>1, <1>2, <1>3 DEF ApiInv, Api!LimiterConstants, LimiterRoom
<1>5. ApiTypes'
  BY <1>1, <1>2 DEF ApiInv, ApiTypes, ApiRow
<1>6. VerdictFresh' /\ SpendsByCookie' /\ Api!RevokedLapses'
  BY <1>1 DEF ApiInv, ApiTypes, ApiRow, VerdictFresh, SpendsByCookie, Api!RevokedLapses
<1> QED
  BY <1>1, <1>4, <1>5, <1>6 DEF ApiInv, Api!LimiterConstants, MarksOlder

\* A revocation is younger than any mark, and than any verdict.
LEMMA ApiRevoke ==
  ASSUME ApiInv, NEW c \in Cookie, Api!Revoke(c) PROVE ApiInv'
<1>1. /\ dead' = [dead EXCEPT ![c] = 0]
      /\ buckets' = buckets /\ marks' = marks /\ apiReq' = apiReq
  BY DEF Api!Revoke
<1>2. ApiTypes'
  BY <1>1 DEF ApiInv, ApiTypes, Api!LimiterConstants
<1>3. MarksOlder'
  BY <1>1 DEF ApiInv, ApiTypes, MarksOlder
<1>4. VerdictFresh' /\ SpendsByCookie'
  BY <1>1 DEF ApiInv, ApiTypes, VerdictFresh, SpendsByCookie
<1>5. Api!RevokedLapses'
  BY <1>1 DEF ApiInv, ApiTypes, Api!LimiterConstants, SpendsByCookie, Api!RevokedLapses
<1> QED
  BY <1>1, <1>2, <1>3, <1>4, <1>5 DEF ApiInv, Api!LimiterConstants, LimiterRoom

\* Time passes for marks and revocations alike, and only while no request is
\* past the lookup of Authenticate or before it.
LEMMA ApiTick == ASSUME ApiInv, Api!Tick PROVE ApiInv'
<1>1. /\ \A r \in ApiReq : apiReq[r].pc \in {"idle", "auth"}
      /\ DOMAIN buckets' = DOMAIN buckets /\ apiReq' = apiReq
      /\ DOMAIN marks' = DOMAIN marks
      /\ \A c \in DOMAIN marks : marks'[c] = Api!Older(marks[c])
      /\ dead' = [c \in Cookie |-> Api!Older(dead[c])]
  BY DEF Api!Tick
<1>2. \A a \in 0..MaxAge : /\ Api!Older(a) \in 0..MaxAge
                           /\ \A b \in 0..MaxAge : a <= b => Api!Older(a) <= Api!Older(b)
  BY DEF Api!Older, ApiInv, Api!LimiterConstants
<1>3. Api!Older(Absent) = Absent
  BY DEF Api!Older
<1>4. ApiTypes'
  BY <1>1, <1>2, <1>3 DEF ApiInv, ApiTypes
<1>5. MarksOlder'
  BY <1>1, <1>2, <1>3 DEF ApiInv, ApiTypes, MarksOlder
<1>6. VerdictFresh' /\ SpendsByCookie' /\ Api!RevokedLapses'
  BY <1>1 DEF VerdictFresh, SpendsByCookie, Api!RevokedLapses
<1> QED
  BY <1>1, <1>4, <1>5, <1>6 DEF ApiInv, Api!LimiterConstants, LimiterRoom

LEMMA ApiStep == ASSUME ApiInv, [Api!Next]_Api!vars PROVE ApiInv'
<1>1. CASE UNCHANGED Api!vars
  BY <1>1 DEF ApiInv, Api!LimiterConstants, ApiTypes, MarksOlder, VerdictFresh, SpendsByCookie,
    Api!RevokedLapses, LimiterRoom, Api!vars
<1>2. CASE Api!Next
  BY <1>2, ApiKeyFor, ApiAllow, ApiAuthenticate, ApiRemember, ApiForget, ApiRevoke, ApiTick
    DEF Api!Next
<1> QED
  BY <1>1, <1>2

LEMMA ApiInvHolds == Api!Spec => []ApiInv
<1>1. Api!Init => ApiInv
  BY ApiInit, LimiterHolds
<1>2. ApiInv /\ [Api!Next]_Api!vars => ApiInv'
  BY ApiStep
<1> QED
  BY <1>1, <1>2, PTL DEF Api!Spec

\* A cookie that has been revoked for sessionMarkTTL no longer spends its user's
\* budget, whatever requests with it were in flight (keyFor, rememberSession,
\* forgetSession): for any number of requests, cookies and keys.
THEOREM RevokedCookiesLapse == Api!Spec => []RevokedLapses
<1>1. ApiInv => RevokedLapses
  BY DEF ApiInv, RevokedLapses
<1> QED
  BY <1>1, ApiInvHolds, PTL

----------------------------------------------------------------------------
(* The window per address in front of the login.                           *)

WindowInv ==
  /\ MaxEntries \in Nat \ {0}
  /\ IsFiniteSet(DOMAIN attempts) /\ DOMAIN attempts \subseteq Address
  /\ Cardinality(DOMAIN attempts) <= MaxEntries

LEMMA WindowCardinality == \A S : PerIP!Cardinality(S) = Cardinality(S)
BY Zenon DEF PerIP!Cardinality, Cardinality

LEMMA WindowAllow ==
  ASSUME WindowInv, NEW ip \in Address, PerIP!Allow(ip) PROVE WindowInv'
<1>1. PICK kept \in (IF PerIP!Known(ip) THEN {DOMAIN attempts} ELSE PerIP!MakeRoomForIP) :
        DOMAIN attempts' = kept \cup {ip}
  BY DEF PerIP!Allow
<1>2. CASE ip \in DOMAIN attempts
  <2>1. DOMAIN attempts' = DOMAIN attempts
    BY <1>1, <1>2 DEF PerIP!Known
  <2> QED
    BY <2>1 DEF WindowInv
<1>3. CASE ip \notin DOMAIN attempts
  <2>1. kept \in PerIP!MakeRoomForIP
    BY <1>1, <1>3 DEF PerIP!Known
  <2>2. PerIP!Swept \subseteq DOMAIN attempts
    BY DEF PerIP!Swept
  <2>3. kept \subseteq DOMAIN attempts /\ Cardinality(kept) < MaxEntries
    <3>1. CASE Cardinality(PerIP!Swept) < MaxEntries
      <4>1. kept = PerIP!Swept
        BY <2>1, <3>1, WindowCardinality, Zenon DEF PerIP!MakeRoomForIP
      <4> QED
        BY <2>2, <3>1, <4>1
    <3>2. CASE ~(Cardinality(PerIP!Swept) < MaxEntries)
      <4>0. \A n, S : PerIP!kSubset(n, S) = {s \in SUBSET S : Cardinality(s) = n}
        BY WindowCardinality, Zenon DEF PerIP!kSubset
      <4>1. kept \in PerIP!kSubset(MaxEntries - 1, PerIP!Swept)
        BY <2>1, <3>2, WindowCardinality, Zenon DEF PerIP!MakeRoomForIP
      <4>2. kept \subseteq PerIP!Swept /\ Cardinality(kept) = MaxEntries - 1
        BY <4>0, <4>1, Zenon
      <4> QED
        BY <2>2, <4>2 DEF WindowInv
    <3> QED
      BY <3>1, <3>2
  <2>4. IsFiniteSet(kept \cup {ip}) /\ Cardinality(kept \cup {ip}) <= MaxEntries
    BY <2>3, RoomForOne DEF WindowInv
  <2> QED
    BY <1>1, <2>3, <2>4 DEF WindowInv
<1> QED
  BY <1>2, <1>3

LEMMA WindowStep ==
  ASSUME WindowInv, [PerIP!Next]_PerIP!vars PROVE WindowInv'
<1>1. CASE UNCHANGED PerIP!vars
  BY <1>1 DEF WindowInv, PerIP!vars
<1>2. ASSUME NEW ip \in Address, PerIP!Reset(ip) PROVE WindowInv'
  <2>1. DOMAIN attempts' = DOMAIN attempts \ {ip}
    BY <1>2 DEF PerIP!Reset
  <2>2. IsFiniteSet(DOMAIN attempts') /\ Cardinality(DOMAIN attempts') <= Cardinality(DOMAIN attempts)
    BY <2>1, FS_Subset DEF WindowInv
  <2>3. Cardinality(DOMAIN attempts) \in Nat /\ Cardinality(DOMAIN attempts') \in Nat
    BY <2>2, FS_CardinalityType DEF WindowInv
  <2> QED
    BY <2>1, <2>2, <2>3 DEF WindowInv
<1>3. CASE PerIP!Tick
  <2>1. DOMAIN attempts' = DOMAIN attempts
    BY <1>3 DEF PerIP!Tick
  <2> QED
    BY <2>1 DEF WindowInv
<1> QED
  BY <1>1, <1>2, <1>3, WindowAllow DEF PerIP!Next

LEMMA WindowInvHolds == PerIP!Spec => []WindowInv
<1>1. PerIP!Init => WindowInv
  <2>1. IsFiniteSet({}) /\ Cardinality({}) = 0
    BY FS_EmptySet
  <2> QED
    BY <2>1, WindowHasRoom DEF PerIP!Init, WindowInv
<1>2. WindowInv /\ [PerIP!Next]_PerIP!vars => WindowInv'
  BY WindowStep
<1> QED
  BY <1>1, <1>2, PTL DEF PerIP!Spec

----------------------------------------------------------------------------
(* The failure trackers of the login.                                      *)

Tuple(s, l, p) == [streaks |-> s, locks |-> l, prune |-> p]

\* What policy p says, as far as the entries need it.
Policy(p) ==
  /\ p \in Kind
  /\ Threshold[p] \in Nat \ {0} /\ Decay \in Nat /\ LockMax[p] \in 0..(Decay - 1)
  /\ Failures!FailCap \in Nat /\ Threshold[p] <= Failures!FailCap
  /\ MaxStreaks \in Nat /\ MaxLocks \in Nat

\* An entry under policy p: it has counted a failure, and a lock is one the
\* threshold earned and that ends before the streak decays.
EntryOK(p, s) ==
  /\ s \in [failures : 1..Failures!FailCap, age : 0..(Decay + 1), lock : 0..LockMax[p]]
  /\ s.lock > 0 => s.failures >= Threshold[p] /\ s.lock + s.age <= LockMax[p]

\* The maps of a tracker under policy p.
MapsOK(p, s, l) ==
  /\ IsFiniteSet(DOMAIN s) /\ IsFiniteSet(DOMAIN l)
  /\ DOMAIN s \subseteq Key /\ DOMAIN l \subseteq Key /\ DOMAIN s \cap DOMAIN l = {}
  /\ \A k \in DOMAIN s : EntryOK(p, s[k])
  /\ \A k \in DOMAIN l : EntryOK(p, l[k]) /\ l[k].failures >= Threshold[p]
  /\ Cardinality(DOMAIN s) <= MaxStreaks /\ Cardinality(DOMAIN l) <= MaxLocks

Zero == [failures |-> 0, age |-> 0, lock |-> 0]

\* What counts for key k in the maps s and l.
StandIn(s, l, k) ==
  LET e == IF k \in DOMAIN l THEN l[k] ELSE s[k]
  IN IF k \notin DOMAIN l \cup DOMAIN s \/ Failures!Expired(e) THEN Zero
     ELSE [failures |-> e.failures, age |-> e.age, lock |-> e.lock]

\* The same of a tracker.
TrackerOK(p, t) == t = Tuple(t.streaks, t.locks, t.prune) /\ MapsOK(p, t.streaks, t.locks)
Stand(t, k) == StandIn(t.streaks, t.locks, k)

\* Map n is map m without the keys K.
Less(n, m, K) == DOMAIN n = DOMAIN m \ K /\ \A k \in DOMAIN n : n[k] = m[k]

TrackerInv ==
  /\ Failures!TrackerConstants
  /\ kind \in Kind
  /\ MapsOK(kind, streaks, locks)

LEMMA TrackerCardinality == \A S : Failures!Cardinality(S) = Cardinality(S)
BY Zenon DEF Failures!Cardinality, Cardinality

LEMMA MaxOfTwo ==
  ASSUME NEW a \in Int, NEW b \in Int
  PROVE  Failures!Max({a, b}) = IF a >= b THEN a ELSE b
BY DEF Failures!Max

LEMMA MinOfTwo ==
  ASSUME NEW a \in Int, NEW b \in Int
  PROVE  Failures!Min({a, b}) = IF a <= b THEN a ELSE b
BY DEF Failures!Min

LEMMA PolicyHolds ==
  ASSUME Failures!TrackerConstants, NEW p \in Kind PROVE Policy(p)
<1>1. Kind = {"accounts", "secondFactor"}
  BY DEF Failures!TrackerConstants, Failures!KindAssumption
<1>2. \A q \in Kind : Threshold[q] \in Nat \ {0} /\ LockMax[q] \in 0..(Decay - 1)
  BY DEF Failures!TrackerConstants, Failures!PolicyAssumption
<1>3. Decay \in Nat /\ Width \in Nat
  BY DEF Failures!TrackerConstants, Failures!PolicyAssumption
<1>4. {Threshold[q] : q \in Kind} = {Threshold["accounts"], Threshold["secondFactor"]}
  BY <1>1
<1>5. PICK m : m = Failures!Max({Threshold[q] : q \in Kind})
  OBVIOUS
<1>6. m = IF Threshold["accounts"] >= Threshold["secondFactor"] THEN Threshold["accounts"]
          ELSE Threshold["secondFactor"]
  BY <1>1, <1>2, <1>4, <1>5, MaxOfTwo
<1>7. Failures!FailCap = m + Width
  BY <1>5 DEF Failures!FailCap
<1> QED
  BY <1>1, <1>2, <1>3, <1>6, <1>7 DEF Policy, Failures!TrackerConstants, Failures!MapsAssumption

\* The backoff of the code, shifted in Width bits, is the lock Lockout promises.
LEMMA BackoffIsPromised ==
  ASSUME Failures!TrackerConstants, kind \in Kind, NEW f \in 1..Failures!FailCap, f >= Threshold[kind]
  PROVE  /\ Failures!Backoff(f) = Failures!Promised!LockFor(f)
         /\ Failures!Backoff(f) \in 0..LockMax[kind]
<1>1. Policy(kind)
  BY PolicyHolds
<1>2. /\ LockMax[kind] \in Nat /\ Threshold[kind] \in Nat \ {0} /\ ~(f < Threshold[kind])
      /\ f - Threshold[kind] \in 0..Failures!FailCap
  BY <1>1 DEF Policy
<1>3. CASE Escalate[kind]
  <2>1. PICK n : n = f - Threshold[kind]
    OBVIOUS
  <2>2. PICK x : x = LockBase[kind] * 2^n
    OBVIOUS
  <2>3. PICK b : b = Failures!Shifted(kind, n)
    OBVIOUS
  <2>4. n \in Nat /\ LockBase[kind] \in Int
    BY <1>2, <2>1 DEF Failures!TrackerConstants, Failures!PolicyAssumption
  <2>5. x \in Int
    BY <2>2, <2>4
  <2>6. Failures!Clamped(kind, b) = Failures!Min({x, LockMax[kind]})
    <3>1. n \in 0..Failures!FailCap
      BY <1>2, <2>1
    <3> QED
      BY <1>3, <2>2, <2>3, <3>1, Zenon DEF Failures!TrackerConstants, Failures!ShiftAssumption
  <2>7. Failures!Min({x, LockMax[kind]}) = IF x <= LockMax[kind] THEN x ELSE LockMax[kind]
    BY <1>2, <2>5, MinOfTwo
  <2>8. Failures!Backoff(f) = Failures!Clamped(kind, b)
    BY <1>3, <2>1, <2>3, Zenon DEF Failures!Backoff
  <2>9. Failures!Promised!LockFor(f) = IF x <= LockMax[kind] THEN x ELSE LockMax[kind]
    BY <1>2, <1>3, <2>1, <2>2, Zenon DEF Failures!Promised!LockFor, Failures!Promised!LeastOf
  <2>10. Failures!Clamped(kind, b) \in 0..LockMax[kind]
    <3>1. Failures!Clamped(kind, b) = LockMax[kind] \/ (x <= LockMax[kind] /\ Failures!Clamped(kind, b) = x)
      BY <2>6, <2>7
    <3>2. Failures!Clamped(kind, b) = LockMax[kind] \/ (~(b <= 0) /\ Failures!Clamped(kind, b) = b)
      BY Zenon DEF Failures!Clamped
    <3> QED
      BY <1>2, <2>5, <3>1, <3>2
  <2> QED
    BY <2>6, <2>7, <2>8, <2>9, <2>10
<1>4. CASE ~Escalate[kind]
  <2>1. Failures!Backoff(f) = LockMax[kind]
    BY <1>4 DEF Failures!Backoff
  <2>2. Failures!Promised!LockFor(f) = LockMax[kind]
    BY <1>2, <1>4, Zenon DEF Failures!Promised!LockFor
  <2> QED
    BY <1>2, <2>1, <2>2
<1> QED
  BY <1>3, <1>4

LEMMA Shrink ==
  ASSUME NEW p, NEW s, NEW l, NEW s2, NEW l2, NEW K, NEW L, Policy(p), MapsOK(p, s, l),
         Less(s2, s, K), Less(l2, l, L)
  PROVE  MapsOK(p, s2, l2)
<1>1. DOMAIN s2 \subseteq DOMAIN s /\ DOMAIN l2 \subseteq DOMAIN l
  BY DEF Less
<1>2. IsFiniteSet(DOMAIN s) /\ IsFiniteSet(DOMAIN l)
  BY DEF MapsOK
<1>3. /\ IsFiniteSet(DOMAIN s2) /\ IsFiniteSet(DOMAIN l2)
      /\ Cardinality(DOMAIN s2) <= Cardinality(DOMAIN s)
      /\ Cardinality(DOMAIN l2) <= Cardinality(DOMAIN l)
  BY <1>1, <1>2, FS_Subset
<1>4. /\ Cardinality(DOMAIN s2) \in Nat /\ Cardinality(DOMAIN s) \in Nat
      /\ Cardinality(DOMAIN l2) \in Nat /\ Cardinality(DOMAIN l) \in Nat
  BY <1>2, <1>3, FS_CardinalityType
<1>5. Cardinality(DOMAIN s2) <= MaxStreaks /\ Cardinality(DOMAIN l2) <= MaxLocks
  BY <1>3, <1>4 DEF Policy, MapsOK
<1>6. /\ \A k \in DOMAIN s2 : EntryOK(p, s2[k])
      /\ \A k \in DOMAIN l2 : EntryOK(p, l2[k]) /\ l2[k].failures >= Threshold[p]
  BY <1>1 DEF Less, MapsOK
<1> QED
  BY <1>1, <1>3, <1>5, <1>6 DEF MapsOK

\* What has expired counts for nothing, kept or not.
LEMMA ShrinkExpired ==
  ASSUME NEW p, NEW s, NEW l, NEW s2, NEW l2, NEW K, NEW L, MapsOK(p, s, l),
         Less(s2, s, K), Less(l2, l, L),
         \A k \in K \cap DOMAIN s : Failures!Expired(s[k]),
         \A k \in L \cap DOMAIN l : Failures!Expired(l[k]),
         NEW j
  PROVE  StandIn(s2, l2, j) = StandIn(s, l, j)
<1>1. CASE j \in DOMAIN l
  BY <1>1 DEF MapsOK, Less, StandIn
<1>2. CASE j \notin DOMAIN l
  BY <1>2 DEF Less, StandIn
<1> QED
  BY <1>1, <1>2

LEMMA GetKeeps ==
  ASSUME NEW p, NEW t, NEW k, Policy(p), TrackerOK(p, t)
  PROVE  /\ TrackerOK(p, Failures!Get(t, k))
         /\ \A j : Stand(Failures!Get(t, k), j) = Stand(t, j)
         /\ Failures!Has(Failures!Get(t, k), k) =>
              ~Failures!Expired(Failures!At(Failures!Get(t, k), k))
<1>1. CASE ~(Failures!Has(t, k) /\ Failures!Expired(Failures!At(t, k)))
  <2>1. Failures!Get(t, k) = t
    BY <1>1 DEF Failures!Get
  <2> QED
    BY <1>1, <2>1
<1>2. CASE Failures!Has(t, k) /\ Failures!Expired(Failures!At(t, k))
  <2>1. PICK s, l, n : t = Tuple(s, l, n)
    BY DEF TrackerOK
  <2>2. t.streaks = s /\ t.locks = l /\ t.prune = n
    BY <2>1 DEF Tuple
  <2>3. MapsOK(p, s, l)
    BY <2>2 DEF TrackerOK
  <2> DEFINE s2 == IF k \in DOMAIN l THEN s ELSE Failures!Without(s, {k})
             l2 == Failures!Without(l, {k})
             K == IF k \in DOMAIN l THEN {} ELSE {k}
  <2>4. Failures!Get(t, k) = Tuple(s2, l2, n)
    BY <1>2, <2>1, <2>2 DEF Failures!Get, Tuple
  <2>5. Less(s2, s, K) /\ Less(l2, l, {k})
    BY DEF Less, Failures!Without
  <2>6. /\ \A j \in K \cap DOMAIN s : Failures!Expired(s[j])
        /\ \A j \in {k} \cap DOMAIN l : Failures!Expired(l[j])
    BY <1>2, <2>2 DEF Failures!At
  <2>7. k \notin DOMAIN s2 \cup DOMAIN l2
    BY <2>3, <2>5 DEF Less, MapsOK
  <2> HIDE DEF s2, l2, K
  <2>8. MapsOK(p, s2, l2)
    BY <2>3, <2>5, Shrink
  <2>9. \A j : StandIn(s2, l2, j) = StandIn(s, l, j)
    BY <2>3, <2>5, <2>6, ShrinkExpired
  <2>10. /\ Failures!Get(t, k).streaks = s2 /\ Failures!Get(t, k).locks = l2
         /\ Failures!Get(t, k).prune = n
    BY <2>4 DEF Tuple
  <2>11. ~Failures!Has(Failures!Get(t, k), k)
    BY <2>7, <2>10 DEF Failures!Has
  <2> QED
    BY <2>2, <2>4, <2>8, <2>9, <2>10, <2>11 DEF TrackerOK, Stand
<1> QED
  BY <1>1, <1>2

LEMMA PruneKeeps ==
  ASSUME NEW p, NEW t, Policy(p), TrackerOK(p, t)
  PROVE  /\ TrackerOK(p, Failures!PruneExpired(t))
         /\ \A j : Stand(Failures!PruneExpired(t), j) = Stand(t, j)
<1>1. CASE t.prune < TrackerPrune
  BY <1>1 DEF Failures!PruneExpired
<1>2. CASE ~(t.prune < TrackerPrune)
  <2> DEFINE s == t.streaks
             l == t.locks
             K == {k \in DOMAIN s : Failures!Expired(s[k])}
             L == {k \in DOMAIN l : Failures!Expired(l[k])}
             s2 == Failures!Without(s, K)
             l2 == Failures!Without(l, L)
  <2>1. Failures!PruneExpired(t) = Tuple(s2, l2, 0)
    BY <1>2 DEF Failures!PruneExpired, Tuple
  <2>2. Less(s2, s, K) /\ Less(l2, l, L)
    BY DEF Less, Failures!Without
  <2>3. /\ \A j \in K \cap DOMAIN s : Failures!Expired(s[j])
        /\ \A j \in L \cap DOMAIN l : Failures!Expired(l[j])
    OBVIOUS
  <2>4. MapsOK(p, s, l)
    BY DEF TrackerOK
  <2> HIDE DEF s2, l2, K, L
  <2>5. MapsOK(p, s2, l2)
    BY <2>2, <2>4, Shrink
  <2>6. \A j : StandIn(s2, l2, j) = StandIn(s, l, j)
    BY <2>2, <2>3, <2>4, ShrinkExpired
  <2>7. /\ Failures!PruneExpired(t).streaks = s2 /\ Failures!PruneExpired(t).locks = l2
        /\ Failures!PruneExpired(t).prune = 0
    BY <2>1 DEF Tuple
  <2> QED
    BY <2>1, <2>5, <2>6, <2>7 DEF TrackerOK, Stand
<1> QED
  BY <1>1, <1>2

\* A streak Lockout may forget.
Spare(t, j) == Stand(t, j).lock = 0 /\ Stand(t, j).failures < Threshold[kind]

\* The trackers agree, but for the streaks of F, which are forgotten.
Forgets(u, t, F) == \A j : Stand(u, j) = IF j \in F THEN Zero ELSE Stand(t, j)

LEMMA RoomKeeps ==
  ASSUME Policy(kind), NEW t, TrackerOK(kind, t), NEW u \in Failures!MakeRoom(t)
  PROVE  /\ TrackerOK(kind, u)
         /\ u.locks = t.locks /\ DOMAIN u.streaks \subseteq DOMAIN t.streaks
         /\ Cardinality(DOMAIN u.streaks) < MaxStreaks
         /\ \E F \in SUBSET {j \in DOMAIN t.streaks : Spare(t, j)} :
              Cardinality(F) <= 1 /\ IsFiniteSet(F) /\ Forgets(u, t, F)
<1>1. CASE Cardinality(DOMAIN t.streaks) < MaxStreaks
  <2>1. u = t
    BY <1>1, TrackerCardinality DEF Failures!MakeRoom
  <2>2. IsFiniteSet({}) /\ Cardinality({}) = 0
    BY FS_EmptySet
  <2>3. Forgets(u, t, {})
    BY <2>1 DEF Forgets
  <2> QED
    BY <1>1, <2>1, <2>2, <2>3
<1>2. CASE ~(Cardinality(DOMAIN t.streaks) < MaxStreaks)
  <2>1. PICK e \in DOMAIN t.streaks :
          ~Failures!Protected(t.streaks[e]) /\ u = [t EXCEPT !.streaks = Failures!Without(t.streaks, {e})]
    BY <1>2, TrackerCardinality DEF Failures!MakeRoom
  <2> DEFINE s == t.streaks
             l == t.locks
             s2 == Failures!Without(s, {e})
  <2>2. t = Tuple(s, l, t.prune) /\ MapsOK(kind, s, l)
    BY DEF TrackerOK
  <2>3. u = Tuple(s2, l, t.prune)
    BY <2>1, <2>2 DEF Tuple
  <2>4. u.streaks = s2 /\ u.locks = l /\ u.prune = t.prune
    BY <2>3 DEF Tuple
  <2>5. Less(s2, s, {e}) /\ Less(l, l, {})
    BY DEF Less, Failures!Without
  <2>6. MapsOK(kind, s2, l)
    BY <2>2, <2>5, Shrink
  <2>7. TrackerOK(kind, u)
    BY <2>3, <2>4, <2>6 DEF TrackerOK
  <2>8. Cardinality(DOMAIN u.streaks) < MaxStreaks
    <3>1. DOMAIN u.streaks = DOMAIN s \ {e}
      BY <2>4, <2>5 DEF Less
    <3>2. IsFiniteSet(DOMAIN s) /\ Cardinality(DOMAIN s) \in Nat /\ Cardinality(DOMAIN s) <= MaxStreaks
      BY <2>2, FS_CardinalityType DEF MapsOK
    <3>3. Cardinality(DOMAIN s \ {e}) = Cardinality(DOMAIN s) - 1
      BY <3>2, FS_RemoveElement
    <3> QED
      BY <3>1, <3>2, <3>3 DEF Policy
  <2>9. Spare(t, e)
    <3>1. e \notin DOMAIN l /\ EntryOK(kind, s[e])
      BY <2>2 DEF MapsOK
    <3>2. Stand(t, e) = IF Failures!Expired(s[e]) THEN Zero
                        ELSE [failures |-> s[e].failures, age |-> s[e].age, lock |-> s[e].lock]
      BY <3>1 DEF Stand, StandIn
    <3>3. CASE Failures!Expired(s[e])
      BY <3>2, <3>3 DEF Spare, Zero, Policy
    <3>4. CASE ~Failures!Expired(s[e])
      BY <2>1, <3>1, <3>2, <3>4 DEF Spare, EntryOK, Policy, Failures!Protected
    <3> QED
      BY <3>3, <3>4
  <2>10. Forgets(u, t, {e})
    <3>1. SUFFICES ASSUME NEW j PROVE Stand(u, j) = IF j \in {e} THEN Zero ELSE Stand(t, j)
      BY DEF Forgets
    <3>2. CASE j = e
      <4>1. e \notin DOMAIN s2 /\ e \notin DOMAIN l
        BY <2>2, <2>5 DEF MapsOK, Less
      <4> QED
        BY <2>4, <3>2, <4>1 DEF Stand, StandIn
    <3>3. CASE j # e
      BY <2>4, <2>5, <3>3 DEF Stand, StandIn, Less
    <3> QED
      BY <3>2, <3>3
  <2>11. IsFiniteSet({e}) /\ Cardinality({e}) = 1
    BY FS_Singleton
  <2>12. {e} \in SUBSET {j \in DOMAIN t.streaks : Spare(t, j)}
    BY <2>1, <2>9
  <2> QED
    BY <2>4, <2>5, <2>7, <2>8, <2>10, <2>11, <2>12 DEF Less
<1> QED
  BY <1>1, <1>2

\* One more failure, in an entry that counts n of them.
LEMMA CountedOK ==
  ASSUME Failures!TrackerConstants, kind \in Kind, NEW n \in 0..Failures!FailCap,
         NEW s \in [failures : 0..Failures!FailCap, age : 0..(Decay + 1), lock : 0..LockMax[kind]],
         IF s.age > Decay THEN n = 0 ELSE n = s.failures,
         s.lock > 0 => n >= Threshold[kind],
         NEW z, z.failures = n
  PROVE  /\ EntryOK(kind, Failures!Counted(s)) /\ ~Failures!Expired(Failures!Counted(s))
         /\ n >= Threshold[kind] => Failures!Counted(s).failures >= Threshold[kind]
         /\ Failures!Counted(s) = Failures!Promised!Bumped(z)
<1>1. Policy(kind)
  BY PolicyHolds
<1>2. PICK f : f = Failures!Promised!LeastOf(n + 1, Failures!FailCap)
  OBVIOUS
<1>3. f \in 1..Failures!FailCap /\ (n >= Threshold[kind] => f >= Threshold[kind])
  BY <1>1, <1>2 DEF Policy, Failures!Promised!LeastOf
<1>4. Failures!Min({Failures!FailCap, IF s.age > Decay THEN 1 ELSE s.failures + 1}) = f
  <2>1. PICK m \in Int : m = IF s.age > Decay THEN 1 ELSE s.failures + 1
    BY <1>1 DEF Policy
  <2>2. m = n + 1
    BY <1>1, <2>1 DEF Policy
  <2>3. Failures!Min({Failures!FailCap, m}) = f
    BY <1>1, <1>2, <2>2, MinOfTwo DEF Policy, Failures!Promised!LeastOf
  <2> QED
    BY <2>1, <2>3
<1>5. Failures!Promised!Bumped(z) = [failures |-> f, age |-> 0, lock |-> Failures!Promised!LockFor(f)]
  BY <1>2, Zenon DEF Failures!Promised!Bumped
<1>6. CASE f >= Threshold[kind]
  <2>1. PICK b \in 0..LockMax[kind] : b = Failures!Backoff(f) /\ b = Failures!Promised!LockFor(f)
    BY <1>3, <1>6, BackoffIsPromised
  <2>2. Failures!Counted(s) = [failures |-> f, age |-> 0, lock |-> b]
    BY <1>4, <1>6, <2>1, Zenon DEF Failures!Counted
  <2>3. Failures!Counted(s) = Failures!Promised!Bumped(z)
    BY <1>5, <2>1, <2>2
  <2>4. EntryOK(kind, [failures |-> f, age |-> 0, lock |-> b])
    BY <1>1, <1>3, <1>6, <2>1 DEF EntryOK, Policy
  <2>5. ~Failures!Expired([failures |-> f, age |-> 0, lock |-> b])
    BY <1>1 DEF Policy, Failures!Expired
  <2> QED
    BY <1>6, <2>2, <2>3, <2>4, <2>5
<1>7. CASE ~(f >= Threshold[kind])
  <2>1. s.lock = 0
    BY <1>1, <1>3, <1>7 DEF Policy
  <2>2. Failures!Counted(s) = [s EXCEPT !.failures = f, !.age = 0]
    BY <1>4, <1>7, Zenon DEF Failures!Counted
  <2>3. Failures!Counted(s) = [failures |-> f, age |-> 0, lock |-> 0]
    BY <2>1, <2>2
  <2>4. Failures!Promised!LockFor(f) = 0
    BY <1>1, <1>3, <1>7 DEF Policy, Failures!Promised!LockFor
  <2>5. EntryOK(kind, [failures |-> f, age |-> 0, lock |-> 0])
    BY <1>1, <1>3 DEF EntryOK, Policy
  <2>6. ~Failures!Expired([failures |-> f, age |-> 0, lock |-> 0])
    BY <1>1 DEF Policy, Failures!Expired
  <2> QED
    BY <1>3, <1>5, <1>7, <2>3, <2>4, <2>5, <2>6
<1> QED
  BY <1>6, <1>7

\* Map n is map m with entry e at key k.
Put(n, m, k, e) ==
  DOMAIN n = DOMAIN m \cup {k} /\ \A j \in DOMAIN n : n[j] = IF j = k THEN e ELSE m[j]

\* The maps s2 and l2 are s and l, but that e counts for k.
Placed(p, s2, l2, s, l, k, e) ==
  /\ MapsOK(p, s2, l2) /\ StandIn(s2, l2, k) = e
  /\ \A j : j # k => StandIn(s2, l2, j) = StandIn(s, l, j)

LEMMA PutStreak ==
  ASSUME NEW p, NEW s, NEW l, NEW s2, NEW k \in Key, NEW e, Policy(p), MapsOK(p, s, l),
         k \notin DOMAIN l, k \in DOMAIN s \/ Cardinality(DOMAIN s) < MaxStreaks,
         EntryOK(p, e), ~Failures!Expired(e), Put(s2, s, k, e)
  PROVE  Placed(p, s2, l, s, l, k, e)
<1>1. IsFiniteSet(DOMAIN s2) /\ Cardinality(DOMAIN s2) <= MaxStreaks
  <2>1. IsFiniteSet(DOMAIN s) /\ Cardinality(DOMAIN s) \in Nat /\ Cardinality(DOMAIN s) <= MaxStreaks
    BY FS_CardinalityType DEF MapsOK
  <2>2. /\ IsFiniteSet(DOMAIN s \cup {k})
        /\ Cardinality(DOMAIN s \cup {k}) = IF k \in DOMAIN s THEN Cardinality(DOMAIN s)
                                            ELSE Cardinality(DOMAIN s) + 1
    BY <2>1, FS_AddElement
  <2>3. DOMAIN s2 = DOMAIN s \cup {k}
    BY DEF Put
  <2> QED
    BY <2>1, <2>2, <2>3 DEF Policy
<1>2. \A j \in DOMAIN s2 : EntryOK(p, s2[j])
  BY DEF Put, MapsOK
<1>3. MapsOK(p, s2, l)
  BY <1>1, <1>2 DEF Put, MapsOK
<1>4. StandIn(s2, l, k) = [failures |-> e.failures, age |-> e.age, lock |-> e.lock]
  BY DEF StandIn, Put
<1>5. e = [failures |-> e.failures, age |-> e.age, lock |-> e.lock]
  BY DEF EntryOK
<1> QED
  BY <1>3, <1>4, <1>5 DEF StandIn, Put, Placed

LEMMA PutLock ==
  ASSUME NEW p, NEW s, NEW l, NEW l2, NEW k \in Key, NEW e, Policy(p), MapsOK(p, s, l),
         k \notin DOMAIN s, k \in DOMAIN l \/ Cardinality(DOMAIN l) < MaxLocks,
         EntryOK(p, e), e.failures >= Threshold[p], ~Failures!Expired(e), Put(l2, l, k, e)
  PROVE  Placed(p, s, l2, s, l, k, e)
<1>1. IsFiniteSet(DOMAIN l2) /\ Cardinality(DOMAIN l2) <= MaxLocks
  <2>1. IsFiniteSet(DOMAIN l) /\ Cardinality(DOMAIN l) \in Nat /\ Cardinality(DOMAIN l) <= MaxLocks
    BY FS_CardinalityType DEF MapsOK
  <2>2. /\ IsFiniteSet(DOMAIN l \cup {k})
        /\ Cardinality(DOMAIN l \cup {k}) = IF k \in DOMAIN l THEN Cardinality(DOMAIN l)
                                            ELSE Cardinality(DOMAIN l) + 1
    BY <2>1, FS_AddElement
  <2>3. DOMAIN l2 = DOMAIN l \cup {k}
    BY DEF Put
  <2> QED
    BY <2>1, <2>2, <2>3 DEF Policy
<1>2. \A j \in DOMAIN l2 : EntryOK(p, l2[j]) /\ l2[j].failures >= Threshold[p]
  BY DEF Put, MapsOK
<1>3. MapsOK(p, s, l2)
  BY <1>1, <1>2 DEF Put, MapsOK
<1>4. StandIn(s, l2, k) = [failures |-> e.failures, age |-> e.age, lock |-> e.lock]
  BY DEF StandIn, Put
<1>5. e = [failures |-> e.failures, age |-> e.age, lock |-> e.lock]
  BY DEF EntryOK
<1> QED
  BY <1>3, <1>4, <1>5 DEF StandIn, Put, Placed

\* The tracker v is t with one more failure of k.
Bumps(v, t, k) ==
  /\ Stand(v, k) = Failures!Promised!Bumped(Stand(t, k))
  /\ \A j : j # k => Stand(v, j) = Stand(t, j)

Bump(u, k) ==
  IF k \in DOMAIN u.locks THEN [u EXCEPT !.locks[k] = Failures!Counted(@)]
  ELSE [u EXCEPT !.streaks[k] = Failures!Counted(@)]

\* A failure of a key the tracker has.
LEMMA BumpKnown ==
  ASSUME Failures!TrackerConstants, kind \in Kind, NEW t, TrackerOK(kind, t), NEW k \in Key,
         Failures!Has(t, k), ~Failures!Expired(Failures!At(t, k))
  PROVE  /\ TrackerOK(kind, Bump(t, k)) /\ Bumps(Bump(t, k), t, k)
         /\ Failures!Has(Bump(t, k), k) /\ ~Failures!Expired(Failures!At(Bump(t, k), k))
<1>1. Policy(kind)
  BY PolicyHolds
<1> DEFINE s == t.streaks
           l == t.locks
           n == t.prune
           e == Failures!At(t, k)
<1>2. t = Tuple(s, l, n) /\ MapsOK(kind, s, l)
  BY DEF TrackerOK
<1>3. EntryOK(kind, e) /\ (k \in DOMAIN l => e = l[k] /\ e.failures >= Threshold[kind] /\ k \notin DOMAIN s)
      /\ (k \notin DOMAIN l => e = s[k] /\ k \in DOMAIN s)
  BY <1>2 DEF MapsOK, Failures!At, Failures!Has
<1>4. Stand(t, k) = [failures |-> e.failures, age |-> e.age, lock |-> e.lock]
  BY <1>3 DEF Stand, StandIn
<1>5. ~(e.age > Decay)
  BY <1>1, <1>3 DEF EntryOK, Policy, Failures!Expired
<1>6. e \in [failures : 0..Failures!FailCap, age : 0..(Decay + 1), lock : 0..LockMax[kind]]
      /\ e.failures \in 0..Failures!FailCap /\ (e.lock > 0 => e.failures >= Threshold[kind])
  BY <1>1, <1>3 DEF EntryOK, Policy
<1>7. Stand(t, k).failures = e.failures
  BY <1>4
<1> DEFINE c == Failures!Counted(e)
<1> HIDE DEF e
<1>8. /\ EntryOK(kind, c) /\ ~Failures!Expired(c) /\ c = Failures!Promised!Bumped(Stand(t, k))
      /\ e.failures >= Threshold[kind] => c.failures >= Threshold[kind]
  BY <1>5, <1>6, <1>7, CountedOK
<1> HIDE DEF c
<1>9. CASE k \in DOMAIN l
  <2> DEFINE l2 == [l EXCEPT ![k] = c]
  <2>1. Bump(t, k) = Tuple(s, l2, n)
    BY <1>2, <1>3, <1>9 DEF Bump, Tuple, c
  <2>2. Bump(t, k).streaks = s /\ Bump(t, k).locks = l2 /\ Bump(t, k).prune = n
    BY <2>1 DEF Tuple
  <2>3. Put(l2, l, k, c)
    BY <1>9 DEF Put
  <2> HIDE DEF l2
  <2>4. Placed(kind, s, l2, s, l, k, c)
    BY <1>1, <1>2, <1>3, <1>8, <1>9, <2>3, PutLock
  <2>5. TrackerOK(kind, Bump(t, k))
    BY <2>1, <2>2, <2>4 DEF TrackerOK, Placed
  <2>6. Bumps(Bump(t, k), t, k)
    BY <1>8, <2>2, <2>4 DEF Bumps, Stand, Placed
  <2>7. Failures!Has(Bump(t, k), k) /\ Failures!At(Bump(t, k), k) = c
    BY <2>2, <2>3 DEF Failures!Has, Failures!At, Put
  <2> QED
    BY <1>8, <2>5, <2>6, <2>7
<1>10. CASE k \notin DOMAIN l
  <2> DEFINE s2 == [s EXCEPT ![k] = c]
  <2>1. Bump(t, k) = Tuple(s2, l, n)
    BY <1>2, <1>3, <1>10 DEF Bump, Tuple, c
  <2>2. Bump(t, k).streaks = s2 /\ Bump(t, k).locks = l /\ Bump(t, k).prune = n
    BY <2>1 DEF Tuple
  <2>3. Put(s2, s, k, c)
    BY <1>3, <1>10 DEF Put
  <2> HIDE DEF s2, s, l, n
  <2>4. Placed(kind, s2, l, s, l, k, c)
    BY <1>1, <1>2, <1>3, <1>8, <1>10, <2>3, PutStreak
  <2>5. TrackerOK(kind, Bump(t, k))
    BY <2>1, <2>2, <2>4 DEF TrackerOK, Placed
  <2>6. Bumps(Bump(t, k), t, k)
    BY <1>8, <2>2, <2>4 DEF Bumps, Stand, Placed, s, l
  <2>7. Failures!Has(Bump(t, k), k) /\ Failures!At(Bump(t, k), k) = c
    BY <1>10, <2>2, <2>3 DEF Failures!Has, Failures!At, Put
  <2> QED
    BY <1>8, <2>5, <2>6, <2>7
<1> QED
  BY <1>9, <1>10

\* A failure of a key the tracker does not have, where there is room.
LEMMA BumpNew ==
  ASSUME Failures!TrackerConstants, kind \in Kind, NEW u, TrackerOK(kind, u), NEW k \in Key,
         ~Failures!Has(u, k), Cardinality(DOMAIN u.streaks) < MaxStreaks,
         NEW v, v = Bump([u EXCEPT !.streaks = Failures!With(u.streaks, k, Failures!NewEntry)], k)
  PROVE  /\ TrackerOK(kind, v) /\ Bumps(v, u, k)
         /\ Failures!Has(v, k) /\ ~Failures!Expired(Failures!At(v, k))
<1>1. Policy(kind)
  BY PolicyHolds
<1> DEFINE s == u.streaks
           l == u.locks
           n == u.prune
           e == Failures!NewEntry
           w == Failures!With(s, k, e)
           c == Failures!Counted(e)
           s2 == [w EXCEPT ![k] = c]
<1>2. u = Tuple(s, l, n) /\ MapsOK(kind, s, l)
  BY DEF TrackerOK
<1>3. k \notin DOMAIN l /\ k \notin DOMAIN s
  BY DEF Failures!Has
<1>4. Stand(u, k) = Zero
  BY <1>3 DEF Stand, StandIn
<1>5. /\ EntryOK(kind, c) /\ ~Failures!Expired(c)
      /\ c = Failures!Promised!Bumped(Stand(u, k))
  <2>1. Stand(u, k).failures = 0
    BY <1>4 DEF Zero
  <2>2. /\ e \in [failures : 0..Failures!FailCap, age : 0..(Decay + 1), lock : 0..LockMax[kind]]
        /\ e.age > Decay /\ e.lock = 0 /\ 0 \in 0..Failures!FailCap
    BY <1>1 DEF Policy, Failures!NewEntry
  <2> HIDE DEF e
  <2> QED
    BY <2>1, <2>2, CountedOK
<1>6. DOMAIN w = DOMAIN s \cup {k} /\ w[k] = e /\ \A j \in DOMAIN s : j # k => w[j] = s[j]
  BY DEF Failures!With
<1>7. Put(s2, s, k, c)
  <2> HIDE DEF w, c
  <2> QED
    BY <1>6 DEF Put
<1>8. v = Tuple(s2, l, n)
  <2>1. [u EXCEPT !.streaks = w] = Tuple(w, l, n)
    BY <1>2 DEF Tuple
  <2> HIDE DEF w, e
  <2>2. Bump(Tuple(w, l, n), k) = Tuple([w EXCEPT ![k] = Failures!Counted(w[k])], l, n)
    BY <1>3 DEF Bump, Tuple
  <2> QED
    BY <1>6, <2>1, <2>2 DEF w, e
<1>9. v.streaks = s2 /\ v.locks = l /\ v.prune = n
  BY <1>8 DEF Tuple
<1>10. Cardinality(DOMAIN s) < MaxStreaks
  OBVIOUS
<1> HIDE DEF s2, c, s, l, n, w, e
<1>11. Placed(kind, s2, l, s, l, k, c)
  BY <1>1, <1>2, <1>3, <1>5, <1>7, <1>10, PutStreak
<1>12. TrackerOK(kind, v)
  BY <1>8, <1>9, <1>11 DEF TrackerOK, Placed
<1>13. Bumps(v, u, k)
  BY <1>5, <1>9, <1>11 DEF Bumps, Stand, Placed, s, l
<1>14. Failures!Has(v, k) /\ Failures!At(v, k) = c
  BY <1>3, <1>7, <1>9 DEF Failures!Has, Failures!At, Put
<1> QED
  BY <1>5, <1>12, <1>13, <1>14

\* The move from one map to the other changes nothing that counts.
LEMMA PromoteKeeps ==
  ASSUME Policy(kind), NEW t, TrackerOK(kind, t), NEW k \in Key,
         Failures!Has(t, k), ~Failures!Expired(Failures!At(t, k))
  PROVE  TrackerOK(kind, Failures!Promote(t, k)) /\ \A j : Stand(Failures!Promote(t, k), j) = Stand(t, j)
<1> DEFINE s == t.streaks
           l == t.locks
           n == t.prune
           moves == /\ k \in DOMAIN s /\ s[k].failures >= Threshold[kind]
                    /\ Cardinality(DOMAIN l) < MaxLocks
<1>1. CASE ~moves
  <2>1. Failures!Promote(t, k) = t
    BY <1>1, TrackerCardinality, Zenon DEF Failures!Promote
  <2> QED
    BY <2>1
<1>2. CASE moves
  <2> DEFINE e == s[k]
             s2 == Failures!Without(s, {k})
             l2 == Failures!With(l, k, e)
  <2>1. t = Tuple(s, l, n) /\ MapsOK(kind, s, l)
    BY DEF TrackerOK
  <2>2. Failures!Promote(t, k) = [t EXCEPT !.streaks = s2, !.locks = l2]
    BY <1>2, TrackerCardinality, Zenon DEF Failures!Promote
  <2>3. Failures!Promote(t, k) = Tuple(s2, l2, n)
    BY <2>1, <2>2 DEF Tuple
  <2>4. /\ Failures!Promote(t, k).streaks = s2 /\ Failures!Promote(t, k).locks = l2
        /\ Failures!Promote(t, k).prune = n
    BY <2>3 DEF Tuple
  <2>5. Less(s2, s, {k}) /\ Less(l, l, {}) /\ Put(l2, l, k, e)
    BY DEF Less, Put, Failures!Without, Failures!With
  <2>6. k \notin DOMAIN l /\ EntryOK(kind, e) /\ ~Failures!Expired(e)
    BY <1>2, <2>1 DEF MapsOK, Failures!At
  <2>7. StandIn(s, l, k) = e
    <3>1. e = [failures |-> e.failures, age |-> e.age, lock |-> e.lock]
      BY <2>6 DEF EntryOK
    <3> HIDE DEF s, l
    <3> QED
      BY <1>2, <2>6, <3>1 DEF StandIn
  <2>8. k \notin DOMAIN s2 /\ \A j : j # k => StandIn(s2, l, j) = StandIn(s, l, j)
    BY <2>5 DEF Less, StandIn
  <2>9. e.failures >= Threshold[kind] /\ Cardinality(DOMAIN l) < MaxLocks
    BY <1>2
  <2> HIDE DEF s, l, n, e, s2, l2
  <2>10. MapsOK(kind, s2, l)
    BY <2>1, <2>5, Shrink, Zenon
  <2>11. Placed(kind, s2, l2, s2, l, k, e)
    BY <2>5, <2>6, <2>8, <2>9, <2>10, PutLock
  <2>12. \A j : StandIn(s2, l2, j) = StandIn(s, l, j)
    BY <2>7, <2>8, <2>11 DEF Placed
  <2> QED
    BY <2>3, <2>4, <2>11, <2>12 DEF TrackerOK, Stand, Placed, s, l
<1> QED
  BY <1>1, <1>2

\* The tracker v is t with one more failure of k, for which at most one other
\* streak made way.
FailsWith(v, t, k) ==
  \E F \in SUBSET {j \in Key \ {k} : Spare(t, j)} :
    /\ Cardinality(F) <= 1
    /\ Stand(v, k) = Failures!Promised!Bumped(Stand(t, k))
    /\ \A j : j # k => Stand(v, j) = IF j \in F THEN Zero ELSE Stand(t, j)

LEMMA RecordOK ==
  ASSUME Failures!TrackerConstants, kind \in Kind, NEW t0, TrackerOK(kind, t0), NEW k \in Key,
         NEW v \in Failures!RecordIn(t0, k)
  PROVE  TrackerOK(kind, v) /\ FailsWith(v, t0, k)
<1>1. Policy(kind)
  BY PolicyHolds
<1> DEFINE t == Failures!Get(Failures!PruneExpired(t0), k)
<1>2. /\ TrackerOK(kind, t) /\ \A j : Stand(t, j) = Stand(t0, j)
      /\ Failures!Has(t, k) => ~Failures!Expired(Failures!At(t, k))
  <2>1. /\ TrackerOK(kind, Failures!PruneExpired(t0))
        /\ \A j : Stand(Failures!PruneExpired(t0), j) = Stand(t0, j)
    BY <1>1, PruneKeeps
  <2>2. PICK q : q = Failures!PruneExpired(t0)
    OBVIOUS
  <2>3. /\ TrackerOK(kind, Failures!Get(q, k)) /\ \A j : Stand(Failures!Get(q, k), j) = Stand(q, j)
        /\ Failures!Has(Failures!Get(q, k), k) => ~Failures!Expired(Failures!At(Failures!Get(q, k), k))
    BY <1>1, <2>1, <2>2, GetKeeps
  <2> QED
    BY <2>1, <2>2, <2>3
<1>3. PICK w : /\ v = Failures!Promote(Bump(w, k), k)
               /\ \/ Failures!Has(t, k) /\ w = t
                  \/ /\ ~Failures!Has(t, k)
                     /\ \E u \in Failures!MakeRoom(t) :
                          w = [u EXCEPT !.streaks = Failures!With(u.streaks, k, Failures!NewEntry)]
  BY Zenon DEF Failures!RecordIn, Bump
<1> HIDE DEF t
<1>4. CASE Failures!Has(t, k) /\ w = t
  <2>1. PICK b : b = Bump(t, k)
    OBVIOUS
  <2>2. /\ TrackerOK(kind, b) /\ Bumps(b, t, k)
        /\ Failures!Has(b, k) /\ ~Failures!Expired(Failures!At(b, k))
    BY <1>2, <1>4, <2>1, BumpKnown
  <2>3. TrackerOK(kind, v) /\ \A j : Stand(v, j) = Stand(b, j)
    BY <1>1, <1>3, <1>4, <2>1, <2>2, PromoteKeeps
  <2>4. Cardinality({}) = 0
    BY FS_EmptySet
  <2>5. /\ Stand(v, k) = Failures!Promised!Bumped(Stand(t0, k))
        /\ \A j : j # k => Stand(v, j) = Stand(t0, j)
    BY <1>2, <2>2, <2>3 DEF Bumps
  <2> QED
    BY <2>3, <2>4, <2>5 DEF FailsWith
<1>5. CASE ~Failures!Has(t, k) /\ \E u \in Failures!MakeRoom(t) :
             w = [u EXCEPT !.streaks = Failures!With(u.streaks, k, Failures!NewEntry)]
  <2>1. PICK u \in Failures!MakeRoom(t) :
          w = [u EXCEPT !.streaks = Failures!With(u.streaks, k, Failures!NewEntry)]
    BY <1>5
  <2>2. /\ TrackerOK(kind, u) /\ u.locks = t.locks /\ DOMAIN u.streaks \subseteq DOMAIN t.streaks
        /\ Cardinality(DOMAIN u.streaks) < MaxStreaks
    BY <1>1, <1>2, RoomKeeps
  <2>3. PICK F \in SUBSET {j \in DOMAIN t.streaks : Spare(t, j)} :
          Cardinality(F) <= 1 /\ Forgets(u, t, F)
    BY <1>1, <1>2, RoomKeeps
  <2>4. ~Failures!Has(u, k) /\ k \notin DOMAIN t.streaks
    BY <1>5, <2>2 DEF Failures!Has
  <2>5. PICK b : b = Bump(w, k)
    OBVIOUS
  <2>6. /\ TrackerOK(kind, b) /\ Bumps(b, u, k)
        /\ Failures!Has(b, k) /\ ~Failures!Expired(Failures!At(b, k))
    BY <2>1, <2>2, <2>4, <2>5, BumpNew
  <2>7. TrackerOK(kind, v) /\ \A j : Stand(v, j) = Stand(b, j)
    BY <1>1, <1>3, <2>5, <2>6, PromoteKeeps
  <2>8. k \notin F /\ F \in SUBSET {j \in Key \ {k} : Spare(t0, j)}
    BY <1>2, <2>4 DEF TrackerOK, MapsOK, Spare
  <2>9. /\ Stand(v, k) = Failures!Promised!Bumped(Stand(t0, k))
        /\ \A j : j # k => Stand(v, j) = IF j \in F THEN Zero ELSE Stand(t0, j)
    BY <1>2, <2>3, <2>6, <2>7, <2>8 DEF Bumps, Forgets
  <2> QED
    BY <2>3, <2>7, <2>8, <2>9 DEF FailsWith
<1> QED
  BY <1>3, <1>4, <1>5

\* What counts, in this state and in the next.
LEMMA StandingIs ==
  /\ \A j : Failures!Standing(j) = Stand(Failures!Tracker, j)
  /\ \A j : Failures!Standing(j)' = Stand(Tuple(streaks', locks', sincePrune'), j)
<1>1. \A j : Failures!Standing(j) = Stand(Failures!Tracker, j)
  BY DEF Failures!Standing, Failures!Has, Failures!At, Failures!Tracker, Stand, StandIn, Zero
<1>2. \A j : Failures!Standing(j)' = Stand(Tuple(streaks', locks', sincePrune'), j)
  BY DEF Failures!Standing, Failures!Has, Failures!At, Failures!Tracker, Stand, StandIn, Zero, Tuple
<1> QED
  BY <1>1, <1>2

LEMMA TrackerIs ==
  ASSUME TrackerInv
  PROVE  /\ TrackerOK(kind, Failures!Tracker) /\ Policy(kind)
         /\ Failures!TrackerConstants /\ kind \in Kind
<1>1. /\ Failures!Tracker = Tuple(streaks, locks, sincePrune)
      /\ Failures!Tracker.streaks = streaks /\ Failures!Tracker.locks = locks
      /\ Failures!Tracker.prune = sincePrune
  BY DEF Failures!Tracker, Tuple
<1> QED
  BY <1>1, PolicyHolds DEF TrackerInv, TrackerOK

\* The step of a method that leaves the tracker v.
LEMMA BecomeOK ==
  ASSUME TrackerInv, NEW v, TrackerOK(kind, v), Failures!Become(v), kind' = kind
  PROVE  TrackerInv' /\ \A j : Failures!Standing(j)' = Stand(v, j)
<1>1. streaks' = v.streaks /\ locks' = v.locks /\ sincePrune' = v.prune
  BY DEF Failures!Become
<1>2. Tuple(streaks', locks', sincePrune') = v
  BY <1>1 DEF TrackerOK
<1>3. \A j : Failures!Standing(j)' = Stand(v, j)
  BY <1>2, StandingIs
<1>4. MapsOK(kind', streaks', locks')
  BY <1>1 DEF TrackerOK
<1> QED
  BY <1>3, <1>4 DEF TrackerInv, Failures!TrackerConstants, Failures!KindAssumption,
    Failures!PolicyAssumption, Failures!MapsAssumption, Failures!ShiftAssumption

PromisedStep == [Failures!Promised!Next]_(Failures!Promised!vars)

LEMMA SameStreaks ==
  ASSUME kind' = kind, \A j \in Key : Failures!Standing(j)' = Failures!Standing(j)
  PROVE  PromisedStep
<1>1. [k \in Key |-> Failures!Standing(k)]' = [k \in Key |-> Failures!Standing(k)]
  OBVIOUS
<1>2. UNCHANGED Failures!Promised!vars
  BY <1>1 DEF Failures!Promised!vars
<1> QED
  BY <1>2 DEF PromisedStep

LEMMA ForgetStep ==
  ASSUME kind' = kind, NEW F \in SUBSET {j \in Key : Spare(Failures!Tracker, j)},
         IsFiniteSet(F), Cardinality(F) <= 1,
         \A j : Failures!Standing(j)' = IF j \in F THEN Zero ELSE Stand(Failures!Tracker, j)
  PROVE  PromisedStep
<1>1. Cardinality(F) \in Nat
  BY FS_CardinalityType
<1>2. CASE Cardinality(F) = 0
  <2>1. F = {}
    BY <1>2, FS_EmptySet
  <2> QED
    BY <2>1, SameStreaks, StandingIs
<1>3. CASE Cardinality(F) = 1
  <2>1. PICK e : F = {e}
    BY <1>3, FS_Singleton
  <2>2. e \in Key /\ Spare(Failures!Tracker, e)
    BY <2>1
  <2> DEFINE before == [k \in Key |-> Failures!Standing(k)]
             after == [k \in Key |-> Failures!Standing(k)']
  <2>3. after = [before EXCEPT ![e] = Zero]
    BY <2>1, StandingIs
  <2>4. before[e].lock = 0 /\ before[e].failures < Threshold[kind]
    BY <2>2, StandingIs DEF Spare
  <2>5. Failures!Promised!Forget(e)
    BY <2>3, <2>4, Zenon DEF Failures!Promised!Forget, Failures!Promised!Forgettable,
      Failures!Promised!Zero, Zero
  <2> QED
    BY <2>2, <2>5 DEF PromisedStep, Failures!Promised!Next
<1> QED
  BY <1>1, <1>2, <1>3

LEMMA FailStep ==
  ASSUME kind' = kind, NEW k \in Key, NEW v, FailsWith(v, Failures!Tracker, k),
         \A j : Failures!Standing(j)' = Stand(v, j)
  PROVE  PromisedStep
<1>1. PICK F \in SUBSET {j \in Key \ {k} : Spare(Failures!Tracker, j)} :
        /\ Cardinality(F) <= 1
        /\ Stand(v, k) = Failures!Promised!Bumped(Stand(Failures!Tracker, k))
        /\ \A j : j # k => Stand(v, j) = IF j \in F THEN Zero ELSE Stand(Failures!Tracker, j)
  BY DEF FailsWith
<1> DEFINE before == [j \in Key |-> Failures!Standing(j)]
           after == [j \in Key |-> Failures!Standing(j)']
<1>2. \A j \in Key : before[j] = Stand(Failures!Tracker, j) /\ after[j] = Stand(v, j)
  BY StandingIs
<1>3. after = [j \in Key |-> IF j = k THEN Failures!Promised!Bumped(before[k])
                              ELSE IF j \in F THEN Zero ELSE before[j]]
  BY <1>1, <1>2
<1>4. \A j \in F : j \in Key \ {k} /\ before[j].lock = 0 /\ before[j].failures < Threshold[kind]
  BY <1>1, <1>2 DEF Spare
<1>5. Failures!Promised!Cardinality(F) <= 1
  <2>1. \A S : Failures!Promised!Cardinality(S) = Cardinality(S)
    BY Zenon DEF Failures!Promised!Cardinality, Cardinality
  <2> QED
    BY <1>1, <2>1
<1>6. F \in SUBSET {j \in Key \ {k} : Failures!Promised!Forgettable(j)}
  BY <1>4 DEF Failures!Promised!Forgettable
<1>7. Failures!Promised!Fail(k)
  BY <1>3, <1>5, <1>6, Zenon DEF Failures!Promised!Fail, Failures!Promised!Zero, Zero
<1> QED
  BY <1>7 DEF PromisedStep, Failures!Promised!Next

LEMMA AllowAccountStep ==
  ASSUME TrackerInv, NEW k \in Key, Failures!AllowAccount(k) PROVE TrackerInv' /\ PromisedStep
<1> DEFINE t == Failures!Get(Failures!Tracker, k)
<1>1. kind' = kind /\ (Failures!Become(t) \/ \E u \in Failures!MakeRoom(t) : Failures!Become(u))
  BY Zenon DEF Failures!AllowAccount
<1>2. TrackerOK(kind, t) /\ Policy(kind) /\ \A j : Stand(t, j) = Stand(Failures!Tracker, j)
  BY TrackerIs, GetKeeps
<1> HIDE DEF t
<1>3. CASE Failures!Become(t)
  <2>1. TrackerInv' /\ \A j : Failures!Standing(j)' = Stand(t, j)
    BY <1>1, <1>2, <1>3, BecomeOK
  <2> QED
    BY <1>1, <1>2, <2>1, SameStreaks, StandingIs
<1>4. ASSUME NEW u \in Failures!MakeRoom(t), Failures!Become(u) PROVE TrackerInv' /\ PromisedStep
  <2>1. TrackerOK(kind, u)
    BY <1>2, RoomKeeps
  <2>2. PICK F \in SUBSET {j \in DOMAIN t.streaks : Spare(t, j)} :
          Cardinality(F) <= 1 /\ IsFiniteSet(F) /\ Forgets(u, t, F)
    BY <1>2, RoomKeeps
  <2>3. TrackerInv' /\ \A j : Failures!Standing(j)' = Stand(u, j)
    BY <1>1, <1>4, <2>1, BecomeOK
  <2>4. F \in SUBSET {j \in Key : Spare(Failures!Tracker, j)}
    BY <1>2 DEF TrackerOK, MapsOK, Spare
  <2>5. \A j : Failures!Standing(j)' = IF j \in F THEN Zero ELSE Stand(Failures!Tracker, j)
    BY <1>2, <2>2, <2>3 DEF Forgets
  <2> QED
    BY <1>1, <2>2, <2>3, <2>4, <2>5, ForgetStep
<1> QED
  BY <1>1, <1>3, <1>4

LEMMA RecordFailureStep ==
  ASSUME TrackerInv, NEW k \in Key, Failures!RecordFailure(k) PROVE TrackerInv' /\ PromisedStep
<1> DEFINE q == Failures!PruneExpired(Failures!Tracker)
           t == Failures!Get(q, k)
<1>1. kind' = kind /\ (Failures!Become(t) \/
                        \E v \in Failures!RecordIn(Failures!Tracker, k) : Failures!Become(v))
  BY Zenon DEF Failures!RecordFailure
<1>2. CASE Failures!Become(t)
  <2>1. Policy(kind) /\ TrackerOK(kind, q) /\ \A j : Stand(q, j) = Stand(Failures!Tracker, j)
    BY TrackerIs, PruneKeeps
  <2>2. TrackerOK(kind, t) /\ \A j : Stand(t, j) = Stand(q, j)
    <3>1. PICK r : r = q
      OBVIOUS
    <3>2. TrackerOK(kind, Failures!Get(r, k)) /\ \A j : Stand(Failures!Get(r, k), j) = Stand(r, j)
      BY <2>1, <3>1, GetKeeps
    <3> QED
      BY <3>1, <3>2
  <2> HIDE DEF q
  <2> HIDE DEF t
  <2>3. TrackerInv' /\ \A j : Failures!Standing(j)' = Stand(t, j)
    BY <1>1, <1>2, <2>2, BecomeOK
  <2> QED
    BY <1>1, <2>1, <2>2, <2>3, SameStreaks, StandingIs
<1>3. ASSUME NEW v \in Failures!RecordIn(Failures!Tracker, k), Failures!Become(v)
      PROVE  TrackerInv' /\ PromisedStep
  <2>1. TrackerOK(kind, v) /\ FailsWith(v, Failures!Tracker, k)
    BY TrackerIs, RecordOK
  <2>2. TrackerInv' /\ \A j : Failures!Standing(j)' = Stand(v, j)
    BY <1>1, <1>3, <2>1, BecomeOK
  <2> QED
    BY <1>1, <2>1, <2>2, FailStep
<1> QED
  BY <1>1, <1>2, <1>3

LEMMA ReserveStep ==
  ASSUME TrackerInv, NEW k \in Key, Failures!ReserveSecondFactorAttempt(k)
  PROVE  TrackerInv' /\ PromisedStep
<1> DEFINE t == Failures!Get(Failures!Tracker, k)
           q == Failures!PruneExpired(t)
<1>1. kind' = kind /\ (\/ Failures!Become(t) \/ Failures!Become(q)
                       \/ \E v \in Failures!RecordIn(t, k) : Failures!Become(v))
  BY Zenon DEF Failures!ReserveSecondFactorAttempt
<1>2. TrackerOK(kind, t) /\ \A j : Stand(t, j) = Stand(Failures!Tracker, j)
  BY TrackerIs, GetKeeps
<1> HIDE DEF t
<1>3. TrackerOK(kind, q) /\ \A j : Stand(q, j) = Stand(t, j)
  BY <1>2, TrackerIs, PruneKeeps
<1> HIDE DEF q
<1>4. CASE Failures!Become(t)
  <2>1. TrackerInv' /\ \A j : Failures!Standing(j)' = Stand(t, j)
    BY <1>1, <1>2, <1>4, BecomeOK
  <2> QED
    BY <1>1, <1>2, <2>1, SameStreaks, StandingIs
<1>5. CASE Failures!Become(q)
  <2>1. TrackerInv' /\ \A j : Failures!Standing(j)' = Stand(q, j)
    BY <1>1, <1>3, <1>5, BecomeOK
  <2> QED
    BY <1>1, <1>2, <1>3, <2>1, SameStreaks, StandingIs
<1>6. ASSUME NEW v \in Failures!RecordIn(t, k), Failures!Become(v)
      PROVE  TrackerInv' /\ PromisedStep
  <2>1. TrackerOK(kind, v) /\ FailsWith(v, t, k)
    BY <1>2, TrackerIs, RecordOK
  <2>2. FailsWith(v, Failures!Tracker, k)
    BY <1>2, <2>1 DEF FailsWith, Spare
  <2>3. TrackerInv' /\ \A j : Failures!Standing(j)' = Stand(v, j)
    BY <1>1, <1>6, <2>1, BecomeOK
  <2> QED
    BY <1>1, <2>2, <2>3, FailStep
<1> QED
  BY <1>1, <1>4, <1>5, <1>6

\* A success clears the streak of its key and no other.
LEMMA ResetStep ==
  ASSUME TrackerInv, NEW k \in Key, kind' = kind,
         Failures!Become(Failures!ResetIn(Failures!Tracker, k))
  PROVE  TrackerInv' /\ PromisedStep
<1> DEFINE s2 == Failures!Without(streaks, {k})
           l2 == Failures!Without(locks, {k})
           v == Failures!ResetIn(Failures!Tracker, k)
<1>1. v = Tuple(s2, l2, sincePrune)
  <2>1. PICK t : t = Failures!Tracker
    OBVIOUS
  <2>2. t.streaks = streaks /\ t.locks = locks /\ t.prune = sincePrune
    BY <2>1 DEF Failures!Tracker
  <2>3. Failures!ResetIn(t, k) = [t EXCEPT !.streaks = s2, !.locks = l2]
    BY <2>2 DEF Failures!ResetIn
  <2>4. t = Tuple(t.streaks, t.locks, t.prune)
    BY <2>1 DEF Failures!Tracker, Tuple
  <2> HIDE DEF s2, l2
  <2>5. Failures!ResetIn(t, k) = Tuple(s2, l2, t.prune)
    BY <2>3, <2>4 DEF Tuple
  <2> QED
    BY <2>1, <2>2, <2>5
<1>2. v.streaks = s2 /\ v.locks = l2 /\ v.prune = sincePrune
  BY <1>1 DEF Tuple
<1>3. Less(s2, streaks, {k}) /\ Less(l2, locks, {k})
  BY DEF Less, Failures!Without
<1>4. Failures!Tracker.streaks = streaks /\ Failures!Tracker.locks = locks
  BY DEF Failures!Tracker
<1> HIDE DEF v, s2, l2
<1>5. MapsOK(kind, s2, l2)
  BY <1>3, TrackerIs, Shrink DEF TrackerInv
<1>6. TrackerOK(kind, v)
  BY <1>1, <1>2, <1>5 DEF TrackerOK
<1>7. Stand(v, k) = Zero /\ \A j : j # k => Stand(v, j) = Stand(Failures!Tracker, j)
  BY <1>2, <1>3, <1>4 DEF Stand, StandIn, Less
<1>8. TrackerInv' /\ \A j : Failures!Standing(j)' = Stand(v, j)
  BY <1>6, BecomeOK DEF v
<1>9. [j \in Key |-> Failures!Standing(j)]' = [[j \in Key |-> Failures!Standing(j)] EXCEPT ![k] = Zero]
  BY <1>7, <1>8, StandingIs
<1>10. Failures!Promised!Succeed(k)
  BY <1>9 DEF Failures!Promised!Succeed, Failures!Promised!Zero, Zero
<1> QED
  BY <1>8, <1>10 DEF PromisedStep, Failures!Promised!Next

\* An entry ages as its streak does: its lock runs out before its streak decays,
\* so the age is cut off only where the streak counts no longer.
LEMMA AgedOK ==
  ASSUME NEW p, NEW s, NEW a, Policy(p), EntryOK(p, s), a = Failures!Aged(s)
  PROVE  /\ EntryOK(p, a) /\ a.failures = s.failures
         /\ Failures!Expired(s) => Failures!Expired(a)
         /\ ~Failures!Expired(s) =>
              Failures!Promised!Aged([failures |-> s.failures, age |-> s.age, lock |-> s.lock])
                = IF Failures!Expired(a) THEN Zero
                  ELSE [failures |-> a.failures, age |-> a.age, lock |-> a.lock]
<1>1. /\ s.failures \in 1..Failures!FailCap /\ s.age \in 0..(Decay + 1) /\ s.lock \in 0..LockMax[p]
      /\ s = [failures |-> s.failures, age |-> s.age, lock |-> s.lock]
  BY DEF EntryOK
<1>2. /\ Failures!Min({s.age + 1, Decay + 1}) = IF s.age + 1 <= Decay + 1 THEN s.age + 1 ELSE Decay + 1
      /\ Failures!Max({s.lock - 1, 0}) = IF s.lock - 1 >= 0 THEN s.lock - 1 ELSE 0
  <2>1. s.age + 1 \in Int /\ Decay + 1 \in Int /\ s.lock - 1 \in Int /\ 0 \in Int
    BY <1>1 DEF Policy
  <2> QED
    BY <2>1, MinOfTwo, MaxOfTwo
<1>3. PICK x, y : x = Failures!Min({s.age + 1, Decay + 1}) /\ y = Failures!Max({s.lock - 1, 0})
  OBVIOUS
<1>4. a = [failures |-> s.failures, age |-> x, lock |-> y]
  <2>1. a = [s EXCEPT !.age = x, !.lock = y]
    BY <1>3, Zenon DEF Failures!Aged
  <2> QED
    BY <1>1, <2>1
<1>5. /\ x \in 0..(Decay + 1) /\ (s.age < Decay => x = s.age + 1) /\ (s.age >= Decay => x >= Decay)
      /\ y \in 0..LockMax[p] /\ y = (IF s.lock = 0 THEN 0 ELSE s.lock - 1)
      /\ Decay \in Nat /\ LockMax[p] \in 0..(Decay - 1)
  BY <1>1, <1>2, <1>3 DEF Policy
<1>6. s.lock > 0 => s.failures >= Threshold[p] /\ s.lock + s.age <= LockMax[p]
  BY DEF EntryOK
<1>7. EntryOK(p, a)
  BY <1>1, <1>4, <1>5, <1>6 DEF EntryOK
<1>8. Failures!Expired(s) => Failures!Expired(a)
  BY <1>1, <1>4, <1>5 DEF Failures!Expired
<1>9. ASSUME ~Failures!Expired(s)
      PROVE  Failures!Promised!Aged([failures |-> s.failures, age |-> s.age, lock |-> s.lock])
               = IF Failures!Expired(a) THEN Zero
                 ELSE [failures |-> a.failures, age |-> a.age, lock |-> a.lock]
  <2>1. s.age < Decay
    BY <1>1, <1>5, <1>6, <1>9 DEF Failures!Expired
  <2>2. x = s.age + 1
    BY <1>5, <2>1
  <2>3. [failures |-> s.failures, age |-> s.age, lock |-> s.lock] # Zero
    BY <1>1 DEF Zero
  <2>4. Failures!Promised!Aged([failures |-> s.failures, age |-> s.age, lock |-> s.lock])
          = IF x >= Decay /\ y = 0 THEN Zero ELSE [failures |-> s.failures, age |-> x, lock |-> y]
    BY <1>5, <2>2, <2>3, Zenon DEF Failures!Promised!Aged, Failures!Promised!Zero, Zero
  <2>5. Failures!Expired(a) <=> x >= Decay /\ y = 0
    BY <1>4 DEF Failures!Expired
  <2> QED
    BY <1>4, <2>4, <2>5
<1> QED
  BY <1>4, <1>7, <1>8, <1>9

LEMMA TickStep ==
  ASSUME TrackerInv, Failures!Tick PROVE TrackerInv' /\ PromisedStep
<1>1. /\ kind' = kind
      /\ DOMAIN streaks' = DOMAIN streaks /\ \A k \in DOMAIN streaks : streaks'[k] = Failures!Aged(streaks[k])
      /\ DOMAIN locks' = DOMAIN locks /\ \A k \in DOMAIN locks : locks'[k] = Failures!Aged(locks[k])
  BY DEF Failures!Tick
<1>2. Policy(kind) /\ MapsOK(kind, streaks, locks)
  BY TrackerIs DEF TrackerInv
<1>3. \A k \in DOMAIN streaks : EntryOK(kind, streaks[k]) /\ EntryOK(kind, streaks'[k])
  BY <1>1, <1>2, AgedOK DEF MapsOK
<1>4. \A k \in DOMAIN locks : EntryOK(kind, locks[k]) /\ EntryOK(kind, locks'[k])
                             /\ locks'[k].failures >= Threshold[kind]
  BY <1>1, <1>2, AgedOK DEF MapsOK
<1>5. MapsOK(kind, streaks', locks')
  BY <1>1, <1>2, <1>3, <1>4 DEF MapsOK
<1>6. TrackerInv'
  BY <1>1, <1>5 DEF TrackerInv, Failures!TrackerConstants, Failures!KindAssumption,
    Failures!PolicyAssumption, Failures!MapsAssumption, Failures!ShiftAssumption
<1>7. \A k : StandIn(streaks', locks', k) = Failures!Promised!Aged(StandIn(streaks, locks, k))
  <2>1. SUFFICES ASSUME NEW k
                 PROVE  StandIn(streaks', locks', k) = Failures!Promised!Aged(StandIn(streaks, locks, k))
    OBVIOUS
  <2>2. Failures!Promised!Aged(Zero) = Zero
    BY Zenon DEF Failures!Promised!Aged, Failures!Promised!Zero, Zero
  <2>3. CASE k \in DOMAIN locks
    <3>1. PICK e, a : e = locks[k] /\ a = locks'[k]
      OBVIOUS
    <3>2. EntryOK(kind, e) /\ a = Failures!Aged(e)
      BY <1>1, <1>4, <2>3, <3>1
    <3>3. /\ StandIn(streaks, locks, k) = IF Failures!Expired(e) THEN Zero
               ELSE [failures |-> e.failures, age |-> e.age, lock |-> e.lock]
          /\ StandIn(streaks', locks', k) = IF Failures!Expired(a) THEN Zero
               ELSE [failures |-> a.failures, age |-> a.age, lock |-> a.lock]
      BY <1>1, <2>3, <3>1, Zenon DEF StandIn
    <3> QED
      BY <1>2, <2>2, <3>2, <3>3, AgedOK
  <2>4. CASE k \notin DOMAIN locks /\ k \in DOMAIN streaks
    <3>1. PICK e, a : e = streaks[k] /\ a = streaks'[k]
      OBVIOUS
    <3>2. EntryOK(kind, e) /\ a = Failures!Aged(e)
      BY <1>1, <1>3, <2>4, <3>1
    <3>3. /\ StandIn(streaks, locks, k) = IF Failures!Expired(e) THEN Zero
               ELSE [failures |-> e.failures, age |-> e.age, lock |-> e.lock]
          /\ StandIn(streaks', locks', k) = IF Failures!Expired(a) THEN Zero
               ELSE [failures |-> a.failures, age |-> a.age, lock |-> a.lock]
      BY <1>1, <2>4, <3>1, Zenon DEF StandIn
    <3> QED
      BY <1>2, <2>2, <3>2, <3>3, AgedOK
  <2>5. CASE k \notin DOMAIN locks /\ k \notin DOMAIN streaks
    BY <1>1, <2>2, <2>5 DEF StandIn
  <2> QED
    BY <2>3, <2>4, <2>5
<1>8. \A k : /\ Failures!Standing(k) = StandIn(streaks, locks, k)
            /\ Failures!Standing(k)' = StandIn(streaks', locks', k)
  BY StandingIs DEF Stand, Failures!Tracker, Tuple
<1>9. [k \in Key |-> Failures!Standing(k)]'
        = [k \in Key |-> Failures!Promised!Aged([j \in Key |-> Failures!Standing(j)][k])]
  BY <1>7, <1>8
<1>10. Failures!Promised!Tick
  BY <1>1, <1>9, Zenon DEF Failures!Promised!Tick
<1> QED
  BY <1>6, <1>10 DEF PromisedStep, Failures!Promised!Next

LEMMA TrackerStep ==
  ASSUME TrackerInv, [Failures!Next]_Failures!vars PROVE TrackerInv' /\ PromisedStep
<1>1. ASSUME kind' = kind, streaks' = streaks, locks' = locks, sincePrune' = sincePrune
      PROVE  TrackerInv' /\ PromisedStep
  <2>1. TrackerInv'
    BY <1>1 DEF TrackerInv, Failures!TrackerConstants, Failures!KindAssumption,
      Failures!PolicyAssumption, Failures!MapsAssumption, Failures!ShiftAssumption
  <2>2. \A j : Failures!Standing(j)' = Failures!Standing(j)
    BY <1>1, StandingIs DEF Failures!Tracker, Tuple
  <2> QED
    BY <1>1, <2>1, <2>2, SameStreaks
<1>2. CASE UNCHANGED Failures!vars
  BY <1>1, <1>2 DEF Failures!vars
<1>3. CASE Failures!Tick
  BY <1>3, TickStep
<1>4. ASSUME NEW k \in Key,
             \/ Failures!AllowAccount(k) \/ Failures!RecordFailure(k) \/ Failures!ResetAccount(k)
             \/ Failures!ReserveSecondFactorAttempt(k) \/ Failures!ResetSecondFactor(k)
             \/ Failures!Abandon(k)
      PROVE  TrackerInv' /\ PromisedStep
  <2>1. CASE Failures!AllowAccount(k)
    BY <2>1, AllowAccountStep
  <2>2. CASE Failures!RecordFailure(k)
    BY <2>2, RecordFailureStep
  <2>3. CASE Failures!ResetAccount(k)
    BY <2>3, ResetStep DEF Failures!ResetAccount
  <2>4. CASE Failures!ReserveSecondFactorAttempt(k)
    BY <2>4, ReserveStep
  <2>5. CASE Failures!ResetSecondFactor(k)
    BY <2>5, ResetStep DEF Failures!ResetSecondFactor
  <2>6. CASE Failures!Abandon(k)
    BY <1>1, <2>6 DEF Failures!Abandon
  <2> QED
    BY <1>4, <2>1, <2>2, <2>3, <2>4, <2>5, <2>6
<1> QED
  BY <1>2, <1>3, <1>4, Zenon DEF Failures!Next

LEMMA TrackerInit ==
  ASSUME Failures!TrackerConstants, Failures!Init PROVE TrackerInv /\ Failures!Promised!Init
<1>1. kind \in Kind /\ DOMAIN streaks = {} /\ DOMAIN locks = {}
  BY DEF Failures!Init
<1>2. IsFiniteSet({}) /\ Cardinality({}) = 0
  BY FS_EmptySet
<1>3. MapsOK(kind, streaks, locks)
  BY <1>1, <1>2, PolicyHolds DEF MapsOK, Policy
<1>4. \A k \in Key : Failures!Standing(k) = Failures!Promised!Zero
  BY <1>1 DEF Failures!Standing, Failures!Tracker, Failures!Has, Failures!Promised!Zero
<1>5. Failures!Promised!Init
  BY <1>1, <1>4 DEF Failures!Promised!Init
<1> QED
  BY <1>1, <1>3, <1>5 DEF TrackerInv

\* The failure tracker, with its bounded maps, sweeps, evictions, refusals and
\* Width-bit shift, implements Lockout: nothing but time or a success clears a
\* streak at the threshold, and its lock is as long as promised.  For any
\* number of keys and requests, and any sizes of the maps.
THEOREM TrackerImplementsLockout == Failures!Spec => ImplementsLockout
<1>1. Failures!Init => TrackerInv /\ Failures!Promised!Init
  BY TrackerInit, TrackerHolds
<1>2. TrackerInv /\ [Failures!Next]_Failures!vars
        => TrackerInv' /\ [Failures!Promised!Next]_(Failures!Promised!vars)
  BY TrackerStep DEF PromisedStep
<1> QED
  BY <1>1, <1>2, PTL DEF Failures!Spec, ImplementsLockout, Failures!ImplementsLockout

LEMMA TrackerInvHolds == Failures!Spec => []TrackerInv
<1>1. Failures!Init => TrackerInv
  BY TrackerInit, TrackerHolds
<1>2. TrackerInv /\ [Failures!Next]_Failures!vars => TrackerInv'
  BY TrackerStep
<1> QED
  BY <1>1, <1>2, PTL DEF Failures!Spec

\* No map of the limiters outgrows its limit, however many keys, addresses and
\* cookies are sent and in whatever order they are swept and evicted
\* (makeRoomLocked, makeRoomForIPLocked, rememberSession); no key is in both
\* maps of a tracker, and only keys that reached the threshold are in the one
\* nothing is evicted from.
THEOREM MapsStayBounded ==
  Failures!Spec /\ PerIP!Spec /\ Api!Spec => []MapsBounded
<1>1. TrackerInv => Failures!MapsBounded
  BY TrackerCardinality, Zenon DEF TrackerInv, MapsOK, Failures!MapsBounded
<1>2. WindowInv => PerIP!AttemptsBounded
  BY WindowCardinality, Zenon DEF WindowInv, PerIP!AttemptsBounded
<1>3. ApiInv => Api!LimiterBounded
  BY ApiCardinality, Zenon DEF ApiInv, LimiterRoom, Api!LimiterBounded
<1>4. TrackerInv /\ WindowInv /\ ApiInv => MapsBounded
  BY <1>1, <1>2, <1>3 DEF MapsBounded
<1> QED
  BY <1>4, TrackerInvHolds, WindowInvHolds, ApiInvHolds, PTL
=============================================================================
