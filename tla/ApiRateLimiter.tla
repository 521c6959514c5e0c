-------------------------- MODULE ApiRateLimiter --------------------------
(***************************************************************************)
(* The global request limiter: fixed windows per key, where the key is the *)
(* user of a session cookie that Authenticate accepted lately, else the    *)
(* client's IP.  rateLimit runs before Authenticate; withSessionMarks      *)
(* wraps Authenticate and learns from its verdict.                         *)
(*                                                                         *)
(* A request takes one step per critical section of the limiter and one    *)
(* for the session lookup of Authenticate, which waits for the database.   *)
(* Between the other steps there is no wait, so time passes only while     *)
(* requests are at the lookup.  Users, IPs and cookies are model values,   *)
(* and a hash of a cookie is the cookie.                                   *)
(***************************************************************************)
EXTENDS Integers, FiniteSets, FiniteSetsExt

CONSTANTS
  Req, User, IP, Cookie,
  UserOf,      \* whose session a cookie is
  Watched,     \* the key whose history is kept
  None,
  Limit,       \* apiRateLimitPerMin
  Window,
  MarkTTL,     \* sessionMarkTTL
  PruneEvery,  \* limiterPruneEvery
  MaxBuckets,  \* maxLimiterBuckets
  MaxMarks,    \* maxValidatedSessions
  MaxAge       \* bound: ages above it are not told apart

VARIABLES
  buckets,  \* apiRateLimiter.buckets: the window's age and count
  marks,    \* apiRateLimiter.sessions: age of the mark
  pruned,   \* age of the last prune
  req,      \* requests in flight
  dead,     \* how long ago a cookie was revoked, or None while it is valid
  passed,   \* history: requests of Watched let through, by age, for one
            \* Window; more than the property allows are not told apart
  evicted   \* history: how long ago the bucket of Watched was evicted

vars == <<buckets, marks, pruned, req, dead, passed, evicted>>

BucketKey == User \cup IP
Age == 0..MaxAge
Older(a) == IF a = None THEN None ELSE IF a < MaxAge THEN a + 1 ELSE a
NoRequest == [pc |-> "idle", cookie |-> None, key |-> None]

\* What is assumed of the constants: a key names an account or an address, a
\* mark is kept for a while, and each map has room for an entry.
LimiterConstants ==
  /\ MaxAge \in Nat /\ MarkTTL \in 1..MaxAge
  /\ MaxBuckets \in Nat \ {0} /\ MaxMarks \in Nat \ {0}
  /\ User \cap IP = {} /\ UserOf \in [Cookie -> User]
  /\ None \notin Cookie \cup User \cup IP \cup (0..MaxAge)

Init ==
  /\ buckets = [k \in {} |-> 0]
  /\ marks = [c \in {} |-> 0]
  /\ pruned = MaxAge
  /\ req = [r \in Req |-> NoRequest]
  /\ dead = [c \in Cookie |-> None]
  /\ passed = [a \in 0..(Window - 1) |-> 0]
  /\ evicted = None

----------------------------------------------------------------------------
(* keyFor                                                                  *)

Marked(c) == c \in DOMAIN marks /\ marks[c] < MarkTTL

KeyFor_Refreshes(r, c, ip) ==
  /\ req[r].pc = "idle"
  /\ req' = [req EXCEPT ![r] = [pc |-> "allow", cookie |-> c,
                                key |-> IF Marked(c) THEN UserOf[c] ELSE ip]]
  /\ marks' = [m \in IF Marked(c) THEN DOMAIN marks ELSE DOMAIN marks \ {c} |->
                 IF m = c THEN 0 ELSE marks[m]]
  /\ UNCHANGED <<buckets, pruned, dead, passed, evicted>>

\* A lapsed mark is deleted where it is found.
KeyFor(r, c, ip) ==
  /\ req[r].pc = "idle"
  /\ req' = [req EXCEPT ![r] = [pc |-> "allow", cookie |-> c,
                                key |-> IF Marked(c) THEN UserOf[c] ELSE ip]]
  /\ marks' = [m \in IF Marked(c) THEN DOMAIN marks ELSE DOMAIN marks \ {c} |-> marks[m]]
  /\ UNCHANGED <<buckets, pruned, dead, passed, evicted>>

----------------------------------------------------------------------------
(* allow                                                                   *)

Expired(b) == b.age >= Window

\* makeRoomLocked: the buckets that are left, and whether it pruned.  Which of
\* the others go is up to the order of a Go map.
MakeRoom(kept, prune) ==
  /\ prune = (Cardinality(DOMAIN buckets) >= MaxBuckets /\ pruned >= PruneEvery)
  /\ LET alive == IF prune THEN {k \in DOMAIN buckets : ~Expired(buckets[k])}
                  ELSE DOMAIN buckets
     IN /\ kept \subseteq alive
        /\ IF Cardinality(alive) < MaxBuckets THEN kept = alive
           ELSE Cardinality(kept) = MaxBuckets - 1

\* The bucket of k after makeRoomLocked left kept: a new one, a new window, or
\* as it is.
Current(k) ==
  IF k \notin DOMAIN buckets \/ Expired(buckets[k]) THEN [age |-> 0, count |-> 0]
  ELSE buckets[k]

Below(b) == b.count < Limit

\* A bucket whose window still ran is gone.
Evict(k, kept) == k \in DOMAIN buckets \ kept /\ ~Expired(buckets[k])

\* rateLimit: refused, let through to a public route, or on to Authenticate.
Allow(r) ==
  /\ req[r].pc = "allow"
  /\ LET k == req[r].key
         b == Current(k)
         ok == Below(b)
     IN \E kept \in SUBSET DOMAIN buckets, prune \in BOOLEAN :
          /\ IF k \in DOMAIN buckets THEN kept = DOMAIN buckets /\ ~prune
             ELSE MakeRoom(kept, prune)
          /\ buckets' = [i \in kept \cup {k} |->
                           IF i # k THEN buckets[i]
                           ELSE IF ok THEN [b EXCEPT !.count = @ + 1] ELSE b]
          /\ pruned' = IF prune THEN 0 ELSE pruned
          /\ evicted' = IF Evict(Watched, kept) THEN 0 ELSE evicted
          /\ passed' = IF ok /\ k = Watched THEN [passed EXCEPT ![0] = Min({@ + 1, 2 * Limit + 1})] ELSE passed
          /\ \/ req' = [req EXCEPT ![r] = NoRequest]
             \/ /\ ok /\ req[r].cookie # None
                /\ req' = [req EXCEPT ![r].pc = "auth"]
  /\ UNCHANGED <<marks, dead>>

----------------------------------------------------------------------------
(* withSessionMarks                                                        *)

\* Authenticate looks the session up.
Authenticate(r) ==
  /\ req[r].pc = "auth"
  /\ req' = [req EXCEPT ![r].pc = IF dead[req[r].cookie] = None THEN "remember" ELSE "forget"]
  /\ UNCHANGED <<buckets, marks, pruned, dead, passed, evicted>>

\* rememberSession, before the request is served; a full set loses others.
RememberSession(r) ==
  /\ req[r].pc = "remember"
  /\ LET c == req[r].cookie IN
     \E kept \in SUBSET DOMAIN marks :
       /\ IF c \in DOMAIN marks \/ Cardinality(DOMAIN marks) < MaxMarks THEN kept = DOMAIN marks
          ELSE Cardinality(kept) = MaxMarks - 1
       /\ marks' = [m \in kept \cup {c} |-> IF m = c THEN 0 ELSE marks[m]]
  /\ req' = [req EXCEPT ![r] = NoRequest]
  /\ UNCHANGED <<buckets, pruned, dead, passed, evicted>>

\* forgetSession, for a cookie that was turned away.
ForgetSession(r) ==
  /\ req[r].pc = "forget"
  /\ marks' = [m \in DOMAIN marks \ {req[r].cookie} |-> marks[m]]
  /\ req' = [req EXCEPT ![r] = NoRequest]
  /\ UNCHANGED <<buckets, pruned, dead, passed, evicted>>

----------------------------------------------------------------------------
\* The session is revoked, by a logout or from elsewhere, or it expires.
Revoke(c) ==
  /\ dead[c] = None
  /\ dead' = [dead EXCEPT ![c] = 0]
  /\ UNCHANGED <<buckets, marks, pruned, req, passed, evicted>>

Tick ==
  /\ \A r \in Req : req[r].pc \in {"idle", "auth"}
  /\ buckets' = [k \in DOMAIN buckets |-> [buckets[k] EXCEPT !.age = Older(@)]]
  /\ marks' = [c \in DOMAIN marks |-> Older(marks[c])]
  /\ pruned' = Older(pruned)
  /\ dead' = [c \in Cookie |-> Older(dead[c])]
  /\ passed' = [a \in 0..(Window - 1) |-> IF a = 0 THEN 0 ELSE passed[a - 1]]
  /\ evicted' = IF evicted = None \/ evicted + 1 >= Window THEN None ELSE evicted + 1
  /\ UNCHANGED req

Next ==
  \/ \E r \in Req :
       \/ \E c \in Cookie \cup {None}, ip \in IP : KeyFor(r, c, ip)
       \/ Allow(r) \/ Authenticate(r) \/ RememberSession(r) \/ ForgetSession(r)
  \/ \E c \in Cookie : Revoke(c)
  \/ Tick

Spec == Init /\ [][Next]_vars

----------------------------------------------------------------------------
\* Every bucket, mark and request is in its range.
TypeOK ==
  /\ DOMAIN buckets \subseteq BucketKey
  /\ \A k \in DOMAIN buckets : buckets[k] \in [age : Age, count : Nat]
  /\ DOMAIN marks \subseteq Cookie /\ \A c \in DOMAIN marks : marks[c] \in Age
  /\ \A r \in Req : req[r].pc = "allow" => req[r].key \in BucketKey

\* However many cookies and addresses are sent, neither map outgrows its limit.
LimiterBounded ==
  Cardinality(DOMAIN buckets) <= MaxBuckets /\ Cardinality(DOMAIN marks) <= MaxMarks

\* In any stretch as long as a window a key is let through at most twice the
\* limit, with however many cookies of one user, unless its bucket was evicted
\* in it.
BurstAtMostTwice ==
  evicted = None => MapThenSumSet(LAMBDA a : passed[a], DOMAIN passed) <= 2 * Limit

\* A cookie stops spending its user's budget once it has been revoked for
\* MarkTTL, whatever requests with it were in flight.
RevokedLapses ==
  \A r \in Req :
    req[r].pc = "allow" /\ req[r].key \in User => dead[req[r].cookie] = None \/ dead[req[r].cookie] < MarkTTL
=============================================================================
