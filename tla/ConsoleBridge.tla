--------------------------- MODULE ConsoleBridge ---------------------------
(***************************************************************************)
(* The embedded console: TicketAuth, which keeps one Proxmox ticket for    *)
(* everybody; OpenConsole, which makes a proxy at Proxmox and a one-shot   *)
(* session for it; and Proxy.ServeHTTP, which claims the session, takes    *)
(* one of maxBridges places, dials Proxmox and pipes until a side fails.   *)
(*                                                                         *)
(* A request is a goroutine: a POST or a websocket.  Its steps are the     *)
(* sections under a mutex and the calls to Proxmox.  Ticket holds its      *)
(* mutex over the login call.  Ages are in ticks; a call to Proxmox ends   *)
(* within CallTimeout.  Ports, passwords and the frames piped are left out.*)
(***************************************************************************)
EXTENDS Integers, FiniteSets

CONSTANTS
  Req, Sid, None,
  SessionTTL,      \* sessionTTL
  TicketLifetime,  \* ticketLifetime: when a cached ticket is fetched anew
  PVELifetime,     \* how long Proxmox accepts a ticket
  CallTimeout,     \* authTimeout, dialTimeout
  MaxBridges,      \* maxBridges
  MaxSessions      \* bound: sessions over all

VARIABLES
  byID,    \* Sessions.byID: the age of each session in it
  made,    \* sessions created so far
  ticket,  \* age of the cached ticket, or None
  mu,      \* the request that holds TicketAuth.mu
  req,     \* requests: where they are, their session, their ticket's age, and
           \* how long the call to Proxmox has taken
  active,  \* Proxy.active
  opened   \* history: how often a session was claimed for a bridge

vars == <<byID, made, ticket, mu, req, active, opened>>

Idle == [pc |-> "idle", sid |-> None, kind |-> "post", held |-> None, call |-> 0]
At(r, pc) == req[r].pc = pc
Go(r, pc) == req' = [req EXCEPT ![r].pc = pc, ![r].call = 0]
Return(r) == req' = [req EXCEPT ![r] = Idle]

Init ==
  /\ byID = [s \in {} |-> 0]
  /\ made = {}
  /\ ticket = None
  /\ mu = None
  /\ req = [r \in Req |-> Idle]
  /\ active = 0
  /\ opened = [s \in Sid |-> 0]

----------------------------------------------------------------------------
(* Ticket                                                                  *)

\* The cached ticket is younger than ticketLifetime.
Fresh == ticket # None /\ ticket < TicketLifetime

\* Both kinds of request go on with the ticket: to the proxy or to the dial.
Holding(r, age) ==
  req' = [req EXCEPT ![r].held = age, ![r].call = 0,
                     ![r].pc = IF req[r].kind = "post" THEN "proxy" ELSE "dial"]

\* Ticket with the mutex free: the cached ticket, or the login call.
TicketCached(r) ==
  /\ At(r, "ticket") /\ mu = None
  /\ Fresh
  /\ Holding(r, ticket)
  /\ UNCHANGED <<byID, made, ticket, mu, active, opened>>

TicketLogin(r) ==
  /\ At(r, "ticket") /\ mu = None
  /\ ~Fresh
  /\ mu' = r
  /\ Go(r, "login")
  /\ UNCHANGED <<byID, made, ticket, active, opened>>

TicketFetched(r) ==
  /\ At(r, "login")
  /\ ticket' = 0
  /\ mu' = None
  /\ Holding(r, 0)
  /\ UNCHANGED <<byID, made, active, opened>>

TicketFails_KeepsLock(r) ==
  /\ At(r, "login")
  /\ IF req[r].kind = "post" THEN Return(r) ELSE Go(r, "close")
  /\ UNCHANGED <<byID, made, ticket, mu, active, opened>>

\* Proxmox is unreachable, refuses or answers nonsense: the error, and the old
\* ticket is kept.  The deferred unlock.
TicketFails(r) ==
  /\ At(r, "login")
  /\ mu' = None
  /\ IF req[r].kind = "post" THEN Return(r) ELSE Go(r, "close")
  /\ UNCHANGED <<byID, made, ticket, active, opened>>

----------------------------------------------------------------------------
(* OpenConsole                                                             *)

\* A valid request; console_disabled and bad requests change nothing.
OpenConsole(r) ==
  /\ At(r, "idle")
  /\ Cardinality(made) < MaxSessions
  /\ req' = [req EXCEPT ![r] = [Idle EXCEPT !.pc = "ticket"]]
  /\ UNCHANGED <<byID, made, ticket, mu, active, opened>>

CreateProxyFails(r) ==
  /\ At(r, "proxy")
  /\ Return(r)
  /\ UNCHANGED <<byID, made, ticket, mu, active, opened>>

\* CreateProxy succeeds; Sessions.Create sweeps and registers.
Create(r, s) ==
  /\ At(r, "proxy")
  /\ s \notin made
  /\ made' = made \cup {s}
  /\ LET kept == {old \in DOMAIN byID : byID[old] <= SessionTTL}
     IN byID' = [i \in kept \cup {s} |-> IF i = s THEN 0 ELSE byID[i]]
  /\ Return(r)
  /\ UNCHANGED <<ticket, mu, active, opened>>

----------------------------------------------------------------------------
(* ServeHTTP                                                               *)

\* The cookie is verified, then the session is taken out of the registry; an
\* expired one is taken out too, and an unknown one answered 404.
Claim(r, s) ==
  /\ At(r, "idle")
  /\ s \in DOMAIN byID
  /\ byID' = [i \in DOMAIN byID \ {s} |-> byID[i]]
  /\ IF byID[s] <= SessionTTL
     THEN /\ opened' = [opened EXCEPT ![s] = @ + 1]
          /\ req' = [req EXCEPT ![r] = [Idle EXCEPT !.pc = "place", !.sid = s, !.kind = "ws"]]
     ELSE UNCHANGED <<opened, req>>
  /\ UNCHANGED <<made, ticket, mu, active>>

\* The count of bridges; at the limit 503, and the session is gone.
TakePlace(r) ==
  /\ At(r, "place")
  /\ IF active >= MaxBridges THEN Return(r) /\ UNCHANGED active
     ELSE Go(r, "ticket") /\ active' = active + 1
  /\ UNCHANGED <<byID, made, ticket, mu, opened>>

\* The dial succeeds, the browser is upgraded, a terminal is handed its ticket.
Dial(r) ==
  /\ At(r, "dial")
  /\ Go(r, "pipe")
  /\ UNCHANGED <<byID, made, ticket, mu, active, opened>>

DialFails_NotDeferred(r) ==
  /\ At(r, "dial")
  /\ Return(r)
  /\ UNCHANGED <<byID, made, ticket, mu, active, opened>>

\* The dial, the upgrade or the handshake fails.
DialFails(r) ==
  /\ At(r, "dial")
  /\ Go(r, "close")
  /\ UNCHANGED <<byID, made, ticket, mu, active, opened>>

\* pipe: the first error of either direction, or idleDeadline, ends the bridge.
PipeEnds(r) ==
  /\ At(r, "pipe")
  /\ Go(r, "close")
  /\ UNCHANGED <<byID, made, ticket, mu, active, opened>>

\* The deferred decrement.
GiveUpPlace(r) ==
  /\ At(r, "close")
  /\ active' = active - 1
  /\ Return(r)
  /\ UNCHANGED <<byID, made, ticket, mu, opened>>

----------------------------------------------------------------------------
\* Proxmox is called at these; the call is cut off at CallTimeout.
Calling(r) == req[r].pc \in {"login", "proxy", "dial"}

Older(age, max) == IF age = None THEN None ELSE IF age < max THEN age + 1 ELSE max

Tick ==
  /\ \A r \in Req : Calling(r) => req[r].call < CallTimeout
  /\ byID' = [s \in DOMAIN byID |-> Older(byID[s], SessionTTL + 1)]
  /\ ticket' = Older(ticket, PVELifetime)
  /\ req' = [r \in Req |-> [req[r] EXCEPT !.held = Older(@, PVELifetime),
                                           !.call = IF Calling(r) THEN @ + 1 ELSE 0]]
  /\ UNCHANGED <<made, mu, active, opened>>

Working(r) ==
  \/ TicketCached(r) \/ TicketLogin(r) \/ TicketFetched(r) \/ TicketFails(r)
  \/ CreateProxyFails(r) \/ \E s \in Sid : Create(r, s)
  \/ TakePlace(r) \/ Dial(r) \/ DialFails(r) \/ GiveUpPlace(r)

Next ==
  \/ \E r \in Req : Working(r) \/ OpenConsole(r) \/ PipeEnds(r) \/ \E s \in Sid : Claim(r, s)
  \/ Tick

\* A request that can go on does, Go's mutexes are starvation-free, and calls
\* to Proxmox time out.  A bridge may stay open for ever.
Fairness == \A r \in Req : SF_vars(Working(r))

Spec == Init /\ [][Next]_vars /\ Fairness

----------------------------------------------------------------------------
\* Every request, session and count is in its range.
TypeOK ==
  /\ DOMAIN byID \subseteq Sid /\ \A s \in DOMAIN byID : byID[s] \in 0..(SessionTTL + 1)
  /\ made \subseteq Sid
  /\ ticket \in 0..PVELifetime \cup {None}
  /\ mu \in Req \cup {None}
  /\ req \in [Req -> [pc : {"idle", "ticket", "login", "proxy", "place", "dial", "pipe", "close"},
                      sid : Sid \cup {None}, kind : {"post", "ws"},
                      held : 0..PVELifetime \cup {None}, call : 0..CallTimeout]]
  /\ opened \in [Sid -> Nat]

\* What a console request holds is its own and good: a session opens one
\* bridge, however many browsers present it; the places taken are those of the
\* requests past the count, on every way out, and at most maxBridges; and the
\* ticket a call shows is one Proxmox accepts until the call is over.
PlacesExact ==
  /\ \A s \in Sid : opened[s] <= 1
  /\ active = Cardinality({r \in Req : req[r].kind = "ws" /\ ~At(r, "place")})
  /\ active <= MaxBridges
  /\ \A r \in Req : req[r].pc \in {"proxy", "dial"} => req[r].held < PVELifetime

\* Nobody waits for ever behind another's login to Proxmox: a POST is answered,
\* and a websocket is bridged or refused.
ConsoleAnswered ==
  \A r \in Req : At(r, "ticket") ~> req[r].pc \in {"idle", "pipe"}
=============================================================================
