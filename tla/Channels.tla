------------------------------ MODULE Channels ------------------------------
(***************************************************************************)
(* The two long-lived channels of the API, the event stream and the        *)
(* console.  No action of one reads or writes a variable of the other, so  *)
(* a behaviour of the process is, for each, a behaviour of that one alone: *)
(* a behaviour here follows one, part, and leaves the other where it       *)
(* started.                                                                *)
(***************************************************************************)
EXTENDS Integers, FiniteSets

CONSTANTS
  Conn, User, Admin, VMID, Publisher, Poller, Subject, FirstOwner,
  Buffer, MaxStreams, MaxFrames, MaxMoves,
  Req, Sid, SessionTTL, TicketLifetime, PVELifetime, CallTimeout, MaxBridges, MaxSessions,
  None

\* A channel has room for a frame, and a call to Proxmox ends before a ticket
\* that was fresh at its start has expired.
ASSUME ChannelsAssumption ==
  /\ IsFiniteSet(Conn) /\ IsFiniteSet(Req)
  /\ Admin \subseteq User /\ Poller \in Publisher /\ Subject \subseteq SUBSET VMID
  /\ FirstOwner \in [VMID -> (User \ Admin) \cup {None}]
  /\ Buffer \in Nat \ {0} /\ MaxStreams \in Nat /\ MaxFrames \in Nat /\ MaxMoves \in Nat
  /\ SessionTTL \in Nat /\ MaxBridges \in Nat /\ CallTimeout \in Nat /\ PVELifetime \in Nat
  /\ TicketLifetime \in Nat \ {0} /\ TicketLifetime + CallTimeout <= PVELifetime
  /\ None \notin User \cup Conn \cup Req \cup Sid \cup 0..PVELifetime

VARIABLES
  conn, gone, count, subs, chan, pub, owner, frames, moves, last, got, since,
  byID, made, ticket, mu, req, active, opened,
  part

Events == INSTANCE EventStream
Console == INSTANCE ConsoleBridge

eventVars == <<conn, gone, count, subs, chan, pub, owner, frames, moves, last, got, since>>
consoleVars == <<byID, made, ticket, mu, req, active, opened>>
vars == <<eventVars, consoleVars, part>>

Init ==
  /\ Events!Init /\ Console!Init
  /\ part \in {"events", "console"}

Next ==
  /\ \/ part = "events" /\ Events!Next /\ UNCHANGED consoleVars
     \/ part = "console" /\ Console!Next /\ UNCHANGED eventVars
  /\ UNCHANGED part

\* What has not started has nothing to do, and fairness asks nothing of it.
Spec == Init /\ [][Next]_vars /\ Events!Fairness /\ Console!Fairness

\* Publish never sends on a channel that a handler's cancel has closed.
NoSendOnClosed == Events!NoSendOnClosed

\* A slow subscriber loses its oldest frames, never the newest, in order.
NewestKept == Events!NewestKept

\* A tenant's stream carries nothing about a guest that was not its own at some
\* time since the handler last fetched the owned set, and no cluster metrics.
NeverForeign == Events!NeverForeign

\* A client that left or stopped reading gives its stream's slot back, whatever
\* Publish is doing.
StreamReleased == Events!StreamReleased

\* connLimiter counts a user's streams exactly and Proxy.active the bridges, on
\* every way out of the handlers; a console session opens one bridge, with a
\* ticket that Proxmox accepts.
PlacesExact == Events!SlotsExact /\ Console!PlacesExact

\* Nobody waits for ever behind another's login to Proxmox.
ConsoleAnswered == Console!ConsoleAnswered
=============================================================================
