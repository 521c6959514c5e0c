---------------------------- MODULE EventStream ----------------------------
(***************************************************************************)
(* The live event stream: the Broker, the SSE Handler with its limit on    *)
(* streams per user and its filter on what a tenant may see, and the       *)
(* MetricsPoller.                                                          *)
(*                                                                         *)
(* Publish holds the broker's mutex over its whole loop, and while it does *)
(* the subscribers keep reading their channels; so a publish is a step per *)
(* channel operation.  A connection is the goroutine of one handler and    *)
(* its channel.  A user stands for his session's active tenant; the owner  *)
(* of a VMID changes under the streams.  Task, deployment and warning      *)
(* frames name one guest and deployment-set frames several: a frame is the *)
(* set of the VMIDs it names.                                              *)
(***************************************************************************)
EXTENDS Integers, Sequences, FiniteSets

CONSTANTS
  Conn, User, Admin, VMID, Publisher, Poller, None,
  Subject,     \* the sets of guests frames are about
  FirstOwner,  \* who owns a VMID at first
  Buffer,      \* subscriberBuffer
  MaxStreams,  \* maxSSEPerUser
  MaxFrames,   \* bound: frames published
  MaxMoves     \* bound: changes of ownership

VARIABLES
  conn,    \* the handlers: where they are, whose, and ownedSet
  gone,    \* clients that left or stopped reading
  count,   \* connLimiter.count
  subs,    \* Broker.subs
  chan,    \* the channels' contents
  pub,     \* the publishers inside Publish
  owner,   \* who owns a VMID, active or pending
  frames, moves,
  last,    \* history: the newest frame offered to a channel
  got,     \* history: the frame a connection last took, and whether it wrote it
  since    \* history: VMIDs the user owned at some time since the last refresh

vars == <<conn, gone, count, subs, chan, pub, owner, frames, moves, last, got, since>>

Frame == [id : 0..MaxFrames, name : {"guest", "metrics"}, vmids : SUBSET VMID]
NoFrame == [id |-> 0, name |-> "guest", vmids |-> {}]
NotConnected == [pc |-> "off", user |-> None, owned |-> {}]
Idle == [pc |-> "idle", frame |-> NoFrame, todo |-> {}, at |-> None]

At(c, pc) == conn[c].pc = pc
Step(c, pc) == conn' = [conn EXCEPT ![c].pc = pc]

Init ==
  /\ conn = [c \in Conn |-> NotConnected]
  /\ gone = {}
  /\ count = [u \in User |-> 0]
  /\ subs = {}
  /\ chan = [c \in Conn |-> <<>>]
  /\ pub = [p \in Publisher |-> Idle]
  /\ owner = FirstOwner
  /\ frames = 0 /\ moves = 0
  /\ last = [c \in Conn |-> 0]
  /\ got = [c \in Conn |-> [frame |-> NoFrame, written |-> FALSE]]
  /\ since = [c \in Conn |-> {}]

\* Nobody holds Broker.mu; only Publish holds it for longer than one step.
MuFree == \A p \in Publisher : pub[p].pc \notin {"send", "drop", "again"}

----------------------------------------------------------------------------
(* Handler                                                                 *)

\* ownedVMIDsResolver: the active and pending ownerships of the tenant.  For a
\* platform admin nothing is fetched.
OwnedVMIDs(u) == {v \in VMID : owner[v] = u /\ u \notin Admin}

\* A set of owned VMIDs as refresh leaves it: an error keeps the old one.
Fetched(u, old, new) == new \in {old, OwnedVMIDs(u)}

\* connLimiter.acquire, then the first refresh; a user at the limit is answered
\* 429 and nothing changes.
Acquire(c, u, owned) ==
  /\ At(c, "off")
  /\ count[u] < MaxStreams
  /\ Fetched(u, {}, owned)
  /\ count' = [count EXCEPT ![u] = @ + 1]
  /\ conn' = [conn EXCEPT ![c] = [pc |-> "fetched", user |-> u, owned |-> owned]]
  /\ since' = [since EXCEPT ![c] = owned]
  /\ UNCHANGED <<gone, subs, chan, pub, owner, frames, moves, last, got>>

\* refresh by the ticker; where it fails nothing changes.
Refresh(c) ==
  /\ At(c, "live")
  /\ conn[c].user \notin Admin
  /\ conn' = [conn EXCEPT ![c].owned = OwnedVMIDs(conn[c].user)]
  /\ since' = [since EXCEPT ![c] = OwnedVMIDs(conn[c].user)]
  /\ got' = [got EXCEPT ![c].written = FALSE]
  /\ UNCHANGED <<gone, count, subs, chan, pub, owner, frames, moves, last>>

\* The retry frame is written, then Subscribe waits for the mutex.
Subscribe(c) ==
  /\ At(c, "fetched")
  /\ MuFree
  /\ subs' = subs \cup {c}
  /\ chan' = [chan EXCEPT ![c] = <<>>]
  /\ last' = [last EXCEPT ![c] = 0]
  /\ got' = [got EXCEPT ![c] = [frame |-> NoFrame, written |-> FALSE]]
  /\ Step(c, "live")
  /\ UNCHANGED <<gone, count, pub, owner, frames, moves, since>>

\* The retry frame cannot be written: return, and the deferred release.
GreetFails(c) ==
  /\ At(c, "fetched")
  /\ Step(c, "cancelled")
  /\ UNCHANGED <<gone, count, subs, chan, pub, owner, frames, moves, last, got, since>>

Deliver_AnyMember(f, c) ==
  \/ conn[c].user \in Admin
  \/ f.name # "metrics" /\ f.vmids \cap conn[c].owned # {}

\* deliver: cluster metrics go to administrators; what names guests goes to the
\* tenant that owns every one of them, and a frame that names none to nobody.
\* No frame of another name is published.
Deliver(f, c) ==
  \/ conn[c].user \in Admin
  \/ f.name # "metrics" /\ f.vmids # {} /\ f.vmids \subseteq conn[c].owned

\* An event is taken from the channel and, if it may be seen, written.
Receive(c) ==
  /\ At(c, "live")
  /\ chan[c] # <<>>
  /\ LET f == Head(chan[c]) IN
     got' = [got EXCEPT ![c] = [frame |-> f, written |-> Deliver(f, c)]]
  /\ chan' = [chan EXCEPT ![c] = Tail(@)]
  /\ UNCHANGED <<conn, gone, count, subs, pub, owner, frames, moves, last, since>>

HangUp_OnFrame(c) ==
  /\ At(c, "live")
  /\ c \in gone /\ chan[c] # <<>>
  /\ Step(c, "leaving")
  /\ UNCHANGED <<gone, count, subs, chan, pub, owner, frames, moves, last, got, since>>

\* The request context is done, or a heartbeat or frame cannot be written
\* within sseWriteTimeout: the handler returns.
HangUp(c) ==
  /\ At(c, "live")
  /\ c \in gone
  /\ Step(c, "leaving")
  /\ UNCHANGED <<gone, count, subs, chan, pub, owner, frames, moves, last, got, since>>

CancelDelete_Unlocked(c) ==
  /\ At(c, "leaving")
  /\ subs' = subs \ {c}
  /\ Step(c, "cancelled")
  /\ UNCHANGED <<gone, count, chan, pub, owner, frames, moves, last, got, since>>

\* cancel, first half: off the map, under the mutex.
CancelDelete(c) ==
  /\ At(c, "leaving")
  /\ MuFree
  /\ subs' = subs \ {c}
  /\ Step(c, "cancelled")
  /\ UNCHANGED <<gone, count, chan, pub, owner, frames, moves, last, got, since>>

\* cancel, second half: the channel is closed, outside the mutex; then
\* connLimiter.release, the last of the deferred calls.
CloseRelease(c) ==
  /\ At(c, "cancelled")
  /\ count' = [count EXCEPT ![conn[c].user] = IF @ > 0 THEN @ - 1 ELSE 0]
  /\ conn' = [conn EXCEPT ![c] = NotConnected]
  /\ gone' = gone \ {c}
  /\ chan' = [chan EXCEPT ![c] = <<>>]
  /\ last' = [last EXCEPT ![c] = 0]
  /\ got' = [got EXCEPT ![c] = [frame |-> NoFrame, written |-> FALSE]]
  /\ since' = [since EXCEPT ![c] = {}]
  /\ UNCHANGED <<subs, pub, owner, frames, moves>>

----------------------------------------------------------------------------
(* Publish, and the poller                                                 *)

\* Run: a tick of the poller asks for SubscriberCount, and with none it idles.
PollTick ==
  /\ pub[Poller].pc = "idle"
  /\ MuFree
  /\ subs # {}
  /\ pub' = [pub EXCEPT ![Poller].pc = "fetch"]
  /\ UNCHANGED <<conn, gone, count, subs, chan, owner, frames, moves, last, got, since>>

\* tick: ClusterResources fails and nothing is published.
PollFails ==
  /\ pub[Poller].pc = "fetch"
  /\ pub' = [pub EXCEPT ![Poller] = Idle]
  /\ UNCHANGED <<conn, gone, count, subs, chan, owner, frames, moves, last, got, since>>

\* The poller publishes what it measured, every other publisher what it did to
\* guests; a task without a resource names none.
PublishLock(p, name, vmids) ==
  /\ IF p = Poller THEN pub[p].pc = "fetch" /\ name = "metrics"
     ELSE pub[p].pc = "idle" /\ name = "guest"
  /\ MuFree
  /\ frames < MaxFrames
  /\ frames' = frames + 1
  /\ pub' = [pub EXCEPT ![p] = [pc |-> "send", todo |-> subs, at |-> None,
                                frame |-> [id |-> frames + 1, name |-> name, vmids |-> vmids]]]
  /\ UNCHANGED <<conn, gone, count, subs, chan, owner, moves, last, got, since>>

Room(c) == Len(chan[c]) < Buffer

\* The frame goes into c's channel, and the loop goes on to the next.
Sent(p, c) ==
  /\ chan' = [chan EXCEPT ![c] = Append(@, pub[p].frame)]
  /\ last' = [last EXCEPT ![c] = pub[p].frame.id]
  /\ pub' = [pub EXCEPT ![p].pc = "send", ![p].at = None, ![p].todo = @ \ {c}]

PublishSend_DropsNew(p, c) ==
  /\ pub[p].pc = "send" /\ c \in pub[p].todo
  /\ IF Room(c) THEN Sent(p, c)
     ELSE /\ pub' = [pub EXCEPT ![p].todo = @ \ {c}]
          /\ last' = [last EXCEPT ![c] = pub[p].frame.id]
          /\ UNCHANGED chan
  /\ UNCHANGED <<conn, gone, count, subs, owner, frames, moves, got, since>>

\* The send that does not wait.
PublishSend(p, c) ==
  /\ pub[p].pc = "send" /\ c \in pub[p].todo
  /\ IF Room(c) THEN Sent(p, c)
     ELSE pub' = [pub EXCEPT ![p].pc = "drop", ![p].at = c] /\ UNCHANGED <<chan, last>>
  /\ UNCHANGED <<conn, gone, count, subs, owner, frames, moves, got, since>>

\* Drop the oldest, if the reader has not emptied the channel meanwhile.
PublishDrop(p) ==
  /\ pub[p].pc = "drop"
  /\ LET c == pub[p].at IN
     chan' = [chan EXCEPT ![c] = IF @ = <<>> THEN @ ELSE Tail(@)]
  /\ pub' = [pub EXCEPT ![p].pc = "again"]
  /\ UNCHANGED <<conn, gone, count, subs, owner, frames, moves, last, got, since>>

\* The second attempt; its default case loses the new frame.
PublishAgain(p) ==
  /\ pub[p].pc = "again"
  /\ LET c == pub[p].at IN
     IF Room(c) THEN Sent(p, c)
     ELSE /\ last' = [last EXCEPT ![c] = pub[p].frame.id]
          /\ pub' = [pub EXCEPT ![p].pc = "send", ![p].at = None, ![p].todo = @ \ {c}]
          /\ UNCHANGED chan
  /\ UNCHANGED <<conn, gone, count, subs, owner, frames, moves, got, since>>

PublishUnlock(p) ==
  /\ pub[p].pc = "send" /\ pub[p].todo = {}
  /\ pub' = [pub EXCEPT ![p] = Idle]
  /\ UNCHANGED <<conn, gone, count, subs, chan, owner, frames, moves, last, got, since>>

----------------------------------------------------------------------------
(* Clients and ownership                                                   *)

\* Before the stream is live, leaving only makes the fetch or the first write fail.
Leave(c) ==
  /\ At(c, "live")
  /\ c \notin gone
  /\ gone' = gone \cup {c}
  /\ UNCHANGED <<conn, count, subs, chan, pub, owner, frames, moves, last, got, since>>

\* A VMID is reserved by a tenant, or its ownership ends.
Move(v, u) ==
  /\ moves < MaxMoves
  /\ (owner[v] = None) # (u = None)
  /\ owner' = [owner EXCEPT ![v] = u]
  /\ moves' = moves + 1
  /\ since' = [c \in Conn |-> IF conn[c].user = u /\ u # None THEN since[c] \cup {v} ELSE since[c]]
  /\ UNCHANGED <<conn, gone, count, subs, chan, pub, frames, last, got>>

Publishing(p) ==
  PublishDrop(p) \/ PublishAgain(p) \/ PublishUnlock(p) \/ \E c \in Conn : PublishSend(p, c)

Returning(c) == Subscribe(c) \/ GreetFails(c) \/ HangUp(c) \/ CancelDelete(c) \/ CloseRelease(c)

Next ==
  \/ \E c \in Conn :
       \/ \E u \in User, owned \in SUBSET VMID : Acquire(c, u, owned)
       \/ Refresh(c) \/ Receive(c) \/ Returning(c) \/ Leave(c)
  \/ \E p \in Publisher :
       \/ Publishing(p)
       \/ PublishLock(p, "metrics", {})
       \/ \E vs \in Subject : PublishLock(p, "guest", vs)
  \/ PollTick \/ PollFails
  \/ \E v \in VMID, u \in (User \ Admin) \cup {None} : Move(v, u)

\* A goroutine that can run runs: with MaxFrames publishes the mutex is free from
\* some time on, so waiting for it needs no more than weak fairness.  Nothing is
\* assumed of the clients: they may never read.
Fairness ==
  /\ \A p \in Publisher : WF_vars(Publishing(p))
  /\ \A c \in Conn : WF_vars(Returning(c))

Spec == Init /\ [][Next]_vars /\ Fairness

----------------------------------------------------------------------------
\* Every handler, channel, counter and publish is in its range.
TypeOK ==
  /\ conn \in [Conn -> [pc : {"off", "fetched", "live", "leaving", "cancelled"},
                        user : User \cup {None}, owned : SUBSET VMID]]
  /\ gone \subseteq Conn /\ subs \subseteq Conn
  /\ count \in [User -> 0..MaxStreams]
  /\ \A c \in Conn : Len(chan[c]) <= Buffer /\ \A i \in DOMAIN chan[c] : chan[c][i] \in Frame
  /\ pub \in [Publisher -> [pc : {"idle", "fetch", "send", "drop", "again"}, frame : Frame,
                            todo : SUBSET Conn, at : Conn \cup {None}]]
  /\ owner \in [VMID -> User \cup {None}]

\* Publish never sends on a channel that its cancel has closed (a panic of the
\* whole process): whoever is still to be served is still subscribed.
NoSendOnClosed ==
  \A p \in Publisher : \A c \in pub[p].todo : conn[c].pc \in {"live", "leaving"}

\* A slow subscriber loses its oldest frames, never the newest, and none is
\* reordered, although it reads while Publish drops and sends.
NewestKept ==
  \A c \in subs :
    /\ \A i \in 1..(Len(chan[c]) - 1) : chan[c][i].id < chan[c][i + 1].id
    /\ chan[c] # <<>> => got[c].frame.id < Head(chan[c]).id
    /\ (\A p \in Publisher : pub[p].at # c)
         => last[c] = (IF chan[c] = <<>> THEN got[c].frame.id ELSE chan[c][Len(chan[c])].id)

\* A tenant's stream carries no cluster metrics, and nothing about a guest that
\* was not its own at some time since the owned set was last fetched.
NeverForeign ==
  \A c \in Conn :
    got[c].written /\ conn[c].user \notin Admin
      => got[c].frame.name # "metrics" /\ got[c].frame.vmids \subseteq since[c]

\* A user's count is the number of his streams, on every way out of the handler.
SlotsExact ==
  \A u \in User : count[u] = Cardinality({c \in Conn : conn[c].user = u})

\* The broker never blocks: when a client left or stopped reading, its handler
\* returns, whatever is being published, and the slot is free again.
StreamReleased ==
  \A c \in Conn : c \in gone ~> At(c, "off")
=============================================================================
