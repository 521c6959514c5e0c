--------------------------- MODULE ChannelsProofs ---------------------------
(***************************************************************************)
(* Proofs about the event stream and the console, for any number of        *)
(* connections, users, publishers, console requests and sessions.          *)
(***************************************************************************)
EXTENDS Channels, Sequences, FiniteSetTheorems, SequenceTheorems, TLAPS

Frame == Events!Frame
ConnRow == [pc : {"off", "fetched", "live", "leaving", "cancelled"},
            user : User \cup {None}, owned : SUBSET VMID]
PubRow == [pc : {"idle", "fetch", "send", "drop", "again"}, frame : Frame,
           todo : SUBSET Conn, at : Conn \cup {None}]
GotRow == [frame : Frame, written : BOOLEAN]

\* The types of the event stream.
StreamTypes ==
  /\ conn \in [Conn -> ConnRow]
  /\ count \in [User -> Nat]
  /\ chan \in [Conn -> Seq(Frame)] /\ \A c \in Conn : Len(chan[c]) <= Buffer
  /\ pub \in [Publisher -> PubRow]
  /\ owner \in [VMID -> (User \ Admin) \cup {None}]
  /\ frames \in 0..MaxFrames
  /\ last \in [Conn -> 0..MaxFrames]
  /\ got \in [Conn -> GotRow]
  /\ since \in [Conn -> SUBSET VMID]

\* Publish holds the mutex.
Busy(p) == pub[p].pc \in {"send", "drop", "again"}

\* One Publish at a time has channels still to serve, all of them subscribed,
\* and a channel it is at is one of those.
MutexInv ==
  /\ subs = {c \in Conn : conn[c].pc \in {"live", "leaving"}}
  /\ \A p \in Publisher : IF Busy(p) THEN pub[p].todo \subseteq subs ELSE pub[p].todo = {}
  /\ \A p, q \in Publisher : Busy(p) /\ Busy(q) => p = q
  /\ \A p \in Publisher : IF pub[p].pc \in {"drop", "again"} THEN pub[p].at \in pub[p].todo
                          ELSE pub[p].at = None

\* A handler that is on has its user's slot.
SlotsInv ==
  /\ \A c \in Conn : conn[c].user = None <=> conn[c].pc = "off"
  /\ Events!SlotsExact

\* What a handler believes its tenant owns, it has owned since the last fetch.
ForeignInv ==
  /\ \A c \in Conn : conn[c].owned \subseteq since[c]
  /\ \A c \in Conn : conn[c].pc = "off" => ~got[c].written
  /\ Events!NeverForeign

\* The frames of a channel are in order, newer than the one read before and none
\* newer than the newest offered.
Ordered(s, g, l) ==
  /\ \A i \in 1..(Len(s) - 1) : s[i].id < s[i + 1].id
  /\ s # <<>> => g.id < Head(s).id
  /\ \A i \in 1..Len(s) : s[i].id <= l
  /\ g.id <= l
Newest(s, g) == IF s = <<>> THEN g.id ELSE s[Len(s)].id
OrderInv ==
  /\ \A c \in Conn : Ordered(chan[c], got[c].frame, last[c]) /\ last[c] <= frames
  /\ \A c \in Conn : (\A p \in Publisher : pub[p].at # c)
                       => last[c] = Newest(chan[c], got[c].frame)
  /\ \A p \in Publisher : pub[p].frame.id <= frames
  /\ \A p \in Publisher : \A c \in pub[p].todo : last[c] < pub[p].frame.id
  /\ \A p \in Publisher : pub[p].pc = "again" => Len(chan[pub[p].at]) < Buffer

----------------------------------------------------------------------------
ReqRow == [pc : {"idle", "ticket", "login", "proxy", "place", "dial", "pipe", "close"},
           sid : Sid \cup {None}, kind : {"post", "ws"},
           held : 0..PVELifetime \cup {None}, call : 0..CallTimeout]

\* The types of the console; a websocket never asks for a proxy, a POST never
\* for a place.
ConsoleTypes ==
  /\ DOMAIN byID \subseteq Sid
  /\ ticket \in 0..PVELifetime \cup {None}
  /\ req \in [Req -> ReqRow]
  /\ opened \in [Sid -> Nat] /\ active \in Nat
  /\ \A r \in Req : /\ req[r].pc \in {"place", "dial", "pipe", "close"} => req[r].kind = "ws"
                    /\ req[r].pc \in {"idle", "proxy"} => req[r].kind = "post"

\* A session is registered before it is claimed and once; the places are those
\* of the websockets past the count; a ticket in use was fresh when the call
\* began.
Placed == {r \in Req : req[r].kind = "ws" /\ req[r].pc # "place"}
ConsoleInv ==
  /\ DOMAIN byID \subseteq made
  /\ \A s \in Sid : opened[s] <= 1 /\ (s \in DOMAIN byID \/ s \notin made => opened[s] = 0)
  /\ active = Cardinality(Placed) /\ active <= MaxBridges
  /\ \A r \in Req : req[r].pc \in {"proxy", "dial"} =>
       req[r].held # None /\ req[r].held < TicketLifetime + req[r].call

----------------------------------------------------------------------------
(* Types of the event stream.                                              *)

LEMMA Constants ==
  /\ Events!NoFrame \in Frame /\ Events!NoFrame.id = 0
  /\ Events!Idle \in PubRow /\ Events!Idle.pc = "idle" /\ Events!Idle.todo = {}
  /\ Events!Idle.at = None /\ Events!Idle.frame = Events!NoFrame
  /\ Events!NotConnected \in ConnRow /\ Events!NotConnected.pc = "off"
  /\ Events!NotConnected.user = None /\ Events!NotConnected.owned = {}
<1>1. Events!NoFrame \in Frame /\ Events!NoFrame.id = 0
  BY ChannelsAssumption DEF Events!NoFrame, Frame, Events!Frame
<1>2. /\ Events!Idle \in PubRow /\ Events!Idle.pc = "idle" /\ Events!Idle.todo = {}
      /\ Events!Idle.at = None /\ Events!Idle.frame = Events!NoFrame
  BY <1>1 DEF Events!Idle, PubRow
<1>3. /\ Events!NotConnected \in ConnRow /\ Events!NotConnected.pc = "off"
      /\ Events!NotConnected.user = None /\ Events!NotConnected.owned = {}
  BY DEF Events!NotConnected, ConnRow
<1> QED BY <1>1, <1>2, <1>3

LEMMA FrameIds == \A f \in Frame : f.id \in 0..MaxFrames /\ f.id \in Int
BY ChannelsAssumption DEF Frame, Events!Frame

\* What Sent does to the publisher and the channel.
LEMMA SentTypes ==
  ASSUME StreamTypes, NEW p \in Publisher, NEW c \in Conn, Events!Room(c), Events!Sent(p, c)
  PROVE  /\ pub' \in [Publisher -> PubRow]
         /\ chan' \in [Conn -> Seq(Frame)] /\ \A d \in Conn : Len(chan'[d]) <= Buffer
         /\ last' \in [Conn -> 0..MaxFrames]
         /\ pub'[p].pc = "send" /\ pub'[p].at = None /\ pub'[p].todo = pub[p].todo \ {c}
         /\ pub'[p].frame = pub[p].frame
         /\ \A q \in Publisher : q # p => pub'[q] = pub[q]
         /\ chan'[c] = Append(chan[c], pub[p].frame) /\ last'[c] = pub[p].frame.id
         /\ \A d \in Conn : d # c => chan'[d] = chan[d] /\ last'[d] = last[d]
<1>1. pub[p] \in PubRow /\ chan[c] \in Seq(Frame) /\ pub[p].frame \in Frame
  BY DEF StreamTypes, PubRow
<1>2. /\ pub' = [pub EXCEPT ![p].pc = "send", ![p].at = None, ![p].todo = @ \ {c}]
      /\ chan' = [chan EXCEPT ![c] = Append(@, pub[p].frame)]
      /\ last' = [last EXCEPT ![c] = pub[p].frame.id]
  BY DEF Events!Sent
<1>3. /\ pub' \in [Publisher -> PubRow]
      /\ pub'[p].pc = "send" /\ pub'[p].at = None /\ pub'[p].todo = pub[p].todo \ {c}
      /\ pub'[p].frame = pub[p].frame
      /\ \A q \in Publisher : q # p => pub'[q] = pub[q]
  BY <1>1, <1>2 DEF StreamTypes, PubRow
<1>4. Append(chan[c], pub[p].frame) \in Seq(Frame) /\ Len(Append(chan[c], pub[p].frame)) <= Buffer
  BY <1>1, ChannelsAssumption DEF Events!Room
<1>5. /\ chan' \in [Conn -> Seq(Frame)] /\ \A d \in Conn : Len(chan'[d]) <= Buffer
      /\ chan'[c] = Append(chan[c], pub[p].frame)
      /\ \A d \in Conn : d # c => chan'[d] = chan[d]
  BY <1>2, <1>4 DEF StreamTypes
<1>6. /\ last' \in [Conn -> 0..MaxFrames] /\ last'[c] = pub[p].frame.id
      /\ \A d \in Conn : d # c => last'[d] = last[d]
  BY <1>1, <1>2, FrameIds DEF StreamTypes
<1> QED BY <1>3, <1>5, <1>6

LEMMA InitStream == Events!Init => StreamTypes
<1> SUFFICES ASSUME Events!Init PROVE StreamTypes
  OBVIOUS
<1>1. <<>> \in Seq(Frame) /\ Len(<<>>) <= Buffer
  BY ChannelsAssumption
<1>2. [frame |-> Events!NoFrame, written |-> FALSE] \in GotRow
  BY Constants DEF GotRow
<1> QED BY <1>1, <1>2, Constants, ChannelsAssumption DEF Events!Init, StreamTypes

\* The loop of Publish comes to a full channel, or gives a channel up.
LEMMA PubDrops ==
  ASSUME StreamTypes, NEW p \in Publisher, NEW c \in Conn,
         pub' = [pub EXCEPT ![p].pc = "drop", ![p].at = c]
  PROVE  /\ pub' \in [Publisher -> PubRow]
         /\ pub'[p].pc = "drop" /\ pub'[p].at = c
         /\ pub'[p].todo = pub[p].todo /\ pub'[p].frame = pub[p].frame
         /\ \A q \in Publisher : q # p => pub'[q] = pub[q]
BY DEF StreamTypes, PubRow

LEMMA PubMoves ==
  ASSUME StreamTypes, NEW p \in Publisher, NEW pc \in {"idle", "fetch", "send", "drop", "again"},
         pub' = [pub EXCEPT ![p].pc = pc]
  PROVE  /\ pub' \in [Publisher -> PubRow]
         /\ pub'[p].pc = pc /\ pub'[p].at = pub[p].at
         /\ pub'[p].todo = pub[p].todo /\ pub'[p].frame = pub[p].frame
         /\ \A q \in Publisher : q # p => pub'[q] = pub[q]
BY DEF StreamTypes, PubRow

LEMMA PubDone ==
  ASSUME StreamTypes, NEW p \in Publisher, NEW c \in Conn,
         pub' = [pub EXCEPT ![p].pc = "send", ![p].at = None, ![p].todo = @ \ {c}]
  PROVE  /\ pub' \in [Publisher -> PubRow]
         /\ pub'[p].pc = "send" /\ pub'[p].at = None /\ pub'[p].todo = pub[p].todo \ {c}
         /\ pub'[p].frame = pub[p].frame
         /\ \A q \in Publisher : q # p => pub'[q] = pub[q]
BY DEF StreamTypes, PubRow

\* PublishSend, to a channel with room or without.
LEMMA SendTypes ==
  ASSUME StreamTypes, NEW p \in Publisher, NEW c \in Conn, Events!PublishSend(p, c)
  PROVE  /\ StreamTypes'
         /\ \/ Events!Room(c) /\ Events!Sent(p, c)
            \/ /\ pub'[p].pc = "drop" /\ pub'[p].at = c
               /\ pub'[p].todo = pub[p].todo /\ pub'[p].frame = pub[p].frame
               /\ \A q \in Publisher : q # p => pub'[q] = pub[q]
               /\ UNCHANGED <<chan, last>>
<1>1. CASE Events!Room(c)
  BY <1>1, SentTypes DEF Events!PublishSend, StreamTypes
<1>2. CASE ~Events!Room(c)
  <2>1. pub' = [pub EXCEPT ![p].pc = "drop", ![p].at = c] /\ UNCHANGED <<chan, last>>
    BY <1>2 DEF Events!PublishSend
  <2>2. /\ pub' \in [Publisher -> PubRow]
        /\ pub'[p].pc = "drop" /\ pub'[p].at = c
        /\ pub'[p].todo = pub[p].todo /\ pub'[p].frame = pub[p].frame
        /\ \A q \in Publisher : q # p => pub'[q] = pub[q]
    BY <2>1, PubDrops
  <2>3. StreamTypes'
    BY <2>1, <2>2 DEF StreamTypes, Events!PublishSend
  <2> QED BY <2>1, <2>2, <2>3
<1> QED BY <1>1, <1>2

\* PublishDrop takes at most the head.
LEMMA DropTypes ==
  ASSUME StreamTypes, MutexInv, NEW p \in Publisher, Events!PublishDrop(p)
  PROVE  /\ StreamTypes'
         /\ pub'[p].pc = "again" /\ pub'[p].at = pub[p].at
         /\ pub'[p].todo = pub[p].todo /\ pub'[p].frame = pub[p].frame
         /\ \A q \in Publisher : q # p => pub'[q] = pub[q]
         /\ pub[p].at \in Conn
         /\ chan[pub[p].at] \in Seq(Frame)
         /\ chan'[pub[p].at] = IF chan[pub[p].at] = <<>> THEN <<>> ELSE Tail(chan[pub[p].at])
         /\ \A d \in Conn : d # pub[p].at => chan'[d] = chan[d]
         /\ Len(chan'[pub[p].at]) < Buffer
<1>1. PICK c \in Conn : c = pub[p].at
  BY DEF MutexInv, StreamTypes, PubRow, Events!PublishDrop
<1>2. /\ pub' = [pub EXCEPT ![p].pc = "again"]
      /\ chan' = [chan EXCEPT ![c] = IF @ = <<>> THEN @ ELSE Tail(@)]
      /\ UNCHANGED <<conn, count, owner, frames, last, got, since>>
  BY <1>1 DEF Events!PublishDrop
<1>3. chan[c] \in Seq(Frame) /\ Len(chan[c]) <= Buffer
  BY DEF StreamTypes
<1> DEFINE t == IF chan[c] = <<>> THEN <<>> ELSE Tail(chan[c])
<1>4. t \in Seq(Frame) /\ Len(t) < Buffer /\ Len(t) <= Buffer
  BY <1>3, ChannelsAssumption
<1>5. /\ chan' = [chan EXCEPT ![c] = t]
  BY <1>2
<1> HIDE DEF t
<1>6. chan'[c] = t /\ \A d \in Conn : d # c => chan'[d] = chan[d]
  BY <1>5 DEF StreamTypes
<1>7. chan' \in [Conn -> Seq(Frame)] /\ \A d \in Conn : Len(chan'[d]) <= Buffer
  BY <1>4, <1>5, <1>6 DEF StreamTypes
<1>8. /\ pub' \in [Publisher -> PubRow]
      /\ pub'[p].pc = "again" /\ pub'[p].at = pub[p].at
      /\ pub'[p].todo = pub[p].todo /\ pub'[p].frame = pub[p].frame
      /\ \A q \in Publisher : q # p => pub'[q] = pub[q]
  BY <1>2, PubMoves
<1>9. StreamTypes'
  BY <1>2, <1>7, <1>8 DEF StreamTypes
<1> QED BY <1>1, <1>3, <1>4, <1>6, <1>8, <1>9 DEF t

LEMMA AgainTypes ==
  ASSUME StreamTypes, MutexInv, NEW p \in Publisher, Events!PublishAgain(p)
  PROVE  /\ StreamTypes'
         /\ pub[p].at \in Conn
         /\ pub'[p].pc = "send" /\ pub'[p].at = None /\ pub'[p].frame = pub[p].frame
         /\ pub'[p].todo = pub[p].todo \ {pub[p].at}
         /\ \A q \in Publisher : q # p => pub'[q] = pub[q]
         /\ Events!Room(pub[p].at) => Events!Sent(p, pub[p].at)
<1>1. PICK c \in Conn : c = pub[p].at
  BY DEF MutexInv, StreamTypes, PubRow, Events!PublishAgain
<1>2. CASE Events!Room(c)
  <2>1. Events!Sent(p, c) /\ UNCHANGED <<conn, count, owner, frames, got, since>>
    BY <1>1, <1>2 DEF Events!PublishAgain
  <2> QED BY <1>1, <1>2, <2>1, SentTypes DEF StreamTypes
<1>3. CASE ~Events!Room(c)
  <2>1. /\ last' = [last EXCEPT ![c] = pub[p].frame.id]
        /\ pub' = [pub EXCEPT ![p].pc = "send", ![p].at = None, ![p].todo = @ \ {c}]
        /\ UNCHANGED <<conn, count, owner, frames, got, since, chan>>
    BY <1>1, <1>3 DEF Events!PublishAgain
  <2>2. pub[p].frame.id \in 0..MaxFrames
    BY FrameIds DEF StreamTypes, PubRow
  <2>3. last' \in [Conn -> 0..MaxFrames]
    BY <2>1, <2>2 DEF StreamTypes
  <2> QED BY <1>1, <1>3, <2>1, <2>3, PubDone DEF StreamTypes
<1> QED BY <1>2, <1>3

\* PublishLock: a frame newer than all, for everybody who is subscribed.
LEMMA LockTypes ==
  ASSUME StreamTypes, subs \subseteq Conn, NEW p \in Publisher,
         NEW name \in {"guest", "metrics"}, NEW vs \in SUBSET VMID, Events!PublishLock(p, name, vs)
  PROVE  /\ StreamTypes'
         /\ frames' = frames + 1
         /\ pub'[p].pc = "send" /\ pub'[p].at = None /\ pub'[p].todo = subs
         /\ pub'[p].frame.id = frames + 1
         /\ \A q \in Publisher : q # p => pub'[q] = pub[q]
<1> DEFINE f == [id |-> frames + 1, name |-> name, vmids |-> vs]
           x == [pc |-> "send", todo |-> subs, at |-> None, frame |-> f]
<1>1. frames + 1 \in 0..MaxFrames /\ frames' = frames + 1
  BY ChannelsAssumption DEF StreamTypes, Events!PublishLock
<1>2. f \in Frame /\ f.id = frames + 1
  BY <1>1 DEF Frame, Events!Frame
<1>3. pub' = [pub EXCEPT ![p] = x]
  BY DEF Events!PublishLock
<1> HIDE DEF f
<1>4. x \in PubRow /\ x.pc = "send" /\ x.todo = subs /\ x.at = None /\ x.frame = f
  BY <1>2 DEF PubRow
<1> HIDE DEF x
<1>5. /\ pub' \in [Publisher -> PubRow] /\ pub'[p] = x
      /\ \A q \in Publisher : q # p => pub'[q] = pub[q]
  BY <1>3, <1>4 DEF StreamTypes
<1>6. StreamTypes'
  BY <1>1, <1>5 DEF StreamTypes, Events!PublishLock
<1> QED BY <1>1, <1>2, <1>4, <1>5, <1>6

\* Receive takes the head.
LEMMA ReceiveTypes ==
  ASSUME StreamTypes, NEW c \in Conn, Events!Receive(c)
  PROVE  /\ StreamTypes'
         /\ chan[c] \in Seq(Frame) /\ chan[c] # <<>>
         /\ chan'[c] = Tail(chan[c]) /\ got'[c].frame = Head(chan[c])
         /\ got'[c].written <=> Events!Deliver(Head(chan[c]), c)
         /\ \A d \in Conn : d # c => chan'[d] = chan[d] /\ got'[d] = got[d]
<1> DEFINE g == [frame |-> Head(chan[c]), written |-> Events!Deliver(Head(chan[c]), c)]
<1>1. chan[c] \in Seq(Frame) /\ chan[c] # <<>> /\ Len(chan[c]) <= Buffer
  BY DEF StreamTypes, Events!Receive
<1>2. Head(chan[c]) \in Frame /\ Tail(chan[c]) \in Seq(Frame) /\ Len(Tail(chan[c])) <= Buffer
  BY <1>1, ChannelsAssumption
<1>3. Events!Deliver(Head(chan[c]), c) \in BOOLEAN
  BY DEF Events!Deliver
<1>4. /\ g \in GotRow /\ g.frame = Head(chan[c])
      /\ g.written <=> Events!Deliver(Head(chan[c]), c)
  BY <1>2, <1>3, Zenon DEF GotRow
<1>5. chan' = [chan EXCEPT ![c] = Tail(chan[c])] /\ got' = [got EXCEPT ![c] = g]
  BY DEF Events!Receive
<1> HIDE DEF g
<1>6. /\ chan' \in [Conn -> Seq(Frame)] /\ \A d \in Conn : Len(chan'[d]) <= Buffer
      /\ got' \in [Conn -> GotRow]
      /\ chan'[c] = Tail(chan[c]) /\ got'[c] = g
      /\ \A d \in Conn : d # c => chan'[d] = chan[d] /\ got'[d] = got[d]
  BY <1>2, <1>4, <1>5 DEF StreamTypes
<1>7. StreamTypes'
  BY <1>6 DEF StreamTypes, Events!Receive
<1> QED BY <1>1, <1>4, <1>6, <1>7

\* The steps of a handler that move it to another place.
LEMMA StepTypes ==
  ASSUME StreamTypes, NEW c \in Conn, NEW pc \in {"off", "fetched", "live", "leaving", "cancelled"},
         Events!Step(c, pc)
  PROVE  /\ conn' \in [Conn -> ConnRow]
         /\ conn'[c].pc = pc /\ conn'[c].user = conn[c].user /\ conn'[c].owned = conn[c].owned
         /\ \A d \in Conn : d # c => conn'[d] = conn[d]
BY DEF StreamTypes, ConnRow, Events!Step

LEMMA GotCleared == [frame |-> Events!NoFrame, written |-> FALSE] \in GotRow
BY Constants DEF GotRow

\* A handler starts with its user's slot and what it fetched.
LEMMA AcquireTypes ==
  ASSUME StreamTypes, NEW c \in Conn, NEW u \in User, NEW owned \in SUBSET VMID,
         Events!Acquire(c, u, owned)
  PROVE  /\ StreamTypes'
         /\ conn[c].pc = "off" /\ conn'[c].pc = "fetched"
         /\ conn'[c].user = u /\ conn'[c].owned = owned /\ since'[c] = owned
         /\ count'[u] = count[u] + 1 /\ \A w \in User : w # u => count'[w] = count[w]
         /\ \A d \in Conn : d # c => conn'[d] = conn[d] /\ since'[d] = since[d]
         /\ UNCHANGED <<subs, chan, pub, frames, last, got>>
<1> DEFINE x == [pc |-> "fetched", user |-> u, owned |-> owned]
<1>1. /\ conn' = [conn EXCEPT ![c] = x] /\ since' = [since EXCEPT ![c] = owned]
      /\ count' = [count EXCEPT ![u] = @ + 1]
      /\ UNCHANGED <<subs, chan, pub, owner, frames, last, got>> /\ conn[c].pc = "off"
  BY DEF Events!Acquire, Events!At
<1>2. x \in ConnRow /\ x.pc = "fetched" /\ x.user = u /\ x.owned = owned
  BY DEF ConnRow
<1> HIDE DEF x
<1>3. /\ conn' \in [Conn -> ConnRow] /\ conn'[c] = x /\ \A d \in Conn : d # c => conn'[d] = conn[d]
      /\ since' \in [Conn -> SUBSET VMID] /\ since'[c] = owned
      /\ \A d \in Conn : d # c => since'[d] = since[d]
  BY <1>1, <1>2 DEF StreamTypes
<1>4. /\ count' \in [User -> Nat] /\ count'[u] = count[u] + 1
      /\ \A w \in User : w # u => count'[w] = count[w]
  BY <1>1 DEF StreamTypes
<1>5. StreamTypes'
  BY <1>1, <1>3, <1>4 DEF StreamTypes
<1> QED BY <1>1, <1>2, <1>3, <1>4, <1>5

LEMMA RefreshTypes ==
  ASSUME StreamTypes, NEW c \in Conn, Events!Refresh(c)
  PROVE  /\ StreamTypes'
         /\ conn'[c].pc = conn[c].pc /\ conn'[c].user = conn[c].user
         /\ conn'[c].owned = since'[c]
         /\ got'[c].frame = got[c].frame /\ ~got'[c].written
         /\ \A d \in Conn : d # c => conn'[d] = conn[d] /\ since'[d] = since[d] /\ got'[d] = got[d]
         /\ UNCHANGED <<count, subs, chan, pub, frames, last>>
<1> DEFINE o == Events!OwnedVMIDs(conn[c].user)
<1>1. /\ conn' = [conn EXCEPT ![c].owned = o] /\ since' = [since EXCEPT ![c] = o]
      /\ got' = [got EXCEPT ![c].written = FALSE]
      /\ UNCHANGED <<count, subs, chan, pub, owner, frames, last>>
  BY DEF Events!Refresh
<1>2. o \in SUBSET VMID
  BY DEF Events!OwnedVMIDs
<1> HIDE DEF o
<1>3. /\ conn' \in [Conn -> ConnRow] /\ conn'[c].pc = conn[c].pc /\ conn'[c].user = conn[c].user
      /\ conn'[c].owned = o /\ \A d \in Conn : d # c => conn'[d] = conn[d]
  BY <1>1, <1>2 DEF StreamTypes, ConnRow
<1>4. /\ since' \in [Conn -> SUBSET VMID] /\ since'[c] = o
      /\ \A d \in Conn : d # c => since'[d] = since[d]
  BY <1>1, <1>2 DEF StreamTypes
<1>5. /\ got' \in [Conn -> GotRow] /\ got'[c].frame = got[c].frame /\ ~got'[c].written
      /\ \A d \in Conn : d # c => got'[d] = got[d]
  BY <1>1 DEF StreamTypes, GotRow
<1>6. StreamTypes'
  BY <1>1, <1>3, <1>4, <1>5 DEF StreamTypes
<1> QED BY <1>1, <1>3, <1>4, <1>5, <1>6

LEMMA SubscribeTypes ==
  ASSUME StreamTypes, NEW c \in Conn, Events!Subscribe(c)
  PROVE  /\ StreamTypes'
         /\ conn[c].pc = "fetched" /\ conn'[c].pc = "live" /\ subs' = subs \cup {c}
         /\ conn'[c].user = conn[c].user /\ conn'[c].owned = conn[c].owned
         /\ chan'[c] = <<>> /\ last'[c] = 0 /\ ~got'[c].written /\ got'[c].frame = Events!NoFrame
         /\ \A d \in Conn : d # c => /\ conn'[d] = conn[d] /\ got'[d] = got[d]
                                     /\ chan'[d] = chan[d] /\ last'[d] = last[d]
         /\ UNCHANGED <<count, pub, frames, since>>
<1> DEFINE g == [frame |-> Events!NoFrame, written |-> FALSE]
<1>1. /\ Events!Step(c, "live") /\ conn[c].pc = "fetched" /\ subs' = subs \cup {c}
      /\ chan' = [chan EXCEPT ![c] = <<>>] /\ last' = [last EXCEPT ![c] = 0]
      /\ got' = [got EXCEPT ![c] = g]
      /\ UNCHANGED <<count, pub, owner, frames, since>>
  BY DEF Events!Subscribe, Events!At
<1>2. g \in GotRow /\ ~g.written /\ g.frame = Events!NoFrame
  BY GotCleared
<1> HIDE DEF g
<1>3. /\ conn' \in [Conn -> ConnRow] /\ conn'[c].pc = "live" /\ conn'[c].user = conn[c].user
      /\ conn'[c].owned = conn[c].owned /\ \A d \in Conn : d # c => conn'[d] = conn[d]
  BY <1>1, StepTypes
<1>4. <<>> \in Seq(Frame) /\ Len(<<>>) <= Buffer /\ 0 \in 0..MaxFrames
  BY ChannelsAssumption
<1>5. /\ chan' \in [Conn -> Seq(Frame)] /\ chan'[c] = <<>>
      /\ \A d \in Conn : d # c => chan'[d] = chan[d]
      /\ last' \in [Conn -> 0..MaxFrames] /\ last'[c] = 0
      /\ \A d \in Conn : d # c => last'[d] = last[d]
      /\ got' \in [Conn -> GotRow] /\ got'[c] = g /\ \A d \in Conn : d # c => got'[d] = got[d]
  BY <1>1, <1>2, <1>4 DEF StreamTypes
<1>6. \A d \in Conn : Len(chan'[d]) <= Buffer
  BY <1>4, <1>5 DEF StreamTypes
<1>7. StreamTypes'
  BY <1>1, <1>3, <1>5, <1>6 DEF StreamTypes
<1> QED BY <1>1, <1>2, <1>3, <1>5, <1>7

LEMMA CloseTypes ==
  ASSUME StreamTypes, MutexInv, SlotsInv, NEW c \in Conn, Events!CloseRelease(c)
  PROVE  /\ StreamTypes'
         /\ conn[c].pc = "cancelled" /\ conn[c].user \in User
         /\ conn'[c].pc = "off" /\ conn'[c].user = None /\ conn'[c].owned = {}
         /\ chan'[c] = <<>> /\ last'[c] = 0 /\ ~got'[c].written /\ got'[c].frame = Events!NoFrame
         /\ since'[c] = {}
         /\ \A d \in Conn : d # c => /\ conn'[d] = conn[d] /\ got'[d] = got[d] /\ since'[d] = since[d]
                                     /\ chan'[d] = chan[d] /\ last'[d] = last[d]
         /\ count'[conn[c].user] = IF count[conn[c].user] > 0 THEN count[conn[c].user] - 1 ELSE 0
         /\ \A w \in User : w # conn[c].user => count'[w] = count[w]
         /\ UNCHANGED <<subs, pub, frames>>
<1> DEFINE g == [frame |-> Events!NoFrame, written |-> FALSE]
<1>1. conn[c].pc = "cancelled" /\ conn[c].user \in User
  BY DEF Events!CloseRelease, Events!At, SlotsInv, StreamTypes, ConnRow
<1>2. PICK u \in User : u = conn[c].user
  BY <1>1
<1>3. /\ count' = [count EXCEPT ![u] = IF @ > 0 THEN @ - 1 ELSE 0]
      /\ conn' = [conn EXCEPT ![c] = Events!NotConnected]
      /\ chan' = [chan EXCEPT ![c] = <<>>] /\ last' = [last EXCEPT ![c] = 0]
      /\ got' = [got EXCEPT ![c] = g] /\ since' = [since EXCEPT ![c] = {}]
      /\ UNCHANGED <<subs, pub, owner, frames>>
  BY <1>2 DEF Events!CloseRelease
<1>4. g \in GotRow /\ ~g.written /\ g.frame = Events!NoFrame
  BY GotCleared
<1> HIDE DEF g
<1>5. /\ conn' \in [Conn -> ConnRow] /\ conn'[c] = Events!NotConnected
      /\ \A d \in Conn : d # c => conn'[d] = conn[d]
  BY <1>3, Constants DEF StreamTypes
<1>6. <<>> \in Seq(Frame) /\ Len(<<>>) <= Buffer /\ 0 \in 0..MaxFrames
  BY ChannelsAssumption
<1>7. /\ chan' \in [Conn -> Seq(Frame)] /\ chan'[c] = <<>>
      /\ \A d \in Conn : d # c => chan'[d] = chan[d]
      /\ last' \in [Conn -> 0..MaxFrames] /\ last'[c] = 0
      /\ \A d \in Conn : d # c => last'[d] = last[d]
      /\ got' \in [Conn -> GotRow] /\ got'[c] = g /\ \A d \in Conn : d # c => got'[d] = got[d]
      /\ since' \in [Conn -> SUBSET VMID] /\ since'[c] = {}
      /\ \A d \in Conn : d # c => since'[d] = since[d]
  BY <1>3, <1>4, <1>6 DEF StreamTypes
<1>8. \A d \in Conn : Len(chan'[d]) <= Buffer
  BY <1>6, <1>7 DEF StreamTypes
<1>9. /\ count' \in [User -> Nat] /\ count'[u] = IF count[u] > 0 THEN count[u] - 1 ELSE 0
      /\ \A w \in User : w # u => count'[w] = count[w]
  BY <1>3 DEF StreamTypes
<1>10. StreamTypes'
  BY <1>3, <1>5, <1>7, <1>8, <1>9 DEF StreamTypes
<1> QED BY <1>1, <1>2, <1>3, <1>4, <1>5, <1>7, <1>9, <1>10, Constants

LEMMA MoveTypes ==
  ASSUME StreamTypes, NEW v \in VMID, NEW u \in (User \ Admin) \cup {None}, Events!Move(v, u)
  PROVE  /\ StreamTypes'
         /\ \A c \in Conn : since[c] \subseteq since'[c]
         /\ UNCHANGED <<conn, count, subs, chan, pub, frames, last, got>>
<1>1. /\ owner' = [owner EXCEPT ![v] = u]
      /\ since' = [c \in Conn |-> IF conn[c].user = u /\ u # None THEN since[c] \cup {v} ELSE since[c]]
      /\ UNCHANGED <<conn, count, subs, chan, pub, frames, last, got>>
  BY DEF Events!Move
<1>2. since' \in [Conn -> SUBSET VMID] /\ \A c \in Conn : since[c] \subseteq since'[c]
  BY <1>1 DEF StreamTypes
<1>3. owner' \in [VMID -> (User \ Admin) \cup {None}]
  BY <1>1 DEF StreamTypes
<1> QED BY <1>1, <1>2, <1>3 DEF StreamTypes

\* A publisher is done, or the poller gives up.
LEMMA IdleTypes ==
  ASSUME StreamTypes, NEW p \in Publisher, pub' = [pub EXCEPT ![p] = Events!Idle],
         UNCHANGED <<conn, count, chan, owner, frames, last, got, since>>
  PROVE  /\ StreamTypes'
         /\ pub'[p] = Events!Idle /\ \A q \in Publisher : q # p => pub'[q] = pub[q]
BY Constants DEF StreamTypes

----------------------------------------------------------------------------
(* The mutex of the broker.                                                *)

LEMMA NotBusy == Events!MuFree <=> \A p \in Publisher : ~Busy(p)
BY DEF Events!MuFree, Busy

LEMMA InitMutex == Events!Init => MutexInv
<1> SUFFICES ASSUME Events!Init PROVE MutexInv
  OBVIOUS
<1>1. subs = {} /\ \A c \in Conn : conn[c].pc = "off"
  BY Constants DEF Events!Init
<1>2. \A p \in Publisher : pub[p].pc = "idle" /\ pub[p].todo = {} /\ pub[p].at = None
  BY Constants DEF Events!Init
<1> QED BY <1>1, <1>2 DEF MutexInv, Busy

\* A handler's step: who is subscribed only changes while nobody publishes.
LEMMA HandlerMutex ==
  ASSUME StreamTypes, MutexInv, SlotsInv, NEW c \in Conn,
         \/ \E u \in User, owned \in SUBSET VMID : Events!Acquire(c, u, owned)
         \/ Events!Refresh(c) \/ Events!Receive(c) \/ Events!Returning(c) \/ Events!Leave(c)
  PROVE  StreamTypes' /\ MutexInv'
<1>1. ASSUME NEW u \in User, NEW owned \in SUBSET VMID, Events!Acquire(c, u, owned)
      PROVE  StreamTypes' /\ MutexInv'
  <2>1. /\ StreamTypes' /\ UNCHANGED <<subs, pub>> /\ conn[c].pc = "off" /\ conn'[c].pc = "fetched"
        /\ \A d \in Conn : d # c => conn'[d] = conn[d]
    BY <1>1, AcquireTypes
  <2> QED BY <2>1 DEF MutexInv, Busy
<1>2. CASE Events!Refresh(c)
  <2>1. /\ StreamTypes' /\ UNCHANGED <<subs, pub>> /\ conn'[c].pc = conn[c].pc
        /\ \A d \in Conn : d # c => conn'[d] = conn[d]
    BY <1>2, RefreshTypes
  <2> QED BY <2>1 DEF MutexInv, Busy
<1>3. CASE Events!Receive(c)
  <2>1. StreamTypes' /\ UNCHANGED <<subs, pub, conn>>
    BY <1>3, ReceiveTypes DEF Events!Receive
  <2> QED BY <2>1 DEF MutexInv, Busy
<1>4. CASE Events!Subscribe(c)
  <2>1. /\ StreamTypes' /\ UNCHANGED pub /\ conn'[c].pc = "live" /\ subs' = subs \cup {c}
        /\ \A d \in Conn : d # c => conn'[d] = conn[d]
    BY <1>4, SubscribeTypes
  <2> QED BY <2>1 DEF MutexInv, Busy
<1>5. CASE Events!GreetFails(c)
  <2>1. Events!Step(c, "cancelled") /\ conn[c].pc = "fetched"
    BY <1>5 DEF Events!GreetFails, Events!At
  <2>2. /\ conn' \in [Conn -> ConnRow] /\ conn'[c].pc = "cancelled"
        /\ \A d \in Conn : d # c => conn'[d] = conn[d]
    BY <2>1, StepTypes
  <2>3. StreamTypes' /\ UNCHANGED <<subs, pub>>
    BY <1>5, <2>2 DEF Events!GreetFails, StreamTypes
  <2> QED BY <2>1, <2>2, <2>3 DEF MutexInv, Busy
<1>6. CASE Events!HangUp(c)
  <2>1. Events!Step(c, "leaving") /\ conn[c].pc = "live"
    BY <1>6 DEF Events!HangUp, Events!At
  <2>2. /\ conn' \in [Conn -> ConnRow] /\ conn'[c].pc = "leaving"
        /\ \A d \in Conn : d # c => conn'[d] = conn[d]
    BY <2>1, StepTypes
  <2>3. StreamTypes' /\ UNCHANGED <<subs, pub>>
    BY <1>6, <2>2 DEF Events!HangUp, StreamTypes
  <2> QED BY <2>1, <2>2, <2>3 DEF MutexInv, Busy
<1>7. CASE Events!CancelDelete(c)
  <2>1. Events!Step(c, "cancelled") /\ \A p \in Publisher : ~Busy(p)
    BY <1>7, NotBusy DEF Events!CancelDelete
  <2>2. /\ conn' \in [Conn -> ConnRow] /\ conn'[c].pc = "cancelled"
        /\ \A d \in Conn : d # c => conn'[d] = conn[d]
    BY <2>1, StepTypes
  <2>3. StreamTypes' /\ UNCHANGED pub /\ subs' = subs \ {c}
    BY <1>7, <2>2 DEF Events!CancelDelete, StreamTypes
  <2> QED BY <2>1, <2>2, <2>3 DEF MutexInv, Busy
<1>8. CASE Events!CloseRelease(c)
  <2>1. /\ StreamTypes' /\ UNCHANGED <<subs, pub>> /\ conn[c].pc = "cancelled" /\ conn'[c].pc = "off"
        /\ \A d \in Conn : d # c => conn'[d] = conn[d]
    BY <1>8, CloseTypes
  <2> QED BY <2>1 DEF MutexInv, Busy
<1>9. CASE Events!Leave(c)
  <2>1. UNCHANGED <<conn, count, subs, chan, pub, owner, frames, last, got, since>>
    BY <1>9 DEF Events!Leave
  <2> QED BY <2>1 DEF MutexInv, Busy, StreamTypes
<1> QED BY <1>1, <1>2, <1>3, <1>4, <1>5, <1>6, <1>7, <1>8, <1>9 DEF Events!Returning

\* A publisher's step: it has the mutex, or takes it when nobody has.
LEMMA PublisherMutex ==
  ASSUME StreamTypes, MutexInv, NEW p \in Publisher,
         \/ Events!Publishing(p)
         \/ Events!PublishLock(p, "metrics", {})
         \/ \E vs \in Subject : Events!PublishLock(p, "guest", vs)
  PROVE  StreamTypes' /\ MutexInv'
<1>0. subs \subseteq Conn
  BY DEF MutexInv
<1>1. ASSUME NEW name \in {"guest", "metrics"}, NEW vs \in SUBSET VMID, Events!PublishLock(p, name, vs)
      PROVE  StreamTypes' /\ MutexInv'
  <2>1. /\ StreamTypes' /\ pub'[p].pc = "send" /\ pub'[p].at = None /\ pub'[p].todo = subs
        /\ \A q \in Publisher : q # p => pub'[q] = pub[q]
    BY <1>0, <1>1, LockTypes
  <2>2. UNCHANGED <<conn, subs>> /\ \A q \in Publisher : ~Busy(q)
    BY <1>1, NotBusy DEF Events!PublishLock
  <2> QED BY <2>1, <2>2 DEF MutexInv, Busy
<1>2. CASE Events!PublishDrop(p)
  <2>1. /\ StreamTypes' /\ pub'[p].pc = "again" /\ pub'[p].at = pub[p].at
        /\ pub'[p].todo = pub[p].todo
        /\ \A q \in Publisher : q # p => pub'[q] = pub[q]
    BY <1>2, DropTypes
  <2>2. UNCHANGED <<conn, subs>> /\ pub[p].pc = "drop"
    BY <1>2 DEF Events!PublishDrop
  <2> QED BY <2>1, <2>2 DEF MutexInv, Busy
<1>3. CASE Events!PublishAgain(p)
  <2>1. /\ StreamTypes' /\ pub'[p].pc = "send" /\ pub'[p].at = None
        /\ pub'[p].todo \subseteq pub[p].todo
        /\ \A q \in Publisher : q # p => pub'[q] = pub[q]
    BY <1>3, AgainTypes
  <2>2. UNCHANGED <<conn, subs>> /\ pub[p].pc = "again"
    BY <1>3 DEF Events!PublishAgain
  <2> QED BY <2>1, <2>2 DEF MutexInv, Busy
<1>4. CASE Events!PublishUnlock(p)
  <2>1. /\ pub' = [pub EXCEPT ![p] = Events!Idle]
        /\ UNCHANGED <<conn, count, subs, chan, owner, frames, last, got, since>>
    BY <1>4 DEF Events!PublishUnlock
  <2>2. /\ StreamTypes' /\ pub'[p] = Events!Idle
        /\ \A q \in Publisher : q # p => pub'[q] = pub[q]
    BY <2>1, IdleTypes
  <2> QED BY <2>1, <2>2, Constants DEF MutexInv, Busy
<1>5. ASSUME NEW c \in Conn, Events!PublishSend(p, c)
      PROVE  StreamTypes' /\ MutexInv'
  <2>1. StreamTypes'
    BY <1>5, SendTypes
  <2>2. UNCHANGED <<conn, subs>> /\ pub[p].pc = "send" /\ c \in pub[p].todo
    BY <1>5 DEF Events!PublishSend
  <2>3. /\ pub'[p].todo \subseteq pub[p].todo
        /\ \/ pub'[p].pc = "send" /\ pub'[p].at = None
           \/ pub'[p].pc = "drop" /\ pub'[p].at = c /\ c \in pub'[p].todo
        /\ \A q \in Publisher : q # p => pub'[q] = pub[q]
    <3>1. CASE Events!Room(c) /\ Events!Sent(p, c)
      BY <3>1, SentTypes
    <3>2. CASE ~(Events!Room(c) /\ Events!Sent(p, c))
      BY <1>5, <2>2, <3>2, SendTypes
    <3> QED BY <3>1, <3>2
  <2> QED BY <2>1, <2>2, <2>3 DEF MutexInv, Busy
<1> QED BY <1>1, <1>2, <1>3, <1>4, <1>5, ChannelsAssumption DEF Events!Publishing

LEMMA NextMutex ==
  ASSUME StreamTypes, MutexInv, SlotsInv, Events!Next
  PROVE  StreamTypes' /\ MutexInv'
<1>1. CASE Events!PollTick
  <2>1. /\ pub' = [pub EXCEPT ![Poller].pc = "fetch"] /\ pub[Poller].pc = "idle"
        /\ UNCHANGED <<conn, count, subs, chan, owner, frames, last, got, since>>
    BY <1>1 DEF Events!PollTick
  <2>2. /\ pub' \in [Publisher -> PubRow] /\ pub'[Poller].pc = "fetch"
        /\ pub'[Poller].at = pub[Poller].at /\ pub'[Poller].todo = pub[Poller].todo
        /\ \A q \in Publisher : q # Poller => pub'[q] = pub[q]
    BY <2>1, PubMoves, ChannelsAssumption
  <2>3. StreamTypes'
    BY <2>1, <2>2 DEF StreamTypes
  <2> QED BY <2>1, <2>2, <2>3, ChannelsAssumption DEF MutexInv, Busy
<1>2. CASE Events!PollFails
  <2>1. /\ pub' = [pub EXCEPT ![Poller] = Events!Idle] /\ pub[Poller].pc = "fetch"
        /\ UNCHANGED <<conn, count, subs, chan, owner, frames, last, got, since>>
    BY <1>2 DEF Events!PollFails
  <2>2. /\ StreamTypes' /\ pub'[Poller] = Events!Idle
        /\ \A q \in Publisher : q # Poller => pub'[q] = pub[q]
    BY <2>1, IdleTypes, ChannelsAssumption
  <2> QED BY <2>1, <2>2, Constants DEF MutexInv, Busy
<1>3. ASSUME NEW v \in VMID, NEW u \in (User \ Admin) \cup {None}, Events!Move(v, u)
      PROVE  StreamTypes' /\ MutexInv'
  <2>1. StreamTypes' /\ UNCHANGED <<conn, subs, pub>>
    BY <1>3, MoveTypes
  <2> QED BY <2>1 DEF MutexInv, Busy
<1> QED BY <1>1, <1>2, <1>3, HandlerMutex, PublisherMutex DEF Events!Next

\* The steps of publishers leave the handlers alone.
LEMMA PublishersLeave ==
  ASSUME NEW p \in Publisher,
         \/ Events!Publishing(p)
         \/ Events!PublishLock(p, "metrics", {})
         \/ \E vs \in Subject : Events!PublishLock(p, "guest", vs)
  PROVE  UNCHANGED <<conn, count, subs, got, since>>
BY DEF Events!Publishing, Events!PublishLock, Events!PublishDrop, Events!PublishAgain,
       Events!PublishUnlock, Events!PublishSend

\* The steps of a handler that only move it.
LEMMA HandlerMoves ==
  ASSUME StreamTypes, NEW c \in Conn,
         Events!GreetFails(c) \/ Events!HangUp(c) \/ Events!CancelDelete(c)
  PROVE  /\ \A d \in Conn : /\ conn'[d].user = conn[d].user /\ conn'[d].owned = conn[d].owned
                            /\ conn'[d].pc = "off" <=> conn[d].pc = "off"
         /\ UNCHANGED <<count, chan, pub, frames, last, got, since>>
<1>1. PICK pc \in {"leaving", "cancelled"} : Events!Step(c, pc)
  BY DEF Events!GreetFails, Events!HangUp, Events!CancelDelete
<1>2. conn[c].pc # "off" /\ UNCHANGED <<count, chan, pub, frames, last, got, since>>
  BY DEF Events!GreetFails, Events!HangUp, Events!CancelDelete, Events!At
<1>3. /\ conn'[c].pc = pc /\ conn'[c].user = conn[c].user /\ conn'[c].owned = conn[c].owned
      /\ \A d \in Conn : d # c => conn'[d] = conn[d]
  BY <1>1, StepTypes
<1> QED BY <1>1, <1>2, <1>3

----------------------------------------------------------------------------
(* What a tenant's stream carries.                                         *)

LEMMA InitForeign == Events!Init => ForeignInv
<1> SUFFICES ASSUME Events!Init PROVE ForeignInv
  OBVIOUS
<1>1. \A c \in Conn : conn[c].owned = {} /\ ~got[c].written
  BY Constants DEF Events!Init
<1> QED BY <1>1 DEF ForeignInv, Events!NeverForeign

LEMMA NextForeign ==
  ASSUME StreamTypes, MutexInv, SlotsInv, ForeignInv, Events!Next
  PROVE  ForeignInv'
<1>1. ASSUME NEW c \in Conn, NEW u \in User, NEW owned \in SUBSET VMID, Events!Acquire(c, u, owned)
      PROVE  ForeignInv'
  <2>1. /\ conn[c].pc = "off" /\ conn'[c].pc = "fetched"
        /\ conn'[c].owned = owned /\ since'[c] = owned /\ UNCHANGED got
        /\ \A d \in Conn : d # c => conn'[d] = conn[d] /\ since'[d] = since[d]
    BY <1>1, AcquireTypes
  <2> QED BY <2>1 DEF ForeignInv, Events!NeverForeign
<1>2. ASSUME NEW c \in Conn, Events!Refresh(c)
      PROVE  ForeignInv'
  <2>1. /\ conn'[c].owned = since'[c] /\ ~got'[c].written
        /\ \A d \in Conn : d # c => conn'[d] = conn[d] /\ since'[d] = since[d] /\ got'[d] = got[d]
    BY <1>2, RefreshTypes
  <2> QED BY <2>1 DEF ForeignInv, Events!NeverForeign
<1>3. ASSUME NEW c \in Conn, Events!Receive(c)
      PROVE  ForeignInv'
  <2>1. /\ got'[c].frame = Head(chan[c])
        /\ got'[c].written <=> Events!Deliver(Head(chan[c]), c)
        /\ \A d \in Conn : d # c => got'[d] = got[d]
    BY <1>3, ReceiveTypes
  <2>2. UNCHANGED <<conn, since>> /\ conn[c].pc = "live"
    BY <1>3 DEF Events!Receive, Events!At
  <2>3. got'[c].written /\ conn[c].user \notin Admin
          => got'[c].frame.name # "metrics" /\ got'[c].frame.vmids \subseteq conn[c].owned
    BY <2>1 DEF Events!Deliver
  <2> QED BY <2>1, <2>2, <2>3 DEF ForeignInv, Events!NeverForeign
<1>4. ASSUME NEW c \in Conn, Events!Subscribe(c)
      PROVE  ForeignInv'
  <2>1. /\ conn'[c].pc = "live" /\ conn'[c].owned = conn[c].owned /\ UNCHANGED since
        /\ ~got'[c].written
        /\ \A d \in Conn : d # c => conn'[d] = conn[d] /\ got'[d] = got[d]
    BY <1>4, SubscribeTypes
  <2> QED BY <2>1 DEF ForeignInv, Events!NeverForeign
<1>5. ASSUME NEW c \in Conn, Events!GreetFails(c) \/ Events!HangUp(c) \/ Events!CancelDelete(c)
      PROVE  ForeignInv'
  <2>1. /\ \A d \in Conn : /\ conn'[d].user = conn[d].user /\ conn'[d].owned = conn[d].owned
                           /\ conn'[d].pc = "off" <=> conn[d].pc = "off"
        /\ UNCHANGED <<got, since>>
    BY <1>5, HandlerMoves
  <2> QED BY <2>1 DEF ForeignInv, Events!NeverForeign
<1>6. ASSUME NEW c \in Conn, Events!CloseRelease(c)
      PROVE  ForeignInv'
  <2>1. /\ conn'[c].owned = {} /\ ~got'[c].written
        /\ \A d \in Conn : d # c => conn'[d] = conn[d] /\ got'[d] = got[d] /\ since'[d] = since[d]
    BY <1>6, CloseTypes
  <2> QED BY <2>1 DEF ForeignInv, Events!NeverForeign
<1>7. ASSUME UNCHANGED <<conn, got>>, \A c \in Conn : since[c] \subseteq since'[c]
      PROVE  ForeignInv'
  BY <1>7 DEF ForeignInv, Events!NeverForeign
<1>8. ASSUME NEW c \in Conn, Events!Leave(c)
      PROVE  ForeignInv'
  BY <1>7, <1>8 DEF Events!Leave
<1>9. ASSUME NEW v \in VMID, NEW u \in (User \ Admin) \cup {None}, Events!Move(v, u)
      PROVE  ForeignInv'
  BY <1>7, <1>9, MoveTypes
<1>10. CASE Events!PollTick \/ Events!PollFails
  BY <1>7, <1>10 DEF Events!PollTick, Events!PollFails
<1>11. ASSUME NEW p \in Publisher,
              \/ Events!Publishing(p)
              \/ Events!PublishLock(p, "metrics", {})
              \/ \E vs \in Subject : Events!PublishLock(p, "guest", vs)
       PROVE  ForeignInv'
  <2>1. UNCHANGED <<conn, got, since>>
    BY <1>11, PublishersLeave
  <2> QED BY <1>7, <2>1
<1> QED BY <1>1, <1>2, <1>3, <1>4, <1>5, <1>6, <1>8, <1>9, <1>10, <1>11
        DEF Events!Next, Events!Returning

----------------------------------------------------------------------------
(* The slots.                                                              *)

Streams(u) == {c \in Conn : conn[c].user = u}

\* The modules that are instantiated count with the same Cardinality.
LEMMA SameCardinality ==
  \A S : Events!Cardinality(S) = Cardinality(S) /\ Console!Cardinality(S) = Cardinality(S)
BY Zenon DEF Events!Cardinality, Console!Cardinality, Cardinality

LEMMA StreamsFinite ==
  /\ \A u : IsFiniteSet(Streams(u)) /\ Cardinality(Streams(u)) \in Nat
  /\ Events!SlotsExact <=> \A u \in User : count[u] = Cardinality(Streams(u))
<1>1. \A u : IsFiniteSet(Streams(u))
  BY FS_Subset, ChannelsAssumption DEF Streams
<1>2. \A u : Cardinality(Streams(u)) \in Nat
  BY <1>1, FS_CardinalityType
<1>3. Events!SlotsExact <=> \A u \in User : count[u] = Cardinality(Streams(u))
  BY SameCardinality, Zenon DEF Events!SlotsExact, Streams
<1> QED BY <1>1, <1>2, <1>3

LEMMA InitSlots == Events!Init => SlotsInv
<1> SUFFICES ASSUME Events!Init PROVE SlotsInv
  OBVIOUS
<1>1. \A c \in Conn : conn[c].user = None /\ conn[c].pc = "off"
  BY Constants DEF Events!Init
<1>2. \A u \in User : count[u] = 0 /\ Streams(u) = {}
  BY <1>1, ChannelsAssumption DEF Events!Init, Streams
<1>3. \A u \in User : count[u] = Cardinality(Streams(u))
  BY <1>2, FS_EmptySet
<1> QED BY <1>1, <1>3, StreamsFinite DEF SlotsInv

LEMMA NextSlots ==
  ASSUME StreamTypes, MutexInv, SlotsInv, Events!Next
  PROVE  SlotsInv'
<1>0. \A u \in User : count[u] = Cardinality(Streams(u))
  BY StreamsFinite DEF SlotsInv
<1>1. ASSUME UNCHANGED count,
             \A d \in Conn : conn'[d].user = conn[d].user /\ (conn'[d].pc = "off" <=> conn[d].pc = "off")
      PROVE  SlotsInv'
  <2>1. \A u \in User : {c \in Conn : conn'[c].user = u} = {c \in Conn : conn[c].user = u}
    BY <1>1
  <2> QED BY <1>1, <2>1 DEF SlotsInv, Events!SlotsExact
<1>2. ASSUME NEW c \in Conn, NEW u \in User, NEW owned \in SUBSET VMID, Events!Acquire(c, u, owned)
      PROVE  SlotsInv'
  <2>1. /\ conn[c].pc = "off" /\ conn'[c].pc = "fetched" /\ conn'[c].user = u
        /\ count'[u] = count[u] + 1 /\ \A w \in User : w # u => count'[w] = count[w]
        /\ \A d \in Conn : d # c => conn'[d] = conn[d]
    BY <1>2, AcquireTypes
  <2>2. conn[c].user = None /\ u # None
    BY <2>1, ChannelsAssumption DEF SlotsInv
  <2>3. /\ Streams(u)' = Streams(u) \cup {c} /\ c \notin Streams(u)
        /\ \A w \in User : w # u => Streams(w)' = Streams(w)
    BY <2>1, <2>2, ChannelsAssumption DEF Streams
  <2>4. Cardinality(Streams(u) \cup {c}) = Cardinality(Streams(u)) + 1
    BY <2>3, StreamsFinite, FS_AddElement
  <2>5. \A w \in User : count'[w] = Cardinality(Streams(w)')
    BY <1>0, <2>1, <2>3, <2>4
  <2>6. Events!SlotsExact'
    BY <2>5, SameCardinality, Zenon DEF Events!SlotsExact, Streams
  <2> QED BY <2>1, <2>2, <2>6 DEF SlotsInv
<1>3. ASSUME NEW c \in Conn, Events!CloseRelease(c)
      PROVE  SlotsInv'
  <2>1. PICK u \in User : u = conn[c].user
    BY <1>3, CloseTypes
  <2>2. /\ conn'[c].pc = "off" /\ conn'[c].user = None
        /\ count'[u] = IF count[u] > 0 THEN count[u] - 1 ELSE 0
        /\ \A w \in User : w # u => count'[w] = count[w]
        /\ \A d \in Conn : d # c => conn'[d] = conn[d]
    BY <1>3, <2>1, CloseTypes
  <2>3. /\ Streams(u)' = Streams(u) \ {c} /\ c \in Streams(u)
        /\ \A w \in User : w # u => Streams(w)' = Streams(w)
    BY <2>1, <2>2, ChannelsAssumption DEF Streams
  <2>4. /\ Cardinality(Streams(u) \ {c}) = Cardinality(Streams(u)) - 1
        /\ Cardinality(Streams(u) \ {c}) \in Nat
    BY <2>3, StreamsFinite, FS_RemoveElement, FS_CardinalityType
  <2>5. \A w \in User : count'[w] = Cardinality(Streams(w)')
    BY <1>0, <2>2, <2>3, <2>4, StreamsFinite
  <2>6. Events!SlotsExact'
    BY <2>5, SameCardinality, Zenon DEF Events!SlotsExact, Streams
  <2> QED BY <2>2, <2>6 DEF SlotsInv
<1>4. ASSUME NEW c \in Conn, Events!GreetFails(c) \/ Events!HangUp(c) \/ Events!CancelDelete(c)
      PROVE  SlotsInv'
  BY <1>1, <1>4, HandlerMoves
<1>5. ASSUME NEW c \in Conn, Events!Refresh(c)
      PROVE  SlotsInv'
  <2>1. /\ conn'[c].pc = conn[c].pc /\ conn'[c].user = conn[c].user /\ UNCHANGED count
        /\ \A d \in Conn : d # c => conn'[d] = conn[d]
    BY <1>5, RefreshTypes
  <2> QED BY <1>1, <2>1
<1>6. ASSUME NEW c \in Conn, Events!Subscribe(c)
      PROVE  SlotsInv'
  <2>1. /\ conn[c].pc = "fetched" /\ conn'[c].pc = "live" /\ conn'[c].user = conn[c].user
        /\ UNCHANGED count /\ \A d \in Conn : d # c => conn'[d] = conn[d]
    BY <1>6, SubscribeTypes
  <2> QED BY <1>1, <2>1
<1>7. ASSUME NEW c \in Conn, Events!Receive(c) \/ Events!Leave(c)
      PROVE  SlotsInv'
  BY <1>1, <1>7 DEF Events!Receive, Events!Leave
<1>8. ASSUME NEW v \in VMID, NEW u \in (User \ Admin) \cup {None}, Events!Move(v, u)
      PROVE  SlotsInv'
  BY <1>1, <1>8 DEF Events!Move
<1>9. CASE Events!PollTick \/ Events!PollFails
  BY <1>1, <1>9 DEF Events!PollTick, Events!PollFails
<1>10. ASSUME NEW p \in Publisher,
              \/ Events!Publishing(p)
              \/ Events!PublishLock(p, "metrics", {})
              \/ \E vs \in Subject : Events!PublishLock(p, "guest", vs)
       PROVE  SlotsInv'
  <2>1. UNCHANGED <<conn, count>>
    BY <1>10, PublishersLeave
  <2> QED BY <1>1, <2>1
<1> QED BY <1>2, <1>3, <1>4, <1>5, <1>6, <1>7, <1>8, <1>9, <1>10
        DEF Events!Next, Events!Returning

----------------------------------------------------------------------------
(* The order of the frames.                                                *)

LEMMA Fronts ==
  ASSUME NEW s \in Seq(Frame)
  PROVE  /\ Len(s) \in Nat /\ (s = <<>> <=> Len(s) = 0)
         /\ \A i \in 1..Len(s) : s[i] \in Frame
         /\ s # <<>> => Head(s) = s[1] /\ 1 \in 1..Len(s) /\ Head(s) \in Frame
<1>1. /\ Len(s) \in Nat /\ (s = <<>> <=> Len(s) = 0)
  BY EmptySeq, LenProperties
<1>2. \A i \in 1..Len(s) : s[i] \in Frame
  BY LenProperties
<1>3. Head(s) = s[1]
  OBVIOUS
<1> QED BY <1>1, <1>2, <1>3

\* A frame newer than all goes to the end.
LEMMA OrderedAppend ==
  ASSUME NEW s \in Seq(Frame), NEW f \in Frame, NEW g \in Frame, NEW l \in 0..MaxFrames,
         Ordered(s, g, l), l < f.id
  PROVE  Ordered(Append(s, f), g, f.id) /\ Newest(Append(s, f), g) = f.id
<1> DEFINE t == Append(s, f)
<1>1. /\ Len(t) = Len(s) + 1 /\ Len(s) \in Nat /\ t # <<>>
      /\ \A i \in 1..Len(s) : t[i] = s[i] /\ s[i] \in Frame
      /\ t[Len(s) + 1] = f /\ t \in Seq(Frame)
  BY AppendProperties, Fronts
<1>0. /\ Head(t) = t[1] /\ (s = <<>> => Len(s) = 0)
      /\ s # <<>> => Head(s) = s[1] /\ 1 \in 1..Len(s)
  BY <1>1, Fronts
<1>2. f.id \in Int /\ g.id \in Int /\ l \in Int /\ \A i \in 1..Len(s) : s[i].id \in Int
  BY <1>1, FrameIds, ChannelsAssumption
<1> HIDE DEF t
<1>3. ASSUME NEW i \in 1..(Len(t) - 1)
      PROVE  t[i].id < t[i + 1].id
  <2>1. CASE i < Len(s)
    BY <1>1, <2>1 DEF Ordered
  <2>2. CASE i = Len(s)
    <3>1. t[i] = s[i] /\ t[i + 1] = f /\ s[i].id <= l
      BY <1>1, <1>3, <2>2 DEF Ordered
    <3> QED BY <1>1, <1>2, <1>3, <2>2, <3>1
  <2> QED BY <1>1, <2>1, <2>2
<1>4. g.id < Head(t).id
  <2>1. CASE s = <<>>
    BY <1>0, <1>1, <1>2, <2>1 DEF Ordered
  <2>2. CASE s # <<>>
    BY <1>0, <1>1, <2>2 DEF Ordered
  <2> QED BY <2>1, <2>2
<1>5. ASSUME NEW i \in 1..Len(t)
      PROVE  t[i].id <= f.id
  <2>1. CASE i <= Len(s)
    BY <1>1, <1>2, <2>1 DEF Ordered
  <2>2. CASE i = Len(s) + 1
    BY <1>1, <1>2, <2>2
  <2> QED BY <1>1, <2>1, <2>2
<1>6. g.id <= f.id
  BY <1>2 DEF Ordered
<1>7. Ordered(t, g, f.id) /\ Newest(t, g) = f.id
  BY <1>1, <1>3, <1>4, <1>5, <1>6 DEF Ordered, Newest
<1> QED BY <1>7 DEF t

\* The head is read, or dropped.
LEMMA OrderedTail ==
  ASSUME NEW s \in Seq(Frame), NEW g \in Frame, NEW l \in 0..MaxFrames,
         s # <<>>, Ordered(s, g, l)
  PROVE  /\ Ordered(Tail(s), g, l) /\ Ordered(Tail(s), Head(s), l)
         /\ Newest(Tail(s), Head(s)) = Newest(s, g)
<1> DEFINE t == Tail(s)
           h == Head(s)
<1>1. /\ Len(t) = Len(s) - 1 /\ Len(s) \in Nat \ {0} /\ t \in Seq(Frame)
      /\ \A i \in 1..Len(t) : t[i] = s[i + 1]
      /\ \A i \in 1..Len(s) : s[i] \in Frame
      /\ h = s[1] /\ 1 \in 1..Len(s)
  BY HeadTailProperties, Fronts
<1>0. t # <<>> => Head(t) = s[2]
  <2>1. t # <<>> => Head(t) = t[1] /\ 1 \in 1..Len(t)
    BY <1>1, Fronts
  <2> QED BY <1>1, <2>1
<1>2. g.id \in Int /\ l \in Int /\ h.id \in Int /\ \A i \in 1..Len(s) : s[i].id \in Int
  BY <1>1, FrameIds, ChannelsAssumption
<1> HIDE DEF t, h
<1>3. \A i \in 1..(Len(t) - 1) : t[i].id < t[i + 1].id
  BY <1>1 DEF Ordered
<1>4. g.id < h.id /\ h.id <= l
  BY <1>1 DEF Ordered, h
<1>5. t # <<>> => h.id < Head(t).id /\ g.id < Head(t).id
  <2>1. ASSUME t # <<>> PROVE s[1].id < s[2].id /\ s[2].id \in Int
    BY <1>1, <1>2, <2>1 DEF Ordered
  <2> QED BY <1>0, <1>1, <1>2, <1>4, <2>1
<1>6. \A i \in 1..Len(t) : t[i].id <= l
  BY <1>1 DEF Ordered
<1>7. Newest(t, h) = Newest(s, g)
  <2>1. CASE t = <<>>
    <3>1. Len(s) = 1
      BY <1>1, <2>1, Fronts
    <3> QED BY <1>1, <2>1, <3>1 DEF Newest
  <2>2. CASE t # <<>>
    <3>1. Len(t) \in 1..Len(t) /\ Len(t) + 1 = Len(s)
      BY <1>1, <2>2, Fronts
    <3>2. t[Len(t)] = s[Len(s)]
      BY <1>1, <3>1
    <3> QED BY <2>2, <3>2 DEF Newest
  <2> QED BY <2>1, <2>2
<1>8. g.id <= l
  BY DEF Ordered
<1>9. Ordered(t, g, l) /\ Ordered(t, h, l)
  BY <1>3, <1>4, <1>5, <1>6, <1>8 DEF Ordered
<1> QED BY <1>7, <1>9 DEF t, h

LEMMA OrderedEmpty ==
  Ordered(<<>>, Events!NoFrame, 0) /\ Newest(<<>>, Events!NoFrame) = 0 /\ Len(<<>>) < Buffer
BY Constants, ChannelsAssumption DEF Ordered, Newest

LEMMA InitOrder == Events!Init => OrderInv
<1> SUFFICES ASSUME Events!Init PROVE OrderInv
  OBVIOUS
<1>1. /\ frames = 0
      /\ \A c \in Conn : chan[c] = <<>> /\ got[c].frame = Events!NoFrame /\ last[c] = 0
      /\ \A p \in Publisher : pub[p].pc = "idle" /\ pub[p].todo = {} /\ pub[p].frame.id = 0
  BY Constants DEF Events!Init
<1> QED BY <1>1, OrderedEmpty DEF OrderInv

\* The values the order is about are numbers.
LEMMA Numbers ==
  ASSUME StreamTypes
  PROVE  /\ frames \in Int /\ 0 <= frames
         /\ \A c \in Conn : /\ last[c] \in 0..MaxFrames /\ last[c] \in Int
                            /\ got[c].frame \in Frame /\ chan[c] \in Seq(Frame)
         /\ \A p \in Publisher : pub[p].frame \in Frame /\ pub[p].frame.id \in Int
BY FrameIds, ChannelsAssumption DEF StreamTypes, PubRow, GotRow

\* A step of a handler: it clears its own channel while that is nobody's, or
\* takes the head.
LEMMA HandlerOrder ==
  ASSUME StreamTypes, MutexInv, SlotsInv, OrderInv, NEW c \in Conn,
         \/ \E u \in User, owned \in SUBSET VMID : Events!Acquire(c, u, owned)
         \/ Events!Refresh(c) \/ Events!Receive(c) \/ Events!Returning(c) \/ Events!Leave(c)
  PROVE  OrderInv'
<1>1. ASSUME UNCHANGED <<chan, pub, frames, last>>, \A d \in Conn : got'[d].frame = got[d].frame
      PROVE  OrderInv'
  BY <1>1 DEF OrderInv
<1>2. ASSUME UNCHANGED <<pub, frames>>,
             chan'[c] = <<>>, last'[c] = 0, got'[c].frame = Events!NoFrame,
             \A d \in Conn : d # c => chan'[d] = chan[d] /\ last'[d] = last[d] /\ got'[d] = got[d],
             \A p \in Publisher : c \notin pub[p].todo
      PROVE  OrderInv'
  <2>1. \A d \in Conn : Ordered(chan'[d], got'[d].frame, last'[d]) /\ last'[d] <= frames'
    BY <1>2, OrderedEmpty, Numbers DEF OrderInv
  <2>2. \A d \in Conn : (\A p \in Publisher : pub'[p].at # d)
                          => last'[d] = Newest(chan'[d], got'[d].frame)
    BY <1>2, OrderedEmpty DEF OrderInv
  <2>3. \A p \in Publisher : \A d \in pub'[p].todo : last'[d] < pub'[p].frame.id
    BY <1>2 DEF OrderInv, StreamTypes, PubRow
  <2>4. \A p \in Publisher : pub'[p].pc = "again" => Len(chan'[pub'[p].at]) < Buffer
    <3>1. \A p \in Publisher : pub[p].pc = "again" => pub[p].at # c /\ pub[p].at \in Conn
      BY <1>2 DEF MutexInv, StreamTypes, PubRow
    <3> QED BY <1>2, <3>1 DEF OrderInv
  <2>5. \A p \in Publisher : pub'[p].frame.id <= frames'
    BY <1>2 DEF OrderInv
  <2> QED BY <2>1, <2>2, <2>3, <2>4, <2>5 DEF OrderInv
<1>3. ASSUME NEW u \in User, NEW owned \in SUBSET VMID, Events!Acquire(c, u, owned)
      PROVE  OrderInv'
  BY <1>1, <1>3 DEF Events!Acquire
<1>4. CASE Events!Refresh(c)
  <2>1. /\ UNCHANGED <<chan, pub, frames, last>> /\ got'[c].frame = got[c].frame
        /\ \A d \in Conn : d # c => got'[d] = got[d]
    BY <1>4, RefreshTypes
  <2> QED BY <1>1, <2>1
<1>5. CASE Events!Receive(c)
  <2>1. /\ StreamTypes'
        /\ chan[c] \in Seq(Frame) /\ chan[c] # <<>>
        /\ chan'[c] = Tail(chan[c]) /\ got'[c].frame = Head(chan[c])
        /\ \A d \in Conn : d # c => chan'[d] = chan[d] /\ got'[d] = got[d]
    BY <1>5, ReceiveTypes
  <2>2. UNCHANGED <<pub, frames, last>>
    BY <1>5 DEF Events!Receive
  <2>3. /\ Ordered(chan'[c], got'[c].frame, last[c])
        /\ Newest(chan'[c], got'[c].frame) = Newest(chan[c], got[c].frame)
    BY <2>1, OrderedTail, Numbers DEF OrderInv
  <2>4. \A d \in Conn : Ordered(chan'[d], got'[d].frame, last'[d]) /\ last'[d] <= frames'
    BY <2>1, <2>2, <2>3 DEF OrderInv
  <2>5. \A d \in Conn : (\A p \in Publisher : pub'[p].at # d)
                          => last'[d] = Newest(chan'[d], got'[d].frame)
    BY <2>1, <2>2, <2>3 DEF OrderInv
  <2>6. \A d \in Conn : Len(chan[d]) < Buffer => Len(chan'[d]) < Buffer
    <3>1. Len(chan'[c]) = Len(chan[c]) - 1 /\ Len(chan[c]) \in Nat
      BY <2>1, HeadTailProperties, Fronts
    <3>2. Len(chan[c]) < Buffer => Len(chan'[c]) < Buffer
      BY <3>1, ChannelsAssumption
    <3>3. \A d \in Conn : d # c => chan'[d] = chan[d]
      BY <2>1
    <3> QED BY <3>2, <3>3
  <2>7. \A p \in Publisher : pub'[p].pc = "again" => Len(chan'[pub'[p].at]) < Buffer
    <3>1. \A p \in Publisher : pub[p].pc = "again" => pub[p].at \in Conn
      BY DEF MutexInv, StreamTypes, PubRow
    <3> QED BY <2>2, <2>6, <3>1 DEF OrderInv
  <2> QED BY <2>2, <2>4, <2>5, <2>7 DEF OrderInv
<1>6. CASE Events!Subscribe(c)
  <2>1. /\ chan'[c] = <<>> /\ last'[c] = 0 /\ got'[c].frame = Events!NoFrame
        /\ \A d \in Conn : d # c => chan'[d] = chan[d] /\ last'[d] = last[d] /\ got'[d] = got[d]
        /\ UNCHANGED <<pub, frames>>
    BY <1>6, SubscribeTypes
  <2>2. \A p \in Publisher : pub[p].todo = {}
    BY <1>6, NotBusy DEF Events!Subscribe, MutexInv
  <2> QED BY <1>2, <2>1, <2>2
<1>7. CASE Events!GreetFails(c) \/ Events!HangUp(c) \/ Events!CancelDelete(c)
  BY <1>1, <1>7, HandlerMoves
<1>8. CASE Events!CloseRelease(c)
  <2>1. /\ chan'[c] = <<>> /\ last'[c] = 0 /\ got'[c].frame = Events!NoFrame
        /\ \A d \in Conn : d # c => chan'[d] = chan[d] /\ last'[d] = last[d] /\ got'[d] = got[d]
        /\ UNCHANGED <<pub, frames>> /\ conn[c].pc = "cancelled"
    BY <1>8, CloseTypes
  <2>2. \A p \in Publisher : c \notin pub[p].todo
    BY <2>1 DEF MutexInv
  <2> QED BY <1>2, <2>1, <2>2
<1>9. CASE Events!Leave(c)
  BY <1>1, <1>9 DEF Events!Leave
<1> QED BY <1>3, <1>4, <1>5, <1>6, <1>7, <1>8, <1>9 DEF Events!Returning

\* The publisher puts its frame into a channel: nobody else has it to serve.
LEMMA SentOrder ==
  ASSUME StreamTypes, MutexInv, OrderInv, NEW p \in Publisher, NEW c \in Conn,
         Busy(p), c \in pub[p].todo, pub[p].at \in {None, c},
         Events!Room(c), Events!Sent(p, c), UNCHANGED <<frames, got>>
  PROVE  OrderInv'
<1>1. /\ pub'[p].pc = "send" /\ pub'[p].at = None /\ pub'[p].todo = pub[p].todo \ {c}
      /\ pub'[p].frame = pub[p].frame
      /\ \A q \in Publisher : q # p => pub'[q] = pub[q]
      /\ chan'[c] = Append(chan[c], pub[p].frame) /\ last'[c] = pub[p].frame.id
      /\ \A d \in Conn : d # c => chan'[d] = chan[d] /\ last'[d] = last[d]
  BY SentTypes
<1>2. \A q \in Publisher : q # p => ~Busy(q) /\ pub[q].todo = {}
  BY DEF MutexInv
<1>3. /\ Ordered(chan'[c], got'[c].frame, last'[c])
      /\ Newest(chan'[c], got'[c].frame) = last'[c]
  BY <1>1, OrderedAppend, Numbers DEF OrderInv
<1>4. \A d \in Conn : Ordered(chan'[d], got'[d].frame, last'[d]) /\ last'[d] <= frames'
  BY <1>1, <1>3 DEF OrderInv
<1>5. \A d \in Conn : (\A q \in Publisher : pub'[q].at # d)
                        => last'[d] = Newest(chan'[d], got'[d].frame)
  <2>1. ASSUME NEW d \in Conn, d # c, \A q \in Publisher : pub'[q].at # d
        PROVE  last'[d] = Newest(chan'[d], got'[d].frame)
    <3>1. \A q \in Publisher : pub[q].at # d
      BY <1>1, <2>1, ChannelsAssumption
    <3> QED BY <1>1, <2>1, <3>1 DEF OrderInv
  <2> QED BY <1>3, <2>1
<1>6. \A q \in Publisher : pub'[q].frame.id <= frames'
  BY <1>1 DEF OrderInv
<1>7. \A q \in Publisher : \A d \in pub'[q].todo : last'[d] < pub'[q].frame.id
  <2>1. \A q \in Publisher : q # p => pub'[q].todo = {}
    BY <1>1, <1>2
  <2>2. \A d \in pub'[p].todo : d \in Conn /\ d # c /\ d \in pub[p].todo
    BY <1>1 DEF StreamTypes, PubRow
  <2> QED BY <1>1, <2>1, <2>2 DEF OrderInv
<1>8. \A q \in Publisher : pub'[q].pc # "again"
  BY <1>1, <1>2 DEF Busy
<1> QED BY <1>4, <1>5, <1>6, <1>7, <1>8 DEF OrderInv

\* A publisher that is not at a channel becomes idle.
LEMMA IdleOrder ==
  ASSUME StreamTypes, MutexInv, OrderInv, NEW p \in Publisher, pub[p].pc \in {"fetch", "send"},
         pub'[p] = Events!Idle, \A q \in Publisher : q # p => pub'[q] = pub[q],
         UNCHANGED <<chan, frames, last, got>>
  PROVE  OrderInv'
<1>1. \A q \in Publisher : /\ pub'[q].at = pub[q].at
                           /\ pub'[q].todo \subseteq pub[q].todo
                           /\ pub'[q].todo # {} => pub'[q].frame = pub[q].frame
                           /\ pub'[q].pc = "again" => pub[q].pc = "again"
                           /\ pub'[q].frame.id <= frames
  <2>1. pub[p].at = None /\ 0 <= frames
    BY Numbers DEF MutexInv
  <2> QED BY <2>1, Constants DEF OrderInv
<1> QED BY <1>1 DEF OrderInv

LEMMA PublisherOrder ==
  ASSUME StreamTypes, MutexInv, OrderInv, NEW p \in Publisher,
         \/ Events!Publishing(p)
         \/ Events!PublishLock(p, "metrics", {})
         \/ \E vs \in Subject : Events!PublishLock(p, "guest", vs)
  PROVE  OrderInv'
<1>0. subs \subseteq Conn
  BY DEF MutexInv
<1>1. ASSUME NEW name \in {"guest", "metrics"}, NEW vs \in SUBSET VMID, Events!PublishLock(p, name, vs)
      PROVE  OrderInv'
  <2>1. /\ frames' = frames + 1 /\ pub'[p].frame.id = frames + 1
        /\ pub'[p].pc = "send" /\ pub'[p].at = None /\ pub'[p].todo = subs
        /\ \A q \in Publisher : q # p => pub'[q] = pub[q]
    BY <1>0, <1>1, LockTypes
  <2>2. UNCHANGED <<chan, last, got>> /\ \A q \in Publisher : ~Busy(q)
    BY <1>1, NotBusy DEF Events!PublishLock
  <2>3. \A q \in Publisher : pub[q].todo = {} /\ pub[q].at = None /\ pub[q].pc # "again"
    BY <2>2 DEF MutexInv, Busy
  <2>4. /\ \A d \in Conn : last[d] <= frames /\ last[d] \in Int
        /\ \A q \in Publisher : pub[q].frame.id <= frames /\ pub[q].frame.id \in Int
        /\ frames \in Int
    BY Numbers DEF OrderInv
  <2>5. \A d \in Conn : Ordered(chan'[d], got'[d].frame, last'[d]) /\ last'[d] <= frames'
    BY <2>1, <2>2, <2>4 DEF OrderInv
  <2>6. \A d \in Conn : last'[d] = Newest(chan'[d], got'[d].frame)
    BY <2>2, <2>3, ChannelsAssumption DEF OrderInv
  <2>7. \A q \in Publisher : pub'[q].frame.id <= frames'
    BY <2>1, <2>4
  <2>8. \A q \in Publisher : \A d \in pub'[q].todo : last'[d] < pub'[q].frame.id
    BY <1>0, <2>1, <2>2, <2>3, <2>4
  <2>9. \A q \in Publisher : pub'[q].pc # "again"
    BY <2>1, <2>3
  <2> QED BY <2>5, <2>6, <2>7, <2>8, <2>9 DEF OrderInv
<1>2. CASE Events!PublishDrop(p)
  <2>1. PICK c \in Conn : c = pub[p].at
    BY <1>2, DropTypes
  <2>2. /\ pub'[p].pc = "again" /\ pub'[p].at = c
        /\ pub'[p].todo = pub[p].todo /\ pub'[p].frame = pub[p].frame
        /\ \A q \in Publisher : q # p => pub'[q] = pub[q]
        /\ chan[c] \in Seq(Frame)
        /\ chan'[c] = IF chan[c] = <<>> THEN <<>> ELSE Tail(chan[c])
        /\ \A d \in Conn : d # c => chan'[d] = chan[d]
        /\ Len(chan'[c]) < Buffer
    BY <1>2, <2>1, DropTypes
  <2>3. UNCHANGED <<frames, last, got>> /\ pub[p].pc = "drop"
    BY <1>2 DEF Events!PublishDrop
  <2>4. Ordered(chan'[c], got'[c].frame, last'[c])
    BY <2>2, <2>3, OrderedTail, Numbers DEF OrderInv
  <2>5. \A d \in Conn : Ordered(chan'[d], got'[d].frame, last'[d]) /\ last'[d] <= frames'
    BY <2>2, <2>3, <2>4 DEF OrderInv
  <2>6. \A d \in Conn : (\A q \in Publisher : pub'[q].at # d)
                          => last'[d] = Newest(chan'[d], got'[d].frame)
    <3>1. \A q \in Publisher : pub'[q].at = pub[q].at
      BY <2>1, <2>2
    <3>2. \A d \in Conn : (\A q \in Publisher : pub'[q].at # d) => d # c
      BY <2>2
    <3> QED BY <2>2, <2>3, <3>1, <3>2 DEF OrderInv
  <2>7. \A q \in Publisher : pub'[q].frame = pub[q].frame /\ pub'[q].todo = pub[q].todo
    BY <2>2
  <2>8. \A q \in Publisher : q # p => pub'[q].pc # "again"
    BY <2>2, <2>3 DEF MutexInv, Busy
  <2>9. \A q \in Publisher : pub'[q].pc = "again" => Len(chan'[pub'[q].at]) < Buffer
    BY <2>2, <2>8
  <2> QED BY <2>3, <2>5, <2>6, <2>7, <2>9 DEF OrderInv
<1>3. CASE Events!PublishAgain(p)
  <2>1. PICK c \in Conn : c = pub[p].at
    BY <1>3, AgainTypes
  <2>2. pub[p].pc = "again" /\ UNCHANGED <<frames, got>>
    BY <1>3 DEF Events!PublishAgain
  <2>3. Busy(p) /\ c \in pub[p].todo /\ Events!Room(c)
    BY <2>1, <2>2 DEF Busy, MutexInv, OrderInv, Events!Room
  <2>4. Events!Sent(p, c)
    BY <1>3, <2>1, <2>3, AgainTypes
  <2> QED BY <2>1, <2>2, <2>3, <2>4, SentOrder
<1>4. ASSUME NEW c \in Conn, Events!PublishSend(p, c)
      PROVE  OrderInv'
  <2>1. /\ pub[p].pc = "send" /\ c \in pub[p].todo /\ pub[p].at = None /\ Busy(p)
        /\ UNCHANGED <<frames, got>>
    BY <1>4 DEF Events!PublishSend, MutexInv, Busy
  <2>2. CASE Events!Room(c) /\ Events!Sent(p, c)
    BY <2>1, <2>2, SentOrder
  <2>3. CASE ~(Events!Room(c) /\ Events!Sent(p, c))
    <3>1. /\ pub'[p].pc = "drop" /\ pub'[p].at = c
          /\ pub'[p].todo = pub[p].todo /\ pub'[p].frame = pub[p].frame
          /\ \A q \in Publisher : q # p => pub'[q] = pub[q]
          /\ UNCHANGED <<chan, last>>
      BY <1>4, <2>3, SendTypes
    <3>2. \A d \in Conn : (\A q \in Publisher : pub'[q].at # d)
                            => \A q \in Publisher : pub[q].at # d
      BY <2>1, <3>1, ChannelsAssumption
    <3>3. \A q \in Publisher : /\ pub'[q].frame = pub[q].frame /\ pub'[q].todo = pub[q].todo
                               /\ pub'[q].pc = "again" => pub[q].pc = "again" /\ pub'[q].at = pub[q].at
      BY <3>1
    <3> QED BY <2>1, <3>1, <3>2, <3>3 DEF OrderInv
  <2> QED BY <2>2, <2>3
<1>5. CASE Events!PublishUnlock(p)
  <2>1. /\ pub' = [pub EXCEPT ![p] = Events!Idle] /\ pub[p].pc = "send"
        /\ UNCHANGED <<conn, count, chan, owner, frames, last, got, since>>
    BY <1>5 DEF Events!PublishUnlock
  <2>2. pub'[p] = Events!Idle /\ \A q \in Publisher : q # p => pub'[q] = pub[q]
    BY <2>1, IdleTypes
  <2> QED BY <2>1, <2>2, IdleOrder
<1> QED BY <1>1, <1>2, <1>3, <1>4, <1>5, ChannelsAssumption DEF Events!Publishing

LEMMA NextOrder ==
  ASSUME StreamTypes, MutexInv, SlotsInv, OrderInv, Events!Next
  PROVE  OrderInv'
<1>1. CASE Events!PollTick
  <2>1. /\ pub' = [pub EXCEPT ![Poller].pc = "fetch"] /\ UNCHANGED <<chan, frames, last, got>>
    BY <1>1 DEF Events!PollTick
  <2>2. /\ pub'[Poller].pc = "fetch" /\ pub'[Poller].at = pub[Poller].at
        /\ pub'[Poller].todo = pub[Poller].todo /\ pub'[Poller].frame = pub[Poller].frame
        /\ \A q \in Publisher : q # Poller => pub'[q] = pub[q]
    BY <2>1, PubMoves, ChannelsAssumption
  <2>3. \A q \in Publisher : /\ pub'[q].at = pub[q].at /\ pub'[q].todo = pub[q].todo
                             /\ pub'[q].frame = pub[q].frame
                             /\ pub'[q].pc = "again" => pub[q].pc = "again"
    BY <2>2
  <2> QED BY <2>1, <2>3 DEF OrderInv
<1>2. CASE Events!PollFails
  <2>1. /\ pub' = [pub EXCEPT ![Poller] = Events!Idle] /\ pub[Poller].pc = "fetch"
        /\ UNCHANGED <<conn, count, chan, owner, frames, last, got, since>>
    BY <1>2 DEF Events!PollFails
  <2>2. pub'[Poller] = Events!Idle /\ \A q \in Publisher : q # Poller => pub'[q] = pub[q]
    BY <2>1, IdleTypes, ChannelsAssumption
  <2> QED BY <2>1, <2>2, IdleOrder, ChannelsAssumption
<1>3. ASSUME NEW v \in VMID, NEW u \in (User \ Admin) \cup {None}, Events!Move(v, u)
      PROVE  OrderInv'
  BY <1>3, MoveTypes DEF OrderInv
<1> QED BY <1>1, <1>2, <1>3, HandlerOrder, PublisherOrder DEF Events!Next

----------------------------------------------------------------------------
(* The console.                                                            *)

LEMMA ConsoleIdle ==
  /\ Console!Idle \in ReqRow /\ Console!Idle.pc = "idle" /\ Console!Idle.kind = "post"
BY ChannelsAssumption DEF Console!Idle, ReqRow

\* A request goes on.
LEMMA GoTypes ==
  ASSUME ConsoleTypes, NEW r \in Req,
         NEW pc \in {"idle", "ticket", "login", "proxy", "place", "dial", "pipe", "close"},
         Console!Go(r, pc)
  PROVE  /\ req' \in [Req -> ReqRow]
         /\ req'[r].pc = pc /\ req'[r].kind = req[r].kind
         /\ \A q \in Req : q # r => req'[q] = req[q]
<1>1. req[r] \in ReqRow /\ 0 \in 0..CallTimeout
  BY ChannelsAssumption DEF ConsoleTypes
<1> QED BY <1>1 DEF ConsoleTypes, ReqRow, Console!Go

LEMMA ReturnTypes ==
  ASSUME ConsoleTypes, NEW r \in Req, Console!Return(r)
  PROVE  /\ req' \in [Req -> ReqRow]
         /\ req'[r].pc = "idle" /\ req'[r].kind = "post"
         /\ \A q \in Req : q # r => req'[q] = req[q]
BY ConsoleIdle DEF ConsoleTypes, Console!Return

LEMMA HoldingTypes ==
  ASSUME ConsoleTypes, NEW r \in Req, NEW age \in 0..PVELifetime, Console!Holding(r, age)
  PROVE  /\ req' \in [Req -> ReqRow]
         /\ req'[r].pc = IF req[r].kind = "post" THEN "proxy" ELSE "dial"
         /\ req'[r].kind = req[r].kind /\ req'[r].held = age /\ req'[r].call = 0
         /\ \A q \in Req : q # r => req'[q] = req[q]
<1>1. PICK pc \in {"proxy", "dial"} : pc = IF req[r].kind = "post" THEN "proxy" ELSE "dial"
  OBVIOUS
<1>2. req' = [req EXCEPT ![r].held = age, ![r].call = 0, ![r].pc = pc]
  BY <1>1 DEF Console!Holding
<1>3. req[r] \in ReqRow /\ 0 \in 0..CallTimeout
  BY ChannelsAssumption DEF ConsoleTypes
<1>4. /\ req' \in [Req -> ReqRow] /\ req'[r].pc = pc
      /\ req'[r].kind = req[r].kind /\ req'[r].held = age /\ req'[r].call = 0
      /\ \A q \in Req : q # r => req'[q] = req[q]
  BY <1>2, <1>3 DEF ConsoleTypes, ReqRow
<1> QED BY <1>1, <1>4

LEMMA InitConsole == Console!Init => ConsoleTypes /\ ConsoleInv
<1> SUFFICES ASSUME Console!Init PROVE ConsoleTypes /\ ConsoleInv
  OBVIOUS
<1>1. /\ DOMAIN byID = {} /\ made = {} /\ ticket = None /\ active = 0
      /\ opened \in [Sid -> Nat] /\ \A s \in Sid : opened[s] = 0
      /\ req \in [Req -> ReqRow] /\ \A r \in Req : req[r].pc = "idle" /\ req[r].kind = "post"
  BY ConsoleIdle DEF Console!Init
<1>2. Placed = {}
  BY <1>1 DEF Placed
<1>3. active = Cardinality(Placed) /\ active <= MaxBridges
  BY <1>1, <1>2, FS_EmptySet, ChannelsAssumption
<1> QED BY <1>1, <1>3 DEF ConsoleTypes, ConsoleInv

\* What the steps of a request that takes and leaves no place have in common.
LEMMA KeepsPlaces ==
  ASSUME ConsoleTypes, ConsoleInv, NEW r \in Req, UNCHANGED active,
         \A q \in Req : q # r => req'[q] = req[q],
         (req'[r].kind = "ws" /\ req'[r].pc # "place") <=> (req[r].kind = "ws" /\ req[r].pc # "place")
  PROVE  active' = Cardinality(Placed') /\ active' <= MaxBridges
<1>1. Placed' = Placed
  BY DEF Placed
<1> QED BY <1>1 DEF ConsoleInv

LEMMA PlacesFinite == IsFiniteSet(Placed) /\ Cardinality(Placed) \in Nat
BY FS_Subset, FS_CardinalityType, ChannelsAssumption DEF Placed

\* Sessions and tickets are left alone, and the request's ticket is fresh if it
\* goes to Proxmox.
LEMMA StepConsole ==
  ASSUME ConsoleTypes, ConsoleInv, NEW r \in Req, UNCHANGED <<byID, made, opened>>,
         ticket' \in 0..PVELifetime \cup {None}, active' \in Nat,
         req' \in [Req -> ReqRow], \A q \in Req : q # r => req'[q] = req[q],
         req'[r].pc \in {"place", "dial", "pipe", "close"} => req'[r].kind = "ws",
         req'[r].pc \in {"idle", "proxy"} => req'[r].kind = "post",
         req'[r].pc \in {"proxy", "dial"}
           => req'[r].held # None /\ req'[r].held < TicketLifetime + req'[r].call,
         active' = Cardinality(Placed') /\ active' <= MaxBridges
  PROVE  ConsoleTypes' /\ ConsoleInv'
<1>1. ConsoleTypes'
  BY DEF ConsoleTypes
<1>2. \A q \in Req : req'[q].pc \in {"proxy", "dial"} =>
        req'[q].held # None /\ req'[q].held < TicketLifetime + req'[q].call
  BY DEF ConsoleInv
<1> QED BY <1>1, <1>2 DEF ConsoleInv

\* A request's own steps, but those that register or claim a session.
LEMMA WorkingConsole ==
  ASSUME ConsoleTypes, ConsoleInv, NEW r \in Req,
         \/ Console!TicketCached(r) \/ Console!TicketLogin(r) \/ Console!TicketFetched(r)
         \/ Console!TicketFails(r) \/ Console!CreateProxyFails(r) \/ Console!TakePlace(r)
         \/ Console!Dial(r) \/ Console!DialFails(r) \/ Console!GiveUpPlace(r)
         \/ Console!OpenConsole(r) \/ Console!PipeEnds(r)
  PROVE  ConsoleTypes' /\ ConsoleInv'
<1>0. /\ req[r].kind \in {"post", "ws"} /\ active \in Nat /\ ticket \in 0..PVELifetime \cup {None}
      /\ req[r].pc \in {"place", "dial", "pipe", "close"} => req[r].kind = "ws"
      /\ req[r].pc \in {"idle", "proxy"} => req[r].kind = "post"
  BY DEF ConsoleTypes, ReqRow
<1>1. CASE Console!TicketCached(r)
  <2>1. /\ req[r].pc = "ticket" /\ Console!Holding(r, ticket)
        /\ ticket # None /\ ticket < TicketLifetime
        /\ UNCHANGED <<byID, made, opened, ticket, active>>
    BY <1>1 DEF Console!TicketCached, Console!At, Console!Fresh
  <2>2. ticket \in 0..PVELifetime
    BY <1>0, <2>1
  <2>3. /\ req' \in [Req -> ReqRow]
        /\ req'[r].pc = IF req[r].kind = "post" THEN "proxy" ELSE "dial"
        /\ req'[r].kind = req[r].kind /\ req'[r].held = ticket /\ req'[r].call = 0
        /\ \A q \in Req : q # r => req'[q] = req[q]
    BY <2>1, <2>2, HoldingTypes
  <2>4. active' = Cardinality(Placed') /\ active' <= MaxBridges
    BY <2>1, <2>3, KeepsPlaces
  <2>5. req'[r].held # None /\ req'[r].held < TicketLifetime + req'[r].call
    BY <2>1, <2>3, ChannelsAssumption
  <2> QED BY <1>0, <2>1, <2>3, <2>4, <2>5, StepConsole
<1>2. CASE Console!TicketLogin(r)
  <2>1. /\ req[r].pc = "ticket" /\ Console!Go(r, "login")
        /\ UNCHANGED <<byID, made, opened, ticket, active>>
    BY <1>2 DEF Console!TicketLogin, Console!At
  <2>2. /\ req' \in [Req -> ReqRow] /\ req'[r].pc = "login" /\ req'[r].kind = req[r].kind
        /\ \A q \in Req : q # r => req'[q] = req[q]
    BY <2>1, GoTypes
  <2>3. active' = Cardinality(Placed') /\ active' <= MaxBridges
    BY <2>1, <2>2, KeepsPlaces
  <2> QED BY <1>0, <2>1, <2>2, <2>3, StepConsole
<1>3. CASE Console!TicketFetched(r)
  <2>1. /\ req[r].pc = "login" /\ Console!Holding(r, 0) /\ ticket' = 0
        /\ UNCHANGED <<byID, made, opened, active>>
    BY <1>3 DEF Console!TicketFetched, Console!At
  <2>2. 0 \in 0..PVELifetime /\ 0 # None /\ 0 < TicketLifetime + 0
    BY ChannelsAssumption
  <2>3. /\ req' \in [Req -> ReqRow]
        /\ req'[r].pc = IF req[r].kind = "post" THEN "proxy" ELSE "dial"
        /\ req'[r].kind = req[r].kind /\ req'[r].held = 0 /\ req'[r].call = 0
        /\ \A q \in Req : q # r => req'[q] = req[q]
    BY <2>1, <2>2, HoldingTypes
  <2>4. active' = Cardinality(Placed') /\ active' <= MaxBridges
    BY <2>1, <2>3, KeepsPlaces
  <2> QED BY <1>0, <2>1, <2>2, <2>3, <2>4, StepConsole
<1>4. CASE Console!TicketFails(r)
  <2>1. /\ req[r].pc = "login" /\ UNCHANGED <<byID, made, opened, ticket, active>>
        /\ IF req[r].kind = "post" THEN Console!Return(r) ELSE Console!Go(r, "close")
    BY <1>4 DEF Console!TicketFails, Console!At
  <2>2. /\ req' \in [Req -> ReqRow] /\ \A q \in Req : q # r => req'[q] = req[q]
        /\ req'[r].kind = req[r].kind
        /\ req'[r].pc = IF req[r].kind = "post" THEN "idle" ELSE "close"
    BY <2>1, GoTypes, ReturnTypes
  <2>3. active' = Cardinality(Placed') /\ active' <= MaxBridges
    BY <2>1, <2>2, KeepsPlaces
  <2> QED BY <1>0, <2>1, <2>2, <2>3, StepConsole
<1>5. CASE Console!CreateProxyFails(r)
  <2>1. /\ req[r].pc = "proxy" /\ UNCHANGED <<byID, made, opened, ticket, active>>
        /\ Console!Return(r)
    BY <1>5 DEF Console!CreateProxyFails, Console!At
  <2>2. /\ req' \in [Req -> ReqRow] /\ \A q \in Req : q # r => req'[q] = req[q]
        /\ req'[r].kind = "post" /\ req'[r].pc = "idle"
    BY <2>1, ReturnTypes
  <2>3. active' = Cardinality(Placed') /\ active' <= MaxBridges
    BY <1>0, <2>1, <2>2, KeepsPlaces
  <2> QED BY <1>0, <2>1, <2>2, <2>3, StepConsole
<1>6. CASE Console!TakePlace(r)
  <2>1. req[r].pc = "place" /\ req[r].kind = "ws" /\ UNCHANGED <<byID, made, opened, ticket>>
    BY <1>0, <1>6 DEF Console!TakePlace, Console!At
  <2>2. CASE active >= MaxBridges
    <3>1. /\ req' \in [Req -> ReqRow] /\ \A q \in Req : q # r => req'[q] = req[q]
          /\ req'[r].kind = "post" /\ req'[r].pc = "idle" /\ UNCHANGED active
      BY <1>6, <2>2, ReturnTypes DEF Console!TakePlace
    <3>2. active' = Cardinality(Placed') /\ active' <= MaxBridges
      BY <2>1, <3>1, KeepsPlaces
    <3> QED BY <1>0, <2>1, <3>1, <3>2, StepConsole
  <2>3. CASE ~(active >= MaxBridges)
    <3>1. /\ req' \in [Req -> ReqRow] /\ \A q \in Req : q # r => req'[q] = req[q]
          /\ req'[r].kind = "ws" /\ req'[r].pc = "ticket" /\ active' = active + 1
      BY <1>6, <2>1, <2>3, GoTypes DEF Console!TakePlace
    <3>2. Placed' = Placed \cup {r} /\ r \notin Placed
      BY <2>1, <3>1 DEF Placed
    <3>3. Cardinality(Placed \cup {r}) = Cardinality(Placed) + 1
      BY <3>2, PlacesFinite, FS_AddElement
    <3>4. active' = Cardinality(Placed') /\ active' <= MaxBridges /\ active' \in Nat
      BY <1>0, <2>3, <3>1, <3>2, <3>3, ChannelsAssumption DEF ConsoleInv
    <3> QED BY <1>0, <2>1, <3>1, <3>4, StepConsole
  <2> QED BY <2>2, <2>3
<1>7. CASE Console!Dial(r) \/ Console!DialFails(r) \/ Console!PipeEnds(r)
  <2>1. PICK pc \in {"pipe", "close"} : Console!Go(r, pc)
    BY <1>7 DEF Console!Dial, Console!DialFails, Console!PipeEnds
  <2>2. req[r].pc \in {"dial", "pipe"} /\ UNCHANGED <<byID, made, opened, ticket, active>>
    BY <1>7 DEF Console!Dial, Console!DialFails, Console!PipeEnds, Console!At
  <2>3. /\ req' \in [Req -> ReqRow] /\ \A q \in Req : q # r => req'[q] = req[q]
        /\ req'[r].kind = req[r].kind /\ req'[r].pc = pc
    BY <2>1, GoTypes
  <2>4. active' = Cardinality(Placed') /\ active' <= MaxBridges
    BY <2>1, <2>2, <2>3, KeepsPlaces
  <2> QED BY <1>0, <2>1, <2>2, <2>3, <2>4, StepConsole
<1>8. CASE Console!GiveUpPlace(r)
  <2>1. /\ req[r].pc = "close" /\ req[r].kind = "ws" /\ UNCHANGED <<byID, made, opened, ticket>>
        /\ active' = active - 1 /\ Console!Return(r)
    BY <1>0, <1>8 DEF Console!GiveUpPlace, Console!At
  <2>2. /\ req' \in [Req -> ReqRow] /\ \A q \in Req : q # r => req'[q] = req[q]
        /\ req'[r].kind = "post" /\ req'[r].pc = "idle"
    BY <2>1, ReturnTypes
  <2>3. Placed' = Placed \ {r} /\ r \in Placed
    BY <2>1, <2>2 DEF Placed
  <2>4. /\ Cardinality(Placed \ {r}) = Cardinality(Placed) - 1
        /\ Cardinality(Placed \ {r}) \in Nat
    BY <2>3, PlacesFinite, FS_RemoveElement, FS_CardinalityType
  <2>5. active' = Cardinality(Placed') /\ active' <= MaxBridges /\ active' \in Nat
    BY <1>0, <2>1, <2>3, <2>4, ChannelsAssumption DEF ConsoleInv
  <2> QED BY <1>0, <2>1, <2>2, <2>5, StepConsole
<1>9. CASE Console!OpenConsole(r)
  <2> DEFINE x == [Console!Idle EXCEPT !.pc = "ticket"]
  <2>1. /\ req[r].pc = "idle" /\ UNCHANGED <<byID, made, opened, ticket, active>>
        /\ req' = [req EXCEPT ![r] = x]
    BY <1>9 DEF Console!OpenConsole, Console!At
  <2>2. x \in ReqRow /\ x.pc = "ticket" /\ x.kind = "post"
    BY ConsoleIdle DEF ReqRow
  <2> HIDE DEF x
  <2>3. /\ req' \in [Req -> ReqRow] /\ req'[r] = x /\ \A q \in Req : q # r => req'[q] = req[q]
    BY <2>1, <2>2 DEF ConsoleTypes
  <2>4. active' = Cardinality(Placed') /\ active' <= MaxBridges
    BY <1>0, <2>1, <2>2, <2>3, KeepsPlaces
  <2> QED BY <1>0, <2>1, <2>2, <2>3, <2>4, StepConsole
<1> QED BY <1>1, <1>2, <1>3, <1>4, <1>5, <1>6, <1>7, <1>8, <1>9

\* A session is registered.
LEMMA CreateConsole ==
  ASSUME ConsoleTypes, ConsoleInv, NEW r \in Req, NEW s \in Sid, Console!Create(r, s)
  PROVE  ConsoleTypes' /\ ConsoleInv'
<1>1. /\ req[r].pc = "proxy" /\ s \notin made /\ made' = made \cup {s} /\ Console!Return(r)
      /\ UNCHANGED <<ticket, active, opened>>
  BY DEF Console!Create, Console!At
<1>2. DOMAIN byID' \subseteq DOMAIN byID \cup {s}
  BY DEF Console!Create
<1>3. /\ req' \in [Req -> ReqRow] /\ \A q \in Req : q # r => req'[q] = req[q]
      /\ req'[r].kind = "post" /\ req'[r].pc = "idle"
  BY <1>1, ReturnTypes
<1>4. req[r].kind = "post"
  BY <1>1 DEF ConsoleTypes
<1>5. active' = Cardinality(Placed') /\ active' <= MaxBridges
  BY <1>1, <1>3, <1>4, KeepsPlaces
<1>6. ConsoleTypes'
  BY <1>1, <1>2, <1>3 DEF ConsoleTypes
<1>7. \A t \in Sid : opened'[t] <= 1 /\ (t \in DOMAIN byID' \/ t \notin made' => opened'[t] = 0)
  BY <1>1, <1>2 DEF ConsoleInv
<1>8. DOMAIN byID' \subseteq made'
  BY <1>1, <1>2 DEF ConsoleInv
<1>9. \A q \in Req : req'[q].pc \in {"proxy", "dial"} =>
        req'[q].held # None /\ req'[q].held < TicketLifetime + req'[q].call
  BY <1>3 DEF ConsoleInv
<1> QED BY <1>5, <1>6, <1>7, <1>8, <1>9 DEF ConsoleInv

\* A session is claimed, or found expired.
LEMMA ClaimConsole ==
  ASSUME ConsoleTypes, ConsoleInv, NEW r \in Req, NEW s \in Sid, Console!Claim(r, s)
  PROVE  ConsoleTypes' /\ ConsoleInv'
<1>1. /\ req[r].pc = "idle" /\ req[r].kind = "post" /\ s \in DOMAIN byID /\ s \in made
      /\ DOMAIN byID' = DOMAIN byID \ {s} /\ opened[s] = 0
      /\ UNCHANGED <<made, ticket, active>>
  BY DEF Console!Claim, Console!At, ConsoleTypes, ConsoleInv
<1>2. CASE byID[s] <= SessionTTL
  <2> DEFINE x == [Console!Idle EXCEPT !.pc = "place", !.sid = s, !.kind = "ws"]
  <2>1. /\ opened' = [opened EXCEPT ![s] = @ + 1] /\ req' = [req EXCEPT ![r] = x]
    BY <1>2 DEF Console!Claim
  <2>2. x \in ReqRow /\ x.pc = "place" /\ x.kind = "ws"
    BY ConsoleIdle DEF ReqRow
  <2> HIDE DEF x
  <2>3. /\ req' \in [Req -> ReqRow] /\ req'[r] = x /\ \A q \in Req : q # r => req'[q] = req[q]
    BY <2>1, <2>2 DEF ConsoleTypes
  <2>4. /\ opened' \in [Sid -> Nat] /\ opened'[s] = 1
        /\ \A t \in Sid : t # s => opened'[t] = opened[t]
    BY <1>1, <2>1 DEF ConsoleTypes
  <2>5. active' = Cardinality(Placed') /\ active' <= MaxBridges
    BY <1>1, <2>2, <2>3, KeepsPlaces
  <2>6. ConsoleTypes'
    BY <1>1, <2>2, <2>3, <2>4 DEF ConsoleTypes
  <2>7. \A t \in Sid : opened'[t] <= 1 /\ (t \in DOMAIN byID' \/ t \notin made' => opened'[t] = 0)
    BY <1>1, <2>4 DEF ConsoleInv
  <2>8. \A q \in Req : req'[q].pc \in {"proxy", "dial"} =>
          req'[q].held # None /\ req'[q].held < TicketLifetime + req'[q].call
    BY <2>2, <2>3 DEF ConsoleInv
  <2>9. DOMAIN byID' \subseteq made'
    BY <1>1 DEF ConsoleInv
  <2> QED BY <2>5, <2>6, <2>7, <2>8, <2>9 DEF ConsoleInv
<1>3. CASE ~(byID[s] <= SessionTTL)
  <2>1. UNCHANGED <<opened, req>>
    BY <1>3 DEF Console!Claim
  <2>2. Placed' = Placed
    BY <2>1 DEF Placed
  <2> QED BY <1>1, <2>1, <2>2 DEF ConsoleTypes, ConsoleInv
<1> QED BY <1>2, <1>3

\* Time passes: a ticket in use grows no older than the call it is used in.
LEMMA TickConsole ==
  ASSUME ConsoleTypes, ConsoleInv, Console!Tick
  PROVE  ConsoleTypes' /\ ConsoleInv'
<1>1. ASSUME NEW age \in 0..PVELifetime \cup {None}
      PROVE  /\ Console!Older(age, PVELifetime) \in 0..PVELifetime \cup {None}
             /\ age # None => /\ Console!Older(age, PVELifetime) # None
                              /\ Console!Older(age, PVELifetime) <= age + 1
  BY ChannelsAssumption DEF Console!Older
<1>2. UNCHANGED <<made, active, opened>> /\ DOMAIN byID' = DOMAIN byID
  BY DEF Console!Tick
<1>3. ticket' \in 0..PVELifetime \cup {None}
  BY <1>1 DEF Console!Tick, ConsoleTypes
<1>4. ASSUME NEW r \in Req
      PROVE  /\ req'[r] \in ReqRow /\ req'[r].pc = req[r].pc /\ req'[r].kind = req[r].kind
             /\ req[r].pc \in {"proxy", "dial"} =>
                  req'[r].held # None /\ req'[r].held < TicketLifetime + req'[r].call
  <2> DEFINE h == Console!Older(req[r].held, PVELifetime)
             k == IF Console!Calling(r) THEN req[r].call + 1 ELSE 0
  <2>1. req'[r] = [req[r] EXCEPT !.held = h, !.call = k]
    BY DEF Console!Tick
  <2>2. /\ req[r] \in ReqRow /\ req[r].held \in 0..PVELifetime \cup {None}
        /\ req[r].call \in 0..CallTimeout
    BY DEF ConsoleTypes, ReqRow
  <2>3. /\ h \in 0..PVELifetime \cup {None}
        /\ req[r].held # None => h # None /\ h <= req[r].held + 1
    BY <1>1, <2>2
  <2>4. k \in 0..CallTimeout /\ (req[r].pc \in {"proxy", "dial"} => k = req[r].call + 1)
    <3>1. Console!Calling(r) => req[r].call < CallTimeout
      BY DEF Console!Tick
    <3>2. req[r].pc \in {"proxy", "dial"} => Console!Calling(r)
      BY DEF Console!Calling
    <3> QED BY <2>2, <3>1, <3>2, ChannelsAssumption
  <2> HIDE DEF h, k
  <2>5. /\ req'[r] \in ReqRow /\ req'[r].pc = req[r].pc /\ req'[r].kind = req[r].kind
        /\ req'[r].held = h /\ req'[r].call = k
    BY <2>1, <2>2, <2>3, <2>4 DEF ReqRow
  <2>6. ASSUME req[r].pc \in {"proxy", "dial"}
        PROVE  h # None /\ h < TicketLifetime + k
    <3>1. req[r].held # None /\ req[r].held < TicketLifetime + req[r].call
      BY <2>6 DEF ConsoleInv
    <3>2. h # None /\ h <= req[r].held + 1 /\ k = req[r].call + 1
      BY <2>3, <2>4, <2>6, <3>1
    <3>3. h \in Int /\ req[r].held \in Int /\ req[r].call \in Int /\ TicketLifetime \in Int
      BY <2>2, <2>3, <3>1, <3>2, ChannelsAssumption
    <3> QED BY <3>1, <3>2, <3>3
  <2> QED BY <2>5, <2>6
<1>5. req' \in [Req -> ReqRow]
  <2>1. req' = [r \in Req |-> req'[r]]
    BY DEF Console!Tick
  <2> QED BY <1>4, <2>1
<1>6. ConsoleTypes'
  BY <1>2, <1>3, <1>4, <1>5 DEF ConsoleTypes
<1>7. Placed' = Placed
  BY <1>4 DEF Placed
<1> QED BY <1>2, <1>4, <1>6, <1>7 DEF ConsoleInv

LEMMA NextConsole ==
  ASSUME ConsoleTypes, ConsoleInv, Console!Next
  PROVE  ConsoleTypes' /\ ConsoleInv'
BY WorkingConsole, CreateConsole, ClaimConsole, TickConsole DEF Console!Next, Console!Working

----------------------------------------------------------------------------
(* The theorems.                                                           *)

StreamInv == StreamTypes /\ MutexInv /\ SlotsInv /\ ForeignInv /\ OrderInv
ChannelsInv == StreamInv /\ ConsoleTypes /\ ConsoleInv

LEMMA Stutter ==
  /\ StreamInv /\ UNCHANGED eventVars => StreamInv'
  /\ ConsoleTypes /\ ConsoleInv /\ UNCHANGED consoleVars => ConsoleTypes' /\ ConsoleInv'
<1>1. ASSUME StreamInv, UNCHANGED eventVars
      PROVE  StreamInv'
  <2>1. UNCHANGED <<conn, count, subs, chan, pub, owner, frames, last, got, since>>
    BY <1>1 DEF eventVars
  <2>2. StreamTypes' /\ MutexInv'
    BY <1>1, <2>1 DEF StreamInv, StreamTypes, MutexInv, Busy
  <2>3. SlotsInv'
    BY <1>1, <2>1 DEF StreamInv, SlotsInv, Events!SlotsExact
  <2>4. ForeignInv' /\ OrderInv'
    BY <1>1, <2>1 DEF StreamInv, ForeignInv, Events!NeverForeign, OrderInv
  <2> QED BY <2>2, <2>3, <2>4 DEF StreamInv
<1>2. ASSUME ConsoleTypes, ConsoleInv, UNCHANGED consoleVars
      PROVE  ConsoleTypes' /\ ConsoleInv'
  BY <1>2 DEF consoleVars, ConsoleTypes, ConsoleInv, Placed
<1> QED BY <1>1, <1>2

LEMMA InitChannels == Init => ChannelsInv
BY InitStream, InitMutex, InitSlots, InitForeign, InitOrder, InitConsole
   DEF Init, ChannelsInv, StreamInv

LEMMA NextChannels == ChannelsInv /\ [Next]_vars => ChannelsInv'
<1> SUFFICES ASSUME ChannelsInv, [Next]_vars PROVE ChannelsInv'
  OBVIOUS
<1>1. CASE Events!Next /\ UNCHANGED consoleVars
  <2>1. StreamInv'
    BY <1>1, NextMutex, NextSlots, NextForeign, NextOrder DEF ChannelsInv, StreamInv
  <2> QED BY <1>1, <2>1, Stutter DEF ChannelsInv
<1>2. CASE Console!Next /\ UNCHANGED eventVars
  BY <1>2, NextConsole, Stutter DEF ChannelsInv
<1>3. CASE UNCHANGED vars
  <2>1. UNCHANGED eventVars /\ UNCHANGED consoleVars
    BY <1>3 DEF vars
  <2> QED BY <2>1, Stutter DEF ChannelsInv
<1> QED BY <1>1, <1>2, <1>3 DEF Next

\* The inductive invariant of the two channels.
THEOREM ChannelsHold == Spec => []ChannelsInv
BY InitChannels, NextChannels, PTL DEF Spec

\* However many handlers cancel while however many publishers publish, whoever a
\* Publish has still to serve is subscribed, and its channel is not closed:
\* cancel takes the handler off the map under the mutex before it closes the
\* channel outside it (broker.go).
THEOREM NeverSendsOnClosed == Spec => []NoSendOnClosed
<1>1. ChannelsInv => NoSendOnClosed
  <2> SUFFICES ASSUME ChannelsInv, NEW p \in Publisher, NEW c \in pub[p].todo
               PROVE  conn[c].pc \in {"live", "leaving"}
    BY DEF NoSendOnClosed, Events!NoSendOnClosed
  <2> QED BY DEF ChannelsInv, StreamInv, MutexInv
<1> QED BY <1>1, ChannelsHold, PTL

\* For any buffer, number of subscribers and reading speed: Publish's drop of the
\* oldest and second attempt keep a channel in order, its newest frame is the
\* last one offered, and the second attempt never loses the new frame.
THEOREM NewestIsKept == Spec => []NewestKept
<1>1. ChannelsInv => NewestKept
  <2> SUFFICES ASSUME ChannelsInv, NEW c \in subs
               PROVE  /\ \A i \in 1..(Len(chan[c]) - 1) : chan[c][i].id < chan[c][i + 1].id
                      /\ chan[c] # <<>> => got[c].frame.id < Head(chan[c]).id
                      /\ (\A p \in Publisher : pub[p].at # c)
                           => last[c] = (IF chan[c] = <<>> THEN got[c].frame.id
                                         ELSE chan[c][Len(chan[c])].id)
    BY DEF NewestKept, Events!NewestKept
  <2>1. c \in Conn
    BY DEF ChannelsInv, StreamInv, MutexInv
  <2> QED BY <2>1 DEF ChannelsInv, StreamInv, OrderInv, Ordered, Newest
<1> QED BY <1>1, ChannelsHold, PTL

\* Whatever guests change hands and whenever the owned set is fetched or its fetch
\* fails: deliver writes to a tenant's stream no metrics and nothing about a guest
\* that the tenant has not owned since the last fetch.
THEOREM StreamsAreNeverForeign == Spec => []NeverForeign
<1>1. ChannelsInv => NeverForeign
  BY DEF ChannelsInv, StreamInv, ForeignInv, NeverForeign
<1> QED BY <1>1, ChannelsHold, PTL

\* connLimiter counts each user's streams and Proxy.active the bridges exactly, on
\* every way out of the handlers and for every limit; a console session is claimed
\* once; and no call to Proxmox shows an expired ticket.
THEOREM PlacesAreExact == Spec => []PlacesExact
<1>1. ChannelsInv => PlacesExact
  <2> SUFFICES ASSUME ChannelsInv PROVE PlacesExact
    OBVIOUS
  <2>1. ConsoleTypes /\ ConsoleInv /\ Events!SlotsExact
    BY DEF ChannelsInv, StreamInv, SlotsInv
  <2>2. Placed = {r \in Req : req[r].kind = "ws" /\ ~Console!At(r, "place")}
    BY DEF Placed, Console!At
  <2>3. active = Console!Cardinality({r \in Req : req[r].kind = "ws" /\ ~Console!At(r, "place")})
    BY <2>1, <2>2, SameCardinality DEF ConsoleInv
  <2>4. ASSUME NEW r \in Req, req[r].pc \in {"proxy", "dial"}
        PROVE  req[r].held < PVELifetime
    <3>1. /\ req[r].held \in Int /\ req[r].call \in Int /\ req[r].call <= CallTimeout
          /\ req[r].held < TicketLifetime + req[r].call
      BY <2>1, <2>4, ChannelsAssumption DEF ConsoleTypes, ReqRow, ConsoleInv
    <3> QED BY <3>1, ChannelsAssumption
  <2>5. Console!PlacesExact
    BY <2>1, <2>3, <2>4, Zenon DEF Console!PlacesExact, ConsoleInv
  <2> QED BY <2>1, <2>5 DEF PlacesExact
<1> QED BY <1>1, ChannelsHold, PTL
=============================================================================
