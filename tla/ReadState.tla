------------------------------ MODULE ReadState ------------------------------
(***************************************************************************)
(* How far the operator has read one channel: the mark each device keeps   *)
(* (frontend stores/channel-activity.ts), the mark the hub keeps           *)
(* (listReadState and markChannelRead of the store), and what brings them  *)
(* together: a debounced PUT, a GET at boot and after each reconnect, and  *)
(* broadcasts on /ws/events. A direct-message channel that is deleted is   *)
(* swept when the hub restarts, and one created later has the same id and  *)
(* starts at sequence number 1: a second life. One device is followed; the *)
(* others meet it only in the hub, to which they may push any mark. Times  *)
(* are compared only with the moment a PUT was issued, so a PUT carries    *)
(* what has happened on the device since. A page mounts its rail once.     *)
(***************************************************************************)
EXTENDS FiniteSets, Naturals, Sequences

CONSTANTS
  MaxHead,      \* bound: messages in a life
  MaxLives,     \* bound: lives of the channel
  MaxEvents,    \* bound: events on the way to the device
  MaxPuts,      \* bound: PUTs of the device in flight
  MaxUpsets     \* bound: lost requests, dropped sockets, reloads, restarts

ASSUME ReadConstants == {MaxHead, MaxLives, MaxEvents, MaxPuts, MaxUpsets} \subseteq Nat

VARIABLES
  channel,      \* the hub's: newest seq, durable mark (0 for no row), life
  device,       \* its stores, local storage, armed push, connection
  puts,         \* its PUTs in flight
  events,       \* what /ws/events still has to deliver
  upsets

readStateVars == <<channel, device, puts, events, upsets>>

Most(a, b) == IF a > b THEN a ELSE b
Least(a, b) == IF a < b THEN a ELSE b

\* latest, read: the stores; saved: local storage; armed: the pending push;
\* shown: the last row the open channel view shows; snap: its full snapshot
\* on the way; get: the GET's answer on the way; opened: the events socket
\* has been open before.
\* synced and raised are history: the device has merged an answer computed
\* while it could hear and has lost nothing since; the highest message of
\* this life by which a broadcast raised `latest`.
NewPage(saved) ==
  [latest |-> 0, read |-> 0, saved |-> saved, armed |-> 0,
   open |-> FALSE, shown |-> 0, snap |-> {},
   get |-> "asked", got |-> 0, online |-> FALSE, opened |-> FALSE,
   synced |-> FALSE, raised |-> 0]

ReadInit ==
  /\ channel = [head |-> 0, mark |-> 0, life |-> 1]
  /\ device = NewPage(0)
  /\ puts = {}
  /\ events = <<>>
  /\ upsets = 0

MarkOf(dev) == Most(dev.read, dev.saved)

\* Something the device should have heard is gone: history.
Missed(dev) ==
  [dev EXCEPT !.synced = FALSE, !.get = IF @ = "answered" THEN "answered early" ELSE @]

-----------------------------------------------------------------------------
(* stores/channel-activity.ts.                                             *)

scheduleReadStatePush(dev, seq) == [dev EXCEPT !.armed = Most(@, seq)]

markChannelRead(dev, seq) ==
  IF seq = 0 \/ dev.read >= seq THEN dev
  ELSE scheduleReadStatePush([dev EXCEPT !.read = seq, !.saved = seq], seq)

\* Mutation: a device does not answer a hub that is behind it.
MergeUpOnly(dev, hub) ==
  IF hub > MarkOf(dev) THEN [dev EXCEPT !.read = hub, !.saved = hub] ELSE dev

mergeReadState(dev, hub) ==
  CASE hub > MarkOf(dev) -> [dev EXCEPT !.read = hub, !.saved = hub]
    [] hub < MarkOf(dev) -> scheduleReadStatePush(dev, MarkOf(dev))
    [] OTHER -> dev

\* Mutation: the head is lowered whatever was raised meanwhile.
ClampUnfenced(dev, head, headIsStale) ==
  [dev EXCEPT !.armed = IF @ > head THEN 0 ELSE @,
              !.read = IF MarkOf(dev) > head THEN head ELSE @,
              !.saved = IF MarkOf(dev) > head THEN head ELSE @,
              !.latest = Least(@, head)]

clampChannelStores(dev, head, headIsStale) ==
  [dev EXCEPT !.armed = IF @ > head THEN 0 ELSE @,
              !.read = IF MarkOf(dev) > head THEN head ELSE @,
              !.saved = IF MarkOf(dev) > head THEN head ELSE @,
              !.latest = IF headIsStale THEN @ ELSE Least(@, head)]

\* The clamp's epoch is stamped when a store moved.
Clamped(dev, next) == dev.latest # next.latest \/ MarkOf(dev) # MarkOf(next)

\* The PUTs that are out see the stamp of a clamp and of a raise.
Stamped(clamped, raised) ==
  {[p EXCEPT !.clamped = @ \/ clamped, !.raised = @ \/ raised] : p \in puts}

Put(seq, heard) ==
  [seq |-> seq, answered |-> FALSE, mark |-> 0, clamped |-> FALSE,
   raised |-> FALSE, heard |-> heard]

-----------------------------------------------------------------------------
(* The hub.                                                                *)

Room == Len(events) < MaxEvents

Broadcast(kind, seq) ==
  IF device.online THEN Append(events, [kind |-> kind, seq |-> seq]) ELSE events

MessagePosted ==
  /\ channel.head < MaxHead /\ Room
  /\ channel' = [channel EXCEPT !.head = @ + 1]
  /\ events' = Broadcast("channel-activity", channel.head + 1)
  /\ UNCHANGED <<device, puts, upsets>>

\* The store's markChannelRead: what it stores and answers.
Stored(seq) == Most(Least(seq, channel.head), Least(channel.mark, channel.head))
Advances(seq) == Stored(seq) > Least(channel.mark, channel.head)

\* PUT /channels/:id/read-state: only a real advance is stored and told.
PutReadState(seq) ==
  /\ Room
  /\ channel' = IF Advances(seq) THEN [channel EXCEPT !.mark = Stored(seq)] ELSE channel
  /\ events' = IF Advances(seq) THEN Broadcast("channel-read-state", Stored(seq)) ELSE events

OthersPut(seq) ==
  /\ Advances(seq)
  /\ PutReadState(seq)
  /\ UNCHANGED <<device, puts, upsets>>

PutServed(p) ==
  /\ ~p.answered
  /\ PutReadState(p.seq)
  /\ puts' = (puts \ {p}) \cup
       (IF p.heard THEN {[p EXCEPT !.answered = TRUE, !.mark = Stored(p.seq)]} ELSE {})
  /\ UNCHANGED <<device, upsets>>

\* GET /channels/read-state; a channel without a row is not in it.
GetReadState ==
  /\ device.get = "asked"
  /\ device' = [device EXCEPT
       !.get = IF device.online THEN "answered" ELSE "answered early",
       !.got = Least(channel.mark, channel.head)]
  /\ UNCHANGED <<channel, puts, events, upsets>>

Upset == upsets < MaxUpsets /\ upsets' = upsets + 1

\* Every connection and request ends. With `swept`, the channel was deleted
\* and created again: sweepOrphans has removed its rows and its mark.
RestartSweeps(swept) ==
  /\ Upset
  /\ swept => channel.life < MaxLives
  /\ channel' = IF swept THEN [head |-> 0, mark |-> 0, life |-> channel.life + 1]
                ELSE channel
  /\ device' = [device EXCEPT
       !.online = FALSE, !.synced = FALSE, !.snap = {},
       !.get = IF @ = "idle" THEN "idle" ELSE "asked",
       !.raised = IF swept THEN 0 ELSE @]
  /\ puts' = {}
  /\ events' = <<>>

-----------------------------------------------------------------------------
(* The device.                                                             *)

\* The events socket opens; only one that has been open before asks again.
EventsOpen ==
  /\ ~device.online
  /\ device' = [device EXCEPT !.online = TRUE, !.opened = TRUE,
                              !.get = IF device.opened THEN "asked" ELSE @]
  /\ UNCHANGED <<channel, puts, events, upsets>>

EventsDrop ==
  /\ device.online
  /\ Upset
  /\ device' = [Missed(device) EXCEPT !.online = FALSE]
  /\ events' = <<>>
  /\ UNCHANGED <<channel, puts>>

\* The page goes: an armed mark leaves with it and no answer is read.
Reload ==
  /\ Upset
  /\ puts' = {[p EXCEPT !.heard = FALSE] : p \in {q \in puts : ~q.answered}}
       \cup (IF device.armed > 0 THEN {Put(device.armed, FALSE)} ELSE {})
  /\ device' = NewPage(device.saved)
  /\ events' = <<>>
  /\ UNCHANGED channel

\* recordActivity.
ActivityArrives ==
  LET seq   == Head(events).seq
      rises == seq > device.latest
  IN
  /\ events # <<>> /\ Head(events).kind = "channel-activity"
  /\ events' = Tail(events)
  /\ device' = IF rises THEN [device EXCEPT !.latest = seq, !.raised = seq] ELSE device
  /\ puts' = Stamped(FALSE, rises)
  /\ UNCHANGED <<channel, upsets>>

MarkArrives ==
  /\ events # <<>> /\ Head(events).kind = "channel-read-state"
  /\ events' = Tail(events)
  /\ device' = mergeReadState(device, Head(events).seq)
  /\ UNCHANGED <<channel, puts, upsets>>

GetArrives ==
  LET dev == [device EXCEPT !.get = "idle", !.got = 0,
                            !.synced = @ \/ device.get = "answered"]
  IN
  /\ device.get \in {"answered", "answered early"}
  /\ device' = IF device.got = 0 THEN dev ELSE mergeReadState(dev, device.got)
  /\ UNCHANGED <<channel, puts, events, upsets>>

\* The channel list, read and applied.
seedChannelActivity ==
  /\ channel.head > device.latest
  /\ device' = [device EXCEPT !.latest = channel.head]
  /\ puts' = Stamped(FALSE, TRUE)
  /\ UNCHANGED <<channel, events, upsets>>

\* The window of an armed push ends, or the page is hidden.
flushChannelReadState ==
  /\ device.armed > 0
  /\ Cardinality(puts) < MaxPuts
  /\ puts' = puts \cup {Put(device.armed, TRUE)}
  /\ device' = [device EXCEPT !.armed = 0]
  /\ UNCHANGED <<channel, events, upsets>>

\* publishReadState's answer: below what was pushed, it is the head.
PutAnswered(p) ==
  LET next == CASE p.mark < p.seq -> clampChannelStores(device, p.mark, p.raised)
                [] p.mark >= p.seq /\ p.clamped -> device
                [] OTHER -> mergeReadState(device, p.mark)
  IN
  /\ p.answered
  /\ device' = next
  /\ puts' = {[q EXCEPT !.clamped = @ \/ (p.mark < p.seq /\ Clamped(device, next))]
                : q \in puts \ {p}}
  /\ UNCHANGED <<channel, events, upsets>>

\* The request or its answer is lost; there is no retry.
PutLost(p) ==
  /\ Upset
  /\ puts' = puts \ {p}
  /\ device' = Missed(device)
  /\ UNCHANGED <<channel, events>>

OpenChannel ==
  /\ ~device.open
  /\ device' = [device EXCEPT !.open = TRUE]
  /\ UNCHANGED <<channel, puts, events, upsets>>

\* A view that has nothing, or more than the channel, is sent everything.
FullSnapshot ==
  /\ device.open /\ device.snap = {}
  /\ device.shown = 0 \/ device.shown > channel.head
  /\ device' = [device EXCEPT !.snap = {channel.head}]
  /\ UNCHANGED <<channel, puts, events, upsets>>

\* A snapshot older than a mark that came over the other socket takes the
\* mark back: what was merged is lost.
SnapshotArrives ==
  \E head \in device.snap :
    LET next == clampChannelStores(device, head, FALSE) IN
    /\ device' = [(IF MarkOf(next) < MarkOf(device) THEN Missed(next) ELSE next)
                     EXCEPT !.shown = head, !.snap = {}, !.raised = Least(@, head)]
    /\ puts' = Stamped(Clamped(device, next), FALSE)
    /\ UNCHANGED <<channel, events, upsets>>

RowArrives ==
  /\ device.open /\ device.snap = {}
  /\ device.shown > 0 /\ device.shown < channel.head
  /\ device' = [device EXCEPT !.shown = channel.head]
  /\ UNCHANGED <<channel, puts, events, upsets>>

\* The view is left, or its page hidden: what it showed is read.
LeaveChannel ==
  /\ device.open
  /\ device' = [markChannelRead(device, device.shown)
                  EXCEPT !.open = FALSE, !.shown = 0, !.snap = {}]
  /\ UNCHANGED <<channel, puts, events, upsets>>

-----------------------------------------------------------------------------

ReadNext ==
  \/ MessagePosted
  \/ \E seq \in 1..MaxHead : OthersPut(seq)
  \/ \E swept \in BOOLEAN : RestartSweeps(swept)
  \/ \E p \in puts : PutServed(p) \/ PutAnswered(p) \/ PutLost(p)
  \/ GetReadState \/ GetArrives
  \/ EventsOpen \/ EventsDrop \/ Reload
  \/ ActivityArrives \/ MarkArrives \/ seedChannelActivity
  \/ flushChannelReadState
  \/ OpenChannel \/ FullSnapshot \/ SnapshotArrives \/ RowArrives \/ LeaveChannel

ReadSpec == ReadInit /\ [][ReadNext]_readStateVars

-----------------------------------------------------------------------------

\* Nothing is on the way, and the device has heard everything.
Quiet ==
  /\ device.online /\ device.synced /\ device.get = "idle"
  /\ device.armed = 0 /\ puts = {} /\ events = <<>>

\* Once the hub holds a mark of the channel and nothing is on the way, the
\* device is not ahead of it, so a mark of an earlier life hides nothing that
\* other devices show unread; and in a channel that was never recreated both
\* have read equally far (mergeReadState, publishReadState, the store's
\* markChannelRead).
DevicesAgree ==
  (channel.mark > 0 /\ Quiet) =>
    /\ MarkOf(device) <= channel.mark
    /\ channel.life = 1 => MarkOf(device) = channel.mark

\* A message of this life by which a broadcast raised the device's head is
\* still known to it: the repair that a PUT's answer starts does not take
\* it away (clampChannelStores' fence on the head).
RaisedStays == device.latest >= device.raised
=============================================================================
