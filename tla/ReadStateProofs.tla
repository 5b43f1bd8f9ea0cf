--------------------------- MODULE ReadStateProofs ---------------------------
(***************************************************************************)
(* The device and the hub agree on how far a channel was read, and a head  *)
(* a broadcast raised stays known: both theorems for every bound on heads, *)
(* lives, events, PUTs and upsets. What is inductive is not the agreement, *)
(* which holds only when nothing is on the way, but what makes up for a    *)
(* disagreement meanwhile: a device ahead of the hub has its mark armed,   *)
(* on the way up, or refused by an answer still to be read, or is about to *)
(* hear from the hub (Ahead); a device behind it has the hub's mark among  *)
(* the events (Behind).                                                    *)
(***************************************************************************)
EXTENDS ReadState, TLAPS

ChannelRec == [head : Nat, mark : Nat, life : Nat \ {0}]

DeviceRec ==
  [latest : Nat, read : Nat, saved : Nat, armed : Nat,
   open : BOOLEAN, shown : Nat, snap : SUBSET Nat,
   get : {"asked", "answered", "answered early", "idle"}, got : Nat,
   online : BOOLEAN, opened : BOOLEAN, synced : BOOLEAN, raised : Nat]

PutRec ==
  [seq : Nat, answered : BOOLEAN, mark : Nat, clamped : BOOLEAN,
   raised : BOOLEAN, heard : BOOLEAN]

EventRec == [kind : {"channel-activity", "channel-read-state"}, seq : Nat]

Types ==
  /\ channel \in ChannelRec
  /\ device \in DeviceRec
  /\ puts \in SUBSET PutRec
  /\ events \in Seq(EventRec)
  /\ upsets \in Nat

IsMark(e) == e.kind = "channel-read-state"

Coming(q) == {q[i] : i \in DOMAIN q}

\* What is on the way was true of the hub: of its head or of its mark.
Bounds ==
  /\ channel.mark <= channel.head
  /\ \A e \in Coming(events) : e.seq <= channel.head /\ (IsMark(e) => e.seq <= channel.mark)
  /\ \A p \in puts : p.answered => p.mark <= channel.mark
  /\ device.get \in {"answered", "answered early"} => device.got <= channel.mark

\* The device's own marks: a push never runs ahead of the mark, the stores
\* differ only on a page that has read nothing, and a view that shows rows
\* never holds a stored mark beyond them that the page does not have.
Shape ==
  /\ device.armed <= MarkOf(device)
  /\ device.read = 0 \/ device.read = device.saved
  /\ device.shown > 0 => (device.read = device.saved \/ device.saved <= device.shown)

\* A device in step with the hub can hear it and asks for nothing.
Listening ==
  /\ device.synced => (device.online /\ device.get = "idle")
  /\ device.get = "answered" => device.online

\* In a channel that was never recreated nobody has read past the head.
FirstLife ==
  channel.life = 1 =>
    /\ MarkOf(device) <= channel.head /\ device.shown <= channel.head
    /\ \A h \in device.snap : h <= channel.head
    /\ \A p \in puts : p.seq <= channel.head /\ (p.answered => p.seq <= p.mark)

\* The mark of a device that is ahead is on its way to being settled.
Settling ==
  \/ device.armed = MarkOf(device)
  \/ \E p \in puts : p.heard /\ ~p.answered /\ p.seq >= MarkOf(device)
  \/ \E p \in puts : p.answered /\ p.mark < p.seq
  \/ \E e \in Coming(events) : IsMark(e)

Ahead ==
  (/\ device.synced \/ (device.get = "answered" /\ device.got = 0)
   /\ channel.mark > 0 /\ MarkOf(device) > channel.mark) => Settling

Behind ==
  (/\ channel.life = 1
   /\ device.synced \/ (device.get = "answered" /\ device.got < channel.mark)
   /\ MarkOf(device) < channel.mark) =>
    \E e \in Coming(events) : IsMark(e) /\ e.seq = channel.mark

\* An answer that would lower the head beneath a raised message is fenced.
Fence ==
  /\ device.raised <= device.latest /\ device.raised <= channel.head
  /\ \A p \in puts : (p.answered /\ p.mark < p.seq /\ ~p.raised) => device.raised <= p.mark

ReadInv == Types /\ Bounds /\ Shape /\ Listening /\ FirstLife /\ Ahead /\ Behind /\ Fence

-----------------------------------------------------------------------------
(* What the operators of the device do to its fields.                      *)

\* The fields that no movement of a mark touches.
Besides(dev, next) ==
  /\ next.open = dev.open /\ next.shown = dev.shown /\ next.snap = dev.snap
  /\ next.get = dev.get /\ next.got = dev.got /\ next.online = dev.online
  /\ next.opened = dev.opened /\ next.synced = dev.synced /\ next.raised = dev.raised

\* mergeReadState: the larger mark wins, and a hub that is behind is told.
LEMMA MergeFields ==
  ASSUME NEW dev \in DeviceRec, NEW hub \in Nat
  PROVE  LET next == mergeReadState(dev, hub) IN
         /\ next \in DeviceRec /\ Besides(dev, next) /\ next.latest = dev.latest
         /\ hub > MarkOf(dev) => /\ next.read = hub /\ next.saved = hub
                                 /\ next.armed = dev.armed
         /\ hub <= MarkOf(dev) => next.read = dev.read /\ next.saved = dev.saved
         /\ hub < MarkOf(dev) => next.armed = Most(dev.armed, MarkOf(dev))
         /\ hub = MarkOf(dev) => next.armed = dev.armed
<1> MarkOf(dev) \in Nat
  BY DEF MarkOf, Most, DeviceRec
<1>1. CASE hub > MarkOf(dev)
  <2>1. mergeReadState(dev, hub) = [dev EXCEPT !.read = hub, !.saved = hub]
    BY <1>1 DEF mergeReadState
  <2>2. ~(hub <= MarkOf(dev))
    BY <1>1
  <2>3. mergeReadState(dev, hub) \in DeviceRec
    BY <2>1 DEF DeviceRec
  <2>4. hub # MarkOf(dev) /\ ~(hub < MarkOf(dev))
    BY <1>1
  <2> QED
    BY <1>1, <2>1, <2>2, <2>3, <2>4 DEF DeviceRec, Besides
<1>2. CASE hub < MarkOf(dev)
  <2>1. mergeReadState(dev, hub) = [dev EXCEPT !.armed = Most(dev.armed, MarkOf(dev))]
    BY <1>2 DEF mergeReadState, scheduleReadStatePush
  <2>2. Most(dev.armed, MarkOf(dev)) \in Nat
    BY DEF Most, DeviceRec
  <2>3. hub # MarkOf(dev) /\ ~(hub > MarkOf(dev))
    BY <1>2
  <2>4. mergeReadState(dev, hub) \in DeviceRec
    BY <2>1, <2>2 DEF DeviceRec
  <2> QED
    BY <1>2, <2>1, <2>2, <2>3, <2>4 DEF DeviceRec, Besides
<1>3. CASE hub = MarkOf(dev)
  BY <1>3 DEF mergeReadState, Besides
<1> QED
  BY <1>1, <1>2, <1>3

\* clampChannelStores: nothing stays above the head the hub told.
LEMMA ClampFields ==
  ASSUME NEW dev \in DeviceRec, NEW head \in Nat, NEW stale \in BOOLEAN
  PROVE  LET next == clampChannelStores(dev, head, stale) IN
         /\ next \in DeviceRec /\ Besides(dev, next)
         /\ next.armed = IF dev.armed > head THEN 0 ELSE dev.armed
         /\ next.read = IF MarkOf(dev) > head THEN head ELSE dev.read
         /\ next.saved = IF MarkOf(dev) > head THEN head ELSE dev.saved
         /\ next.latest = IF stale THEN dev.latest ELSE Least(dev.latest, head)
<1> Least(dev.latest, head) \in Nat
  BY DEF Least, DeviceRec
<1> QED
  BY DEF clampChannelStores, DeviceRec, Besides

\* markChannelRead: a row beyond the page's mark is stored and armed.
LEMMA ReadFields ==
  ASSUME NEW dev \in DeviceRec, NEW seq \in Nat
  PROVE  LET next == markChannelRead(dev, seq) IN
         /\ next \in DeviceRec /\ Besides(dev, next) /\ next.latest = dev.latest
         /\ (seq = 0 \/ dev.read >= seq) =>
              (next.read = dev.read /\ next.saved = dev.saved /\ next.armed = dev.armed)
         /\ ~(seq = 0 \/ dev.read >= seq) =>
              (next.read = seq /\ next.saved = seq /\ next.armed = Most(dev.armed, seq))
<1>1. CASE seq = 0 \/ dev.read >= seq
  BY <1>1 DEF markChannelRead, Besides
<1>2. CASE ~(seq = 0 \/ dev.read >= seq)
  <2>1. markChannelRead(dev, seq) =
          [dev EXCEPT !.read = seq, !.saved = seq, !.armed = Most(dev.armed, seq)]
    BY <1>2 DEF markChannelRead, scheduleReadStatePush, DeviceRec
  <2>2. Most(dev.armed, seq) \in Nat
    BY DEF Most, DeviceRec
  <2> QED
    BY <1>2, <2>1, <2>2 DEF DeviceRec, Besides
<1> QED
  BY <1>1, <1>2

\* Missed: only the history changes, and an answer counts as early.
LEMMA MissedFields ==
  ASSUME NEW dev \in DeviceRec
  PROVE  LET next == Missed(dev) IN
         /\ next \in DeviceRec
         /\ ~next.synced /\ next.get # "answered"
         /\ next.get \in {"answered", "answered early"} =>
              dev.get \in {"answered", "answered early"}
         /\ next.read = dev.read /\ next.saved = dev.saved /\ next.armed = dev.armed
         /\ next.latest = dev.latest /\ next.raised = dev.raised /\ next.got = dev.got
         /\ next.shown = dev.shown /\ next.snap = dev.snap /\ next.online = dev.online
         /\ next.open = dev.open /\ next.opened = dev.opened
  BY DEF Missed, DeviceRec

-----------------------------------------------------------------------------
(* What is on the way.                                                     *)

\* What comes is an event.
LEMMA ComingIs ==
  ASSUME NEW q \in Seq(EventRec), NEW e \in Coming(q)
  PROVE  e \in EventRec /\ e.seq \in Nat /\ (~IsMark(e) => e.kind = "channel-activity")
<1>1. PICK i \in DOMAIN q : e = q[i]
  BY DEF Coming
<1>2. e \in EventRec
  BY <1>1
<1> QED
  BY <1>2 DEF EventRec, IsMark

\* An event is added at the end of the queue.
LEMMA ComingAppend ==
  ASSUME NEW q \in Seq(EventRec), NEW e \in EventRec
  PROVE  Append(q, e) \in Seq(EventRec) /\ Coming(Append(q, e)) = Coming(q) \cup {e}
<1>1. /\ Append(q, e) \in Seq(EventRec)
      /\ Len(Append(q, e)) = Len(q) + 1 /\ Append(q, e)[Len(q) + 1] = e
      /\ \A i \in 1..Len(q) : Append(q, e)[i] = q[i]
  OBVIOUS
<1>2. DOMAIN Append(q, e) = 1..(Len(q) + 1) /\ DOMAIN q = 1..Len(q) /\ Len(q) \in Nat
  BY <1>1
<1>3. \A x : x \in Coming(Append(q, e)) => x \in Coming(q) \cup {e}
  BY <1>1, <1>2 DEF Coming
<1>4. \A x : x \in Coming(q) \cup {e} => x \in Coming(Append(q, e))
  <2>1. e \in Coming(Append(q, e))
    <3>1. Len(q) + 1 \in DOMAIN Append(q, e)
      BY <1>2
    <3> QED
      BY <1>1, <3>1 DEF Coming
  <2>2. ASSUME NEW i \in DOMAIN q
        PROVE  q[i] \in Coming(Append(q, e))
    <3>1. i \in DOMAIN Append(q, e) /\ q[i] = Append(q, e)[i]
      BY <1>1, <1>2
    <3> QED
      BY <3>1 DEF Coming
  <2> QED
    BY <2>1, <2>2 DEF Coming
<1> QED
  BY <1>1, <1>3, <1>4

\* The first event is taken off the queue.
LEMMA ComingTail ==
  ASSUME NEW q \in Seq(EventRec), q # <<>>
  PROVE  /\ Head(q) \in Coming(q) /\ Tail(q) \in Seq(EventRec)
         /\ Coming(Tail(q)) \subseteq Coming(q)
         /\ Coming(q) \subseteq Coming(Tail(q)) \cup {Head(q)}
<1>1. /\ Len(q) \in Nat \ {0} /\ DOMAIN q = 1..Len(q) /\ Head(q) = q[1]
      /\ Tail(q) \in Seq(EventRec) /\ Len(Tail(q)) = Len(q) - 1
      /\ \A i \in 1..(Len(q) - 1) : Tail(q)[i] = q[i + 1]
  OBVIOUS
<1>2. DOMAIN Tail(q) = 1..(Len(q) - 1)
  BY <1>1
<1>3. Head(q) \in Coming(q)
  <2>1. 1 \in DOMAIN q
    BY <1>1
  <2> QED
    BY <1>1, <2>1 DEF Coming
<1>4. ASSUME NEW i \in DOMAIN Tail(q)
      PROVE  Tail(q)[i] \in Coming(q)
  <2>1. i + 1 \in DOMAIN q /\ Tail(q)[i] = q[i + 1]
    BY <1>1, <1>2
  <2> QED
    BY <2>1 DEF Coming
<1>5. ASSUME NEW i \in DOMAIN q
      PROVE  q[i] = Head(q) \/ q[i] \in Coming(Tail(q))
  <2>1. CASE i = 1
    BY <1>1, <2>1
  <2>2. CASE i # 1
    <3>1. i - 1 \in DOMAIN Tail(q) /\ Tail(q)[i - 1] = q[i]
      BY <1>1, <1>2, <2>2
    <3> QED
      BY <3>1 DEF Coming
  <2> QED
    BY <2>1, <2>2
<1> QED
  BY <1>1, <1>3, <1>4, <1>5 DEF Coming

\* Nothing is coming in an empty queue.
LEMMA ComingNone == <<>> \in Seq(EventRec) /\ Coming(<<>>) = {}
  BY DEF Coming

\* A broadcast reaches a device that can hear it, and no other.
LEMMA BroadcastComes ==
  ASSUME Types, NEW kind \in {"channel-activity", "channel-read-state"}, NEW seq \in Nat
  PROVE  LET e == [kind |-> kind, seq |-> seq] IN
         /\ Broadcast(kind, seq) \in Seq(EventRec)
         /\ device.online => Coming(Broadcast(kind, seq)) = Coming(events) \cup {e}
         /\ ~device.online => Coming(Broadcast(kind, seq)) = Coming(events)
<1>1. [kind |-> kind, seq |-> seq] \in EventRec
  BY DEF EventRec
<1> QED
  BY <1>1, ComingAppend DEF Broadcast, Types

\* What the store keeps of a mark that is pushed to it.
LEMMA StoredIs ==
  ASSUME Types, Bounds, NEW seq \in Nat
  PROVE  /\ Stored(seq) \in Nat /\ channel.mark <= Stored(seq) /\ Stored(seq) <= channel.head
         /\ Advances(seq) <=> Stored(seq) > channel.mark
         /\ Stored(seq) < seq => Stored(seq) = channel.head
         /\ Stored(seq) <= seq \/ Stored(seq) = channel.mark
         /\ seq <= channel.head => seq <= Stored(seq)
<1>1. channel.mark \in Nat /\ channel.head \in Nat /\ channel.mark <= channel.head
  BY DEF Types, Bounds, ChannelRec
<1>2. Least(channel.mark, channel.head) = channel.mark
  BY <1>1 DEF Least
<1>3. Stored(seq) = Most(Least(seq, channel.head), channel.mark)
  BY <1>2 DEF Stored
<1>4. Advances(seq) <=> Stored(seq) > channel.mark
  BY <1>2 DEF Advances
<1> QED
  BY <1>1, <1>3, <1>4 DEF Most, Least

\* The hub's part of a PUT: the mark goes up to what is stored, and a device
\* that can hear it is told when it did.
LEMMA PutServes ==
  ASSUME Types, Bounds, NEW seq \in Nat, PutReadState(seq)
  PROVE  /\ channel' \in ChannelRec /\ channel'.mark = Stored(seq)
         /\ channel'.head = channel.head /\ channel'.life = channel.life
         /\ events' \in Seq(EventRec) /\ Coming(events) \subseteq Coming(events')
         /\ \A e \in Coming(events') : e \in Coming(events) \/ (IsMark(e) /\ e.seq = Stored(seq))
         /\ (device.online /\ Stored(seq) > channel.mark) =>
              \E e \in Coming(events') : IsMark(e) /\ e.seq = Stored(seq)
<1> DEFINE told == [kind |-> "channel-read-state", seq |-> Stored(seq)]
<1>0. /\ Stored(seq) \in Nat /\ channel.mark <= Stored(seq)
      /\ Advances(seq) <=> Stored(seq) > channel.mark
  BY StoredIs
<1>1. IsMark(told) /\ told.seq = Stored(seq)
  BY DEF IsMark
<1>2. CASE Advances(seq)
  <2>1. /\ Broadcast("channel-read-state", Stored(seq)) \in Seq(EventRec)
        /\ device.online => Coming(Broadcast("channel-read-state", Stored(seq))) = Coming(events) \cup {told}
        /\ ~device.online => Coming(Broadcast("channel-read-state", Stored(seq))) = Coming(events)
    BY <1>0, BroadcastComes
  <2>2. channel' = [channel EXCEPT !.mark = Stored(seq)]
        /\ events' = Broadcast("channel-read-state", Stored(seq))
    BY <1>2 DEF PutReadState
  <2>3. /\ channel' \in ChannelRec /\ channel'.mark = Stored(seq)
        /\ channel'.head = channel.head /\ channel'.life = channel.life
    BY <1>0, <2>2 DEF Types, ChannelRec
  <2> HIDE DEF told
  <2> QED
    BY <1>1, <2>1, <2>2, <2>3 DEF Types
<1>3. CASE ~Advances(seq)
  <2>1. channel' = channel /\ events' = events
    BY <1>3 DEF PutReadState
  <2> QED
    BY <1>0, <1>3, <2>1 DEF Types, ChannelRec
<1> QED
  BY <1>2, <1>3

-----------------------------------------------------------------------------
(* Every step keeps the invariant. First the hub's.                        *)

\* The mark of a device is a number.
LEMMA MarkIs ==
  ASSUME NEW dev \in DeviceRec
  PROVE  /\ MarkOf(dev) \in Nat /\ dev.read <= MarkOf(dev) /\ dev.saved <= MarkOf(dev)
         /\ MarkOf(dev) = dev.read \/ MarkOf(dev) = dev.saved
<1>1. dev.read \in Nat /\ dev.saved \in Nat
  BY DEF DeviceRec
<1> QED
  BY <1>1 DEF MarkOf, Most

LEMMA InitHolds == ReadInit => ReadInv
<1> SUFFICES ASSUME ReadInit PROVE ReadInv
  OBVIOUS
<1>1. device.latest = 0 /\ device.read = 0 /\ device.saved = 0 /\ device.armed = 0
      /\ device.shown = 0 /\ device.snap = {} /\ device.get = "asked" /\ ~device.synced
      /\ device.raised = 0 /\ MarkOf(device) = 0
  BY DEF ReadInit, NewPage, MarkOf, Most
<1>2. channel.mark = 0 /\ channel.head = 0 /\ puts = {} /\ Coming(events) = {}
  BY ComingNone DEF ReadInit
<1>3. Types
  BY ComingNone DEF ReadInit, NewPage, Types, ChannelRec, DeviceRec
<1> QED
  BY <1>1, <1>2, <1>3 DEF ReadInv, Bounds, Shape, Listening, FirstLife, Ahead, Behind, Fence

LEMMA MessagePostedHolds == ReadInv /\ MessagePosted => ReadInv'
<1> SUFFICES ASSUME ReadInv, MessagePosted PROVE ReadInv'
  OBVIOUS
<1> USE DEF ReadInv
<1>1. channel.head \in Nat /\ channel.mark \in Nat /\ channel.head + 1 \in Nat
  BY DEF Types, ChannelRec
<1>2. /\ channel' \in ChannelRec /\ channel'.head = channel.head + 1
      /\ channel'.mark = channel.mark /\ channel'.life = channel.life
  BY <1>1 DEF MessagePosted, Types, ChannelRec
<1>3. device' = device /\ puts' = puts /\ upsets' = upsets
  BY DEF MessagePosted
<1>4. /\ events' \in Seq(EventRec) /\ Coming(events) \subseteq Coming(events')
      /\ \A e \in Coming(events') : e \in Coming(events) \/ (~IsMark(e) /\ e.seq = channel.head + 1)
  <2> DEFINE told == [kind |-> "channel-activity", seq |-> channel.head + 1]
  <2>1. events' = Broadcast("channel-activity", channel.head + 1)
    BY DEF MessagePosted
  <2>2. /\ events' \in Seq(EventRec)
        /\ device.online => Coming(events') = Coming(events) \cup {told}
        /\ ~device.online => Coming(events') = Coming(events)
    BY <1>1, <2>1, BroadcastComes
  <2>3. ~IsMark(told) /\ told.seq = channel.head + 1
    BY DEF IsMark
  <2> HIDE DEF told
  <2> QED
    BY <2>2, <2>3
<1>5. /\ device \in DeviceRec /\ MarkOf(device) \in Nat /\ device.shown \in Nat
      /\ device.snap \subseteq Nat /\ puts \subseteq PutRec /\ device.raised \in Nat
  BY MarkIs DEF Types, DeviceRec
<1>6. Types'
  BY <1>2, <1>3, <1>4 DEF Types
<1>7. Bounds'
  <2>1. ASSUME NEW e \in Coming(events')
        PROVE  e.seq <= channel'.head /\ (IsMark(e) => e.seq <= channel'.mark)
    <3>1. CASE e \in Coming(events)
      <4>1. e.seq <= channel.head /\ (IsMark(e) => e.seq <= channel.mark) /\ e.seq \in Nat
        BY <3>1, ComingIs DEF Bounds, Types
      <4> QED
        BY <1>1, <1>2, <4>1
    <3> QED
      BY <1>1, <1>2, <1>4, <3>1
  <2>2. channel'.mark <= channel'.head
    <3>1. channel.mark <= channel.head
      BY DEF Bounds
    <3> QED
      BY <1>1, <1>2, <3>1
  <2> QED
    BY <1>2, <1>3, <2>1, <2>2 DEF Bounds
<1>8. Shape' /\ Listening'
  BY <1>3 DEF Shape, Listening
<1>9. FirstLife'
  BY <1>1, <1>2, <1>3, <1>5 DEF FirstLife, PutRec
<1>10. Ahead' /\ Behind'
  BY <1>2, <1>3, <1>4 DEF Ahead, Behind, Settling
<1>11. Fence'
  BY <1>1, <1>2, <1>3, <1>5 DEF Fence
<1> QED
  BY <1>6, <1>7, <1>8, <1>9, <1>10, <1>11

\* What every PUT keeps, whoever sent it.
LEMMA MarkRises ==
  ASSUME ReadInv, NEW seq \in Nat, PutReadState(seq), device' = device
  PROVE  /\ channel' \in ChannelRec /\ events' \in Seq(EventRec)
         /\ channel'.mark <= channel'.head /\ channel.mark <= channel'.mark
         /\ \A e \in Coming(events') :
              e.seq <= channel'.head /\ (IsMark(e) => e.seq <= channel'.mark)
         /\ device.get \in {"answered", "answered early"} => device.got <= channel'.mark
         /\ Shape' /\ Listening' /\ Behind'
         /\ Coming(events) \subseteq Coming(events')
         /\ (device.online /\ channel'.mark > channel.mark) => \E e \in Coming(events') : IsMark(e)
<1> USE DEF ReadInv
<1>1. /\ channel' \in ChannelRec /\ channel'.mark = Stored(seq)
      /\ channel'.head = channel.head /\ channel'.life = channel.life
      /\ events' \in Seq(EventRec) /\ Coming(events) \subseteq Coming(events')
      /\ \A e \in Coming(events') : e \in Coming(events) \/ (IsMark(e) /\ e.seq = Stored(seq))
      /\ (device.online /\ Stored(seq) > channel.mark) =>
           \E e \in Coming(events') : IsMark(e) /\ e.seq = Stored(seq)
  BY PutServes
<1>2. Stored(seq) \in Nat /\ channel.mark <= Stored(seq) /\ Stored(seq) <= channel.head
  BY StoredIs
<1>0. channel'.mark = Stored(seq)
  BY <1>1
<1>3. channel.mark \in Nat /\ channel.head \in Nat
  BY DEF Types, ChannelRec
<1>4. ASSUME NEW e \in Coming(events')
      PROVE  e.seq <= channel'.head /\ (IsMark(e) => e.seq <= channel'.mark)
  <2>1. CASE e \in Coming(events)
    <3>1. e.seq <= channel.head /\ (IsMark(e) => e.seq <= channel.mark) /\ e.seq \in Nat
      BY <2>1, ComingIs DEF Bounds, Types
    <3> QED
      BY <1>1, <1>2, <1>3, <3>1
  <2>2. CASE IsMark(e) /\ e.seq = Stored(seq)
    BY <1>1, <1>2, <2>2
  <2> QED
    BY <1>1, <2>1, <2>2
<1>5. ASSUME device.get \in {"answered", "answered early"}
      PROVE  device.got <= channel'.mark
  <2>1. device.got \in Nat
    BY DEF Types, DeviceRec
  <2>2. device.got <= channel.mark
    BY <1>5 DEF Bounds
  <2> QED
    BY <1>0, <1>2, <1>3, <2>1, <2>2
<1>6. Shape' /\ Listening'
  BY DEF Shape, Listening
<1>7. Behind'
  <2> SUFFICES ASSUME channel.life = 1, MarkOf(device) < Stored(seq),
                      device.synced \/ (device.get = "answered" /\ device.got < Stored(seq))
               PROVE  \E e \in Coming(events') : IsMark(e) /\ e.seq = Stored(seq)
    BY <1>1 DEF Behind
  <2>1. device.online
    BY DEF Listening
  <2>2. CASE Stored(seq) > channel.mark
    BY <1>1, <2>1, <2>2
  <2>3. CASE Stored(seq) = channel.mark
    BY <1>1, <2>3 DEF Behind
  <2> QED
    BY <1>2, <1>3, <2>2, <2>3
<1>8. channel'.mark <= channel'.head /\ channel.mark <= channel'.mark
  BY <1>1, <1>2
<1>9. (device.online /\ channel'.mark > channel.mark) => \E e \in Coming(events') : IsMark(e)
  BY <1>1
<1> QED
  BY <1>1, <1>4, <1>5, <1>6, <1>7, <1>8, <1>9

LEMMA OthersPutHolds ==
  ASSUME ReadInv, NEW seq \in 1..MaxHead, OthersPut(seq)
  PROVE  ReadInv'
<1> USE DEF ReadInv
<1>1. seq \in Nat /\ PutReadState(seq) /\ device' = device /\ puts' = puts /\ upsets' = upsets
  BY ReadConstants DEF OthersPut
<1>2. /\ channel' \in ChannelRec /\ events' \in Seq(EventRec)
      /\ channel'.mark <= channel'.head /\ channel.mark <= channel'.mark
      /\ \A e \in Coming(events') :
           e.seq <= channel'.head /\ (IsMark(e) => e.seq <= channel'.mark)
      /\ device.get \in {"answered", "answered early"} => device.got <= channel'.mark
      /\ Shape' /\ Listening' /\ Behind'
      /\ Coming(events) \subseteq Coming(events')
      /\ (device.online /\ channel'.mark > channel.mark) => \E e \in Coming(events') : IsMark(e)
  BY <1>1, MarkRises
<1>up. channel.mark <= channel'.mark
  BY <1>2
<1>3. channel'.head = channel.head /\ channel'.life = channel.life
  BY <1>1, PutServes
<1>4. channel.mark \in Nat /\ channel'.mark \in Nat /\ device \in DeviceRec
      /\ MarkOf(device) \in Nat
  BY <1>2, MarkIs DEF Types, ChannelRec
<1>5. Types'
  BY <1>1, <1>2 DEF Types
<1>6. Bounds'
  <2>1. ASSUME NEW p \in puts, p.answered
        PROVE  p.mark <= channel'.mark
    <3>1. p.mark <= channel.mark /\ p.mark \in Nat
      BY <2>1 DEF Bounds, Types, PutRec
    <3> QED
      BY <1>4, <1>up, <3>1
  <2> QED
    BY <1>1, <1>2, <2>1 DEF Bounds
<1>7. FirstLife' /\ Fence'
  BY <1>1, <1>3 DEF FirstLife, Fence
<1>8. Ahead'
  <2> SUFFICES ASSUME device.synced \/ (device.get = "answered" /\ device.got = 0),
                      channel'.mark > 0, MarkOf(device) > channel'.mark
               PROVE  Settling'
    BY <1>1 DEF Ahead
  <2>1. CASE channel.mark = 0
    <3>1. device.online
      BY DEF Listening
    <3> QED
      BY <1>2, <2>1, <3>1 DEF Settling
  <2>2. CASE channel.mark > 0
    <3>1. MarkOf(device) > channel.mark
      BY <1>4, <1>up
    <3>2. Settling
      BY <2>2, <3>1 DEF Ahead
    <3> QED
      BY <1>1, <1>2, <3>2 DEF Settling
  <2> QED
    BY <1>4, <2>1, <2>2
<1> QED
  BY <1>2, <1>5, <1>6, <1>7, <1>8

LEMMA PutServedHolds ==
  ASSUME ReadInv, NEW p \in puts, PutServed(p)
  PROVE  ReadInv'
<1> USE DEF ReadInv
<1> DEFINE told == [p EXCEPT !.answered = TRUE, !.mark = Stored(p.seq)]
<1>0. p \in PutRec /\ p.seq \in Nat /\ p.heard \in BOOLEAN /\ p.raised \in BOOLEAN
  BY DEF Types, PutRec
<1>1. /\ ~p.answered /\ PutReadState(p.seq) /\ device' = device /\ upsets' = upsets
      /\ puts' = (puts \ {p}) \cup (IF p.heard THEN {told} ELSE {})
  BY DEF PutServed
<1>2. /\ channel' \in ChannelRec /\ events' \in Seq(EventRec)
      /\ channel'.mark <= channel'.head /\ channel.mark <= channel'.mark
      /\ \A e \in Coming(events') :
           e.seq <= channel'.head /\ (IsMark(e) => e.seq <= channel'.mark)
      /\ device.get \in {"answered", "answered early"} => device.got <= channel'.mark
      /\ Shape' /\ Listening' /\ Behind'
      /\ Coming(events) \subseteq Coming(events')
      /\ (device.online /\ channel'.mark > channel.mark) => \E e \in Coming(events') : IsMark(e)
  BY <1>0, <1>1, MarkRises
<1>up. channel.mark <= channel'.mark
  BY <1>2
<1>3. channel'.head = channel.head /\ channel'.life = channel.life /\ channel'.mark = Stored(p.seq)
  BY <1>0, <1>1, PutServes
<1>4. channel.mark \in Nat /\ channel'.mark \in Nat /\ device \in DeviceRec
      /\ MarkOf(device) \in Nat /\ channel.head \in Nat /\ device.raised \in Nat
  BY <1>2, MarkIs DEF Types, ChannelRec, DeviceRec
<1>5. /\ Stored(p.seq) \in Nat /\ channel.mark <= Stored(p.seq) /\ Stored(p.seq) <= channel.head
      /\ Stored(p.seq) < p.seq => Stored(p.seq) = channel.head
      /\ p.seq <= channel.head => p.seq <= Stored(p.seq)
  BY <1>0, StoredIs
<1>6. /\ told \in PutRec /\ told.answered /\ told.mark = Stored(p.seq) /\ told.seq = p.seq
      /\ told.raised = p.raised
  BY <1>0, <1>5 DEF PutRec
<1>7. ASSUME NEW q \in puts'
      PROVE  q \in puts \/ q = told
  BY <1>1, <1>7
<1> HIDE DEF told
<1>8. Types'
  BY <1>1, <1>2, <1>6, <1>7 DEF Types
<1>9. Bounds'
  <2>1. ASSUME NEW q \in puts', q.answered
        PROVE  q.mark <= channel'.mark
    <3>1. CASE q \in puts
      <4>1. q.mark <= channel.mark /\ q.mark \in Nat
        BY <2>1, <3>1 DEF Bounds, Types, PutRec
      <4> QED
        BY <1>4, <1>up, <4>1
    <3>2. CASE q = told
      BY <1>3, <1>4, <1>6, <3>2
    <3> QED
      BY <1>7, <3>1, <3>2
  <2> QED
    BY <1>1, <1>2, <2>1 DEF Bounds
<1>10. FirstLife'
  <2> SUFFICES ASSUME channel.life = 1 PROVE FirstLife'
    BY <1>3 DEF FirstLife
  <2>1. ASSUME NEW q \in puts'
        PROVE  q.seq <= channel.head /\ (q.answered => q.seq <= q.mark)
    <3>1. CASE q \in puts
      BY <3>1 DEF FirstLife
    <3>2. CASE q = told
      <4>1. p.seq <= channel.head
        BY DEF FirstLife
      <4> QED
        BY <1>5, <1>6, <3>2, <4>1
    <3> QED
      BY <1>7, <3>1, <3>2
  <2>2. MarkOf(device) <= channel.head /\ device.shown <= channel.head
        /\ \A h \in device.snap : h <= channel.head
    BY DEF FirstLife
  <2> QED
    BY <1>1, <1>3, <2>1, <2>2 DEF FirstLife
<1>11. Fence'
  <2>1. ASSUME NEW q \in puts', q.answered, q.mark < q.seq, ~q.raised
        PROVE  device.raised <= q.mark
    <3>1. CASE q \in puts
      BY <2>1, <3>1 DEF Fence
    <3>2. CASE q = told
      <4>1. q.mark = channel.head
        BY <1>5, <1>6, <2>1, <3>2
      <4> QED
        BY <4>1 DEF Fence
    <3> QED
      BY <1>7, <3>1, <3>2
  <2>2. device.raised <= device.latest /\ device.raised <= channel.head
    BY DEF Fence
  <2> QED
    BY <1>1, <1>3, <2>1, <2>2 DEF Fence
<1>12. Ahead'
  <2> SUFFICES ASSUME device.synced \/ (device.get = "answered" /\ device.got = 0),
                      channel'.mark > 0, MarkOf(device) > channel'.mark
               PROVE  Settling'
    BY <1>1 DEF Ahead
  <2>1. CASE channel.mark = 0
    <3>1. device.online
      BY DEF Listening
    <3> QED
      BY <1>2, <2>1, <3>1 DEF Settling
  <2>2. CASE channel.mark > 0
    <3>1. MarkOf(device) > channel.mark
      BY <1>4, <1>up
    <3>2. Settling
      BY <2>2, <3>1 DEF Ahead
    <3>3. CASE p.heard /\ p.seq >= MarkOf(device)
      <4>1. told \in puts'
        BY <1>1, <3>3
      <4>2. told.mark < told.seq
        BY <1>0, <1>3, <1>4, <1>6, <3>3
      <4> QED
        BY <1>6, <4>1, <4>2 DEF Settling
    <3>4. ASSUME NEW q \in puts, q # p
          PROVE  q \in puts'
      BY <1>1, <3>4
    <3>5. CASE ~(p.heard /\ p.seq >= MarkOf(device))
      BY <1>1, <1>2, <3>2, <3>4, <3>5 DEF Settling
    <3> QED
      BY <3>3, <3>5
  <2> QED
    BY <1>4, <2>1, <2>2
<1> QED
  BY <1>2, <1>8, <1>9, <1>10, <1>11, <1>12

-----------------------------------------------------------------------------
(* Steps of the device that move no mark.                                  *)

\* The rest of the device changes: what it shows stays behind the hub and
\* what it waits for is still on the way.
LEMMA MarksStand ==
  ASSUME ReadInv, UNCHANGED <<channel, puts, events, upsets>>, device' \in DeviceRec,
         device'.read = device.read, device'.saved = device.saved,
         device'.armed = device.armed, device'.latest = device.latest,
         device'.raised = device.raised,
         device'.shown > 0 => (device.read = device.saved \/ device.saved <= device'.shown),
         channel.life = 1 =>
           (device'.shown <= channel.head /\ \A h \in device'.snap : h <= channel.head),
         Listening',
         device'.get \in {"answered", "answered early"} => device'.got <= channel.mark,
         (device'.synced \/ (device'.get = "answered" /\ device'.got = 0)) =>
           \/ device.synced \/ (device.get = "answered" /\ device.got = 0)
           \/ ~(channel.mark > 0),
         (device'.synced \/ (device'.get = "answered" /\ device'.got < channel.mark)) =>
           \/ device.synced \/ (device.get = "answered" /\ device.got < channel.mark)
           \/ ~(MarkOf(device) < channel.mark)
  PROVE  ReadInv'
<1> USE DEF ReadInv
<1>1. channel' = channel /\ puts' = puts /\ events' = events /\ upsets' = upsets
  OBVIOUS
<1>2. MarkOf(device') = MarkOf(device)
  BY DEF MarkOf
<1>3. Types'
  BY <1>1 DEF Types
<1>4. Bounds'
  BY <1>1 DEF Bounds
<1>5. Shape'
  BY <1>2 DEF Shape
<1>6. FirstLife'
  BY <1>1, <1>2 DEF FirstLife
<1>7. Settling => Settling'
  BY <1>1, <1>2 DEF Settling
<1>8. Ahead'
  <2> SUFFICES ASSUME device'.synced \/ (device'.get = "answered" /\ device'.got = 0),
                      channel.mark > 0, MarkOf(device) > channel.mark
               PROVE  Settling'
    BY <1>1, <1>2 DEF Ahead
  <2> QED
    BY <1>7 DEF Ahead
<1>9. Behind'
  BY <1>1, <1>2 DEF Behind
<1>10. Fence'
  BY <1>1 DEF Fence
<1> QED
  BY <1>3, <1>4, <1>5, <1>6, <1>8, <1>9, <1>10

LEMMA GetReadStateHolds == ReadInv /\ GetReadState => ReadInv'
<1> SUFFICES ASSUME ReadInv, GetReadState PROVE ReadInv'
  OBVIOUS
<1>1. channel.mark \in Nat /\ channel.head \in Nat /\ channel.mark <= channel.head
  BY DEF ReadInv, Types, Bounds, ChannelRec
<1>2. Least(channel.mark, channel.head) = channel.mark
  BY <1>1 DEF Least
<1>3. device \in DeviceRec /\ device.get = "asked"
  BY DEF ReadInv, Types, GetReadState
<1>4. device' = [device EXCEPT
        !.get = IF device.online THEN "answered" ELSE "answered early", !.got = channel.mark]
  BY <1>2 DEF GetReadState
<1>5. /\ device' \in DeviceRec /\ device'.got = channel.mark
      /\ device'.get = IF device.online THEN "answered" ELSE "answered early"
      /\ device'.read = device.read /\ device'.saved = device.saved
      /\ device'.armed = device.armed /\ device'.latest = device.latest
      /\ device'.raised = device.raised /\ device'.shown = device.shown
      /\ device'.snap = device.snap /\ device'.synced = device.synced
      /\ device'.online = device.online
  BY <1>1, <1>3, <1>4 DEF DeviceRec
<1>6. ~device.synced
  BY <1>3 DEF ReadInv, Listening
<1>7. Listening'
  BY <1>5, <1>6 DEF Listening
<1>8. UNCHANGED <<channel, puts, events, upsets>>
  BY DEF GetReadState
<1>9. device'.shown > 0 => (device.read = device.saved \/ device.saved <= device'.shown)
  BY <1>5 DEF ReadInv, Shape
<1>10. channel.life = 1 =>
         (device'.shown <= channel.head /\ \A h \in device'.snap : h <= channel.head)
  BY <1>5 DEF ReadInv, FirstLife
<1>11. device'.got <= channel.mark /\ ~(device'.got < channel.mark) /\ ~device'.synced
  <2>1. device'.got = channel.mark /\ channel.mark \in Nat
    BY <1>1, <1>5
  <2>2. ~device'.synced
    BY <1>5, <1>6
  <2> QED
    BY <2>1, <2>2
<1>12. (device'.synced \/ (device'.get = "answered" /\ device'.got = 0)) =>
         \/ device.synced \/ (device.get = "answered" /\ device.got = 0)
         \/ ~(channel.mark > 0)
  BY <1>1, <1>5, <1>11
<1>13. (device'.synced \/ (device'.get = "answered" /\ device'.got < channel.mark)) =>
         (device.synced \/ (device.get = "answered" /\ device.got < channel.mark))
  BY <1>11
<1> QED
  BY <1>5, <1>7, <1>8, <1>9, <1>10, <1>11, <1>12, <1>13, MarksStand

LEMMA EventsOpenHolds == ReadInv /\ EventsOpen => ReadInv'
<1> SUFFICES ASSUME ReadInv, EventsOpen PROVE ReadInv'
  OBVIOUS
<1>1. device \in DeviceRec /\ ~device.online
  BY DEF ReadInv, Types, EventsOpen
<1>2. ~device.synced /\ device.get # "answered"
  BY <1>1 DEF ReadInv, Listening
<1>3. /\ device' \in DeviceRec /\ device'.got = device.got /\ device'.online
      /\ device'.get \in {"asked", device.get}
      /\ device'.read = device.read /\ device'.saved = device.saved
      /\ device'.armed = device.armed /\ device'.latest = device.latest
      /\ device'.raised = device.raised /\ device'.shown = device.shown
      /\ device'.snap = device.snap /\ device'.synced = device.synced
  BY <1>1 DEF EventsOpen, DeviceRec
<1>4. Listening'
  BY <1>2, <1>3 DEF Listening
<1>5. UNCHANGED <<channel, puts, events, upsets>>
  BY DEF EventsOpen
<1>6. device'.shown > 0 => (device.read = device.saved \/ device.saved <= device'.shown)
  BY <1>3 DEF ReadInv, Shape
<1>7. channel.life = 1 =>
        (device'.shown <= channel.head /\ \A h \in device'.snap : h <= channel.head)
  BY <1>3 DEF ReadInv, FirstLife
<1>8. ~device'.synced /\ device'.get # "answered"
  BY <1>2, <1>3
<1>9. device'.get \in {"answered", "answered early"} => device'.got <= channel.mark
  BY <1>3 DEF ReadInv, Bounds
<1> QED
  BY <1>3, <1>4, <1>5, <1>6, <1>7, <1>8, <1>9, MarksStand

\* Steps of the view alone.
LEMMA ViewMoves ==
  ASSUME ReadInv, UNCHANGED <<channel, puts, events, upsets>>,
         NEW open \in BOOLEAN, NEW shown \in Nat, NEW snap \in SUBSET Nat,
         device' = [device EXCEPT !.open = open, !.shown = shown, !.snap = snap],
         shown > 0 => (device.read = device.saved \/ device.saved <= shown),
         channel.life = 1 => (shown <= channel.head /\ \A h \in snap : h <= channel.head)
  PROVE  ReadInv'
<1>1. device \in DeviceRec
  BY DEF ReadInv, Types
<1>2. /\ device' \in DeviceRec /\ device'.got = device.got /\ device'.online = device.online
      /\ device'.get = device.get
      /\ device'.read = device.read /\ device'.saved = device.saved
      /\ device'.armed = device.armed /\ device'.latest = device.latest
      /\ device'.raised = device.raised /\ device'.shown = shown
      /\ device'.snap = snap /\ device'.synced = device.synced
  BY <1>1 DEF DeviceRec
<1>3. Listening'
  BY <1>2 DEF ReadInv, Listening
<1>4. device'.get \in {"answered", "answered early"} => device'.got <= channel.mark
  BY <1>2 DEF ReadInv, Bounds
<1> QED
  BY <1>2, <1>3, <1>4, MarksStand

LEMMA ViewHolds ==
  ASSUME ReadInv, OpenChannel \/ FullSnapshot \/ RowArrives
  PROVE  ReadInv'
<1>1. /\ device \in DeviceRec /\ channel.head \in Nat /\ device.shown \in Nat
      /\ device.saved \in Nat /\ device.open \in BOOLEAN /\ device.snap \in SUBSET Nat
  BY DEF ReadInv, Types, ChannelRec, DeviceRec
<1>2. UNCHANGED <<channel, puts, events, upsets>>
  BY DEF OpenChannel, FullSnapshot, RowArrives
<1>3. device.shown > 0 => (device.read = device.saved \/ device.saved <= device.shown)
  BY DEF ReadInv, Shape
<1>4. channel.life = 1 =>
        (device.shown <= channel.head /\ \A h \in device.snap : h <= channel.head)
  BY DEF ReadInv, FirstLife
<1>5. CASE OpenChannel
  <2>1. PICK open \in BOOLEAN : open = TRUE
    OBVIOUS
  <2>2. device' = [device EXCEPT !.open = open, !.shown = device.shown, !.snap = device.snap]
    BY <1>1, <1>5, <2>1 DEF OpenChannel, DeviceRec
  <2> QED
    BY <1>1, <1>2, <1>3, <1>4, <2>2, ViewMoves
<1>6. CASE FullSnapshot
  <2>1. PICK snap \in SUBSET Nat : snap = {channel.head}
    BY <1>1
  <2>2. device' = [device EXCEPT !.open = device.open, !.shown = device.shown, !.snap = snap]
    BY <1>1, <1>6, <2>1 DEF FullSnapshot, DeviceRec
  <2>3. \A h \in snap : h <= channel.head
    BY <1>1, <2>1
  <2> QED
    BY <1>1, <1>2, <1>3, <1>4, <2>2, <2>3, ViewMoves
<1>7. CASE RowArrives
  <2>1. device' = [device EXCEPT !.open = device.open, !.shown = channel.head, !.snap = device.snap]
    BY <1>1, <1>7 DEF RowArrives, DeviceRec
  <2>2. device.shown > 0 /\ device.shown < channel.head
    BY <1>7 DEF RowArrives
  <2>3. device.read = device.saved \/ device.saved <= channel.head
    BY <1>1, <1>3, <2>2
  <2>4. channel.head <= channel.head
    BY <1>1
  <2> QED
    BY <1>1, <1>2, <1>4, <2>1, <2>3, <2>4, ViewMoves
<1> QED
  BY <1>5, <1>6, <1>7

-----------------------------------------------------------------------------
(* Losses: afterwards the device is not in step with the hub, and will ask. *)

LEMMA OutOfStep ==
  ASSUME ~device'.synced, device'.get # "answered"
  PROVE  Ahead' /\ Behind' /\ Listening'
  BY DEF Ahead, Behind, Listening

LEMMA RestartHolds ==
  ASSUME ReadInv, NEW swept \in BOOLEAN, RestartSweeps(swept)
  PROVE  ReadInv'
<1> USE DEF ReadInv
<1>1. device \in DeviceRec /\ channel \in ChannelRec /\ device.raised \in Nat /\ device.latest \in Nat
  BY DEF Types, DeviceRec
<1>2. puts' = {} /\ events' = <<>> /\ Coming(events') = {} /\ events' \in Seq(EventRec)
  BY ComingNone DEF RestartSweeps
<1>3. /\ device' \in DeviceRec /\ ~device'.synced /\ device'.get \in {"idle", "asked"}
      /\ device'.read = device.read /\ device'.saved = device.saved
      /\ device'.armed = device.armed /\ device'.latest = device.latest
      /\ device'.raised = (IF swept THEN 0 ELSE device.raised)
      /\ device'.shown = device.shown /\ device'.snap = {}
  BY <1>1 DEF RestartSweeps, DeviceRec
<1>4. MarkOf(device') = MarkOf(device)
  BY <1>3 DEF MarkOf
<1>5. /\ channel' \in ChannelRec
      /\ swept => (channel'.head = 0 /\ channel'.mark = 0 /\ channel'.life # 1)
      /\ ~swept => channel' = channel
  BY <1>1 DEF RestartSweeps, ChannelRec
<1>6. upsets' \in Nat
  BY DEF RestartSweeps, Upset, Types
<1>7. Types'
  BY <1>2, <1>3, <1>5, <1>6 DEF Types
<1>8. Bounds'
  <2>1. channel'.mark <= channel'.head
    <3>1. CASE swept
      BY <1>5, <3>1
    <3>2. CASE ~swept
      BY <1>5, <3>2 DEF Bounds
    <3> QED
      BY <3>1, <3>2
  <2> QED
    BY <1>2, <1>3, <2>1 DEF Bounds
<1>9. Shape'
  BY <1>3, <1>4 DEF Shape
<1>10. FirstLife'
  <2> SUFFICES ASSUME ~swept PROVE FirstLife'
    BY <1>5 DEF FirstLife
  <2> QED
    BY <1>2, <1>3, <1>4, <1>5 DEF FirstLife
<1>11. Fence'
  <2>1. CASE swept
    BY <1>1, <1>2, <1>3, <1>5, <2>1 DEF Fence
  <2>2. CASE ~swept
    BY <1>2, <1>3, <1>5, <2>2 DEF Fence
  <2> QED
    BY <2>1, <2>2
<1>12. Ahead' /\ Behind' /\ Listening'
  BY <1>3, OutOfStep
<1> QED
  BY <1>7, <1>8, <1>9, <1>10, <1>11, <1>12

LEMMA EventsDropHolds == ReadInv /\ EventsDrop => ReadInv'
<1> SUFFICES ASSUME ReadInv, EventsDrop PROVE ReadInv'
  OBVIOUS
<1> USE DEF ReadInv
<1>1. device \in DeviceRec
  BY DEF Types
<1>2. channel' = channel /\ puts' = puts
  BY DEF EventsDrop
<1>3. events' = <<>> /\ Coming(events') = {} /\ events' \in Seq(EventRec)
  BY ComingNone DEF EventsDrop
<1>4. PICK dev \in DeviceRec : dev = Missed(device)
  BY <1>1, MissedFields
<1>5. /\ ~dev.synced /\ dev.get # "answered"
      /\ dev.get \in {"answered", "answered early"} =>
           device.get \in {"answered", "answered early"}
      /\ dev.read = device.read /\ dev.saved = device.saved /\ dev.armed = device.armed
      /\ dev.latest = device.latest /\ dev.raised = device.raised /\ dev.got = device.got
      /\ dev.shown = device.shown /\ dev.snap = device.snap
  BY <1>1, <1>4, MissedFields
<1>6. device' = [dev EXCEPT !.online = FALSE]
  BY <1>4 DEF EventsDrop
<1>7. /\ device' \in DeviceRec /\ device'.synced = dev.synced /\ device'.get = dev.get
      /\ device'.read = dev.read /\ device'.saved = dev.saved /\ device'.armed = dev.armed
      /\ device'.latest = dev.latest /\ device'.raised = dev.raised /\ device'.got = dev.got
      /\ device'.shown = dev.shown /\ device'.snap = dev.snap
  BY <1>6 DEF DeviceRec
<1>8. MarkOf(device') = MarkOf(device)
  BY <1>5, <1>7 DEF MarkOf
<1>9. upsets' \in Nat
  BY DEF EventsDrop, Upset, Types
<1>10. Types'
  BY <1>2, <1>3, <1>7, <1>9 DEF Types
<1>11. Bounds'
  BY <1>2, <1>3, <1>5, <1>7 DEF Bounds
<1>12. Shape' /\ FirstLife' /\ Fence'
  BY <1>2, <1>5, <1>7, <1>8 DEF Shape, FirstLife, Fence
<1>13. Ahead' /\ Behind' /\ Listening'
  BY <1>5, <1>7, OutOfStep
<1> QED
  BY <1>10, <1>11, <1>12, <1>13

LEMMA PutLostHolds ==
  ASSUME ReadInv, NEW p \in puts, PutLost(p)
  PROVE  ReadInv'
<1> USE DEF ReadInv
<1>1. device \in DeviceRec
  BY DEF Types
<1>2. channel' = channel /\ events' = events /\ puts' \subseteq puts
  BY DEF PutLost
<1>3. device' = Missed(device)
  BY DEF PutLost
<1>4. /\ device' \in DeviceRec /\ ~device'.synced /\ device'.get # "answered"
      /\ device'.get \in {"answered", "answered early"} =>
           device.get \in {"answered", "answered early"}
      /\ device'.read = device.read /\ device'.saved = device.saved
      /\ device'.armed = device.armed /\ device'.latest = device.latest
      /\ device'.raised = device.raised /\ device'.got = device.got
      /\ device'.shown = device.shown /\ device'.snap = device.snap
  BY <1>1, <1>3, MissedFields
<1>5. MarkOf(device') = MarkOf(device)
  BY <1>4 DEF MarkOf
<1>6. upsets' \in Nat
  BY DEF PutLost, Upset, Types
<1>7. Types'
  BY <1>2, <1>4, <1>6 DEF Types
<1>8. Bounds'
  BY <1>2, <1>4 DEF Bounds
<1>9. Shape' /\ FirstLife' /\ Fence'
  BY <1>2, <1>4, <1>5 DEF Shape, FirstLife, Fence
<1>10. Ahead' /\ Behind' /\ Listening'
  BY <1>4, OutOfStep
<1> QED
  BY <1>7, <1>8, <1>9, <1>10

LEMMA ReloadHolds == ReadInv /\ Reload => ReadInv'
<1> SUFFICES ASSUME ReadInv, Reload PROVE ReadInv'
  OBVIOUS
<1> USE DEF ReadInv
<1>1. /\ device \in DeviceRec /\ device.saved \in Nat /\ device.armed \in Nat
      /\ MarkOf(device) \in Nat /\ device.saved <= MarkOf(device)
      /\ channel.head \in Nat
  BY MarkIs DEF Types, DeviceRec, ChannelRec
<1>2. channel' = channel
  BY DEF Reload
<1>3. events' = <<>> /\ Coming(events') = {} /\ events' \in Seq(EventRec)
  BY ComingNone DEF Reload
<1>4. device' = NewPage(device.saved)
  BY DEF Reload
<1>5. /\ device' \in DeviceRec /\ ~device'.synced /\ device'.get = "asked"
      /\ device'.read = 0 /\ device'.saved = device.saved /\ device'.armed = 0
      /\ device'.latest = 0 /\ device'.raised = 0 /\ device'.shown = 0 /\ device'.snap = {}
  BY <1>1, <1>4 DEF NewPage, DeviceRec
<1>6. MarkOf(device') = device.saved
  BY <1>1, <1>5 DEF MarkOf, Most
<1>7. ASSUME NEW q \in puts'
      PROVE  /\ q \in PutRec /\ ~q.answered
             /\ (\E p \in puts : q.seq = p.seq) \/ q.seq = device.armed
  <2>1. CASE \E p \in puts : ~p.answered /\ q = [p EXCEPT !.heard = FALSE]
    <3>1. PICK p \in puts : ~p.answered /\ q = [p EXCEPT !.heard = FALSE]
      BY <2>1
    <3>2. p \in PutRec
      BY DEF Types
    <3>3. q \in PutRec /\ q.seq = p.seq /\ q.answered = p.answered
      BY <3>1, <3>2 DEF PutRec
    <3> QED
      BY <3>1, <3>3
  <2>2. CASE q = Put(device.armed, FALSE)
    BY <1>1, <2>2 DEF Put, PutRec
  <2>3. \/ \E p \in puts : ~p.answered /\ q = [p EXCEPT !.heard = FALSE]
        \/ q = Put(device.armed, FALSE)
    BY <1>7 DEF Reload
  <2> QED
    BY <2>1, <2>2, <2>3
<1>8. upsets' \in Nat
  BY DEF Reload, Upset, Types
<1>9. Types'
  BY <1>2, <1>3, <1>5, <1>7, <1>8 DEF Types
<1>10. Bounds'
  BY <1>2, <1>3, <1>5, <1>7 DEF Bounds
<1>11. Shape'
  BY <1>1, <1>5, <1>6 DEF Shape
<1>12. FirstLife'
  <2> SUFFICES ASSUME channel.life = 1 PROVE FirstLife'
    BY <1>2 DEF FirstLife
  <2>1. MarkOf(device) <= channel.head /\ \A p \in puts : p.seq <= channel.head
    BY DEF FirstLife
  <2>2. device.armed <= MarkOf(device)
    BY DEF Shape
  <2>3. device.saved <= channel.head /\ device.armed <= channel.head
    BY <1>1, <2>1, <2>2
  <2>4. \A q \in puts' : q.seq <= channel.head /\ ~q.answered
    BY <1>7, <2>1, <2>3
  <2> QED
    BY <1>1, <1>2, <1>5, <1>6, <2>3, <2>4 DEF FirstLife
<1>13. Fence'
  <2>1. 0 <= channel.head
    BY <1>1
  <2> QED
    BY <1>2, <1>5, <1>7, <2>1 DEF Fence
<1>14. Ahead' /\ Behind' /\ Listening'
  BY <1>5, OutOfStep
<1> QED
  BY <1>9, <1>10, <1>11, <1>12, <1>13, <1>14

-----------------------------------------------------------------------------
(* Steps of the device that move marks or stamp its PUTs.                  *)

\* q is p but for the stamps it got.
Alike(p, q) ==
  q.seq = p.seq /\ q.answered = p.answered /\ q.mark = p.mark /\ q.heard = p.heard

\* Stamped touches the stamps of every PUT and nothing else.
LEMMA StampedPuts ==
  ASSUME Types, NEW clamped \in BOOLEAN, NEW raised \in BOOLEAN
  PROVE  /\ Stamped(clamped, raised) \in SUBSET PutRec
         /\ \A q \in Stamped(clamped, raised) :
              \E p \in puts : Alike(p, q) /\ ((p.raised \/ raised) => q.raised)
         /\ \A p \in puts : \E q \in Stamped(clamped, raised) : Alike(p, q)
<1> DEFINE S(p) == [p EXCEPT !.clamped = @ \/ clamped, !.raised = @ \/ raised]
<1>1. ASSUME NEW p \in puts
      PROVE  S(p) \in PutRec /\ Alike(p, S(p)) /\ ((p.raised \/ raised) => S(p).raised)
  <2>1. p \in PutRec
    BY DEF Types
  <2> QED
    BY <2>1 DEF PutRec, Alike
<1>2. Stamped(clamped, raised) = {S(p) : p \in puts}
  BY DEF Stamped
<1> HIDE DEF S
<1> QED
  BY <1>1, <1>2

\* What is on the way stays true of the hub while the hub stands still.
LEMMA HubStands ==
  ASSUME ReadInv, channel' = channel, Coming(events') \subseteq Coming(events),
         \A q \in puts' : \E p \in puts : Alike(p, q),
         device'.get \in {"answered", "answered early"} =>
           (device.get \in {"answered", "answered early"} /\ device'.got = device.got),
         channel.life = 1 =>
           /\ MarkOf(device') <= channel.head /\ device'.shown <= channel.head
           /\ \A h \in device'.snap : h <= channel.head
  PROVE  Bounds' /\ FirstLife'
<1> USE DEF ReadInv
<1>1. Bounds'
  <2>1. \A q \in puts' : q.answered => q.mark <= channel.mark
    BY DEF Alike, Bounds
  <2> QED
    BY <2>1 DEF Bounds
<1>2. FirstLife'
  <2> SUFFICES ASSUME channel.life = 1 PROVE FirstLife'
    BY DEF FirstLife
  <2>1. \A q \in puts' : q.seq <= channel.head /\ (q.answered => q.seq <= q.mark)
    BY DEF Alike, FirstLife
  <2> QED
    BY <2>1 DEF FirstLife
<1> QED
  BY <1>1, <1>2

\* A PUT that would settle the device's mark still does.
LEMMA SettlingStays ==
  ASSUME Settling, MarkOf(device') = MarkOf(device), device'.armed = device.armed,
         \A p \in puts : \E q \in puts' : Alike(p, q),
         \A e \in Coming(events) : IsMark(e) => e \in Coming(events')
  PROVE  Settling'
<1>1. CASE device.armed = MarkOf(device)
  BY <1>1 DEF Settling
<1>2. CASE \E p \in puts : p.heard /\ ~p.answered /\ p.seq >= MarkOf(device)
  BY <1>2 DEF Settling, Alike
<1>3. CASE \E p \in puts : p.answered /\ p.mark < p.seq
  BY <1>3 DEF Settling, Alike
<1>4. CASE \E e \in Coming(events) : IsMark(e)
  BY <1>4 DEF Settling
<1> QED
  BY <1>1, <1>2, <1>3, <1>4 DEF Settling

\* A head is raised: by a broadcast (then it is remembered) or by the list.
LEMMA HeadRises ==
  ASSUME ReadInv, channel' = channel, upsets' = upsets, NEW rises \in BOOLEAN,
         puts' = Stamped(FALSE, rises), events' \in Seq(EventRec),
         Coming(events') \subseteq Coming(events),
         \A e \in Coming(events) : IsMark(e) => e \in Coming(events'),
         NEW latest \in Nat, NEW raised \in Nat,
         device' = [device EXCEPT !.latest = latest, !.raised = raised],
         raised <= latest, raised <= channel.head, raised = device.raised \/ rises
  PROVE  ReadInv'
<1> USE DEF ReadInv
<1>1. /\ puts' \in SUBSET PutRec
      /\ \A q \in puts' : \E p \in puts : Alike(p, q) /\ ((p.raised \/ rises) => q.raised)
      /\ \A p \in puts : \E q \in puts' : Alike(p, q)
  <2>1. PICK clamped \in BOOLEAN : clamped = FALSE
    OBVIOUS
  <2>2. puts' = Stamped(clamped, rises)
    BY <2>1
  <2> QED
    BY <2>2, StampedPuts
<1>2. device \in DeviceRec
  BY DEF Types
<1>3. /\ device' \in DeviceRec /\ device'.got = device.got /\ device'.online = device.online
      /\ device'.get = device.get /\ device'.read = device.read
      /\ device'.saved = device.saved /\ device'.armed = device.armed
      /\ device'.latest = latest /\ device'.raised = raised
      /\ device'.shown = device.shown /\ device'.snap = device.snap
      /\ device'.synced = device.synced
  BY <1>2 DEF DeviceRec
<1>4. MarkOf(device') = MarkOf(device)
  BY <1>3 DEF MarkOf
<1>5. Types'
  BY <1>1, <1>3 DEF Types
<1>6. Bounds' /\ FirstLife'
  <2>1. channel.life = 1 =>
          /\ MarkOf(device') <= channel.head /\ device'.shown <= channel.head
          /\ \A h \in device'.snap : h <= channel.head
    BY <1>3, <1>4 DEF FirstLife
  <2>2. \A q \in puts' : \E p \in puts : Alike(p, q)
    BY <1>1
  <2>3. device'.get \in {"answered", "answered early"} =>
          (device.get \in {"answered", "answered early"} /\ device'.got = device.got)
    BY <1>3
  <2> QED
    BY <2>1, <2>2, <2>3, HubStands
<1>7. Shape' /\ Listening'
  BY <1>3, <1>4 DEF Shape, Listening
<1>8. Settling => Settling'
  BY <1>1, <1>3, <1>4, SettlingStays
<1>9. Ahead'
  BY <1>3, <1>4, <1>8 DEF Ahead
<1>10. Behind'
  BY <1>3, <1>4 DEF Behind
<1>11. Fence'
  <2>1. ASSUME NEW q \in puts', q.answered, q.mark < q.seq, ~q.raised
        PROVE  raised <= q.mark
    <3>1. PICK p \in puts : Alike(p, q) /\ ((p.raised \/ rises) => q.raised)
      BY <1>1
    <3>2. p.answered /\ p.mark < p.seq /\ ~p.raised /\ ~rises
      BY <2>1, <3>1 DEF Alike
    <3>3. device.raised <= p.mark
      BY <3>2 DEF Fence
    <3> QED
      BY <3>1, <3>2, <3>3 DEF Alike
  <2> QED
    BY <1>3, <2>1 DEF Fence
<1> QED
  BY <1>5, <1>6, <1>7, <1>9, <1>10, <1>11

LEMMA ActivityArrivesHolds == ReadInv /\ ActivityArrives => ReadInv'
<1> SUFFICES ASSUME ReadInv, ActivityArrives PROVE ReadInv'
  OBVIOUS
<1> DEFINE seq == Head(events).seq
<1>1. /\ events \in Seq(EventRec) /\ events # <<>> /\ events' = Tail(events)
      /\ ~IsMark(Head(events))
  BY DEF ActivityArrives, ReadInv, Types, IsMark
<1>2. /\ Head(events) \in Coming(events) /\ events' \in Seq(EventRec)
      /\ Coming(events') \subseteq Coming(events)
      /\ Coming(events) \subseteq Coming(events') \cup {Head(events)}
  BY <1>1, ComingTail
<1>3. \A e \in Coming(events) : IsMark(e) => e \in Coming(events')
  BY <1>1, <1>2
<1>4. seq \in Nat /\ seq <= channel.head
  <2>1. seq \in Nat
    BY <1>1, <1>2, ComingIs
  <2>2. seq <= channel.head
    BY <1>2 DEF ReadInv, Bounds
  <2> QED
    BY <2>1, <2>2
<1>5. /\ device \in DeviceRec /\ device.latest \in Nat /\ device.raised \in Nat
      /\ device.raised <= device.latest /\ device.raised <= channel.head
  BY DEF ReadInv, Types, DeviceRec, Fence
<1>6. channel' = channel /\ upsets' = upsets
  BY DEF ActivityArrives
<1>7. CASE seq > device.latest
  <2>1. PICK rises \in BOOLEAN : rises = TRUE
    OBVIOUS
  <2>2. /\ device' = [device EXCEPT !.latest = seq, !.raised = seq]
        /\ puts' = Stamped(FALSE, rises)
    BY <1>7, <2>1 DEF ActivityArrives
  <2>3. seq <= seq
    BY <1>4
  <2> HIDE DEF seq
  <2> QED
    BY <1>2, <1>3, <1>4, <1>6, <2>1, <2>2, <2>3, HeadRises
<1>8. CASE ~(seq > device.latest)
  <2>1. PICK rises \in BOOLEAN : rises = FALSE
    OBVIOUS
  <2>2. /\ device' = [device EXCEPT !.latest = device.latest, !.raised = device.raised]
        /\ puts' = Stamped(FALSE, rises)
    <3>1. device' = device /\ puts' = Stamped(FALSE, rises)
      <4>1. device' = device
        BY <1>8 DEF ActivityArrives
      <4>2. puts' = Stamped(FALSE, seq > device.latest)
        BY DEF ActivityArrives
      <4>3. (seq > device.latest) = rises
        BY <1>8, <2>1
      <4> QED
        BY <4>1, <4>2, <4>3
    <3>2. device = [device EXCEPT !.latest = device.latest, !.raised = device.raised]
      BY <1>5 DEF DeviceRec
    <3> QED
      BY <3>1, <3>2
  <2> QED
    BY <1>2, <1>3, <1>5, <1>6, <2>2, HeadRises
<1> QED
  BY <1>7, <1>8

LEMMA SeedHolds == ReadInv /\ seedChannelActivity => ReadInv'
<1> SUFFICES ASSUME ReadInv, seedChannelActivity PROVE ReadInv'
  OBVIOUS
<1>1. /\ device \in DeviceRec /\ device.raised \in Nat /\ channel.head \in Nat
      /\ device.raised <= channel.head /\ events \in Seq(EventRec)
  BY DEF ReadInv, Types, ChannelRec, DeviceRec, Fence
<1>2. channel' = channel /\ upsets' = upsets /\ events' = events
  BY DEF seedChannelActivity
<1>3. PICK rises \in BOOLEAN : rises = TRUE
  OBVIOUS
<1>4. /\ device' = [device EXCEPT !.latest = channel.head, !.raised = device.raised]
      /\ puts' = Stamped(FALSE, rises)
  BY <1>1, <1>3 DEF seedChannelActivity, DeviceRec
<1>5. /\ events' \in Seq(EventRec) /\ Coming(events') \subseteq Coming(events)
      /\ \A e \in Coming(events) : IsMark(e) => e \in Coming(events')
  BY <1>1, <1>2
<1> QED
  BY <1>1, <1>2, <1>4, <1>5, HeadRises

\* A merge leaves the device at the larger mark and, if the hub's was the
\* smaller one, armed.
LEMMA MergeSettles ==
  ASSUME NEW dev \in DeviceRec, NEW hub \in Nat, dev.armed <= MarkOf(dev)
  PROVE  LET next == mergeReadState(dev, hub) IN
         /\ next \in DeviceRec /\ Besides(dev, next) /\ next.latest = dev.latest
         /\ MarkOf(next) = Most(hub, MarkOf(dev))
         /\ next.armed <= MarkOf(next)
         /\ hub < MarkOf(dev) => next.armed = MarkOf(next)
         /\ \/ next.read = next.saved
            \/ next.read = dev.read /\ next.saved = dev.saved
<1> DEFINE next == mergeReadState(dev, hub)
<1>1. /\ next \in DeviceRec /\ Besides(dev, next) /\ next.latest = dev.latest
      /\ hub > MarkOf(dev) => /\ next.read = hub /\ next.saved = hub
                              /\ next.armed = dev.armed
      /\ hub <= MarkOf(dev) => next.read = dev.read /\ next.saved = dev.saved
      /\ hub < MarkOf(dev) => next.armed = Most(dev.armed, MarkOf(dev))
      /\ hub = MarkOf(dev) => next.armed = dev.armed
  BY MergeFields
<1>2. MarkOf(dev) \in Nat /\ dev.armed \in Nat
  BY MarkIs DEF DeviceRec
<1> HIDE DEF next
<1>3. CASE hub > MarkOf(dev)
  <2>1. next.read = hub /\ next.saved = hub /\ next.armed = dev.armed
    BY <1>1, <1>3
  <2>2. MarkOf(next) = hub
    BY <2>1 DEF MarkOf, Most
  <2>3. Most(hub, MarkOf(dev)) = hub
    BY <1>3 DEF Most
  <2>4. dev.armed <= hub /\ ~(hub < MarkOf(dev))
    BY <1>2, <1>3
  <2> QED
    BY <1>1, <2>1, <2>2, <2>3, <2>4 DEF next
<1>4. CASE hub < MarkOf(dev)
  <2>1. hub <= MarkOf(dev)
    BY <1>2, <1>4
  <2>2. next.read = dev.read /\ next.saved = dev.saved /\ next.armed = Most(dev.armed, MarkOf(dev))
    BY <1>1, <1>4, <2>1
  <2>3. MarkOf(next) = MarkOf(dev)
    BY <2>2 DEF MarkOf
  <2>4. Most(hub, MarkOf(dev)) = MarkOf(dev) /\ Most(dev.armed, MarkOf(dev)) = MarkOf(dev)
    BY <1>2, <1>4 DEF Most
  <2>5. next.armed <= MarkOf(next)
    BY <1>2, <2>2, <2>3, <2>4
  <2> QED
    BY <1>1, <2>2, <2>3, <2>4, <2>5 DEF next
<1>5. CASE hub = MarkOf(dev)
  <2>1. hub <= MarkOf(dev) /\ ~(hub < MarkOf(dev)) /\ Most(hub, MarkOf(dev)) = MarkOf(dev)
    BY <1>2, <1>5 DEF Most
  <2>2. next.read = dev.read /\ next.saved = dev.saved /\ next.armed = dev.armed
    BY <1>1, <1>5, <2>1
  <2>3. MarkOf(next) = MarkOf(dev)
    BY <2>2 DEF MarkOf
  <2> QED
    BY <1>1, <2>1, <2>2, <2>3 DEF next
<1> QED
  BY <1>2, <1>3, <1>4, <1>5

\* What a mark is after a merge, and what that says of the two before it.
LEMMA MergedMark ==
  ASSUME NEW hub \in Nat, NEW own \in Nat, NEW mark \in Nat, NEW head \in Nat,
         hub <= mark, mark <= head
  PROVE  /\ hub <= head
         /\ Most(hub, own) > mark => hub < own
         /\ Most(hub, own) < mark => (~(hub >= mark) /\ own < mark)
         /\ own <= head => Most(hub, own) <= head
  BY DEF Most

\* The device merges a mark the hub had, while nothing else that settles it
\* goes away but what told that mark.
LEMMA MergeHolds ==
  ASSUME ReadInv, channel' = channel, upsets' = upsets,
         puts' \in SUBSET PutRec, events' \in Seq(EventRec),
         \A q \in puts' : \E p \in puts : Alike(p, q) /\ (p.raised => q.raised),
         Coming(events') \subseteq Coming(events),
         NEW dev \in DeviceRec, NEW hub \in Nat, hub <= channel.mark,
         device' = mergeReadState(dev, hub),
         dev.latest = device.latest, dev.raised = device.raised, dev.read = device.read,
         dev.saved = device.saved, dev.armed = device.armed, dev.shown = device.shown,
         dev.snap = device.snap, dev.synced => (dev.online /\ dev.get = "idle"),
         dev.get = "answered" => dev.online,
         dev.get \in {"answered", "answered early"} =>
           (device.get \in {"answered", "answered early"} /\ dev.got = device.got),
         (dev.synced \/ (dev.get = "answered" /\ dev.got < channel.mark)) =>
           \/ device.synced \/ (device.get = "answered" /\ device.got < channel.mark)
           \/ hub >= channel.mark,
         \A e \in Coming(events) :
           (IsMark(e) /\ e.seq = channel.mark) => (e \in Coming(events') \/ hub >= channel.mark)
  PROVE  ReadInv'
<1> USE DEF ReadInv
<1>1. /\ MarkOf(dev) = MarkOf(device) /\ MarkOf(device) \in Nat /\ channel.mark \in Nat
      /\ channel.head \in Nat /\ channel.mark <= channel.head
      /\ dev.armed <= MarkOf(dev)
  <2>1. device \in DeviceRec /\ channel \in ChannelRec
    BY DEF Types
  <2>2. MarkOf(dev) = MarkOf(device)
    BY DEF MarkOf
  <2>3. channel.mark \in Nat /\ channel.head \in Nat
    BY <2>1 DEF ChannelRec
  <2> QED
    BY <2>1, <2>2, <2>3, MarkIs DEF Bounds, Shape
<1>2. /\ device' \in DeviceRec /\ Besides(dev, device') /\ device'.latest = dev.latest
      /\ MarkOf(device') = Most(hub, MarkOf(dev))
      /\ device'.armed <= MarkOf(device')
      /\ hub < MarkOf(dev) => device'.armed = MarkOf(device')
      /\ \/ device'.read = device'.saved
         \/ device'.read = dev.read /\ device'.saved = dev.saved
  BY <1>1, MergeSettles
<1>3. /\ device'.shown = device.shown /\ device'.snap = device.snap
      /\ device'.synced = dev.synced /\ device'.get = dev.get /\ device'.got = dev.got
      /\ device'.online = dev.online /\ device'.raised = device.raised
      /\ device'.latest = device.latest
  BY <1>2 DEF Besides
<1>4. /\ MarkOf(device') > channel.mark => hub < MarkOf(dev)
      /\ MarkOf(device') < channel.mark =>
           (~(hub >= channel.mark) /\ MarkOf(device) < channel.mark)
      /\ MarkOf(device) <= channel.head => MarkOf(device') <= channel.head
  <2>1. PICK own \in Nat : own = MarkOf(device)
    BY <1>1
  <2>2. PICK mark \in Nat : mark = channel.mark
    BY <1>1
  <2>3. PICK head \in Nat : head = channel.head
    BY <1>1
  <2>4. hub <= mark /\ mark <= head
    BY <1>1, <2>2, <2>3
  <2>5. /\ Most(hub, own) > mark => hub < own
        /\ Most(hub, own) < mark => (~(hub >= mark) /\ own < mark)
        /\ own <= head => Most(hub, own) <= head
    BY <2>4, MergedMark
  <2>6. MarkOf(dev) = own /\ MarkOf(device') = Most(hub, own)
    BY <1>1, <1>2, <2>1
  <2> QED
    BY <2>1, <2>2, <2>3, <2>5, <2>6
<1>5. Types'
  BY <1>2 DEF Types
<1>6. Bounds' /\ FirstLife'
  <2>1. channel.life = 1 =>
          /\ MarkOf(device') <= channel.head /\ device'.shown <= channel.head
          /\ \A h \in device'.snap : h <= channel.head
    <3> SUFFICES ASSUME channel.life = 1
                 PROVE  /\ MarkOf(device') <= channel.head /\ device'.shown <= channel.head
                        /\ \A h \in device'.snap : h <= channel.head
      OBVIOUS
    <3>1. MarkOf(device) <= channel.head
      BY DEF FirstLife
    <3>2. MarkOf(device') <= channel.head
      BY <1>4, <3>1
    <3> QED
      BY <1>3, <3>2 DEF FirstLife
  <2>2. \A q \in puts' : \E p \in puts : Alike(p, q)
    OBVIOUS
  <2>3. device'.get \in {"answered", "answered early"} =>
          (device.get \in {"answered", "answered early"} /\ device'.got = device.got)
    BY <1>3
  <2> QED
    BY <2>1, <2>2, <2>3, HubStands
<1>7. Shape'
  <2>1. device'.read = 0 \/ device'.read = device'.saved
    BY <1>2 DEF Shape
  <2>2. device'.shown > 0 =>
          (device'.read = device'.saved \/ device'.saved <= device'.shown)
    BY <1>2, <1>3 DEF Shape
  <2> QED
    BY <1>2, <2>1, <2>2 DEF Shape
<1>8. Listening'
  BY <1>3 DEF Listening
<1>9. Ahead'
  <2> SUFFICES ASSUME MarkOf(device') > channel.mark PROVE Settling'
    BY DEF Ahead
  <2>1. hub < MarkOf(dev)
    BY <1>4
  <2> QED
    BY <1>2, <2>1 DEF Settling
<1>10. Behind'
  <2> SUFFICES ASSUME channel.life = 1, MarkOf(device') < channel.mark,
                      dev.synced \/ (dev.get = "answered" /\ dev.got < channel.mark)
               PROVE  \E e \in Coming(events') : IsMark(e) /\ e.seq = channel.mark
    BY <1>3 DEF Behind
  <2>1. ~(hub >= channel.mark) /\ MarkOf(device) < channel.mark
    BY <1>4
  <2>2. device.synced \/ (device.get = "answered" /\ device.got < channel.mark)
    BY <2>1
  <2>3. PICK e \in Coming(events) : IsMark(e) /\ e.seq = channel.mark
    BY <2>1, <2>2 DEF Behind
  <2> QED
    BY <2>1, <2>3
<1>11. Fence'
  <2>1. ASSUME NEW q \in puts', q.answered, q.mark < q.seq, ~q.raised
        PROVE  device.raised <= q.mark
    <3>1. PICK p \in puts : Alike(p, q) /\ (p.raised => q.raised)
      OBVIOUS
    <3> QED
      BY <2>1, <3>1 DEF Alike, Fence
  <2> QED
    BY <1>3, <2>1 DEF Fence
<1> QED
  BY <1>5, <1>6, <1>7, <1>8, <1>9, <1>10, <1>11

LEMMA MarkArrivesHolds == ReadInv /\ MarkArrives => ReadInv'
<1> SUFFICES ASSUME ReadInv, MarkArrives PROVE ReadInv'
  OBVIOUS
<1>1. /\ events \in Seq(EventRec) /\ events # <<>> /\ events' = Tail(events)
      /\ IsMark(Head(events)) /\ device' = mergeReadState(device, Head(events).seq)
      /\ channel' = channel /\ puts' = puts /\ upsets' = upsets
  BY DEF MarkArrives, ReadInv, Types, IsMark
<1>2. /\ Head(events) \in Coming(events) /\ events' \in Seq(EventRec)
      /\ Coming(events') \subseteq Coming(events)
      /\ Coming(events) \subseteq Coming(events') \cup {Head(events)}
  BY <1>1, ComingTail
<1>3. PICK hub \in Nat : hub = Head(events).seq
  BY <1>1, <1>2, ComingIs
<1>4. hub <= channel.mark
  BY <1>1, <1>2, <1>3 DEF ReadInv, Bounds
<1>5. device \in DeviceRec /\ puts \in SUBSET PutRec
  BY DEF ReadInv, Types
<1>6. device' = mergeReadState(device, hub)
  BY <1>1, <1>3
<1>7. \A q \in puts' : \E p \in puts : Alike(p, q) /\ (p.raised => q.raised)
  BY <1>1 DEF Alike
<1>8. /\ device.synced => (device.online /\ device.get = "idle")
      /\ device.get = "answered" => device.online
  BY DEF ReadInv, Listening
<1>9. \A e \in Coming(events) :
        (IsMark(e) /\ e.seq = channel.mark) => (e \in Coming(events') \/ hub >= channel.mark)
  <2> SUFFICES ASSUME NEW e \in Coming(events), e.seq = channel.mark, e \notin Coming(events')
               PROVE  hub >= channel.mark
    OBVIOUS
  <2>1. hub = channel.mark
    BY <1>2, <1>3
  <2> QED
    BY <2>1
<1> QED
  BY <1>1, <1>2, <1>4, <1>5, <1>6, <1>7, <1>8, <1>9, MergeHolds

LEMMA GetArrivesHolds == ReadInv /\ GetArrives => ReadInv'
<1> SUFFICES ASSUME ReadInv, GetArrives PROVE ReadInv'
  OBVIOUS
<1> DEFINE d == [device EXCEPT !.get = "idle", !.got = 0,
                               !.synced = @ \/ device.get = "answered"]
<1>1. /\ device \in DeviceRec /\ device.got \in Nat /\ channel.mark \in Nat
      /\ MarkOf(device) \in Nat /\ puts \in SUBSET PutRec /\ events \in Seq(EventRec)
  BY MarkIs DEF ReadInv, Types, DeviceRec, ChannelRec
<1>2. /\ device.get \in {"answered", "answered early"}
      /\ device' = IF device.got = 0 THEN d ELSE mergeReadState(d, device.got)
      /\ channel' = channel /\ puts' = puts /\ events' = events /\ upsets' = upsets
  BY DEF GetArrives
<1>3. PICK dev \in DeviceRec : dev = d
  BY <1>1 DEF DeviceRec
<1>4. /\ dev.latest = device.latest /\ dev.raised = device.raised /\ dev.read = device.read
      /\ dev.saved = device.saved /\ dev.armed = device.armed /\ dev.shown = device.shown
      /\ dev.snap = device.snap /\ dev.online = device.online /\ dev.get = "idle"
      /\ dev.synced = (device.synced \/ device.get = "answered")
  BY <1>1, <1>3 DEF DeviceRec
<1> HIDE DEF d
<1>5. dev.synced => (dev.online /\ dev.get = "idle")
  BY <1>4 DEF ReadInv, Listening
<1>6. device.got <= channel.mark
  BY <1>2 DEF ReadInv, Bounds
<1>7. CASE device.got = 0
  <2>1. device' = dev
    BY <1>2, <1>3, <1>7
  <2>2. Listening'
    BY <1>4, <1>5, <2>1 DEF Listening
  <2>3. device'.shown > 0 => (device.read = device.saved \/ device.saved <= device'.shown)
    BY <1>4, <2>1 DEF ReadInv, Shape
  <2>4. channel.life = 1 =>
          (device'.shown <= channel.head /\ \A h \in device'.snap : h <= channel.head)
    BY <1>4, <2>1 DEF ReadInv, FirstLife
  <2>5. device'.get \notin {"answered", "answered early"}
    BY <1>4, <2>1
  <2>6. device'.synced => (device.synced \/ (device.get = "answered" /\ device.got = 0))
    BY <1>4, <1>7, <2>1
  <2>7. 0 < channel.mark \/ ~(MarkOf(device) < channel.mark)
    BY <1>1
  <2>8. device'.synced =>
          \/ device.synced \/ (device.get = "answered" /\ device.got < channel.mark)
          \/ ~(MarkOf(device) < channel.mark)
    BY <1>7, <2>6, <2>7
  <2> QED
    BY <1>2, <1>4, <2>1, <2>2, <2>3, <2>4, <2>5, <2>6, <2>8, MarksStand
<1>8. CASE device.got # 0
  <2>1. PICK hub \in Nat : hub = device.got
    BY <1>1
  <2>2. device' = mergeReadState(dev, hub) /\ hub <= channel.mark
    BY <1>2, <1>3, <1>6, <1>8, <2>1
  <2>3. \A q \in puts' : \E p \in puts : Alike(p, q) /\ (p.raised => q.raised)
    BY <1>2 DEF Alike
  <2>4. hub < channel.mark \/ hub >= channel.mark
    BY <1>1, <2>1
  <2>5. (dev.synced \/ (dev.get = "answered" /\ dev.got < channel.mark)) =>
          \/ device.synced \/ (device.get = "answered" /\ device.got < channel.mark)
          \/ hub >= channel.mark
    BY <1>4, <2>1, <2>4
  <2>6. dev.get \notin {"answered", "answered early"}
    BY <1>4
  <2> QED
    BY <1>1, <1>2, <1>4, <1>5, <2>2, <2>3, <2>5, <2>6, MergeHolds
<1> QED
  BY <1>7, <1>8

LEMMA FlushHolds == ReadInv /\ flushChannelReadState => ReadInv'
<1> SUFFICES ASSUME ReadInv, flushChannelReadState PROVE ReadInv'
  OBVIOUS
<1> USE DEF ReadInv
<1>1. /\ device \in DeviceRec /\ device.armed \in Nat /\ MarkOf(device) \in Nat
      /\ device.armed <= MarkOf(device) /\ puts \in SUBSET PutRec /\ channel.head \in Nat
  BY MarkIs DEF Types, DeviceRec, ChannelRec, Shape
<1>2. PICK p \in PutRec : p = Put(device.armed, TRUE)
  BY <1>1 DEF Put, PutRec
<1>3. p.seq = device.armed /\ ~p.answered /\ p.heard
  BY <1>2 DEF Put
<1>4. /\ puts' = puts \cup {p} /\ device' = [device EXCEPT !.armed = 0]
      /\ channel' = channel /\ events' = events /\ upsets' = upsets
  BY <1>2 DEF flushChannelReadState
<1>5. /\ device' \in DeviceRec /\ device'.got = device.got /\ device'.online = device.online
      /\ device'.get = device.get /\ device'.read = device.read
      /\ device'.saved = device.saved /\ device'.armed = 0
      /\ device'.latest = device.latest /\ device'.raised = device.raised
      /\ device'.shown = device.shown /\ device'.snap = device.snap
      /\ device'.synced = device.synced
  BY <1>1, <1>4 DEF DeviceRec
<1>6. MarkOf(device') = MarkOf(device)
  BY <1>5 DEF MarkOf
<1>7. Types'
  BY <1>1, <1>4, <1>5 DEF Types
<1>8. Bounds'
  BY <1>3, <1>4, <1>5 DEF Bounds
<1>9. Shape'
  <2>1. 0 <= MarkOf(device)
    BY <1>1
  <2> QED
    BY <1>5, <1>6, <2>1 DEF Shape
<1>10. Listening'
  BY <1>5 DEF Listening
<1>11. FirstLife'
  <2> SUFFICES ASSUME channel.life = 1 PROVE FirstLife'
    BY <1>4 DEF FirstLife
  <2>1. MarkOf(device) <= channel.head
    BY DEF FirstLife
  <2>2. p.seq <= channel.head
    BY <1>1, <1>3, <2>1
  <2> QED
    BY <1>3, <1>4, <1>5, <1>6, <2>2 DEF FirstLife
<1>12. Settling => Settling'
  <2>1. CASE device.armed = MarkOf(device)
    <3>1. p.seq >= MarkOf(device)
      BY <1>1, <1>3, <2>1
    <3> QED
      BY <1>3, <1>4, <1>6, <3>1 DEF Settling
  <2>2. CASE device.armed # MarkOf(device)
    BY <1>4, <1>6, <2>2 DEF Settling
  <2> QED
    BY <2>1, <2>2
<1>13. Ahead'
  BY <1>4, <1>5, <1>6, <1>12 DEF Ahead
<1>14. Behind'
  BY <1>4, <1>5, <1>6 DEF Behind
<1>15. Fence'
  BY <1>3, <1>4, <1>5 DEF Fence
<1> QED
  BY <1>7, <1>8, <1>9, <1>10, <1>11, <1>13, <1>14, <1>15

LEMMA LeaveChannelHolds == ReadInv /\ LeaveChannel => ReadInv'
<1> SUFFICES ASSUME ReadInv, LeaveChannel PROVE ReadInv'
  OBVIOUS
<1> USE DEF ReadInv
<1>1. /\ device \in DeviceRec /\ device.armed \in Nat /\ MarkOf(device) \in Nat
      /\ device.armed <= MarkOf(device) /\ device.shown \in Nat /\ device.read \in Nat
      /\ device.saved \in Nat /\ channel.head \in Nat /\ channel.mark \in Nat
  BY MarkIs DEF Types, DeviceRec, ChannelRec, Shape
<1>2. channel' = channel /\ events' = events /\ puts' = puts /\ upsets' = upsets
  BY DEF LeaveChannel
<1>3. PICK dev \in DeviceRec : dev = markChannelRead(device, device.shown)
  BY <1>1, ReadFields
<1>4. /\ Besides(device, dev) /\ dev.latest = device.latest
      /\ (device.shown = 0 \/ device.read >= device.shown) =>
           (dev.read = device.read /\ dev.saved = device.saved /\ dev.armed = device.armed)
      /\ ~(device.shown = 0 \/ device.read >= device.shown) =>
           (dev.read = device.shown /\ dev.saved = device.shown
            /\ dev.armed = Most(device.armed, device.shown))
  BY <1>1, <1>3, ReadFields
<1>5. device' = [dev EXCEPT !.open = FALSE, !.shown = 0, !.snap = {}]
  BY <1>3 DEF LeaveChannel
<1>6. /\ device' \in DeviceRec /\ device'.got = device.got /\ device'.online = device.online
      /\ device'.get = device.get /\ device'.synced = device.synced
      /\ device'.latest = device.latest /\ device'.raised = device.raised
      /\ device'.shown = 0 /\ device'.snap = {}
      /\ device'.read = dev.read /\ device'.saved = dev.saved /\ device'.armed = dev.armed
  BY <1>4, <1>5 DEF DeviceRec, Besides
<1>7. MarkOf(device') = MarkOf(dev)
  BY <1>6 DEF MarkOf
<1>8. \/ /\ dev.read = device.read /\ dev.saved = device.saved /\ dev.armed = device.armed
         /\ MarkOf(dev) = MarkOf(device)
      \/ /\ dev.read = dev.saved /\ dev.armed = MarkOf(dev)
         /\ MarkOf(dev) = device.shown /\ MarkOf(device) <= MarkOf(dev)
  <2>1. CASE device.shown = 0 \/ device.read >= device.shown
    BY <1>4, <2>1 DEF MarkOf
  <2>2. CASE ~(device.shown = 0 \/ device.read >= device.shown)
    <3>1. dev.read = device.shown /\ dev.saved = device.shown
      BY <1>4, <2>2
    <3>2. dev.armed = Most(device.armed, device.shown)
      BY <1>4, <2>2
    <3>3. device.shown > 0 /\ device.read < device.shown
      BY <1>1, <2>2
    <3>4. device.read = device.saved \/ device.saved <= device.shown
      BY <3>3 DEF Shape
    <3>5. MarkOf(device) <= device.shown
      BY <1>1, <3>3, <3>4 DEF MarkOf, Most
    <3>6. MarkOf(dev) = device.shown
      BY <3>1 DEF MarkOf, Most
    <3>7. Most(device.armed, device.shown) = device.shown
      BY <1>1, <3>5 DEF Most
    <3> QED
      BY <3>1, <3>2, <3>5, <3>6, <3>7
  <2> QED
    BY <2>1, <2>2
<1>9. Types'
  BY <1>2, <1>6 DEF Types
<1>10. MarkOf(dev) \in Nat /\ MarkOf(device) <= MarkOf(dev) /\ dev.armed <= MarkOf(dev)
  <2>1. MarkOf(dev) \in Nat
    BY MarkIs
  <2> QED
    BY <1>1, <1>8, <2>1
<1>11. Bounds' /\ FirstLife'
  <2>1. channel.life = 1 =>
          /\ MarkOf(device') <= channel.head /\ device'.shown <= channel.head
          /\ \A h \in device'.snap : h <= channel.head
    <3> SUFFICES ASSUME channel.life = 1
                 PROVE  MarkOf(dev) <= channel.head /\ 0 <= channel.head
      BY <1>6, <1>7
    <3>1. MarkOf(device) <= channel.head /\ device.shown <= channel.head
      BY DEF FirstLife
    <3> QED
      BY <1>1, <1>8, <3>1
  <2>2. \A q \in puts' : \E p \in puts : Alike(p, q)
    BY <1>2 DEF Alike
  <2>3. device'.get \in {"answered", "answered early"} =>
          (device.get \in {"answered", "answered early"} /\ device'.got = device.got)
    BY <1>6
  <2>4. channel' = channel /\ Coming(events') \subseteq Coming(events)
    BY <1>2
  <2> QED
    BY <2>1, <2>2, <2>3, <2>4, HubStands
<1>12. Shape'
  <2>1. dev.read = 0 \/ dev.read = dev.saved
    BY <1>8 DEF Shape
  <2> QED
    BY <1>6, <1>7, <1>10, <2>1 DEF Shape
<1>13. Listening'
  BY <1>6 DEF Listening
<1>14. Ahead'
  <2> SUFFICES ASSUME device.synced \/ (device.get = "answered" /\ device.got = 0),
                      channel.mark > 0, MarkOf(dev) > channel.mark
               PROVE  Settling'
    BY <1>2, <1>6, <1>7 DEF Ahead
  <2>1. CASE dev.armed = MarkOf(dev)
    BY <1>6, <1>7, <2>1 DEF Settling
  <2>2. CASE dev.armed = device.armed /\ MarkOf(dev) = MarkOf(device)
    <3>1. Settling
      BY <2>2 DEF Ahead
    <3> QED
      BY <1>2, <1>6, <1>7, <2>2, <3>1 DEF Settling
  <2> QED
    BY <1>8, <2>1, <2>2
<1>15. Behind'
  <2> SUFFICES ASSUME channel.life = 1, MarkOf(dev) < channel.mark,
                      device.synced \/ (device.get = "answered" /\ device.got < channel.mark)
               PROVE  \E e \in Coming(events) : IsMark(e) /\ e.seq = channel.mark
    BY <1>2, <1>6, <1>7 DEF Behind
  <2>1. MarkOf(device) < channel.mark
    BY <1>1, <1>10
  <2> QED
    BY <2>1 DEF Behind
<1>16. Fence'
  BY <1>2, <1>6 DEF Fence
<1> QED
  BY <1>9, <1>11, <1>12, <1>13, <1>14, <1>15, <1>16

\* A clamp takes the mark down to the head at most, and the push with it.
LEMMA ClampSettles ==
  ASSUME NEW dev \in DeviceRec, NEW head \in Nat, NEW stale \in BOOLEAN,
         dev.armed <= MarkOf(dev)
  PROVE  LET next == clampChannelStores(dev, head, stale) IN
         /\ next \in DeviceRec /\ Besides(dev, next)
         /\ next.latest = IF stale THEN dev.latest ELSE Least(dev.latest, head)
         /\ MarkOf(next) = Least(MarkOf(dev), head)
         /\ next.armed <= MarkOf(next)
         /\ \/ next.read = next.saved
            \/ next.read = dev.read /\ next.saved = dev.saved
         /\ MarkOf(dev) <= head =>
              (next.read = dev.read /\ next.saved = dev.saved /\ next.armed = dev.armed)
         /\ next.saved <= head
<1> DEFINE next == clampChannelStores(dev, head, stale)
<1>1. /\ next \in DeviceRec /\ Besides(dev, next)
      /\ next.armed = IF dev.armed > head THEN 0 ELSE dev.armed
      /\ next.read = IF MarkOf(dev) > head THEN head ELSE dev.read
      /\ next.saved = IF MarkOf(dev) > head THEN head ELSE dev.saved
      /\ next.latest = IF stale THEN dev.latest ELSE Least(dev.latest, head)
  BY ClampFields
<1>2. /\ MarkOf(dev) \in Nat /\ dev.armed \in Nat /\ dev.saved \in Nat
      /\ dev.saved <= MarkOf(dev)
  BY MarkIs DEF DeviceRec
<1> HIDE DEF next
<1>3. CASE MarkOf(dev) > head
  <2>1. next.read = head /\ next.saved = head
    BY <1>1, <1>3
  <2>2. MarkOf(next) = head
    BY <2>1 DEF MarkOf, Most
  <2>3. next.armed <= head
    BY <1>1, <1>2
  <2>4. Least(MarkOf(dev), head) = head /\ ~(MarkOf(dev) <= head) /\ head <= head
    BY <1>2, <1>3 DEF Least
  <2> QED
    BY <1>1, <2>1, <2>2, <2>3, <2>4 DEF next
<1>4. CASE ~(MarkOf(dev) > head)
  <2>1. next.read = dev.read /\ next.saved = dev.saved
    BY <1>1, <1>4
  <2>2. MarkOf(next) = MarkOf(dev)
    BY <2>1 DEF MarkOf
  <2>3. ~(dev.armed > head) /\ dev.saved <= head
    BY <1>2, <1>4
  <2>4. next.armed = dev.armed
    BY <1>1, <2>3
  <2>5. Least(MarkOf(dev), head) = MarkOf(dev)
    BY <1>2, <1>4 DEF Least
  <2> QED
    BY <1>1, <2>1, <2>2, <2>3, <2>4, <2>5 DEF next
<1> QED
  BY <1>3, <1>4

\* A PUT's answer leaves every other PUT as it was but for a stamp.
LEMMA AnsweredPuts ==
  ASSUME Types, NEW p \in puts, PutAnswered(p)
  PROVE  /\ puts' \in SUBSET PutRec
         /\ \A q \in puts' : \E r \in puts : Alike(r, q) /\ (r.raised => q.raised)
         /\ \A r \in puts : r = p \/ \E q \in puts' : Alike(r, q)
<1> DEFINE next == CASE p.mark < p.seq -> clampChannelStores(device, p.mark, p.raised)
                     [] p.mark >= p.seq /\ p.clamped -> device
                     [] OTHER -> mergeReadState(device, p.mark)
           stamp == p.mark < p.seq /\ Clamped(device, next)
           S(r) == [r EXCEPT !.clamped = @ \/ stamp]
<1>1. ASSUME NEW r \in puts
      PROVE  S(r) \in PutRec /\ Alike(r, S(r)) /\ (r.raised => S(r).raised)
  <2>1. r \in PutRec
    BY DEF Types
  <2> HIDE DEF stamp
  <2> QED
    BY <2>1 DEF PutRec, Alike
<1>2. puts' = {S(r) : r \in puts \ {p}}
  BY DEF PutAnswered
<1> HIDE DEF S
<1> QED
  BY <1>1, <1>2

LEMMA PutAnsweredHolds ==
  ASSUME ReadInv, NEW p \in puts, PutAnswered(p)
  PROVE  ReadInv'
<1> USE DEF ReadInv
<1>1. /\ puts' \in SUBSET PutRec
      /\ \A q \in puts' : \E r \in puts : Alike(r, q) /\ (r.raised => q.raised)
      /\ \A r \in puts : r = p \/ \E q \in puts' : Alike(r, q)
  BY AnsweredPuts
<1>2. /\ p.answered /\ channel' = channel /\ events' = events /\ upsets' = upsets
  BY DEF PutAnswered
<1>3. /\ device \in DeviceRec /\ p.mark \in Nat /\ p.seq \in Nat /\ p.raised \in BOOLEAN
      /\ device.armed <= MarkOf(device) /\ MarkOf(device) \in Nat
      /\ channel.mark \in Nat /\ device.raised \in Nat /\ device.latest \in Nat
      /\ events \in Seq(EventRec)
  BY MarkIs DEF Types, PutRec, DeviceRec, ChannelRec, Shape
<1>4. p.mark <= channel.mark
  BY <1>2 DEF Bounds
<1>5. CASE p.mark < p.seq
  <2>1. device' = clampChannelStores(device, p.mark, p.raised)
    <3>1. ~(p.mark >= p.seq)
      BY <1>3, <1>5
    <3> QED
      BY <1>5, <3>1 DEF PutAnswered
  <2>2. /\ device' \in DeviceRec /\ Besides(device, device')
        /\ device'.latest = IF p.raised THEN device.latest ELSE Least(device.latest, p.mark)
        /\ MarkOf(device') = Least(MarkOf(device), p.mark)
        /\ device'.armed <= MarkOf(device')
        /\ \/ device'.read = device'.saved
           \/ device'.read = device.read /\ device'.saved = device.saved
    BY <1>3, <2>1, ClampSettles
  <2>3. channel.life # 1
    <3>1. ~(p.seq <= p.mark)
      BY <1>3, <1>5
    <3> QED
      BY <1>2, <3>1 DEF FirstLife
  <2>4. MarkOf(device') <= channel.mark /\ ~(MarkOf(device') > channel.mark)
    <3>1. Least(MarkOf(device), p.mark) \in Nat /\ Least(MarkOf(device), p.mark) <= p.mark
      BY <1>3 DEF Least
    <3> QED
      BY <1>3, <1>4, <2>2, <3>1
  <2>5. Types'
    BY <1>1, <1>2, <1>3, <2>2 DEF Types
  <2>6. Bounds' /\ FirstLife'
    <3>1. \A q \in puts' : \E r \in puts : Alike(r, q)
      BY <1>1
    <3>2. device'.get \in {"answered", "answered early"} =>
            (device.get \in {"answered", "answered early"} /\ device'.got = device.got)
      BY <2>2 DEF Besides
    <3>3. channel' = channel /\ Coming(events') \subseteq Coming(events)
      BY <1>2
    <3> QED
      BY <2>3, <3>1, <3>2, <3>3, HubStands
  <2>7. Shape'
    <3>1. device'.read = 0 \/ device'.read = device'.saved
      BY <2>2 DEF Shape
    <3>2. device'.shown > 0 =>
            (device'.read = device'.saved \/ device'.saved <= device'.shown)
      BY <2>2 DEF Shape, Besides
    <3> QED
      BY <2>2, <3>1, <3>2 DEF Shape
  <2>8. Listening'
    BY <2>2 DEF Listening, Besides
  <2>9. Ahead' /\ Behind'
    BY <1>2, <2>3, <2>4 DEF Ahead, Behind
  <2>10. Fence'
    <3>1. device'.raised = device.raised
      BY <2>2 DEF Besides
    <3>2. device.raised <= device.latest /\ device.raised <= channel.head
      BY DEF Fence
    <3>3. device.raised <= device'.latest
      <4>1. CASE p.raised
        BY <2>2, <3>2, <4>1
      <4>2. CASE ~p.raised
        <5>1. device.raised <= p.mark
          BY <1>2, <1>5, <4>2 DEF Fence
        <5>2. device.raised <= Least(device.latest, p.mark)
          BY <3>2, <5>1 DEF Least
        <5> QED
          BY <2>2, <4>2, <5>2
      <4> QED
        BY <4>1, <4>2
    <3>4. ASSUME NEW q \in puts', q.answered, q.mark < q.seq, ~q.raised
          PROVE  device.raised <= q.mark
      <4>1. PICK r \in puts : Alike(r, q) /\ (r.raised => q.raised)
        BY <1>1
      <4> QED
        BY <3>4, <4>1 DEF Alike, Fence
    <3> QED
      BY <1>2, <3>1, <3>2, <3>3, <3>4 DEF Fence
  <2> QED
    BY <2>5, <2>6, <2>7, <2>8, <2>9, <2>10
<1>6. CASE p.mark >= p.seq /\ p.clamped
  <2>1. device' = device
    <3>1. ~(p.mark < p.seq)
      BY <1>3, <1>6
    <3> QED
      BY <1>6, <3>1 DEF PutAnswered
  <2>2. Types'
    BY <1>1, <1>2, <1>3, <2>1 DEF Types
  <2>3. Bounds' /\ FirstLife'
    <3>1. \A q \in puts' : \E r \in puts : Alike(r, q)
      BY <1>1
    <3>2. channel.life = 1 =>
            /\ MarkOf(device') <= channel.head /\ device'.shown <= channel.head
            /\ \A h \in device'.snap : h <= channel.head
      BY <2>1 DEF FirstLife
    <3>3. channel' = channel /\ Coming(events') \subseteq Coming(events)
      BY <1>2
    <3> QED
      BY <2>1, <3>1, <3>2, <3>3, HubStands
  <2>4. Shape' /\ Listening'
    BY <2>1 DEF Shape, Listening
  <2>5. Settling => Settling'
    <3>1. ~(p.mark < p.seq)
      BY <1>3, <1>6
    <3>2. CASE \E r \in puts : r.heard /\ ~r.answered /\ r.seq >= MarkOf(device)
      <4>1. PICK r \in puts : r.heard /\ ~r.answered /\ r.seq >= MarkOf(device)
        BY <3>2
      <4>2. PICK q \in puts' : Alike(r, q)
        BY <1>1, <1>2, <4>1
      <4> QED
        BY <2>1, <4>1, <4>2 DEF Settling, Alike
    <3>3. CASE \E r \in puts : r.answered /\ r.mark < r.seq
      <4>1. PICK r \in puts : r.answered /\ r.mark < r.seq
        BY <3>3
      <4>2. PICK q \in puts' : Alike(r, q)
        BY <1>1, <3>1, <4>1
      <4> QED
        BY <4>1, <4>2 DEF Settling, Alike
    <3>4. CASE device.armed = MarkOf(device) \/ \E e \in Coming(events) : IsMark(e)
      BY <1>2, <2>1, <3>4 DEF Settling
    <3> QED
      BY <3>2, <3>3, <3>4 DEF Settling
  <2>6. Ahead' /\ Behind'
    BY <1>2, <2>1, <2>5 DEF Ahead, Behind
  <2>7. Fence'
    <3>1. ASSUME NEW q \in puts', q.answered, q.mark < q.seq, ~q.raised
          PROVE  device.raised <= q.mark
      <4>1. PICK r \in puts : Alike(r, q) /\ (r.raised => q.raised)
        BY <1>1
      <4> QED
        BY <3>1, <4>1 DEF Alike, Fence
    <3> QED
      BY <1>2, <2>1, <3>1 DEF Fence
  <2> QED
    BY <2>2, <2>3, <2>4, <2>6, <2>7
<1>7. CASE p.mark >= p.seq /\ ~p.clamped
  <2>1. ~(p.mark < p.seq)
    BY <1>3, <1>7
  <2>2. device' = mergeReadState(device, p.mark)
    BY <1>7, <2>1 DEF PutAnswered
  <2>3. PICK hub \in Nat : hub = p.mark
    BY <1>3
  <2>4. hub <= channel.mark /\ device' = mergeReadState(device, hub)
    BY <1>4, <2>2, <2>3
  <2>5. /\ device.synced => (device.online /\ device.get = "idle")
        /\ device.get = "answered" => device.online
    BY DEF Listening
  <2>6. Coming(events') \subseteq Coming(events) /\ events' \in Seq(EventRec)
    BY <1>2, <1>3
  <2>7. \A e \in Coming(events) :
          (IsMark(e) /\ e.seq = channel.mark) => (e \in Coming(events') \/ hub >= channel.mark)
    BY <1>2
  <2> QED
    BY <1>1, <1>2, <1>3, <2>4, <2>5, <2>6, <2>7, MergeHolds
<1> QED
  BY <1>3, <1>5, <1>6, <1>7

LEMMA SnapshotArrivesHolds == ReadInv /\ SnapshotArrives => ReadInv'
<1> SUFFICES ASSUME ReadInv, SnapshotArrives PROVE ReadInv'
  OBVIOUS
<1> USE DEF ReadInv
<1>1. /\ device \in DeviceRec /\ device.armed <= MarkOf(device) /\ MarkOf(device) \in Nat
      /\ device.snap \in SUBSET Nat /\ device.raised \in Nat /\ device.latest \in Nat
      /\ channel.head \in Nat
  BY MarkIs DEF Types, DeviceRec, ChannelRec, Shape
<1>2. PICK head \in device.snap :
        LET next == clampChannelStores(device, head, FALSE) IN
        /\ device' = [(IF MarkOf(next) < MarkOf(device) THEN Missed(next) ELSE next)
                         EXCEPT !.shown = head, !.snap = {}, !.raised = Least(@, head)]
        /\ puts' = Stamped(Clamped(device, next), FALSE)
        /\ channel' = channel /\ events' = events /\ upsets' = upsets
  BY DEF SnapshotArrives
<1>3. head \in Nat
  BY <1>1
<1>4. PICK stale \in BOOLEAN : stale = FALSE
  OBVIOUS
<1>5. PICK next \in DeviceRec : next = clampChannelStores(device, head, stale)
  BY <1>1, <1>3, ClampSettles
<1>6. /\ Besides(device, next)
      /\ next.latest = Least(device.latest, head)
      /\ MarkOf(next) = Least(MarkOf(device), head)
      /\ next.armed <= MarkOf(next)
      /\ \/ next.read = next.saved
         \/ next.read = device.read /\ next.saved = device.saved
      /\ MarkOf(device) <= head =>
           (next.read = device.read /\ next.saved = device.saved /\ next.armed = device.armed)
      /\ next.saved <= head
  BY <1>1, <1>3, <1>4, <1>5, ClampSettles
<1>7. /\ device' = [(IF MarkOf(next) < MarkOf(device) THEN Missed(next) ELSE next)
                       EXCEPT !.shown = head, !.snap = {}, !.raised = Least(@, head)]
      /\ puts' = Stamped(Clamped(device, next), FALSE)
      /\ channel' = channel /\ events' = events /\ upsets' = upsets
  BY <1>2, <1>4, <1>5
<1>8. /\ puts' \in SUBSET PutRec
      /\ \A q \in puts' : \E p \in puts : Alike(p, q) /\ (p.raised => q.raised)
      /\ \A p \in puts : \E q \in puts' : Alike(p, q)
  <2>1. PICK clamped \in BOOLEAN : clamped = Clamped(device, next)
    BY DEF Clamped
  <2>2. puts' = Stamped(clamped, stale)
    BY <1>4, <1>7, <2>1
  <2> QED
    BY <2>2, StampedPuts
<1>9. PICK dev \in DeviceRec :
        dev = IF MarkOf(next) < MarkOf(device) THEN Missed(next) ELSE next
  BY MissedFields
<1>10. /\ dev.read = next.read /\ dev.saved = next.saved /\ dev.armed = next.armed
       /\ dev.latest = next.latest /\ dev.raised = next.raised /\ dev.got = next.got
       /\ dev.online = next.online
       /\ MarkOf(next) < MarkOf(device) => (~dev.synced /\ dev.get # "answered")
       /\ ~(MarkOf(next) < MarkOf(device)) => (dev.synced = next.synced /\ dev.get = next.get)
       /\ dev.get \in {"answered", "answered early"} =>
            next.get \in {"answered", "answered early"}
  BY <1>9, MissedFields
<1>11. Least(device.raised, head) \in Nat
  BY <1>1, <1>3 DEF Least
<1>12. device' = [dev EXCEPT !.shown = head, !.snap = {}, !.raised = Least(device.raised, head)]
  BY <1>6, <1>7, <1>9, <1>10 DEF Besides
<1>13. /\ device' \in DeviceRec /\ device'.shown = head /\ device'.snap = {}
       /\ device'.raised = Least(device.raised, head)
       /\ device'.read = next.read /\ device'.saved = next.saved /\ device'.armed = next.armed
       /\ device'.latest = next.latest /\ device'.got = device.got
       /\ device'.online = device.online
       /\ device'.synced = dev.synced /\ device'.get = dev.get
  <2>1. /\ device' \in DeviceRec /\ device'.shown = head /\ device'.snap = {}
        /\ device'.raised = Least(device.raised, head)
        /\ device'.read = dev.read /\ device'.saved = dev.saved /\ device'.armed = dev.armed
        /\ device'.latest = dev.latest /\ device'.got = dev.got
        /\ device'.online = dev.online
        /\ device'.synced = dev.synced /\ device'.get = dev.get
    BY <1>3, <1>11, <1>12 DEF DeviceRec
  <2> QED
    BY <1>6, <1>10, <2>1 DEF Besides
<1>14. MarkOf(device') = MarkOf(next)
  BY <1>13 DEF MarkOf
<1>15. Types'
  BY <1>7, <1>8, <1>13 DEF Types
<1>16. Bounds' /\ FirstLife'
  <2>1. channel.life = 1 =>
          /\ MarkOf(device') <= channel.head /\ device'.shown <= channel.head
          /\ \A h \in device'.snap : h <= channel.head
    <3> SUFFICES ASSUME channel.life = 1
                 PROVE  Least(MarkOf(device), head) <= channel.head /\ head <= channel.head
      BY <1>6, <1>13, <1>14
    <3>1. head <= channel.head
      BY DEF FirstLife
    <3> QED
      BY <1>1, <1>3, <3>1 DEF Least
  <2>2. \A q \in puts' : \E p \in puts : Alike(p, q)
    BY <1>8
  <2>3. device'.get \in {"answered", "answered early"} =>
          (device.get \in {"answered", "answered early"} /\ device'.got = device.got)
    BY <1>6, <1>10, <1>13 DEF Besides
  <2>4. channel' = channel /\ Coming(events') \subseteq Coming(events)
    BY <1>7
  <2> QED
    BY <2>1, <2>2, <2>3, <2>4, HubStands
<1>17. Shape'
  <2>1. device'.read = 0 \/ device'.read = device'.saved
    BY <1>6, <1>13 DEF Shape
  <2> QED
    BY <1>6, <1>13, <1>14, <2>1 DEF Shape
<1>18. Fence'
  <2>1. Least(device.raised, head) <= Least(device.latest, head)
    <3>1. device.raised <= device.latest
      BY DEF Fence
    <3> QED
      BY <1>1, <1>3, <3>1 DEF Least
  <2>2. Least(device.raised, head) <= channel.head
    <3>1. device.raised <= channel.head
      BY DEF Fence
    <3> QED
      BY <1>1, <1>3, <3>1 DEF Least
  <2>3. ASSUME NEW q \in puts', q.answered, q.mark < q.seq, ~q.raised
        PROVE  Least(device.raised, head) <= q.mark
    <3>1. PICK p \in puts : Alike(p, q) /\ (p.raised => q.raised)
      BY <1>8
    <3>2. device.raised <= p.mark /\ p.mark = q.mark
      BY <2>3, <3>1 DEF Alike, Fence
    <3>3. q.mark \in Nat
      BY <1>8 DEF PutRec
    <3> QED
      BY <1>1, <1>3, <3>2, <3>3 DEF Least
  <2> QED
    BY <1>6, <1>7, <1>13, <2>1, <2>2, <2>3 DEF Fence
<1>19. Ahead' /\ Behind' /\ Listening'
  <2>1. CASE MarkOf(next) < MarkOf(device)
    BY <1>10, <1>13, <2>1, OutOfStep
  <2>2. CASE ~(MarkOf(next) < MarkOf(device))
    <3>1. MarkOf(device) <= head
      BY <1>1, <1>3, <1>6, <2>2 DEF Least
    <3>2. /\ device'.read = device.read /\ device'.saved = device.saved
          /\ device'.armed = device.armed /\ MarkOf(device') = MarkOf(device)
      <4>1. next.read = device.read /\ next.saved = device.saved /\ next.armed = device.armed
        BY <1>6, <3>1
      <4> QED
        BY <1>13, <4>1 DEF MarkOf
    <3>3. device'.synced = device.synced /\ device'.get = device.get
      BY <1>6, <1>10, <1>13, <2>2 DEF Besides
    <3>4. Settling => Settling'
      BY <1>7, <1>8, <3>2, SettlingStays
    <3>5. Ahead'
      BY <1>7, <1>13, <3>2, <3>3, <3>4 DEF Ahead
    <3>6. Behind'
      BY <1>7, <1>13, <3>2, <3>3 DEF Behind
    <3>7. Listening'
      BY <1>13, <3>3 DEF Listening
    <3> QED
      BY <3>5, <3>6, <3>7
  <2> QED
    BY <2>1, <2>2
<1> QED
  BY <1>15, <1>16, <1>17, <1>18, <1>19

-----------------------------------------------------------------------------
(* The theorems.                                                           *)

LEMMA StepHolds == ReadInv /\ [ReadNext]_readStateVars => ReadInv'
<1> SUFFICES ASSUME ReadInv, [ReadNext]_readStateVars PROVE ReadInv'
  OBVIOUS
<1>1. CASE MessagePosted
  BY <1>1, MessagePostedHolds
<1>2. CASE \E seq \in 1..MaxHead : OthersPut(seq)
  BY <1>2, OthersPutHolds
<1>3. CASE \E swept \in BOOLEAN : RestartSweeps(swept)
  BY <1>3, RestartHolds
<1>4. CASE \E p \in puts : PutServed(p) \/ PutAnswered(p) \/ PutLost(p)
  BY <1>4, PutServedHolds, PutAnsweredHolds, PutLostHolds
<1>5. CASE GetReadState \/ GetArrives
  BY <1>5, GetReadStateHolds, GetArrivesHolds
<1>6. CASE EventsOpen \/ EventsDrop \/ Reload
  BY <1>6, EventsOpenHolds, EventsDropHolds, ReloadHolds
<1>7. CASE ActivityArrives \/ MarkArrives \/ seedChannelActivity
  BY <1>7, ActivityArrivesHolds, MarkArrivesHolds, SeedHolds
<1>8. CASE flushChannelReadState
  BY <1>8, FlushHolds
<1>9. CASE OpenChannel \/ FullSnapshot \/ RowArrives
  BY <1>9, ViewHolds
<1>10. CASE SnapshotArrives \/ LeaveChannel
  BY <1>10, SnapshotArrivesHolds, LeaveChannelHolds
<1>11. CASE UNCHANGED readStateVars
  BY <1>11 DEF readStateVars, ReadInv, Types, Bounds, Shape, Listening, FirstLife, Ahead,
               Behind, Settling, Fence
<1> QED
  BY <1>1, <1>2, <1>3, <1>4, <1>5, <1>6, <1>7, <1>8, <1>9, <1>10, <1>11 DEF ReadNext

\* The repairs that hold between a device and the hub hold always.
THEOREM RepairsHold == ReadSpec => []ReadInv
<1> QED
  BY InitHolds, StepHolds, PTL DEF ReadSpec

\* Once the hub holds a mark and nothing is on the way, the device is not
\* ahead of it, and in a channel that was never recreated the two are equal,
\* whatever was lost, reordered, reloaded or restarted before.
THEOREM DevicesReconciled == ReadSpec => []DevicesAgree
<1>1. ReadInv => DevicesAgree
  <2> SUFFICES ASSUME ReadInv, channel.mark > 0, Quiet
               PROVE  /\ MarkOf(device) <= channel.mark
                      /\ channel.life = 1 => MarkOf(device) = channel.mark
    BY DEF DevicesAgree
  <2>1. /\ MarkOf(device) \in Nat /\ channel.mark \in Nat
    BY MarkIs DEF ReadInv, Types, ChannelRec
  <2>2. device.synced /\ device.armed = 0 /\ puts = {} /\ Coming(events) = {}
    BY ComingNone DEF Quiet
  <2>3. ~(MarkOf(device) > channel.mark)
    <3> SUFFICES ASSUME MarkOf(device) > channel.mark PROVE FALSE
      OBVIOUS
    <3>1. Settling
      BY <2>2 DEF ReadInv, Ahead
    <3>2. device.armed # MarkOf(device)
      BY <2>1, <2>2
    <3> QED
      BY <2>2, <3>1, <3>2 DEF Settling
  <2>4. channel.life = 1 => ~(MarkOf(device) < channel.mark)
    BY <2>2 DEF ReadInv, Behind
  <2> QED
    BY <2>1, <2>3, <2>4
<1> QED
  BY <1>1, RepairsHold, PTL

\* A head that a broadcast raised is not taken away by a PUT's answer: the
\* stamp of the raise fences the clamp.
THEOREM RaisedHeadStays == ReadSpec => []RaisedStays
<1>1. ReadInv => RaisedStays
  <2> SUFFICES ASSUME ReadInv PROVE device.latest >= device.raised
    BY DEF RaisedStays
  <2>1. device.raised <= device.latest
    BY DEF ReadInv, Fence
  <2>2. device.raised \in Nat /\ device.latest \in Nat
    BY DEF ReadInv, Types, DeviceRec
  <2> QED
    BY <2>1, <2>2
<1> QED
  BY <1>1, RepairsHold, PTL
=============================================================================
