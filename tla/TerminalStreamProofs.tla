------------------------ MODULE TerminalStreamProofs ------------------------
(***************************************************************************)
(* The terminal stream for any capacity, any chunks and any lag.           *)
(*                                                                         *)
(* Neither the promise to the viewer nor that it catches up is inductive:  *)
(* what the viewer will be shown is on the wire. Way says that the wire    *)
(* leads on from the viewer's cursor without a hole, but for a mark behind *)
(* which the hub holds nothing, and TerminalInv that it leads to where the *)
(* lane will go on.                                                        *)
(***************************************************************************)
EXTENDS TerminalStream, TLAPS, SequenceTheorems, WellFoundedInduction

Frame == [from : Nat, cursor : Nat]

\* The frames lie end to end from a to b.
Tiles(fs, a, b) ==
  /\ a \in Nat /\ b \in Nat /\ fs \in Seq(Frame)
  /\ \A i \in DOMAIN fs : fs[i].from = FrameStart(fs, a, i) /\ fs[i].cursor > FrameStart(fs, a, i)
  /\ FrameStart(fs, a, Len(fs) + 1) = b

\* Where the envelopes of w take a viewer who is at a.
End(w, a) == FrameStart(w, a, Len(w) + 1)

\* Each envelope goes on where the one before it ends, or passes over bytes
\* that are older than old, and none ends after b.
Way(w, a, old, b) ==
  /\ a \in Nat /\ old \in Nat /\ b \in Nat /\ w \in Seq(Frame)
  /\ \A i \in DOMAIN w :
       /\ w[i].from <= w[i].cursor /\ w[i].cursor <= b
       /\ \/ w[i].from = FrameStart(w, a, i)
          \/ w[i].from = w[i].cursor /\ FrameStart(w, a, i) < w[i].cursor /\ w[i].cursor <= old

StreamOK(s) ==
  /\ s \in [cursor : Nat, oldest : Nat, frames : Seq(Frame)]
  /\ s.oldest <= s.cursor
  /\ Tiles(s.frames, s.oldest, s.cursor)

TerminalInv ==
  /\ StreamOK(stream)
  /\ lane \in [open : BOOLEAN, lagging : BOOLEAN, gap : Nat]
  /\ viewer \in [cursor : Nat, up : BOOLEAN, got : Seq(Nat)]
  /\ viewer.cursor <= stream.cursor
  /\ Way(wire, viewer.cursor, stream.oldest, stream.cursor)
  /\ lane.open => viewer.up
  /\ ~viewer.up => wire = <<>>
  /\ lane.open /\ ~lane.lagging => End(wire, viewer.cursor) = stream.cursor
  /\ lane.open /\ lane.lagging => lane.gap = End(wire, viewer.cursor)

-----------------------------------------------------------------------------
(* Frames that lie end to end.                                             *)

LEMMA LeastNat ==
  ASSUME NEW T \in SUBSET Nat, T # {}
  PROVE  \E x \in T : \A y \in T : x <= y
<1>1. PICK x \in T : \A y \in T : ~(<<y, x>> \in OpToRel(<, Nat))
  BY NatLessThanWellFounded, WFMin
<1>2. \A y \in T : ~(y < x)
  BY <1>1 DEF OpToRel
<1> QED BY <1>2

LEMMA MinIsLeast ==
  ASSUME NEW T \in SUBSET Nat, T # {}
  PROVE  Min(T) \in T /\ \A y \in T : Min(T) <= y
BY LeastNat DEF Min

\* From the first frame that ends after x on, all do.
LEMMA TilesOrdered ==
  ASSUME NEW fs, NEW a, NEW b, Tiles(fs, a, b),
         NEW k \in DOMAIN fs, NEW x \in Nat, fs[k].cursor > x,
         NEW i \in DOMAIN fs, k <= i
  PROVE  fs[i].cursor > x
<1> DEFINE T == {j \in DOMAIN fs : k <= j /\ ~(fs[j].cursor > x)}
<1>0. Len(fs) \in Nat /\ DOMAIN fs = 1..Len(fs) /\ \A j \in DOMAIN fs : fs[j] \in Frame
  BY ElementOfSeq DEF Tiles
<1> SUFFICES ASSUME T # {} PROVE FALSE
  OBVIOUS
<1>1. T \in SUBSET Nat
  BY <1>0
<1>2. PICK j \in T : \A y \in T : j <= y
  <2> HIDE DEF T
  <2> QED BY <1>1, LeastNat
<1>3. j \in DOMAIN fs /\ k <= j /\ j # k /\ j # 1 /\ j - 1 \in DOMAIN fs /\ k <= j - 1
  BY <1>0
<1>4. fs[j - 1].cursor > x
  BY <1>0, <1>2, <1>3
<1>5. fs[j].cursor > fs[j - 1].cursor
  BY <1>3 DEF Tiles, FrameStart
<1> QED BY <1>0, <1>2, <1>3, <1>4, <1>5 DEF Frame

\* No frame ends before the first begins.
LEMMA TilesAbove ==
  ASSUME NEW fs, NEW a, NEW b, Tiles(fs, a, b)
  PROVE  /\ a <= b /\ Len(fs) \in Nat /\ DOMAIN fs = 1..Len(fs)
         /\ \A i \in DOMAIN fs : fs[i] \in Frame /\ fs[i].cursor > a
         /\ \A i \in 1..(Len(fs) + 1) : FrameStart(fs, a, i) \in Nat /\ a <= FrameStart(fs, a, i)
<1>0. a \in Nat /\ b \in Nat /\ Len(fs) \in Nat /\ DOMAIN fs = 1..Len(fs) /\ \A j \in DOMAIN fs : fs[j] \in Frame
  BY ElementOfSeq DEF Tiles
<1>1. ASSUME NEW i \in DOMAIN fs PROVE fs[i].cursor > a
  <2>1. 1 \in DOMAIN fs /\ 1 <= i
    BY <1>0
  <2>2. fs[1].cursor > a
    BY <2>1 DEF Tiles, FrameStart
  <2> QED BY <1>0, <2>1, <2>2, TilesOrdered
<1>2. ASSUME NEW i \in 1..(Len(fs) + 1) PROVE FrameStart(fs, a, i) \in Nat /\ a <= FrameStart(fs, a, i)
  <2>1. CASE i = 1
    BY <1>0, <2>1 DEF FrameStart
  <2>2. CASE i # 1
    <3>1. i - 1 \in DOMAIN fs
      BY <1>0, <2>2
    <3>2. fs[i - 1].cursor \in Nat /\ fs[i - 1].cursor > a
      BY <1>0, <1>1, <3>1 DEF Frame
    <3> QED BY <1>0, <2>2, <3>2 DEF FrameStart
  <2> QED BY <2>1, <2>2
<1>3. a <= b
  BY <1>0, <1>2 DEF Tiles
<1> QED BY <1>0, <1>1, <1>2, <1>3

\* Whole frames are dropped: the rest lies end to end from where it begins.
LEMMA TilesSuffix ==
  ASSUME NEW fs, NEW a, NEW b, Tiles(fs, a, b), NEW k \in DOMAIN fs
  PROVE  Tiles(SubSeq(fs, k, Len(fs)), FrameStart(fs, a, k), b)
<1> DEFINE ts == SubSeq(fs, k, Len(fs))
<1>0. /\ a \in Nat /\ b \in Nat /\ fs \in Seq(Frame) /\ Len(fs) \in Nat /\ DOMAIN fs = 1..Len(fs)
      /\ FrameStart(fs, a, k) \in Nat
  BY TilesAbove DEF Tiles
<1>1. /\ ts \in Seq(Frame) /\ Len(ts) = Len(fs) - k + 1 /\ DOMAIN ts = 1..(Len(fs) - k + 1)
      /\ \A i \in 1..(Len(fs) - k + 1) : ts[i] = fs[k + i - 1]
  BY <1>0, SubSeqProperties
<1> HIDE DEF ts
<1>2. \A i \in 1..(Len(ts) + 1) : FrameStart(ts, FrameStart(fs, a, k), i) = FrameStart(fs, a, k + i - 1)
  <2> SUFFICES ASSUME NEW i \in 1..(Len(ts) + 1)
               PROVE  FrameStart(ts, FrameStart(fs, a, k), i) = FrameStart(fs, a, k + i - 1)
    OBVIOUS
  <2>1. CASE i = 1
    <3>1. k + i - 1 = k
      BY <1>0, <2>1
    <3> QED BY <2>1, <3>1 DEF FrameStart
  <2>2. CASE i # 1
    <3>1. i - 1 \in 1..(Len(fs) - k + 1) /\ k + i - 1 # 1 /\ k + (i - 1) - 1 = (k + i - 1) - 1
      BY <1>0, <1>1, <2>2
    <3>2. ts[i - 1] = fs[(k + i - 1) - 1]
      BY <1>1, <3>1
    <3> QED BY <2>2, <3>1, <3>2 DEF FrameStart
  <2> QED BY <2>1, <2>2
<1>3. \A i \in DOMAIN ts : ts[i].from = FrameStart(ts, FrameStart(fs, a, k), i)
                            /\ ts[i].cursor > FrameStart(ts, FrameStart(fs, a, k), i)
  <2> SUFFICES ASSUME NEW i \in DOMAIN ts
               PROVE  ts[i].from = FrameStart(ts, FrameStart(fs, a, k), i)
                      /\ ts[i].cursor > FrameStart(ts, FrameStart(fs, a, k), i)
    OBVIOUS
  <2>1. i \in 1..(Len(ts) + 1) /\ k + i - 1 \in DOMAIN fs /\ ts[i] = fs[k + i - 1]
    BY <1>0, <1>1
  <2>2. FrameStart(ts, FrameStart(fs, a, k), i) = FrameStart(fs, a, k + i - 1)
    BY <1>2, <2>1
  <2> QED BY <2>1, <2>2 DEF Tiles
<1>4. FrameStart(ts, FrameStart(fs, a, k), Len(ts) + 1) = b
  <2>1. k \in Nat /\ k <= Len(fs) /\ Len(fs) \in Nat /\ Len(ts) = Len(fs) - k + 1
    BY <1>0, <1>1
  <2>2. Len(ts) + 1 \in 1..(Len(ts) + 1)
    BY <2>1
  <2>3. k + (Len(ts) + 1) - 1 = Len(fs) + 1
    BY <2>1
  <2> QED BY <1>2, <2>2, <2>3 DEF Tiles
<1> QED BY <1>0, <1>1, <1>3, <1>4 DEF Tiles, ts

\* A frame is added at the end.
LEMMA TilesAppend ==
  ASSUME NEW fs, NEW a, NEW b, Tiles(fs, a, b), NEW c \in Nat, c > b
  PROVE  Tiles(Append(fs, Chunk(b, c)), a, c)
<1> DEFINE ts == Append(fs, Chunk(b, c))
<1>0. /\ a \in Nat /\ b \in Nat /\ fs \in Seq(Frame) /\ Len(fs) \in Nat /\ DOMAIN fs = 1..Len(fs)
      /\ Chunk(b, c) \in Frame /\ Chunk(b, c).from = b /\ Chunk(b, c).cursor = c
  BY TilesAbove DEF Tiles, Chunk, Frame
<1>1. /\ ts \in Seq(Frame) /\ Len(ts) = Len(fs) + 1 /\ ts[Len(fs) + 1] = Chunk(b, c)
      /\ \A i \in 1..Len(fs) : ts[i] = fs[i]
  BY <1>0, AppendProperties
<1> HIDE DEF ts
<1>2. \A i \in 1..(Len(fs) + 1) : FrameStart(ts, a, i) = FrameStart(fs, a, i)
  BY <1>0, <1>1 DEF FrameStart
<1>3. FrameStart(ts, a, Len(fs) + 1) = b /\ FrameStart(ts, a, Len(ts) + 1) = c
  BY <1>0, <1>1, <1>2 DEF Tiles, FrameStart
<1>4. \A i \in DOMAIN ts : ts[i].from = FrameStart(ts, a, i) /\ ts[i].cursor > FrameStart(ts, a, i)
  BY <1>0, <1>1, <1>2, <1>3 DEF Tiles
<1> QED BY <1>0, <1>1, <1>3, <1>4 DEF Tiles, ts

\* FramesAfter: the bytes from x on, end to end.
LEMMA TilesAfter ==
  ASSUME NEW fs, NEW a, NEW b, Tiles(fs, a, b), NEW x \in Nat, a <= x, x <= b
  PROVE  Tiles(FramesAfter(fs, x), x, b)
<1> DEFINE behind == {i \in DOMAIN fs : fs[i].cursor > x}
<1>0. /\ a \in Nat /\ b \in Nat /\ fs \in Seq(Frame) /\ Len(fs) \in Nat /\ DOMAIN fs = 1..Len(fs)
      /\ \A i \in DOMAIN fs : fs[i] \in Frame
  BY TilesAbove DEF Tiles
<1>1. CASE behind = {}
  <2>1. FramesAfter(fs, x) = <<>>
    BY <1>1 DEF FramesAfter
  <2>2. x = b
    <3>1. CASE Len(fs) = 0
      BY <1>0, <3>1 DEF Tiles, FrameStart
    <3>2. CASE Len(fs) # 0
      <4>1. Len(fs) \in DOMAIN fs /\ Len(fs) + 1 # 1
        BY <1>0, <3>2
      <4>2. b = fs[Len(fs)].cursor
        BY <1>0, <4>1 DEF Tiles, FrameStart
      <4>3. ~(b > x)
        BY <1>1, <4>1, <4>2
      <4> QED BY <1>0, <4>3
    <3> QED BY <3>1, <3>2
  <2>3. Len(<<>>) = 0 /\ DOMAIN <<>> = {} /\ <<>> \in Seq(Frame)
    OBVIOUS
  <2> QED BY <1>0, <2>1, <2>2, <2>3 DEF Tiles, FrameStart
<1>2. CASE behind # {}
  <2> DEFINE k == Min(behind)
             ts == SubSeq(fs, k, Len(fs))
             cut == [i \in DOMAIN ts |-> Chunk(Max2(ts[i].from, x), ts[i].cursor)]
  <2>1. FramesAfter(fs, x) = cut
    BY <1>2 DEF FramesAfter
  <2>2. k \in behind /\ \A y \in behind : k <= y
    <3>1. behind \in SUBSET Nat
      BY <1>0
    <3> HIDE DEF behind
    <3> QED BY <1>2, <3>1, MinIsLeast
  <2> HIDE DEF k
  <2>3. k \in DOMAIN fs /\ fs[k].cursor > x /\ Tiles(ts, FrameStart(fs, a, k), b)
    BY <2>2, TilesSuffix
  <2>4. FrameStart(fs, a, k) <= x /\ FrameStart(fs, a, k) \in Nat
    <3>1. CASE k = 1
      BY <1>0, <3>1 DEF FrameStart
    <3>2. CASE k # 1
      <4>1. k - 1 \in DOMAIN fs /\ ~(k <= k - 1) /\ fs[k - 1].cursor \in Nat
        BY <1>0, <2>3, <3>2 DEF Frame
      <4>2. ~(fs[k - 1].cursor > x)
        BY <2>2, <4>1
      <4> QED BY <3>2, <4>1, <4>2 DEF FrameStart
    <3> QED BY <3>1, <3>2
  <2>5. /\ ts \in Seq(Frame) /\ Len(ts) = Len(fs) - k + 1 /\ DOMAIN ts = 1..(Len(fs) - k + 1)
        /\ \A i \in 1..(Len(fs) - k + 1) : ts[i] = fs[k + i - 1]
    <3> HIDE DEF behind
    <3>1. k \in 1..Len(fs) /\ Len(fs) \in 1..Len(fs) /\ k <= Len(fs) + 1
      BY <1>0, <2>3
    <3> QED BY <1>0, <3>1, SubSeqProperties
  <2>6. Len(ts) \in Nat /\ 1 \in DOMAIN ts /\ ts[1].cursor > x /\ DOMAIN ts = 1..Len(ts)
    BY <1>0, <2>3, <2>5
  <2> HIDE DEF ts
  <2>7. \A i \in DOMAIN ts : ts[i] \in Frame /\ ts[i].cursor > x /\ 1 <= i
    <3> SUFFICES ASSUME NEW i \in DOMAIN ts PROVE ts[i] \in Frame /\ ts[i].cursor > x /\ 1 <= i
      OBVIOUS
    <3>1. ts[i] \in Frame
      BY <2>5, <2>6, ElementOfSeq
    <3>2. 1 <= i
      BY <2>6
    <3>3. ts[i].cursor > x
      BY <2>3, <2>6, <3>2, TilesOrdered
    <3> QED BY <3>1, <3>2, <3>3
  <2>8. \A i \in DOMAIN ts : Max2(ts[i].from, x) = FrameStart(ts, x, i)
    <3> SUFFICES ASSUME NEW i \in DOMAIN ts PROVE Max2(ts[i].from, x) = FrameStart(ts, x, i)
      OBVIOUS
    <3>1. CASE i = 1
      BY <2>3, <2>4, <3>1 DEF Tiles, FrameStart, Max2
    <3>2. CASE i # 1
      <4>1. i - 1 \in DOMAIN ts /\ ts[i].from = ts[i - 1].cursor
        BY <2>3, <2>6, <3>2 DEF Tiles, FrameStart
      <4> QED BY <2>7, <3>2, <4>1 DEF FrameStart, Max2, Frame
    <3> QED BY <3>1, <3>2
  <2>9. /\ cut \in Seq(Frame) /\ Len(cut) = Len(ts) /\ DOMAIN cut = DOMAIN ts
        /\ \A i \in DOMAIN ts : cut[i].from = FrameStart(ts, x, i) /\ cut[i].cursor = ts[i].cursor
    <3>1. \A i \in DOMAIN ts : FrameStart(ts, x, i) \in Nat /\ ts[i].cursor \in Nat
      <4> SUFFICES ASSUME NEW i \in DOMAIN ts PROVE FrameStart(ts, x, i) \in Nat /\ ts[i].cursor \in Nat
        OBVIOUS
      <4>1. i = 1 \/ i - 1 \in DOMAIN ts
        BY <2>6
      <4> QED BY <2>7, <4>1 DEF FrameStart, Frame
    <3>2. \A i \in DOMAIN ts : Chunk(Max2(ts[i].from, x), ts[i].cursor) = Chunk(FrameStart(ts, x, i), ts[i].cursor)
      BY <2>8
    <3>3. \A i \in DOMAIN ts : /\ Chunk(FrameStart(ts, x, i), ts[i].cursor) \in Frame
                               /\ Chunk(FrameStart(ts, x, i), ts[i].cursor).from = FrameStart(ts, x, i)
                               /\ Chunk(FrameStart(ts, x, i), ts[i].cursor).cursor = ts[i].cursor
      BY <3>1 DEF Chunk, Frame
    <3>4. cut = [i \in 1..Len(ts) |-> Chunk(FrameStart(ts, x, i), ts[i].cursor)]
      BY <2>6, <3>2
    <3>5. cut \in [1..Len(ts) -> Frame]
      BY <2>6, <3>3, <3>4
    <3> QED BY <2>6, <3>3, <3>4, <3>5
  <2> HIDE DEF cut
  <2>10. \A i \in 1..(Len(ts) + 1) : FrameStart(cut, x, i) = FrameStart(ts, x, i)
    BY <2>6, <2>9 DEF FrameStart
  <2>11. \A i \in DOMAIN cut : cut[i].from = FrameStart(cut, x, i) /\ cut[i].cursor > FrameStart(cut, x, i)
    <3> SUFFICES ASSUME NEW i \in DOMAIN ts PROVE cut[i].from = FrameStart(cut, x, i) /\ cut[i].cursor > FrameStart(cut, x, i)
      BY <2>9
    <3>1. cut[i].from = FrameStart(cut, x, i) /\ cut[i].cursor = ts[i].cursor
      BY <2>6, <2>9, <2>10
    <3>2. ts[i].cursor > FrameStart(ts, x, i)
      <4>1. CASE i = 1
        BY <2>7, <4>1 DEF FrameStart
      <4>2. CASE i # 1
        BY <2>3, <4>2 DEF Tiles, FrameStart
      <4> QED BY <4>1, <4>2
    <3> QED BY <2>6, <2>10, <3>1, <3>2
  <2>12. FrameStart(cut, x, Len(cut) + 1) = b
    <3>1. Len(ts) + 1 # 1 /\ Len(ts) + 1 \in 1..(Len(ts) + 1)
      BY <2>6
    <3> QED BY <2>3, <2>9, <2>10, <3>1 DEF Tiles, FrameStart
  <2> QED BY <1>0, <2>1, <2>9, <2>11, <2>12 DEF Tiles
<1> QED BY <1>1, <1>2

\* The frames of a stream are a way through it.
LEMMA TilesAreWay ==
  ASSUME NEW fs, NEW a, NEW b, Tiles(fs, a, b), NEW old \in Nat
  PROVE  Way(fs, a, old, b) /\ End(fs, a) = b
<1>0. /\ a \in Nat /\ b \in Nat /\ fs \in Seq(Frame) /\ Len(fs) \in Nat /\ DOMAIN fs = 1..Len(fs)
      /\ \A i \in DOMAIN fs : fs[i] \in Frame
  BY TilesAbove DEF Tiles
<1>1. End(fs, a) = b
  BY DEF End, Tiles
<1>2. ASSUME NEW i \in DOMAIN fs
      PROVE  fs[i].from <= fs[i].cursor /\ fs[i].from = FrameStart(fs, a, i)
  BY <1>0, <1>2 DEF Tiles, Frame
<1>3. ASSUME NEW i \in DOMAIN fs
      PROVE  fs[i].cursor <= b
  <2> SUFFICES ASSUME fs[i].cursor > b PROVE FALSE
    BY <1>0, <1>3 DEF Frame
  <2>1. Len(fs) \in DOMAIN fs /\ i <= Len(fs) /\ Len(fs) + 1 # 1 /\ Len(fs) + 1 - 1 = Len(fs)
    BY <1>0
  <2>2. fs[Len(fs)].cursor > b
    BY <1>0, <2>1, TilesOrdered
  <2>3. fs[Len(fs)].cursor = b
    BY <2>1 DEF Tiles, FrameStart
  <2> QED BY <1>0, <2>2, <2>3
<1> QED BY <1>0, <1>1, <1>2, <1>3 DEF Way

-----------------------------------------------------------------------------
(* Ways.                                                                   *)

LEMMA WayParts ==
  ASSUME NEW w, NEW a, NEW old, NEW b, Way(w, a, old, b)
  PROVE  /\ a \in Nat /\ old \in Nat /\ b \in Nat /\ w \in Seq(Frame)
         /\ Len(w) \in Nat /\ DOMAIN w = 1..Len(w)
         /\ \A i \in DOMAIN w : w[i] \in Frame
         /\ End(w, a) \in Nat /\ (w = <<>> => End(w, a) = a)
<1>1. /\ a \in Nat /\ old \in Nat /\ b \in Nat /\ w \in Seq(Frame)
      /\ Len(w) \in Nat /\ DOMAIN w = 1..Len(w)
  BY DEF Way
<1>2. \A i \in DOMAIN w : w[i] \in Frame
  BY <1>1, ElementOfSeq
<1>3. CASE Len(w) = 0
  BY <1>1, <1>2, <1>3 DEF End, FrameStart
<1>4. CASE Len(w) # 0
  <2>1. Len(w) \in DOMAIN w /\ Len(w) + 1 # 1 /\ Len(w) + 1 - 1 = Len(w) /\ w # <<>>
    BY <1>1, <1>4
  <2> QED BY <1>1, <1>2, <2>1 DEF End, FrameStart, Frame
<1> QED BY <1>3, <1>4

\* What is evicted later, or written later, does not break a way.
LEMMA WayWider ==
  ASSUME NEW w, NEW a, NEW old, NEW b, Way(w, a, old, b),
         NEW older \in Nat, old <= older, NEW c \in Nat, b <= c
  PROVE  Way(w, a, older, c)
<1>0. /\ a \in Nat /\ old \in Nat /\ b \in Nat /\ w \in Seq(Frame)
      /\ \A i \in DOMAIN w : w[i] \in Frame
  BY WayParts
<1>1. ASSUME NEW i \in DOMAIN w
      PROVE  /\ w[i].from <= w[i].cursor /\ w[i].cursor <= c
             /\ \/ w[i].from = FrameStart(w, a, i)
                \/ w[i].from = w[i].cursor /\ FrameStart(w, a, i) < w[i].cursor /\ w[i].cursor <= older
  <2>1. w[i].cursor \in Nat
    BY <1>0 DEF Frame
  <2> QED BY <1>0, <2>1 DEF Way
<1> QED BY <1>0, <1>1 DEF Way

\* One way goes on where another ends.
LEMMA WayConcat ==
  ASSUME NEW u, NEW v, NEW a, NEW old, NEW b,
         Way(u, a, old, b), Way(v, End(u, a), old, b)
  PROVE  Way(u \o v, a, old, b) /\ End(u \o v, a) = End(v, End(u, a))
<1> DEFINE w == u \o v
           e == End(u, a)
<1>0. /\ a \in Nat /\ old \in Nat /\ b \in Nat /\ e \in Nat
      /\ u \in Seq(Frame) /\ Len(u) \in Nat /\ DOMAIN u = 1..Len(u)
      /\ v \in Seq(Frame) /\ Len(v) \in Nat /\ DOMAIN v = 1..Len(v)
  BY WayParts
<1>1. /\ w \in Seq(Frame) /\ Len(w) = Len(u) + Len(v) /\ DOMAIN w = 1..(Len(u) + Len(v))
      /\ \A i \in 1..(Len(u) + Len(v)) : w[i] = IF i <= Len(u) THEN u[i] ELSE v[i - Len(u)]
  BY <1>0, ConcatProperties
<1> HIDE DEF w
<1>2. \A i \in 1..(Len(u) + 1) : FrameStart(w, a, i) = FrameStart(u, a, i)
  <2> SUFFICES ASSUME NEW i \in 1..(Len(u) + 1) PROVE FrameStart(w, a, i) = FrameStart(u, a, i)
    OBVIOUS
  <2>1. CASE i = 1
    BY <2>1 DEF FrameStart
  <2>2. CASE i # 1
    <3>1. i - 1 \in 1..(Len(u) + Len(v)) /\ i - 1 <= Len(u)
      BY <1>0, <2>2
    <3> QED BY <1>1, <2>2, <3>1 DEF FrameStart
  <2> QED BY <2>1, <2>2
<1>3. \A i \in 1..(Len(v) + 1) : FrameStart(w, a, Len(u) + i) = FrameStart(v, e, i)
  <2> SUFFICES ASSUME NEW i \in 1..(Len(v) + 1) PROVE FrameStart(w, a, Len(u) + i) = FrameStart(v, e, i)
    OBVIOUS
  <2>1. CASE i = 1
    <3>1. Len(u) + 1 \in 1..(Len(u) + 1)
      BY <1>0
    <3>2. FrameStart(w, a, Len(u) + 1) = e
      BY <1>2, <3>1 DEF End
    <3> HIDE DEF e
    <3> QED BY <2>1, <3>2 DEF FrameStart
  <2>2. CASE i # 1
    <3> HIDE DEF e
    <3>1. /\ Len(u) + i - 1 \in 1..(Len(u) + Len(v)) /\ ~(Len(u) + i - 1 <= Len(u))
          /\ Len(u) + i # 1 /\ (Len(u) + i - 1) - Len(u) = i - 1
      BY <1>0, <2>2
    <3>2. w[Len(u) + i - 1] = v[i - 1]
      BY <1>1, <3>1
    <3> QED BY <2>2, <3>1, <3>2 DEF FrameStart
  <2> QED BY <2>1, <2>2
<1>4. ASSUME NEW i \in DOMAIN w
      PROVE  /\ w[i].from <= w[i].cursor /\ w[i].cursor <= b
             /\ \/ w[i].from = FrameStart(w, a, i)
                \/ w[i].from = w[i].cursor /\ FrameStart(w, a, i) < w[i].cursor /\ w[i].cursor <= old
  <2>1. CASE i <= Len(u)
    <3>1. i \in DOMAIN u /\ w[i] = u[i] /\ i \in 1..(Len(u) + 1)
      BY <1>0, <1>1, <2>1
    <3>2. FrameStart(w, a, i) = FrameStart(u, a, i)
      BY <1>2, <3>1
    <3> QED BY <3>1, <3>2 DEF Way
  <2>2. CASE ~(i <= Len(u))
    <3>1. /\ i - Len(u) \in DOMAIN v /\ w[i] = v[i - Len(u)] /\ i - Len(u) \in 1..(Len(v) + 1)
          /\ Len(u) + (i - Len(u)) = i
      BY <1>0, <1>1, <2>2
    <3>2. FrameStart(w, a, i) = FrameStart(v, e, i - Len(u))
      BY <1>3, <3>1
    <3> QED BY <3>1, <3>2 DEF Way
  <2> QED BY <2>1, <2>2
<1>5. End(w, a) = End(v, e)
  <2>1. Len(v) + 1 \in 1..(Len(v) + 1) /\ Len(w) + 1 = Len(u) + (Len(v) + 1)
    BY <1>0, <1>1
  <2> QED BY <1>3, <2>1 DEF End
<1>6. Way(w, a, old, b)
  BY <1>0, <1>1, <1>4 DEF Way
<1> QED BY <1>5, <1>6 DEF w

\* A way of one envelope.
LEMMA WayOne ==
  ASSUME NEW a \in Nat, NEW old \in Nat, NEW b \in Nat, NEW f \in Nat, NEW c \in Nat,
         f <= c, c <= b, f = a \/ (f = c /\ a < c /\ c <= old)
  PROVE  Way(<<Chunk(f, c)>>, a, old, b) /\ End(<<Chunk(f, c)>>, a) = c
<1> DEFINE e == Chunk(f, c)
           w == <<e>>
<1>1. e \in Frame /\ e.from = f /\ e.cursor = c
  BY DEF Chunk, Frame
<1> HIDE DEF e
<1>2. w \in Seq(Frame) /\ Len(w) = 1 /\ DOMAIN w = {1} /\ w[1] = e
  BY <1>1
<1> HIDE DEF w
<1>3. End(w, a) = c
  BY <1>1, <1>2 DEF End, FrameStart
<1>4. Way(w, a, old, b)
  BY <1>1, <1>2 DEF Way, FrameStart
<1> QED BY <1>3, <1>4 DEF w, e

\* An envelope is sent that goes on where the others end.
LEMMA WayAppend ==
  ASSUME NEW w, NEW a, NEW old, NEW b, Way(w, a, old, b),
         NEW c \in Nat, End(w, a) <= c, c <= b
  PROVE  /\ Way(Append(w, Chunk(End(w, a), c)), a, old, b)
         /\ End(Append(w, Chunk(End(w, a), c)), a) = c
<1> DEFINE e == End(w, a)
<1>0. a \in Nat /\ old \in Nat /\ b \in Nat /\ e \in Nat /\ w \in Seq(Frame)
  BY WayParts
<1>1. Way(<<Chunk(e, c)>>, e, old, b) /\ End(<<Chunk(e, c)>>, e) = c
  <2> HIDE DEF e
  <2>1. e <= c
    BY DEF e
  <2> QED BY <1>0, <2>1, WayOne
<1>2. /\ Way(w \o <<Chunk(e, c)>>, a, old, b)
      /\ End(w \o <<Chunk(e, c)>>, a) = c
  BY <1>1, WayConcat
<1>3. Append(w, Chunk(e, c)) = w \o <<Chunk(e, c)>>
  <2>1. Chunk(e, c) \in Frame
    <3> HIDE DEF e
    <3> QED BY <1>0 DEF Chunk, Frame
  <2> HIDE DEF e
  <2> QED BY <1>0, <2>1, AppendIsConcat
<1> QED BY <1>2, <1>3

\* An envelope arrives: it goes on from the viewer's cursor, or passes over
\* what is gone, and the rest goes on from its end.
LEMMA WayTail ==
  ASSUME NEW w, NEW a, NEW old, NEW b, Way(w, a, old, b), w # <<>>
  PROVE  LET e == Head(w)
         IN /\ e \in Frame /\ e.from <= e.cursor /\ a <= e.cursor /\ e.cursor <= b
            /\ e.from = a \/ (e.from = e.cursor /\ a < e.cursor /\ e.cursor <= old)
            /\ Way(Tail(w), e.cursor, old, b) /\ End(Tail(w), e.cursor) = End(w, a)
<1> DEFINE e == Head(w)
           ts == Tail(w)
<1>0. /\ a \in Nat /\ old \in Nat /\ b \in Nat /\ w \in Seq(Frame)
      /\ Len(w) \in Nat /\ DOMAIN w = 1..Len(w) /\ \A i \in DOMAIN w : w[i] \in Frame
  BY WayParts
<1>1. Len(w) # 0 /\ 1 \in DOMAIN w /\ e = w[1]
  <2>1. Len(w) # 0
    BY <1>0, EmptySeq
  <2> QED BY <1>0, <2>1
<1>2. /\ ts \in Seq(Frame) /\ Len(ts) = Len(w) - 1 /\ DOMAIN ts = 1..(Len(w) - 1)
      /\ \A i \in 1..Len(ts) : ts[i] = w[i + 1]
  BY <1>0, HeadTailProperties
<1> HIDE DEF e, ts
<1>3. /\ e \in Frame /\ e.from \in Nat /\ e.cursor \in Nat
      /\ e.from <= e.cursor /\ e.cursor <= b
      /\ e.from = a \/ (e.from = e.cursor /\ a < e.cursor /\ e.cursor <= old)
  <2>1. e \in Frame /\ FrameStart(w, a, 1) = a
    BY <1>0, <1>1 DEF FrameStart
  <2> QED BY <1>1, <2>1 DEF Way, Frame
<1>4. a <= e.cursor
  BY <1>0, <1>3
<1>5. \A i \in 1..(Len(ts) + 1) : FrameStart(ts, e.cursor, i) = FrameStart(w, a, i + 1)
  <2> SUFFICES ASSUME NEW i \in 1..(Len(ts) + 1) PROVE FrameStart(ts, e.cursor, i) = FrameStart(w, a, i + 1)
    OBVIOUS
  <2>1. CASE i = 1
    BY <1>1, <2>1 DEF FrameStart
  <2>2. CASE i # 1
    <3>1. i - 1 \in 1..Len(ts) /\ i - 1 + 1 = i /\ i + 1 - 1 = i /\ i + 1 # 1
      BY <1>0, <1>2, <2>2
    <3>2. ts[i - 1] = w[i + 1 - 1]
      BY <1>2, <3>1
    <3> QED BY <2>2, <3>1, <3>2 DEF FrameStart
  <2> QED BY <2>1, <2>2
<1>6. ASSUME NEW i \in DOMAIN ts
      PROVE  /\ ts[i].from <= ts[i].cursor /\ ts[i].cursor <= b
             /\ \/ ts[i].from = FrameStart(ts, e.cursor, i)
                \/ /\ ts[i].from = ts[i].cursor /\ FrameStart(ts, e.cursor, i) < ts[i].cursor
                   /\ ts[i].cursor <= old
  <2>1. i \in 1..(Len(ts) + 1) /\ i + 1 \in DOMAIN w /\ i \in 1..Len(ts)
    BY <1>0, <1>2
  <2>2. ts[i] = w[i + 1] /\ FrameStart(ts, e.cursor, i) = FrameStart(w, a, i + 1)
    BY <1>2, <1>5, <2>1
  <2> QED BY <2>1, <2>2 DEF Way
<1>7. Way(ts, e.cursor, old, b)
  BY <1>0, <1>2, <1>3, <1>6 DEF Way
<1>8. End(ts, e.cursor) = End(w, a)
  <2>1. Len(ts) + 1 \in 1..(Len(ts) + 1) /\ Len(ts) + 1 + 1 = Len(w) + 1
    BY <1>0, <1>1, <1>2
  <2> QED BY <1>5, <2>1 DEF End
<1> QED BY <1>3, <1>4, <1>7, <1>8 DEF e, ts

-----------------------------------------------------------------------------
(* The stream's operations.                                                *)

\* trimTerminalStreamToCapacity.
LEMMA TrimKeeps ==
  ASSUME NEW s, StreamOK(s), s.frames # <<>>
  PROVE  LET t == trimToCapacity(s)
         IN StreamOK(t) /\ t.cursor = s.cursor /\ s.oldest <= t.oldest
<1> DEFINE fs == s.frames
           Oldest(i) == FrameStart(fs, s.oldest, i)
           T == {i \in DOMAIN fs : i = Len(fs) \/ s.cursor - Oldest(i) <= Capacity}
           k == Min(T)
           t == trimToCapacity(s)
<1>0. /\ s \in [cursor : Nat, oldest : Nat, frames : Seq(Frame)] /\ Tiles(fs, s.oldest, s.cursor)
      /\ fs \in Seq(Frame) /\ Len(fs) \in Nat /\ DOMAIN fs = 1..Len(fs) /\ Len(fs) # 0
  <2>1. fs \in Seq(Frame) /\ Tiles(fs, s.oldest, s.cursor)
    BY DEF StreamOK
  <2>2. Len(fs) # 0
    BY <2>1, EmptySeq
  <2> QED BY <2>1, <2>2 DEF StreamOK
<1>1. t = [s EXCEPT !.oldest = Oldest(k), !.frames = SubSeq(fs, k, Len(fs))]
  BY DEF trimToCapacity
<1>2. k \in DOMAIN fs
  <2>1. T \in SUBSET Nat /\ Len(fs) \in T
    BY <1>0
  <2>2. k \in T
    <3> HIDE DEF T
    <3> QED BY <2>1, MinIsLeast
  <2> QED BY <2>2
<1> HIDE DEF k
<1>3. Tiles(SubSeq(fs, k, Len(fs)), Oldest(k), s.cursor)
  <2> HIDE DEF fs
  <2> QED BY <1>0, <1>2, TilesSuffix
<1>4. Oldest(k) \in Nat /\ s.oldest <= Oldest(k) /\ Oldest(k) <= s.cursor
  <2>1. k \in 1..(Len(fs) + 1)
    BY <1>0, <1>2
  <2>2. Oldest(k) \in Nat /\ s.oldest <= Oldest(k)
    <3> HIDE DEF fs
    <3> QED BY <1>0, <2>1, TilesAbove
  <2>3. Oldest(k) <= s.cursor
    BY <1>3, TilesAbove
  <2> QED BY <2>2, <2>3
<1>5. SubSeq(fs, k, Len(fs)) \in Seq(Frame)
  BY <1>3 DEF Tiles
<1> HIDE DEF fs, Oldest
<1>6. /\ t \in [cursor : Nat, oldest : Nat, frames : Seq(Frame)]
      /\ t.cursor = s.cursor /\ t.oldest = Oldest(k) /\ t.frames = SubSeq(fs, k, Len(fs))
  BY <1>0, <1>1, <1>4, <1>5
<1> QED BY <1>3, <1>4, <1>6 DEF StreamOK, t

\* appendTerminalStreamData.
LEMMA AppendKeeps ==
  ASSUME NEW s, StreamOK(s), NEW n \in Nat \ {0}
  PROVE  LET t == appendData(s, n)
         IN StreamOK(t) /\ t.cursor = s.cursor + n /\ s.oldest <= t.oldest
<1> DEFINE c == s.cursor + n
           fs == Append(s.frames, Chunk(s.cursor, c))
           r == [s EXCEPT !.cursor = c, !.frames = fs]
<1>0. /\ s \in [cursor : Nat, oldest : Nat, frames : Seq(Frame)] /\ s.oldest <= s.cursor
      /\ Tiles(s.frames, s.oldest, s.cursor) /\ c \in Nat /\ c > s.cursor
      /\ s.oldest \in Nat /\ s.cursor \in Nat /\ s.frames \in Seq(Frame)
  BY DEF StreamOK
<1>1. appendData(s, n) = trimToCapacity(r)
  BY DEF appendData
<1> HIDE DEF c
<1>2. Tiles(fs, s.oldest, c)
  BY <1>0, TilesAppend
<1>3. fs \in Seq(Frame) /\ fs # <<>>
  <2>1. Chunk(s.cursor, c) \in Frame
    BY <1>0 DEF Chunk, Frame
  <2> QED BY <1>0, <2>1, AppendProperties
<1> HIDE DEF fs
<1>4. /\ r \in [cursor : Nat, oldest : Nat, frames : Seq(Frame)]
      /\ r.cursor = c /\ r.oldest = s.oldest /\ r.frames = fs
  BY <1>0, <1>3
<1> HIDE DEF r
<1>5. StreamOK(r) /\ r.frames # <<>>
  BY <1>0, <1>2, <1>3, <1>4 DEF StreamOK
<1> QED BY <1>1, <1>4, <1>5, TrimKeeps DEF c

\* dropTerminalStreamPrefixBytes.
LEMMA DropKeeps ==
  ASSUME NEW s, StreamOK(s), NEW n \in Nat
  PROVE  LET t == dropPrefixBytes(s, n)
         IN StreamOK(t) /\ t.cursor = s.cursor /\ s.oldest <= t.oldest
            /\ t.oldest = Min2(s.cursor, s.oldest + n)
<1> DEFINE x == Min2(s.cursor, s.oldest + n)
           fs == FramesAfter(s.frames, x)
           t == dropPrefixBytes(s, n)
<1>0. /\ s \in [cursor : Nat, oldest : Nat, frames : Seq(Frame)] /\ s.oldest <= s.cursor
      /\ Tiles(s.frames, s.oldest, s.cursor)
      /\ s.oldest \in Nat /\ s.cursor \in Nat /\ s.frames \in Seq(Frame)
  BY DEF StreamOK
<1>1. x \in Nat /\ s.oldest <= x /\ x <= s.cursor
  BY <1>0 DEF Min2
<1>2. t = [s EXCEPT !.oldest = x, !.frames = fs]
  BY DEF dropPrefixBytes
<1> HIDE DEF x
<1>3. Tiles(fs, x, s.cursor)
  BY <1>0, <1>1, TilesAfter
<1>4. fs \in Seq(Frame)
  BY <1>3 DEF Tiles
<1> HIDE DEF fs
<1>5. /\ t \in [cursor : Nat, oldest : Nat, frames : Seq(Frame)]
      /\ t.cursor = s.cursor /\ t.oldest = x /\ t.frames = fs
  BY <1>0, <1>1, <1>2, <1>4
<1> QED BY <1>1, <1>3, <1>5 DEF StreamOK, t, x

\* buildTerminalStreamReplay: from the cursor asked for to the head.
LEMMA ReplayIsWay ==
  ASSUME NEW s, StreamOK(s), NEW r \in Nat, r <= s.cursor
  PROVE  Way(replayFrom(s, r), r, s.oldest, s.cursor) /\ End(replayFrom(s, r), r) = s.cursor
<1> DEFINE x == Max2(s.oldest, Min2(r, s.cursor))
           fs == FramesAfter(s.frames, x)
           c == s.cursor
           old == s.oldest
<1>0. old \in Nat /\ c \in Nat /\ old <= c /\ Tiles(s.frames, old, c)
  BY DEF StreamOK
<1>1. x \in Nat /\ old <= x /\ x <= c /\ (x = r \/ (r < x /\ x <= old))
  BY <1>0 DEF Max2, Min2
<1>2. replayFrom(s, r) = <<Chunk(x, x)>> \o fs \o <<Chunk(c, c)>>
  BY DEF replayFrom, Mark
<1> HIDE DEF x
<1>3. Tiles(fs, x, c)
  BY <1>0, <1>1, TilesAfter
<1> HIDE DEF fs, c, old
<1>4. Way(<<Chunk(x, x)>>, r, old, c) /\ End(<<Chunk(x, x)>>, r) = x
  BY <1>0, <1>1, WayOne
<1>5. Way(fs, x, old, c) /\ End(fs, x) = c
  BY <1>0, <1>3, TilesAreWay
<1>6. Way(<<Chunk(x, x)>> \o fs, r, old, c) /\ End(<<Chunk(x, x)>> \o fs, r) = c
  BY <1>4, <1>5, WayConcat
<1>7. Way(<<Chunk(c, c)>>, c, old, c) /\ End(<<Chunk(c, c)>>, c) = c
  BY <1>0, WayOne
<1>8. /\ Way((<<Chunk(x, x)>> \o fs) \o <<Chunk(c, c)>>, r, old, c)
      /\ End((<<Chunk(x, x)>> \o fs) \o <<Chunk(c, c)>>, r) = c
  BY <1>6, <1>7, WayConcat
<1> QED BY <1>2, <1>8 DEF c, old

-----------------------------------------------------------------------------
(* The invariant.                                                          *)

\* A way never leads past the head.
LEMMA EndIsBelow ==
  ASSUME NEW w, NEW a, NEW old, NEW b, Way(w, a, old, b), a <= b
  PROVE  End(w, a) <= b
<1>0. Len(w) \in Nat /\ DOMAIN w = 1..Len(w) /\ (w = <<>> => End(w, a) = a) /\ w \in Seq(Frame)
  BY WayParts
<1>1. CASE w = <<>>
  BY <1>0, <1>1
<1>2. CASE w # <<>>
  <2>1. Len(w) # 0
    BY <1>0, <1>2, EmptySeq
  <2>2. Len(w) \in DOMAIN w /\ Len(w) + 1 # 1 /\ Len(w) + 1 - 1 = Len(w)
    BY <1>0, <2>1
  <2> QED BY <2>2 DEF Way, End, FrameStart
<1> QED BY <1>1, <1>2

\* Whatever the lane does with an envelope that ends at the head of s, it
\* still knows where it has to go on.
LEMMA DeliverKeeps ==
  ASSUME TerminalInv, NEW s, StreamOK(s), NEW level,
         stream.cursor <= s.cursor, stream.oldest <= s.oldest,
         deliverTerminalEnvelope(s, Chunk(stream.cursor, s.cursor), level)
  PROVE  /\ lane' \in [open : BOOLEAN, lagging : BOOLEAN, gap : Nat]
         /\ lane'.open => lane.open
         /\ ~lane.open => wire' = wire
         /\ Way(wire', viewer.cursor, s.oldest, s.cursor)
         /\ lane'.open /\ ~lane'.lagging => End(wire', viewer.cursor) = s.cursor
         /\ lane'.open /\ lane'.lagging => lane'.gap = End(wire', viewer.cursor)
<1> DEFINE v == viewer.cursor
           e == Chunk(stream.cursor, s.cursor)
<1>0. /\ lane \in [open : BOOLEAN, lagging : BOOLEAN, gap : Nat]
      /\ v \in Nat /\ v <= stream.cursor
      /\ Way(wire, v, stream.oldest, stream.cursor)
      /\ lane.open /\ ~lane.lagging => End(wire, v) = stream.cursor
      /\ lane.open /\ lane.lagging => lane.gap = End(wire, v)
      /\ stream.cursor \in Nat /\ stream.oldest \in Nat /\ s.cursor \in Nat /\ s.oldest \in Nat
  BY DEF TerminalInv, StreamOK
<1>1. Way(wire, v, s.oldest, s.cursor)
  <2> HIDE DEF v
  <2> QED BY <1>0, WayWider
<1>2. e.from = stream.cursor /\ e.cursor = s.cursor
  BY DEF Chunk
<1>3. End(wire, v) \in Nat /\ End(wire, v) <= stream.cursor /\ End(wire, v) <= s.cursor
  <2> HIDE DEF v
  <2>1. End(wire, v) \in Nat /\ End(wire, v) <= stream.cursor
    BY <1>0, WayParts, EndIsBelow
  <2> QED BY <1>0, <2>1
<1> HIDE DEF v, e
<1>4. \/ ~lane.open /\ lane' = lane /\ wire' = wire
      \/ lane.open /\ lane' = [lane EXCEPT !.open = FALSE] /\ wire' = wire
      \/ /\ lane.open /\ lane.lagging /\ lane' = [lane EXCEPT !.lagging = FALSE]
         /\ wire' = wire \o replayFrom(s, lane.gap)
      \/ lane.open /\ lane.lagging /\ lane' = lane /\ wire' = wire
      \/ /\ lane.open /\ ~lane.lagging /\ lane' = [lane EXCEPT !.lagging = TRUE, !.gap = stream.cursor]
         /\ wire' = wire
      \/ lane.open /\ ~lane.lagging /\ lane' = lane /\ wire' = Append(wire, e)
  BY <1>2 DEF deliverTerminalEnvelope, e
<1>5. CASE ~lane.open /\ lane' = lane /\ wire' = wire
  BY <1>0, <1>1, <1>5 DEF v
<1>6. CASE lane.open /\ lane' = [lane EXCEPT !.open = FALSE] /\ wire' = wire
  <2>1. lane' \in [open : BOOLEAN, lagging : BOOLEAN, gap : Nat] /\ ~lane'.open
    BY <1>0, <1>6
  <2> QED BY <1>1, <1>6, <2>1 DEF v
<1>7. CASE /\ lane.open /\ lane.lagging /\ lane' = [lane EXCEPT !.lagging = FALSE]
           /\ wire' = wire \o replayFrom(s, lane.gap)
  <2>1. lane' \in [open : BOOLEAN, lagging : BOOLEAN, gap : Nat] /\ lane'.open /\ ~lane'.lagging
    BY <1>0, <1>7
  <2>2. lane.gap = End(wire, v)
    BY <1>0, <1>7
  <2>3. /\ Way(replayFrom(s, lane.gap), End(wire, v), s.oldest, s.cursor)
        /\ End(replayFrom(s, lane.gap), End(wire, v)) = s.cursor
    BY <1>3, <2>2, ReplayIsWay
  <2>4. /\ Way(wire \o replayFrom(s, lane.gap), v, s.oldest, s.cursor)
        /\ End(wire \o replayFrom(s, lane.gap), v) = s.cursor
    BY <1>1, <2>3, WayConcat
  <2> QED BY <1>7, <2>1, <2>4 DEF v
<1>8. CASE lane.open /\ lane.lagging /\ lane' = lane /\ wire' = wire
  BY <1>0, <1>1, <1>8 DEF v
<1>9. CASE /\ lane.open /\ ~lane.lagging /\ lane' = [lane EXCEPT !.lagging = TRUE, !.gap = stream.cursor]
           /\ wire' = wire
  <2>1. /\ lane' \in [open : BOOLEAN, lagging : BOOLEAN, gap : Nat]
        /\ lane'.open /\ lane'.lagging /\ lane'.gap = stream.cursor
    BY <1>0, <1>9
  <2>2. stream.cursor = End(wire, v)
    BY <1>0, <1>9
  <2> QED BY <1>1, <1>9, <2>1, <2>2 DEF v
<1>10. CASE lane.open /\ ~lane.lagging /\ lane' = lane /\ wire' = Append(wire, e)
  <2>1. e = Chunk(End(wire, v), s.cursor)
    BY <1>0, <1>10 DEF e
  <2>2. Way(Append(wire, e), v, s.oldest, s.cursor) /\ End(Append(wire, e), v) = s.cursor
    BY <1>0, <1>1, <1>3, <2>1, WayAppend
  <2> QED BY <1>0, <1>10, <2>2 DEF v
<1> QED BY <1>4, <1>5, <1>6, <1>7, <1>8, <1>9, <1>10

LEMMA InvInit == TerminalInit => TerminalInv
<1> SUFFICES ASSUME TerminalInit PROVE TerminalInv
  OBVIOUS
<1>1. <<>> \in Seq(Frame) /\ <<>> \in Seq(Nat) /\ Len(<<>>) = 0 /\ DOMAIN <<>> = {}
  OBVIOUS
<1>2. Tiles(<<>>, 0, 0) /\ Way(<<>>, 0, 0, 0)
  BY <1>1 DEF Tiles, Way, FrameStart
<1>3. /\ stream \in [cursor : Nat, oldest : Nat, frames : Seq(Frame)]
      /\ stream.cursor = 0 /\ stream.oldest = 0 /\ stream.frames = <<>>
  BY <1>1 DEF TerminalInit
<1>4. lane \in [open : BOOLEAN, lagging : BOOLEAN, gap : Nat] /\ ~lane.open
  BY DEF TerminalInit
<1>5. viewer \in [cursor : Nat, up : BOOLEAN, got : Seq(Nat)] /\ viewer.cursor = 0
  BY <1>1 DEF TerminalInit
<1>6. wire = <<>>
  BY DEF TerminalInit
<1> QED BY <1>2, <1>3, <1>4, <1>5, <1>6 DEF TerminalInv, StreamOK

LEMMA InvStep == TerminalInv /\ [TerminalNext]_terminalVars => TerminalInv'
<1> SUFFICES ASSUME TerminalInv, [TerminalNext]_terminalVars PROVE TerminalInv'
  OBVIOUS
<1> USE TerminalConstants
<1>0. /\ StreamOK(stream) /\ stream.cursor \in Nat /\ stream.oldest \in Nat
      /\ lane \in [open : BOOLEAN, lagging : BOOLEAN, gap : Nat]
      /\ viewer \in [cursor : Nat, up : BOOLEAN, got : Seq(Nat)]
      /\ viewer.cursor <= stream.cursor /\ viewer.cursor \in Nat
      /\ Way(wire, viewer.cursor, stream.oldest, stream.cursor)
      /\ lane.open => viewer.up
      /\ ~viewer.up => wire = <<>>
      /\ lane.open /\ ~lane.lagging => End(wire, viewer.cursor) = stream.cursor
      /\ lane.open /\ lane.lagging => lane.gap = End(wire, viewer.cursor)
  BY DEF TerminalInv, StreamOK
<1>1. ASSUME NEW n \in 1..MaxChunk, NEW level \in Levels, Output(n, level)
      PROVE  TerminalInv'
  <2>1. n \in Nat \ {0} /\ stream' = appendData(stream, n) /\ viewer' = viewer
    BY <1>1 DEF Output
  <2>2. /\ StreamOK(stream') /\ stream'.cursor = stream.cursor + n
        /\ stream.oldest <= stream'.oldest
    BY <1>0, <2>1, AppendKeeps
  <2>3. stream.cursor <= stream'.cursor /\ viewer.cursor <= stream'.cursor
    BY <1>0, <2>1, <2>2
  <2>4. deliverTerminalEnvelope(stream', Chunk(stream.cursor, stream'.cursor), level)
    BY <1>1, <2>2 DEF Output
  <2>5. /\ lane' \in [open : BOOLEAN, lagging : BOOLEAN, gap : Nat]
        /\ lane'.open => lane.open
        /\ ~lane.open => wire' = wire
        /\ Way(wire', viewer.cursor, stream'.oldest, stream'.cursor)
        /\ lane'.open /\ ~lane'.lagging => End(wire', viewer.cursor) = stream'.cursor
        /\ lane'.open /\ lane'.lagging => lane'.gap = End(wire', viewer.cursor)
    BY <2>2, <2>3, <2>4, DeliverKeeps
  <2> QED BY <1>0, <2>1, <2>2, <2>3, <2>5 DEF TerminalInv
<1>2. ASSUME NEW level \in Levels, Resize(level)
      PROVE  TerminalInv'
  <2>1. stream' = stream /\ viewer' = viewer
    BY <1>2 DEF Resize
  <2>2. deliverTerminalEnvelope(stream, Chunk(stream.cursor, stream.cursor), level)
    BY <1>2 DEF Resize, Mark
  <2>3. /\ lane' \in [open : BOOLEAN, lagging : BOOLEAN, gap : Nat]
        /\ lane'.open => lane.open
        /\ ~lane.open => wire' = wire
        /\ Way(wire', viewer.cursor, stream.oldest, stream.cursor)
        /\ lane'.open /\ ~lane'.lagging => End(wire', viewer.cursor) = stream.cursor
        /\ lane'.open /\ lane'.lagging => lane'.gap = End(wire', viewer.cursor)
    BY <1>0, <2>2, DeliverKeeps
  <2> QED BY <1>0, <2>1, <2>3 DEF TerminalInv
<1>3. ASSUME NEW n \in 1..MaxBytes, GlobalTrim(n)
      PROVE  TerminalInv'
  <2>1. n \in Nat /\ stream' = dropPrefixBytes(stream, n) /\ lane' = lane /\ wire' = wire /\ viewer' = viewer
    BY <1>3 DEF GlobalTrim
  <2>2. StreamOK(stream') /\ stream'.cursor = stream.cursor /\ stream.oldest <= stream'.oldest
    BY <1>0, <2>1, DropKeeps
  <2>3. stream'.cursor \in Nat /\ stream'.oldest \in Nat
    BY <2>2 DEF StreamOK
  <2>4. Way(wire, viewer.cursor, stream'.oldest, stream'.cursor)
    BY <1>0, <2>2, <2>3, WayWider
  <2> QED BY <1>0, <2>1, <2>2, <2>4 DEF TerminalInv
<1>4. ASSUME Connect PROVE TerminalInv'
  <2>1. stream' = stream /\ wire' = replayFrom(stream, viewer.cursor)
    BY <1>4 DEF Connect
  <2>2. /\ viewer' \in [cursor : Nat, up : BOOLEAN, got : Seq(Nat)]
        /\ viewer'.cursor = viewer.cursor /\ viewer'.up
    BY <1>0, <1>4 DEF Connect
  <2>3. lane' \in [open : BOOLEAN, lagging : BOOLEAN, gap : Nat] /\ ~lane'.lagging
    BY <1>4 DEF Connect
  <2>4. /\ Way(wire', viewer.cursor, stream.oldest, stream.cursor)
        /\ End(wire', viewer.cursor) = stream.cursor
    BY <1>0, <2>1, ReplayIsWay
  <2> QED BY <1>0, <2>1, <2>2, <2>3, <2>4 DEF TerminalInv
<1>5. ASSUME Receive PROVE TerminalInv'
  <2> DEFINE e == Head(wire)
             bytes == [i \in 1..(e.cursor - e.from) |-> e.from + i]
  <2>1. /\ stream' = stream /\ lane' = lane /\ viewer.up /\ wire # <<>> /\ wire' = Tail(wire)
        /\ viewer' = [viewer EXCEPT !.cursor = Max2(viewer.cursor, e.cursor), !.got = viewer.got \o bytes]
    BY <1>5 DEF Receive
  <2>2. /\ e \in Frame /\ e.from <= e.cursor /\ viewer.cursor <= e.cursor /\ e.cursor <= stream.cursor
        /\ Way(wire', e.cursor, stream.oldest, stream.cursor)
        /\ End(wire', e.cursor) = End(wire, viewer.cursor)
    BY <1>0, <2>1, WayTail
  <2> HIDE DEF e
  <2>3. e.cursor \in Nat /\ e.from \in Nat /\ e.cursor - e.from \in Nat /\ Max2(viewer.cursor, e.cursor) = e.cursor
    BY <1>0, <2>2 DEF Frame, Max2
  <2>4. viewer.got \o bytes \in Seq(Nat)
    <3>1. bytes \in Seq(Nat)
      BY <2>3
    <3> HIDE DEF bytes
    <3> QED BY <1>0, <3>1
  <2> HIDE DEF bytes
  <2>5. /\ viewer' \in [cursor : Nat, up : BOOLEAN, got : Seq(Nat)]
        /\ viewer'.cursor = e.cursor /\ viewer'.up
    BY <1>0, <2>1, <2>3, <2>4
  <2> QED BY <1>0, <2>1, <2>2, <2>5 DEF TerminalInv
<1>6. ASSUME Disconnect PROVE TerminalInv'
  <2>1. stream' = stream /\ wire' = <<>>
    BY <1>6 DEF Disconnect
  <2>2. /\ viewer' \in [cursor : Nat, up : BOOLEAN, got : Seq(Nat)]
        /\ viewer'.cursor = viewer.cursor /\ ~viewer'.up
    BY <1>0, <1>6 DEF Disconnect
  <2>3. lane' \in [open : BOOLEAN, lagging : BOOLEAN, gap : Nat] /\ ~lane'.open
    BY <1>0, <1>6 DEF Disconnect
  <2>4. Way(<<>>, viewer.cursor, stream.oldest, stream.cursor)
    <3>1. <<>> \in Seq(Frame) /\ DOMAIN <<>> = {}
      OBVIOUS
    <3> QED BY <1>0, <3>1 DEF Way
  <2> QED BY <1>0, <2>1, <2>2, <2>3, <2>4 DEF TerminalInv
<1>7. CASE UNCHANGED terminalVars
  BY <1>0, <1>7 DEF terminalVars, TerminalInv
<1> QED BY <1>1, <1>2, <1>3, <1>4, <1>5, <1>6, <1>7 DEF TerminalNext

LEMMA TerminalInvariant == TerminalSpec => []TerminalInv
BY InvInit, InvStep, PTL DEF TerminalSpec

-----------------------------------------------------------------------------
(* The theorems.                                                           *)

\* session-replay.ts: whatever is written and trimmed, the retained frames are
\* exactly the bytes from the oldest to the cursor.
THEOREM RetainedFramesTile == TerminalSpec => []FramesTile
<1>1. TerminalInv => FramesTile
  <2> SUFFICES ASSUME TerminalInv PROVE FramesTile
    OBVIOUS
  <2>1. StreamOK(stream)
    BY DEF TerminalInv
  <2>2. stream.oldest \in 0..stream.cursor
    BY <2>1 DEF StreamOK
  <2> QED BY <2>1, <2>2 DEF StreamOK, Tiles, FramesTile
<1> QED BY <1>1, TerminalInvariant, PTL

\* ws-backpressure.ts: an open subscriber that does not lag and to whom nothing
\* is on its way is at the head of the stream, however often it lagged.
THEOREM QuietSubscriberCaughtUp == TerminalSpec => []QuietCaughtUp
<1>1. TerminalInv => QuietCaughtUp
  <2> SUFFICES ASSUME TerminalInv, viewer.up /\ lane.open /\ ~lane.lagging /\ wire = <<>>
               PROVE  viewer.cursor = stream.cursor
    BY DEF QuietCaughtUp
  <2>1. /\ Way(wire, viewer.cursor, stream.oldest, stream.cursor)
        /\ End(wire, viewer.cursor) = stream.cursor
    BY DEF TerminalInv
  <2> QED BY <2>1, WayParts
<1> QED BY <1>1, TerminalInvariant, PTL

\* Every step of the terminal is a step of ReliableStream: the viewer passes
\* over a byte only once the hub has dropped it, and is shown none twice.
THEOREM TerminalKeepsPromise == TerminalSpec => ReliablyShown
<1> USE TerminalConstants
<1>1. TerminalInit => Promise!StreamInit
  BY DEF TerminalInit, Promise!StreamInit
<1>2. TerminalInv /\ TerminalInv' /\ [TerminalNext]_terminalVars =>
        [Promise!Produce \/ Promise!Evict \/ Promise!Show \/ Promise!Skip]_Promise!streamVars
  <2> SUFFICES ASSUME TerminalInv, TerminalInv', [TerminalNext]_terminalVars
               PROVE  \/ Promise!Produce \/ Promise!Evict \/ Promise!Show \/ Promise!Skip
                      \/ UNCHANGED Promise!streamVars
    OBVIOUS
  <2>0. /\ StreamOK(stream) /\ StreamOK(stream')
        /\ stream.cursor \in Nat /\ stream.oldest \in Nat
        /\ stream'.cursor \in Nat /\ stream'.oldest \in Nat /\ stream'.oldest <= stream'.cursor
        /\ viewer \in [cursor : Nat, up : BOOLEAN, got : Seq(Nat)] /\ viewer.cursor \in Nat
        /\ Way(wire, viewer.cursor, stream.oldest, stream.cursor)
    BY DEF TerminalInv, StreamOK
  <2>1. ASSUME NEW n \in 1..MaxChunk, NEW level \in Levels, Output(n, level)
        PROVE  Promise!Produce
    <3>1. n \in Nat \ {0} /\ stream' = appendData(stream, n) /\ viewer' = viewer
      BY <2>1 DEF Output
    <3>2. stream'.cursor = stream.cursor + n /\ stream.oldest <= stream'.oldest
      BY <2>0, <3>1, AppendKeeps
    <3> QED BY <2>0, <3>1, <3>2 DEF Promise!Produce
  <2>2. ASSUME NEW level \in Levels, Resize(level)
        PROVE  UNCHANGED Promise!streamVars
    BY <2>2 DEF Resize, Promise!streamVars
  <2>3. ASSUME NEW n \in 1..MaxBytes, GlobalTrim(n)
        PROVE  Promise!Evict
    <3>1. /\ n \in Nat \ {0} /\ n <= stream.cursor - stream.oldest
          /\ stream' = dropPrefixBytes(stream, n) /\ viewer' = viewer
      BY <2>0, <2>3 DEF GlobalTrim
    <3>2. stream'.cursor = stream.cursor /\ stream'.oldest = Min2(stream.cursor, stream.oldest + n)
      BY <2>0, <3>1, DropKeeps
    <3>3. stream'.oldest \in (stream.oldest + 1)..stream.cursor
      BY <2>0, <3>1, <3>2 DEF Min2
    <3> QED BY <3>1, <3>2, <3>3 DEF Promise!Evict
  <2>4. ASSUME Connect PROVE UNCHANGED Promise!streamVars
    <3>1. stream' = stream /\ viewer'.cursor = viewer.cursor /\ viewer'.got = viewer.got
      BY <2>0, <2>4 DEF Connect
    <3> QED BY <3>1 DEF Promise!streamVars
  <2>5. ASSUME Receive PROVE Promise!Show \/ Promise!Skip \/ UNCHANGED Promise!streamVars
    <3> DEFINE e == Head(wire)
               bytes == [i \in 1..(e.cursor - e.from) |-> e.from + i]
    <3>1. /\ stream' = stream /\ wire # <<>>
          /\ viewer' = [viewer EXCEPT !.cursor = Max2(viewer.cursor, e.cursor), !.got = viewer.got \o bytes]
      BY <2>5 DEF Receive
    <3>2. /\ e \in Frame /\ e.from <= e.cursor /\ viewer.cursor <= e.cursor /\ e.cursor <= stream.cursor
          /\ e.from = viewer.cursor \/ (e.from = e.cursor /\ viewer.cursor < e.cursor /\ e.cursor <= stream.oldest)
      BY <2>0, <3>1, WayTail
    <3> HIDE DEF e
    <3>3. e.cursor \in Nat /\ e.from \in Nat /\ Max2(viewer.cursor, e.cursor) = e.cursor
      BY <2>0, <3>2 DEF Frame, Max2
    <3> HIDE DEF bytes
    <3>4. viewer'.cursor = e.cursor /\ viewer'.got = viewer.got \o bytes
      BY <2>0, <3>1, <3>3
    <3>5. ASSUME e.from = e.cursor PROVE viewer'.got = viewer.got
      <4>1. e.cursor - e.from = 0
        BY <3>3, <3>5
      <4>2. bytes = <<>>
        BY <4>1 DEF bytes
      <4>3. viewer.got \in Seq(Nat) /\ viewer.got \o <<>> = viewer.got
        BY <2>0
      <4> QED BY <3>4, <4>2, <4>3
    <3>6. CASE e.from = viewer.cursor /\ e.from = e.cursor
      BY <3>1, <3>4, <3>5, <3>6 DEF Promise!streamVars
    <3>7. CASE e.from = viewer.cursor /\ e.from # e.cursor
      <4>1. viewer'.cursor \in (viewer.cursor + 1)..stream.cursor
        BY <2>0, <3>2, <3>3, <3>4, <3>7
      <4>2. bytes = [i \in 1..(viewer'.cursor - viewer.cursor) |-> viewer.cursor + i]
        BY <3>4, <3>7 DEF bytes
      <4> QED BY <3>1, <3>4, <4>1, <4>2 DEF Promise!Show
    <3>8. CASE e.from = e.cursor /\ viewer.cursor < e.cursor /\ e.cursor <= stream.oldest
      <4>1. viewer'.cursor \in (viewer.cursor + 1)..stream.oldest
        BY <2>0, <3>3, <3>4, <3>8
      <4> QED BY <3>1, <3>5, <3>8, <4>1 DEF Promise!Skip
    <3> QED BY <3>2, <3>6, <3>7, <3>8
  <2>6. ASSUME Disconnect PROVE UNCHANGED Promise!streamVars
    <3>1. stream' = stream /\ viewer'.cursor = viewer.cursor /\ viewer'.got = viewer.got
      BY <2>0, <2>6 DEF Disconnect
    <3> QED BY <3>1 DEF Promise!streamVars
  <2>7. CASE UNCHANGED terminalVars
    BY <2>7 DEF terminalVars, Promise!streamVars
  <2> QED BY <2>1, <2>2, <2>3, <2>4, <2>5, <2>6, <2>7 DEF TerminalNext
<1> QED BY <1>1, <1>2, TerminalInvariant, PTL DEF TerminalSpec, ReliablyShown, Promise!StreamSpec
=============================================================================
