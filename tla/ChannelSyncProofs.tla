------------------------- MODULE ChannelSyncProofs -------------------------
(***************************************************************************)
(* The channel from its log to a browser, for any limits, any number of    *)
(* rows, faults and loads of older pages.                                  *)
(*                                                                         *)
(* What a browser shows it got from an event or a page, and these from the *)
(* log as it was. Rows change in place, but never their version without    *)
(* growing, so that every copy of a row, in the timeline, in a page, in    *)
(* the socket or held for a tick, is a version that the log has reached    *)
(* (Logged). A row is sent only as the log has it (Current), so what is on *)
(* its way is never older than what was sent before it (SocketInOrder).    *)
(* Without a merge of an older page, the timeline stays one run of the log *)
(* (WindowInv), and what is streamed is joined on to where its row ends    *)
(* (ChunkInv). A copy of a row's current version has its text (CopyInv),   *)
(* and a browser that nothing tells to reconnect is owed no more than what *)
(* its socket holds, if no catch-up is cut short (QuietInv).               *)
(***************************************************************************)
EXTENDS ChannelSync, TLAPS, SequenceTheorems, FiniteSetTheorems, WellFoundedInduction

RowTypes == {"created", "updated", "completed", "edited", "deleted"}

Event ==
  [type : RowTypes, seq : Nat, row : Row]
  \cup [type : {"delta"}, seq : Nat, index : Int, text : Seq(Nat)]
  \cup [type : {"snapshot"}, mode : {"full", "catchup"},
        messages : Partial(Row), inFlight : Partial(Int),
        replacements : Partial(Row), replacementInFlight : Partial(Int),
        latestSeq : Nat, truncated : BOOLEAN]
  \cup [type : {"resync", "close"}]

Request == [state : {"idle", "asked", "page"}, before : Nat, page : Partial(Row), more : BOOLEAN]

\* The rows of a timeline or a page, and those that an event carries.
Shown(f) == {[seq |-> s, row |-> f[s]] : s \in DOMAIN f}

Carried(e) ==
  CASE e.type \in RowTypes -> {[seq |-> e.seq, row |-> e.row]}
    [] e.type = "snapshot" -> Shown(e.messages) \cup Shown(e.replacements)
    [] e.type \in {"delta", "resync", "close"} -> {}

\* Two copies of a row that differ in their text at most.
Same(v, w) == v.kind = w.kind /\ v.status = w.status /\ v.ver = w.ver /\ v.mark = w.mark

\* The row is a version that row s of the log has reached.
Version(lg, s, row) ==
  /\ s \in DOMAIN lg
  /\ row.kind = lg[s].kind /\ row.ver <= lg[s].ver
  /\ row.ver = lg[s].ver => Same(row, lg[s])

Logged(lg, V) == \A v \in V : Version(lg, v.seq, v.row)

\* The rows are the log's own.
Current(lg, V) == \A v \in V : v.seq \in DOMAIN lg /\ Same(v.row, lg[v.seq])

NotBefore(V, W) == \A v \in V, w \in W : v.seq = w.seq => v.row.ver <= w.row.ver

\* An open stream is an agent's row, and the update it holds is the row as it is.
Stream(lg, s, a) ==
  /\ a \in Accumulator /\ s \in DOMAIN lg
  /\ lg[s].kind \in {"prose", "card"}
  /\ \A i \in DOMAIN a.update : Same(a.update[i], lg[s])

Streams(lg, ac) ==
  /\ ac = [s \in DOMAIN ac |-> ac[s]]
  /\ \A s \in DOMAIN ac : Stream(lg, s, ac[s])

BrowserTypes ==
  /\ client \in ReducerState /\ load \in Request
  /\ sock \in SockStates /\ since \in Nat /\ cursor \in Nat /\ attempts \in Nat
  /\ seen \in BOOLEAN /\ hasMore \in BOOLEAN

SyncInv ==
  /\ log \in Seq(Row) /\ Streams(log, acc)
  /\ sub \in SubStates /\ net \in Seq(Event)
  /\ BrowserTypes
  /\ Logged(log, Shown(client.messages)) /\ Logged(log, Shown(load.page))
  /\ \A i \in DOMAIN net : Logged(log, Carried(net[i]))

\* What is on its way never shows an earlier version than what is shown or
\* arrives before it.
SocketInOrder ==
  /\ \A i \in DOMAIN net : NotBefore(Shown(client.messages), Carried(net[i]))
  /\ \A i, j \in DOMAIN net : i < j => NotBefore(Carried(net[i]), Carried(net[j]))

-----------------------------------------------------------------------------
(* Partial functions and finite sets of numbers.                           *)

LEMMA PartialIs ==
  ASSUME NEW S, NEW f
  PROVE  f \in Partial(S) <=>
           /\ f = [x \in DOMAIN f |-> f[x]]
           /\ DOMAIN f \subseteq Nat
           /\ \A x \in DOMAIN f : f[x] \in S
<1>1. ASSUME f \in Partial(S)
      PROVE  /\ f = [x \in DOMAIN f |-> f[x]]
             /\ DOMAIN f \subseteq Nat
             /\ \A x \in DOMAIN f : f[x] \in S
  <2>1. PICK D \in SUBSET Nat : f \in [D -> S]
    BY <1>1 DEF Partial
  <2> QED BY <2>1
<1>2. ASSUME f = [x \in DOMAIN f |-> f[x]], DOMAIN f \subseteq Nat,
             \A x \in DOMAIN f : f[x] \in S
      PROVE  f \in Partial(S)
  <2>1. f \in [DOMAIN f -> S]
    BY <1>2
  <2> QED BY <1>2, <2>1 DEF Partial
<1> QED BY <1>1, <1>2

LEMMA PartialOps ==
  ASSUME NEW S, NEW f \in Partial(S), NEW g \in Partial(S), NEW D, NEW s \in Nat, NEW v \in S
  PROVE  /\ Overlay(f, g) \in Partial(S) /\ Put(f, s, v) \in Partial(S)
         /\ D \subseteq DOMAIN f => Restrict(f, D) \in Partial(S)
<1>1. /\ DOMAIN f \subseteq Nat /\ \A x \in DOMAIN f : f[x] \in S
      /\ DOMAIN g \subseteq Nat /\ \A x \in DOMAIN g : g[x] \in S
  BY PartialIs
<1>2. Overlay(f, g) \in Partial(S)
  <2> DEFINE h == Overlay(f, g)
  <2>1. /\ h = [x \in DOMAIN h |-> h[x]] /\ DOMAIN h \subseteq Nat
        /\ \A x \in DOMAIN h : h[x] \in S
    BY <1>1 DEF Overlay
  <2> HIDE DEF h
  <2> QED BY <2>1, PartialIs DEF h
<1>3. Put(f, s, v) \in Partial(S)
  <2> DEFINE h == Put(f, s, v)
  <2>1. /\ h = [x \in DOMAIN h |-> h[x]] /\ DOMAIN h \subseteq Nat
        /\ \A x \in DOMAIN h : h[x] \in S
    BY <1>1 DEF Put
  <2> HIDE DEF h
  <2> QED BY <2>1, PartialIs DEF h
<1>4. ASSUME D \subseteq DOMAIN f
      PROVE  Restrict(f, D) \in Partial(S)
  <2> DEFINE h == Restrict(f, D)
  <2>1. /\ h = [x \in DOMAIN h |-> h[x]] /\ DOMAIN h \subseteq Nat
        /\ \A x \in DOMAIN h : h[x] \in S
    BY <1>1, <1>4 DEF Restrict
  <2> HIDE DEF h
  <2> QED BY <2>1, PartialIs DEF h
<1> QED BY <1>2, <1>3, <1>4

\* No rows at all.
LEMMA EmptyPartial ==
  ASSUME NEW S
  PROVE  Empty \in Partial(S)
<1>1. DOMAIN Empty = {} /\ Empty = [x \in DOMAIN Empty |-> Empty[x]]
  BY DEF Empty
<1> QED BY <1>1, PartialIs

LEMMA LeastNat ==
  ASSUME NEW T \in SUBSET Nat, T # {}
  PROVE  \E x \in T : \A y \in T : x <= y
<1>1. PICK x \in T : \A y \in T : ~(<<y, x>> \in OpToRel(<, Nat))
  BY NatLessThanWellFounded, WFMin
<1>2. \A y \in T : ~(y < x)
  BY <1>1 DEF OpToRel
<1> QED BY <1>2

LEMMA GreatestNat ==
  ASSUME NEW n \in Nat, NEW T \in SUBSET (0..n), T # {}
  PROVE  \E x \in T : \A y \in T : y <= x
<1>1. PICK z \in {n - x : x \in T} : \A y \in {n - x : x \in T} : z <= y
  <2>0. \A x \in T : n - x \in Nat
    OBVIOUS
  <2>1. {n - x : x \in T} \in SUBSET Nat /\ {n - x : x \in T} # {}
    BY <2>0
  <2> QED BY <2>1, LeastNat
<1>2. PICK x \in T : z = n - x
  OBVIOUS
<1>3. ASSUME NEW y \in T PROVE y <= x
  <2>1. n - x <= n - y
    BY <1>1, <1>2
  <2>2. x \in Int /\ y \in Int
    OBVIOUS
  <2> QED BY <2>1, <2>2
<1> QED BY <1>3

\* A finite set of numbers has an order: otherwise there would be a smallest
\* size without one, and a set of that size without its greatest member has
\* one, which the member completes.
LEMMA InOrderExists ==
  ASSUME NEW n \in Nat, NEW S \in SUBSET (0..n)
  PROVE  \E q \in [1..Cardinality(S) -> S] : \A i, j \in DOMAIN q : i < j => q[i] < q[j]
<1> DEFINE Ordered(T) ==
             \E q \in [1..Cardinality(T) -> T] : \A i, j \in DOMAIN q : i < j => q[i] < q[j]
           Bad == {k \in Nat : \E T \in SUBSET (0..n) : Cardinality(T) = k /\ ~Ordered(T)}
<1>1. \A T \in SUBSET (0..n) : IsFiniteSet(T) /\ Cardinality(T) \in Nat
  <2>1. IsFiniteSet(0..n)
    BY FS_Interval
  <2> QED BY <2>1, FS_Subset, FS_CardinalityType
<1>2. CASE Bad = {}
  BY <1>1, <1>2
<1>3. CASE Bad # {}
  <2>1. PICK k \in Bad : \A y \in Bad : k <= y
    BY <1>3, LeastNat
  <2>2. PICK T \in SUBSET (0..n) : Cardinality(T) = k /\ ~Ordered(T)
    OBVIOUS
  <2>3. CASE T = {}
    <3>1. Cardinality(T) = 0
      BY <2>3, FS_EmptySet
    <3>2. 1..Cardinality(T) = {}
      BY <3>1
    <3>3. [i \in {} |-> 0] \in [1..Cardinality(T) -> T]
      BY <3>2
    <3> QED BY <2>2, <3>3
  <2>4. CASE T # {}
    <3>1. PICK m \in T : \A y \in T : y <= m
      BY <2>4, GreatestNat
    <3> DEFINE R == T \ {m}
    <3>2. R \in SUBSET (0..n) /\ Cardinality(R) = Cardinality(T) - 1 /\ Cardinality(T) \in Nat
      BY <1>1, FS_RemoveElement
    <3>3. Cardinality(R) \in Nat
      BY <1>1, <3>2
    <3>4. Ordered(R)
      <4>1. Cardinality(R) \notin Bad
        <5> HIDE DEF Bad
        <5> QED BY <2>1, <2>2, <3>2, <3>3
      <4> QED BY <3>2, <3>3, <4>1
    <3> HIDE DEF R
    <3>5. PICK q \in [1..Cardinality(R) -> R] : \A i, j \in DOMAIN q : i < j => q[i] < q[j]
      BY <3>4
    <3> DEFINE c == Cardinality(T)
               p == [i \in 1..c |-> IF i = c THEN m ELSE q[i]]
    <3>6. c \in Nat \ {0} /\ Cardinality(R) = c - 1 /\ \A x \in R : x \in T /\ x < m
      BY <3>1, <3>2, <3>3 DEF R
    <3> HIDE DEF c
    <3>7. p \in [1..c -> T]
      BY <3>5, <3>6
    <3>8. \A i, j \in DOMAIN p : i < j => p[i] < p[j]
      BY <3>5, <3>6
    <3> HIDE DEF p
    <3>9. Ordered(T)
      BY <3>7, <3>8 DEF c
    <3> QED BY <2>2, <3>9
  <2> QED BY <2>3, <2>4
<1> QED BY <1>2, <1>3

LEMMA InOrderIs ==
  ASSUME NEW n \in Nat, NEW S \in SUBSET (0..n)
  PROVE  /\ InOrder(S) \in Seq(S)
         /\ \A i, j \in DOMAIN InOrder(S) : i < j => InOrder(S)[i] < InOrder(S)[j]
<1>1. /\ InOrder(S) \in [1..Cardinality(S) -> S]
      /\ \A i, j \in DOMAIN InOrder(S) : i < j => InOrder(S)[i] < InOrder(S)[j]
  BY InOrderExists DEF InOrder
<1>2. Cardinality(S) \in Nat
  <2>1. IsFiniteSet(0..n)
    BY FS_Interval
  <2> QED BY <2>1, FS_Subset, FS_CardinalityType
<1> QED BY <1>1, <1>2

-----------------------------------------------------------------------------
(* What the reducer shows it had before, or the event or the page has it.  *)

From(V, W, X) ==
  \A w \in W : w \in X \/ \E v \in V : v.seq = w.seq /\ Same(v.row, w.row)

LEMMA EventIs ==
  ASSUME NEW e \in Event
  PROVE  /\ e.type \in RowTypes \cup {"delta", "snapshot", "resync", "close"}
         /\ e.type \in RowTypes => e.seq \in Nat /\ e.row \in Row
         /\ e.type = "delta" => e.seq \in Nat /\ e.index \in Int /\ e.text \in Seq(Nat)
         /\ e.type = "snapshot" =>
              /\ e.mode \in {"full", "catchup"}
              /\ e.messages \in Partial(Row) /\ e.inFlight \in Partial(Int)
              /\ e.replacements \in Partial(Row) /\ e.replacementInFlight \in Partial(Int)
              /\ e.latestSeq \in Nat /\ e.truncated \in BOOLEAN
BY DEF Event, RowTypes

LEMMA CarriedIs ==
  ASSUME NEW e
  PROVE  /\ e.type \in RowTypes => Carried(e) = {[seq |-> e.seq, row |-> e.row]}
         /\ e.type = "snapshot" => Carried(e) = Shown(e.messages) \cup Shown(e.replacements)
         /\ e.type \in {"delta", "resync", "close"} => Carried(e) = {}
BY DEF Carried, RowTypes

\* Rows left alone come from where they were.
LEMMA FromSelf ==
  ASSUME NEW f, NEW g, NEW X,
         \A s \in DOMAIN g : \/ [seq |-> s, row |-> g[s]] \in X
                             \/ s \in DOMAIN f /\ Same(f[s], g[s])
  PROVE  From(Shown(f), Shown(g), X)
<1> SUFFICES ASSUME NEW w \in Shown(g), w \notin X
             PROVE  \E v \in Shown(f) : v.seq = w.seq /\ Same(v.row, w.row)
  BY DEF From
<1>1. PICK s \in DOMAIN g : w = [seq |-> s, row |-> g[s]]
  BY DEF Shown
<1>2. s \in DOMAIN f /\ Same(f[s], g[s])
  BY <1>1
<1>3. [seq |-> s, row |-> f[s]] \in Shown(f)
  BY <1>2 DEF Shown
<1> QED BY <1>1, <1>2, <1>3

LEMMA SameSelf ==
  ASSUME NEW v
  PROVE  Same(v, v)
BY DEF Same

LEMMA ReducerFields ==
  ASSUME NEW c \in ReducerState
  PROVE  /\ c.messages \in Partial(Row) /\ c.lastSeq \in Nat
         /\ c.inFlightDelta \in Partial(Int) /\ c.quarantined \in SUBSET Nat
         /\ c.needsCatchup \in BOOLEAN
         /\ \A s \in DOMAIN c.messages : s \in Nat /\ c.messages[s] \in Row
<1>1. c.messages \in Partial(Row)
  BY DEF ReducerState
<1>2. \A s \in DOMAIN c.messages : s \in Nat /\ c.messages[s] \in Row
  BY <1>1, PartialIs
<1> QED BY <1>1, <1>2 DEF ReducerState

LEMMA RowFields ==
  ASSUME NEW row \in Row
  PROVE  /\ row.kind \in Kinds /\ row.status \in Settled \cup {"streaming"}
         /\ row.text \in Seq(Nat) /\ row.ver \in Nat /\ row.mark \in Marks
BY DEF Row

LEMMA RetextOK ==
  ASSUME NEW row \in Row, NEW text \in Seq(Nat)
  PROVE  [row EXCEPT !.text = text] \in Row /\ Same(row, [row EXCEPT !.text = text])
BY DEF Row, Same

\* A row put over one held.
LEMMA WithRowOK ==
  ASSUME NEW c \in ReducerState, NEW s \in Nat, NEW row \in Row, NEW X,
         [seq |-> s, row |-> row] \in X
  PROVE  /\ WithRow(c, s, row) \in ReducerState
         /\ WithRow(c, s, row).messages = Put(c.messages, s, row)
         /\ From(Shown(c.messages), Shown(Put(c.messages, s, row)), X)
<1>1. Put(c.messages, s, row) \in Partial(Row)
  BY ReducerFields, PartialOps
<1>2. From(Shown(c.messages), Shown(Put(c.messages, s, row)), X)
  BY FromSelf, SameSelf DEF Put
<1> QED BY <1>1, <1>2 DEF WithRow, ReducerState

LEMMA AskOK ==
  ASSUME NEW c \in ReducerState
  PROVE  AskCatchup(c) \in ReducerState /\ AskCatchup(c).messages = c.messages
BY DEF AskCatchup, ReducerState

LEMMA FromKept ==
  ASSUME NEW f, NEW X
  PROVE  From(Shown(f), Shown(f), X)
BY FromSelf, SameSelf

LEMMA FullOK ==
  ASSUME NEW c \in ReducerState, NEW e \in Event, e.type = "snapshot"
  PROVE  /\ ApplyFull(c, e) \in ReducerState
         /\ From(Shown(c.messages), Shown(ApplyFull(c, e).messages), Carried(e))
<1>1. Shown(e.messages) \subseteq Carried(e)
  BY CarriedIs
<1>2. ApplyFull(c, e).messages = e.messages
  BY DEF ApplyFull
<1>3. ApplyFull(c, e) \in ReducerState
  BY EventIs DEF ApplyFull, ReducerState
<1> QED BY <1>1, <1>2, <1>3 DEF From

LEMMA CatchupOK ==
  ASSUME NEW c \in ReducerState, NEW e \in Event, e.type = "snapshot"
  PROVE  /\ ApplyCatchup(c, e) \in ReducerState
         /\ From(Shown(c.messages), Shown(ApplyCatchup(c, e).messages), Carried(e))
<1> DEFINE accepted == {s \in DOMAIN e.messages : s \in DOMAIN c.messages \/ s > c.lastSeq}
           replaced == DOMAIN e.replacements \cap DOMAIN c.messages
           streaming == replaced \cap DOMAIN e.replacementInFlight
           kept == DOMAIN e.inFlight \ replaced
           fresh == Restrict(e.messages, accepted)
           revised == Restrict(e.replacements, replaced)
           rows == Overlay(Overlay(c.messages, fresh), revised)
           flight == Overlay(Restrict(e.inFlight, kept), Restrict(e.replacementInFlight, streaming))
<1>1. /\ accepted \subseteq DOMAIN e.messages /\ replaced \subseteq DOMAIN e.replacements
      /\ kept \subseteq DOMAIN e.inFlight /\ streaming \subseteq DOMAIN e.replacementInFlight
  OBVIOUS
<1>2. /\ e.messages \in Partial(Row) /\ e.replacements \in Partial(Row)
      /\ e.inFlight \in Partial(Int) /\ e.replacementInFlight \in Partial(Int)
      /\ e.latestSeq \in Nat /\ c.messages \in Partial(Row) /\ c.lastSeq \in Nat
      /\ c.quarantined \in SUBSET Nat
  BY EventIs, ReducerFields
<1>3. ApplyCatchup(c, e) =
        [messages |-> rows, lastSeq |-> IF e.latestSeq > c.lastSeq THEN e.latestSeq ELSE c.lastSeq,
         inFlightDelta |-> flight, quarantined |-> c.quarantined \ replaced, needsCatchup |-> FALSE]
  BY DEF ApplyCatchup
<1>4. /\ DOMAIN fresh = accepted /\ DOMAIN revised = replaced
      /\ \A s \in accepted : fresh[s] = e.messages[s]
      /\ \A s \in replaced : revised[s] = e.replacements[s]
  BY DEF Restrict
<1> HIDE DEF accepted, replaced, streaming, kept
<1>5. PICK v \in Row : TRUE
  <2>1. [kind |-> "human", status |-> "complete", text |-> <<>>, ver |-> 0, mark |-> "none"] \in Row
    BY DEF Row, Kinds, Settled, Marks
  <2> QED BY <2>1
<1>6. PICK n \in Nat : n = 0
  OBVIOUS
<1>7. PICK z \in Int : z = 0
  OBVIOUS
<1>8. fresh \in Partial(Row) /\ revised \in Partial(Row)
  BY <1>1, <1>2, <1>5, <1>6, PartialOps
<1>9. Restrict(e.inFlight, kept) \in Partial(Int) /\ Restrict(e.replacementInFlight, streaming) \in Partial(Int)
  BY <1>1, <1>2, <1>6, <1>7, PartialOps
<1>10. flight \in Partial(Int)
  BY <1>9, <1>6, <1>7, PartialOps
<1> HIDE DEF fresh, revised, flight
<1>11. Overlay(c.messages, fresh) \in Partial(Row)
  BY <1>2, <1>8, <1>5, <1>6, PartialOps
<1>12. rows \in Partial(Row)
  BY <1>11, <1>8, <1>5, <1>6, PartialOps
<1>13. ASSUME NEW s \in DOMAIN rows
       PROVE  \/ [seq |-> s, row |-> rows[s]] \in Shown(e.messages) \cup Shown(e.replacements)
              \/ s \in DOMAIN c.messages /\ Same(c.messages[s], rows[s])
  <2>1. CASE s \in replaced
    BY <1>1, <1>4, <2>1 DEF Overlay, Shown
  <2>2. CASE s \notin replaced /\ s \in accepted
    BY <1>1, <1>4, <2>2 DEF Overlay, Shown
  <2>3. CASE s \notin replaced /\ s \notin accepted
    BY <1>4, <2>3, SameSelf DEF Overlay
  <2> QED BY <2>1, <2>2, <2>3
<1> HIDE DEF rows
<1>14. From(Shown(c.messages), Shown(rows), Carried(e))
  BY <1>13, FromSelf, CarriedIs
<1> QED BY <1>2, <1>3, <1>10, <1>12, <1>14 DEF ReducerState

LEMMA CreatedOK ==
  ASSUME NEW c \in ReducerState, NEW e \in Event, e.type \in RowTypes
  PROVE  /\ ApplyCreated(c, e) \in ReducerState
         /\ From(Shown(c.messages), Shown(ApplyCreated(c, e).messages), Carried(e))
<1> DEFINE w == WithRow(c, e.seq, e.row)
<1>1. e.seq \in Nat /\ e.row \in Row /\ c.lastSeq \in Nat
  BY EventIs, ReducerFields
<1>2. [seq |-> e.seq, row |-> e.row] \in Carried(e)
  BY CarriedIs
<1>3. w \in ReducerState /\ From(Shown(c.messages), Shown(w.messages), Carried(e))
  BY <1>1, <1>2, WithRowOK
<1>4. CASE e.seq \in DOMAIN c.messages \/ e.seq <= c.lastSeq
  <2>1. ApplyCreated(c, e) = c
    BY <1>1, <1>4 DEF ApplyCreated
  <2> QED BY <2>1, FromKept
<1>5. CASE e.seq \notin DOMAIN c.messages /\ e.seq > c.lastSeq + 1
  <2>1. ApplyCreated(c, e) = AskCatchup(c)
    BY <1>1, <1>5 DEF ApplyCreated
  <2> QED BY <2>1, AskOK, FromKept
<1>6. CASE e.seq \notin DOMAIN c.messages /\ e.seq = c.lastSeq + 1
  <2>1. ApplyCreated(c, e) = [w EXCEPT !.lastSeq = e.seq]
    BY <1>1, <1>6 DEF ApplyCreated
  <2> HIDE DEF w
  <2>2. ApplyCreated(c, e) \in ReducerState /\ ApplyCreated(c, e).messages = w.messages
    BY <1>1, <1>3, <2>1 DEF ReducerState
  <2> QED BY <1>3, <2>2
<1> QED BY <1>1, <1>4, <1>5, <1>6

\* A delta adds to the text of a row that is there.
LEMMA DeltaOK ==
  ASSUME NEW c \in ReducerState, NEW e \in Event, e.type = "delta"
  PROVE  /\ ApplyDelta(c, e) \in ReducerState
         /\ From(Shown(c.messages), Shown(ApplyDelta(c, e).messages), Carried(e))
<1> DEFINE row == [c.messages[e.seq] EXCEPT !.text = @ \o e.text]
           messages == [c.messages EXCEPT ![e.seq] = row]
           flight == Put(c.inFlightDelta, e.seq, e.index)
<1>1. e.seq \in Nat /\ e.index \in Int /\ e.text \in Seq(Nat)
  BY EventIs
<1>2. CASE ApplyDelta(c, e) = c
  BY <1>2, FromKept
<1>3. CASE ApplyDelta(c, e) = AskCatchup(c)
  BY <1>3, AskOK, FromKept
<1>4. CASE ApplyDelta(c, e) = [c EXCEPT !.quarantined = @ \cup {e.seq}]
  <2>1. ApplyDelta(c, e) \in ReducerState /\ ApplyDelta(c, e).messages = c.messages
    BY <1>1, <1>4 DEF ReducerState
  <2> QED BY <2>1, FromKept
<1>5. CASE /\ e.seq \in DOMAIN c.messages
           /\ ApplyDelta(c, e) = [c EXCEPT !.messages = messages, !.inFlightDelta = flight]
  <2>1. c.messages[e.seq] \in Row
    BY <1>5, ReducerFields
  <2>2. row \in Row /\ Same(c.messages[e.seq], row)
    <3>1. c.messages[e.seq].text \o e.text \in Seq(Nat)
      BY <1>1, <2>1, RowFields, ConcatProperties
    <3> QED BY <2>1, <3>1, RetextOK
  <2>3. c.messages \in Partial(Row) /\ c.inFlightDelta \in Partial(Int)
    BY ReducerFields
  <2> HIDE DEF row
  <2>4. messages \in Partial(Row)
    <3>1. /\ DOMAIN c.messages \subseteq Nat
          /\ \A x \in DOMAIN c.messages : c.messages[x] \in Row
      BY <2>3, PartialIs
    <3>2. /\ messages = [x \in DOMAIN messages |-> messages[x]]
          /\ DOMAIN messages = DOMAIN c.messages
          /\ \A x \in DOMAIN c.messages : messages[x] = IF x = e.seq THEN row ELSE c.messages[x]
      OBVIOUS
    <3>3. /\ DOMAIN messages \subseteq Nat /\ \A x \in DOMAIN messages : messages[x] \in Row
      BY <2>2, <3>1, <3>2
    <3> HIDE DEF messages
    <3> QED BY <3>2, <3>3, PartialIs
  <2>5. flight \in Partial(Int)
    BY <1>1, <2>3, PartialOps
  <2>6. From(Shown(c.messages), Shown(messages), Carried(e))
    <3>1. \A s \in DOMAIN messages : s \in DOMAIN c.messages /\ Same(c.messages[s], messages[s])
      BY <2>2, SameSelf
    <3> HIDE DEF messages
    <3> QED BY <3>1, FromSelf
  <2> HIDE DEF messages, flight
  <2>7. ApplyDelta(c, e) \in ReducerState /\ ApplyDelta(c, e).messages = messages
    BY <1>5, <2>4, <2>5 DEF ReducerState
  <2> QED BY <2>6, <2>7
<1>6. \/ ApplyDelta(c, e) = c \/ ApplyDelta(c, e) = AskCatchup(c)
      \/ ApplyDelta(c, e) = [c EXCEPT !.quarantined = @ \cup {e.seq}]
      \/ /\ e.seq \in DOMAIN c.messages
         /\ ApplyDelta(c, e) = [c EXCEPT !.messages = messages, !.inFlightDelta = flight]
  BY DEF ApplyDelta
<1> HIDE DEF row, messages, flight
<1> QED BY <1>2, <1>3, <1>4, <1>5, <1>6

\* The other row events put their row or leave the timeline as it is.
LEMMA RowEventOK ==
  ASSUME NEW c \in ReducerState, NEW e \in Event, e.type \in RowTypes, NEW d,
         \/ d = c \/ d = AskCatchup(c) \/ d = WithRow(c, e.seq, e.row)
         \/ d = [WithRow(c, e.seq, e.row) EXCEPT
                   !.inFlightDelta = Restrict(@, DOMAIN @ \ {e.seq}),
                   !.quarantined = @ \ {e.seq}]
  PROVE  d \in ReducerState /\ From(Shown(c.messages), Shown(d.messages), Carried(e))
<1> DEFINE w == WithRow(c, e.seq, e.row)
<1>1. e.seq \in Nat /\ e.row \in Row
  BY EventIs
<1>2. [seq |-> e.seq, row |-> e.row] \in Carried(e)
  BY CarriedIs
<1>3. w \in ReducerState /\ From(Shown(c.messages), Shown(w.messages), Carried(e))
  BY <1>1, <1>2, WithRowOK
<1>4. CASE d = c
  BY <1>4, FromKept
<1>5. CASE d = AskCatchup(c)
  BY <1>5, AskOK, FromKept
<1>6. CASE d = w
  BY <1>3, <1>6
<1>7. CASE d = [w EXCEPT !.inFlightDelta = Restrict(@, DOMAIN @ \ {e.seq}),
                         !.quarantined = @ \ {e.seq}]
  <2> HIDE DEF w
  <2>1. w.inFlightDelta \in Partial(Int) /\ w.quarantined \in SUBSET Nat
    BY <1>3, ReducerFields
  <2>2. PICK z \in Int : z = 0
    OBVIOUS
  <2>3. Restrict(w.inFlightDelta, DOMAIN w.inFlightDelta \ {e.seq}) \in Partial(Int)
    BY <1>1, <2>1, <2>2, PartialOps
  <2>4. w.quarantined \ {e.seq} \in SUBSET Nat
    BY <2>1
  <2>5. d \in ReducerState /\ d.messages = w.messages
    BY <1>3, <1>7, <2>3, <2>4 DEF ReducerState
  <2> QED BY <1>3, <2>5
<1> QED BY <1>4, <1>5, <1>6, <1>7

LEMMA ReducerOK ==
  ASSUME NEW c \in ReducerState, NEW e \in Event, e.type # "close"
  PROVE  /\ applyChannelEventV1(c, e) \in ReducerState
         /\ From(Shown(c.messages), Shown(applyChannelEventV1(c, e).messages), Carried(e))
<1>1. CASE e.type = "snapshot"
  <2>1. \/ applyChannelEventV1(c, e) = ApplyFull(c, e)
        \/ applyChannelEventV1(c, e) = ApplyCatchup(c, e)
    BY <1>1 DEF applyChannelEventV1, ApplySnapshot
  <2> QED BY <1>1, <2>1, FullOK, CatchupOK
<1>2. CASE e.type = "created"
  <2>1. applyChannelEventV1(c, e) = ApplyCreated(c, e)
    BY <1>2 DEF applyChannelEventV1
  <2> QED BY <1>2, <2>1, CreatedOK DEF RowTypes
<1>3. CASE e.type = "delta"
  <2>1. applyChannelEventV1(c, e) = ApplyDelta(c, e)
    BY <1>3 DEF applyChannelEventV1
  <2> QED BY <1>3, <2>1, DeltaOK
<1>4. CASE e.type = "updated"
  <2>1. applyChannelEventV1(c, e) = ApplyUpdated(c, e)
    BY <1>4 DEF applyChannelEventV1
  <2>2. \/ applyChannelEventV1(c, e) = c \/ applyChannelEventV1(c, e) = AskCatchup(c)
        \/ applyChannelEventV1(c, e) = WithRow(c, e.seq, e.row)
    BY <2>1 DEF ApplyUpdated
  <2> QED BY <1>4, <2>2, RowEventOK DEF RowTypes
<1>5. CASE e.type = "completed"
  <2>1. applyChannelEventV1(c, e) = ApplyCompleted(c, e)
    BY <1>5 DEF applyChannelEventV1
  <2>2. \/ applyChannelEventV1(c, e) = AskCatchup(c)
        \/ applyChannelEventV1(c, e) =
             [WithRow(c, e.seq, e.row) EXCEPT
                !.inFlightDelta = Restrict(@, DOMAIN @ \ {e.seq}),
                !.quarantined = @ \ {e.seq}]
    BY <2>1 DEF ApplyCompleted
  <2> QED BY <1>5, <2>2, RowEventOK DEF RowTypes
<1>6. CASE e.type \in {"edited", "deleted"}
  <2>1. applyChannelEventV1(c, e) = ApplyRevised(c, e)
    BY <1>6 DEF applyChannelEventV1
  <2>2. applyChannelEventV1(c, e) = c \/ applyChannelEventV1(c, e) = WithRow(c, e.seq, e.row)
    BY <2>1 DEF ApplyRevised
  <2> QED BY <1>6, <2>2, RowEventOK DEF RowTypes
<1>7. CASE e.type = "resync"
  <2>1. applyChannelEventV1(c, e) = AskCatchup(c)
    BY <1>7 DEF applyChannelEventV1
  <2> QED BY <2>1, AskOK, FromKept
<1> QED BY <1>1, <1>2, <1>3, <1>4, <1>5, <1>6, <1>7, EventIs DEF RowTypes

LEMMA MergeOK ==
  ASSUME NEW c \in ReducerState, NEW page \in Partial(Row)
  PROVE  /\ mergeHistoryPage(c, page) \in ReducerState
         /\ From(Shown(c.messages), Shown(mergeHistoryPage(c, page).messages), Shown(page))
<1> DEFINE merged == Overlay(c.messages, page)
           highest == {s \in DOMAIN merged : \A t \in DOMAIN merged : t <= s}
           last == CHOOSE n \in highest \cup {c.lastSeq} : \A m \in highest \cup {c.lastSeq} : m <= n
<1>1. CASE DOMAIN page = {}
  <2>1. mergeHistoryPage(c, page) = c
    BY <1>1 DEF mergeHistoryPage
  <2> QED BY <2>1, FromKept
<1>2. CASE DOMAIN page # {}
  <2>1. c.messages \in Partial(Row) /\ c.lastSeq \in Nat
    BY ReducerFields
  <2>2. PICK s \in DOMAIN page : TRUE
    BY <1>2
  <2>3. s \in Nat /\ page[s] \in Row
    BY <2>2, PartialIs
  <2>4. merged \in Partial(Row)
    BY <2>1, <2>3, PartialOps
  <2>5. highest \in SUBSET Nat /\ \A x, y \in highest : x = y
    <3>1. DOMAIN merged \subseteq Nat
      BY <2>4, PartialIs
    <3> HIDE DEF merged
    <3> QED BY <3>1
  <2>6. \E n \in highest \cup {c.lastSeq} : \A m \in highest \cup {c.lastSeq} : m <= n
    <3> HIDE DEF highest
    <3> QED BY <2>1, <2>5
  <2>7. last \in Nat
    <3> HIDE DEF highest
    <3> QED BY <2>1, <2>5, <2>6
  <2>8. mergeHistoryPage(c, page) = [c EXCEPT !.messages = merged, !.lastSeq = last]
    BY <1>2 DEF mergeHistoryPage
  <2>9. From(Shown(c.messages), Shown(merged), Shown(page))
    <3>1. \A x \in DOMAIN merged : \/ [seq |-> x, row |-> merged[x]] \in Shown(page)
                                   \/ x \in DOMAIN c.messages /\ Same(c.messages[x], merged[x])
      BY SameSelf DEF Overlay, Shown
    <3> HIDE DEF merged
    <3> QED BY <3>1, FromSelf
  <2> HIDE DEF merged, last
  <2>10. mergeHistoryPage(c, page) \in ReducerState /\ mergeHistoryPage(c, page).messages = merged
    BY <2>4, <2>7, <2>8 DEF ReducerState
  <2> QED BY <2>9, <2>10
<1> QED BY <1>1, <1>2

-----------------------------------------------------------------------------
(* What the hub sends.                                                     *)

LEMMA ShownRows ==
  ASSUME NEW f \in Partial(Row), NEW v \in Shown(f)
  PROVE  v.seq \in DOMAIN f /\ v.row = f[v.seq] /\ v.seq \in Nat /\ v.row \in Row
<1>1. PICK s \in DOMAIN f : v = [seq |-> s, row |-> f[s]]
  BY DEF Shown
<1> QED BY <1>1, PartialIs

LEMMA CarriedRows ==
  ASSUME NEW e \in Event, NEW v \in Carried(e)
  PROVE  v.seq \in Nat /\ v.row \in Row
<1>1. CASE e.type \in RowTypes
  BY <1>1, EventIs, CarriedIs
<1>2. CASE e.type = "snapshot"
  <2>1. e.messages \in Partial(Row) /\ e.replacements \in Partial(Row)
    BY <1>2, EventIs
  <2>2. v \in Shown(e.messages) \/ v \in Shown(e.replacements)
    BY <1>2, CarriedIs
  <2> QED BY <2>1, <2>2, ShownRows
<1>3. CASE e.type \in {"delta", "resync", "close"}
  BY <1>3, CarriedIs
<1> QED BY <1>1, <1>2, <1>3, EventIs

LEMMA Empties ==
  /\ ResyncEvent \in Event /\ Carried(ResyncEvent) = {}
  /\ CloseEvent \in Event /\ Carried(CloseEvent) = {}
<1>1. /\ ResyncEvent \in Event /\ ResyncEvent.type = "resync"
      /\ CloseEvent \in Event /\ CloseEvent.type = "close"
  BY DEF ResyncEvent, CloseEvent, Event
<1> QED BY <1>1, CarriedIs

LEMMA RowEventIs ==
  ASSUME NEW type \in RowTypes, NEW s \in Nat, NEW row \in Row
  PROVE  /\ RowEvent(type, s, row) \in Event
         /\ Carried(RowEvent(type, s, row)) = {[seq |-> s, row |-> row]}
<1>1. RowEvent(type, s, row) \in Event
  BY DEF RowEvent, Event
<1>2. /\ RowEvent(type, s, row).type = type /\ RowEvent(type, s, row).seq = s
      /\ RowEvent(type, s, row).row = row
  BY DEF RowEvent
<1> QED BY <1>1, <1>2, CarriedIs

LEMMA DeltaEventIs ==
  ASSUME NEW s \in Nat, NEW index \in Int, NEW text \in Seq(Nat)
  PROVE  DeltaEvent(s, index, text) \in Event /\ Carried(DeltaEvent(s, index, text)) = {}
<1>1. DeltaEvent(s, index, text) \in Event /\ DeltaEvent(s, index, text).type = "delta"
  BY DEF DeltaEvent, Event
<1> QED BY <1>1, CarriedIs

\* A broadcast adds the event, or what stands for it, to the socket.
LEMMA BroadcastAdds ==
  ASSUME NEW S, NEW e \in S, ResyncEvent \in S, CloseEvent \in S,
         net \in Seq(S), sub \in SubStates, Broadcast(e)
  PROVE  /\ sub' \in SubStates /\ net' \in Seq(S)
         /\ Len(net) <= Len(net') /\ \A i \in DOMAIN net : net'[i] = net[i]
         /\ \A i \in DOMAIN net' : i \notin DOMAIN net =>
              net'[i] \in {e, ResyncEvent, CloseEvent}
<1>1. PICK b \in Buffered : sub' = SubAfter(sub, b, e) /\ net' = net \o SentBy(sub, b, e)
  BY DEF Broadcast
<1> DEFINE sent == SentBy(sub, b, e)
<1>2. sent \in Seq({e, ResyncEvent, CloseEvent})
  <2> DEFINE E == {e, ResyncEvent, CloseEvent}
             first == IF Drained(sub, b) THEN <<ResyncEvent>> ELSE <<>>
             last == IF Suppressed(sub, b, e) THEN <<>> ELSE <<e>>
  <2>1. sent = <<>> \/ sent = <<CloseEvent>> \/ sent = first \o last
    BY DEF SentBy
  <2>2. e \in E /\ ResyncEvent \in E /\ CloseEvent \in E
    OBVIOUS
  <2> HIDE DEF E
  <2>3. first \in Seq(E) /\ last \in Seq(E) /\ <<>> \in Seq(E) /\ <<CloseEvent>> \in Seq(E)
    BY <2>2
  <2> HIDE DEF first, last, sent
  <2>4. first \o last \in Seq(E)
    BY <2>3, ConcatProperties
  <2>5. sent \in Seq(E)
    BY <2>1, <2>3, <2>4
  <2> QED BY <2>5 DEF E
<1>3. sub' \in SubStates
  BY <1>1 DEF SubAfter, SubStates
<1> HIDE DEF sent
<1>4. sent \in Seq(S)
  BY <1>2
<1>5. \A i \in DOMAIN sent : sent[i] \in {e, ResyncEvent, CloseEvent}
  BY <1>2
<1>6. /\ net' \in Seq(S) /\ Len(net') = Len(net) + Len(sent)
      /\ \A i \in 1..Len(net') : net'[i] = IF i <= Len(net) THEN net[i] ELSE sent[i - Len(net)]
  BY <1>1, <1>4, ConcatProperties DEF sent
<1>7. /\ DOMAIN net = 1..Len(net) /\ DOMAIN net' = 1..Len(net') /\ DOMAIN sent = 1..Len(sent)
      /\ Len(net) \in Nat /\ Len(sent) \in Nat
  BY <1>4, <1>6
<1>8. ASSUME NEW i \in DOMAIN net', i \notin DOMAIN net
      PROVE  net'[i] \in {e, ResyncEvent, CloseEvent}
  <2>1. i \in Nat /\ ~(i <= Len(net)) /\ i - Len(net) \in DOMAIN sent
    BY <1>6, <1>7, <1>8
  <2> QED BY <1>5, <1>6, <1>7, <2>1
<1> QED BY <1>3, <1>6, <1>7, <1>8

\* The rows that a snapshot shows are the log's.
LEMMA MaterializedOK ==
  ASSUME NEW lg \in Seq(Row), NEW ac, Streams(lg, ac), NEW S \in SUBSET (DOMAIN lg)
  PROVE  /\ Materialized(lg, ac, S) \in Partial(Row)
         /\ Current(lg, Shown(Materialized(lg, ac, S)))
         /\ InFlightOf(lg, ac, S) \in Partial(Int)
<1>1. DOMAIN lg \subseteq Nat
  OBVIOUS
<1>2. ASSUME NEW s \in S
      PROVE  Materialize(lg, ac, s) \in Row /\ Same(Materialize(lg, ac, s), lg[s])
  <2>1. lg[s] \in Row
    BY <1>2
  <2>2. CASE s \in DOMAIN ac /\ lg[s].status = "streaming"
    <3>1. ac[s].text \in Seq(Nat)
      BY <2>2 DEF Streams, Stream, Accumulator
    <3>2. Materialize(lg, ac, s) = [lg[s] EXCEPT !.text = ac[s].text]
      BY <2>2 DEF Materialize
    <3> QED BY <2>1, <3>1, <3>2, RetextOK DEF Same
  <2>3. CASE ~(s \in DOMAIN ac /\ lg[s].status = "streaming")
    BY <2>1, <2>3, SameSelf DEF Materialize
  <2> QED BY <2>2, <2>3
<1>3. Materialized(lg, ac, S) \in Partial(Row)
  <2> DEFINE m == Materialized(lg, ac, S)
  <2>1. /\ m = [x \in DOMAIN m |-> m[x]] /\ DOMAIN m \subseteq Nat /\ \A x \in DOMAIN m : m[x] \in Row
    BY <1>1, <1>2 DEF Materialized
  <2> HIDE DEF m
  <2> QED BY <2>1, PartialIs DEF m
<1>4. Current(lg, Shown(Materialized(lg, ac, S)))
  BY <1>2 DEF Current, Shown, Materialized
<1>5. InFlightOf(lg, ac, S) \in Partial(Int)
  <2> DEFINE m == InFlightOf(lg, ac, S)
  <2>1. \A s \in DOMAIN ac : ac[s].deltaIndex \in Int
    BY DEF Streams, Stream, Accumulator
  <2>2. /\ m = [x \in DOMAIN m |-> m[x]] /\ DOMAIN m \subseteq Nat /\ \A x \in DOMAIN m : m[x] \in Int
    BY <1>1, <2>1 DEF InFlightOf
  <2> HIDE DEF m
  <2> QED BY <2>2, PartialIs DEF m
<1> QED BY <1>3, <1>4, <1>5

LEMMA SnapshotOK ==
  ASSUME NEW lg \in Seq(Row), NEW ac, Streams(lg, ac), NEW mode \in {"full", "catchup"},
         NEW R \in SUBSET (DOMAIN lg), NEW S \in SUBSET (DOMAIN lg),
         NEW latest \in Nat, NEW truncated, truncated \in BOOLEAN
  PROVE  /\ Snapshot(lg, ac, mode, R, S, latest, truncated) \in Event
         /\ Snapshot(lg, ac, mode, R, S, latest, truncated).type = "snapshot"
         /\ Current(lg, Carried(Snapshot(lg, ac, mode, R, S, latest, truncated)))
<1> DEFINE e == Snapshot(lg, ac, mode, R, S, latest, truncated)
<1>1. /\ Materialized(lg, ac, R) \in Partial(Row) /\ InFlightOf(lg, ac, R) \in Partial(Int)
      /\ Materialized(lg, ac, S) \in Partial(Row) /\ InFlightOf(lg, ac, S) \in Partial(Int)
      /\ Current(lg, Shown(Materialized(lg, ac, R)))
      /\ Current(lg, Shown(Materialized(lg, ac, S)))
  BY MaterializedOK
<1>2. e \in Event
  BY <1>1 DEF Snapshot, Event
<1>3. /\ e.type = "snapshot" /\ e.messages = Materialized(lg, ac, R)
      /\ e.replacements = Materialized(lg, ac, S)
  BY DEF Snapshot
<1> HIDE DEF e
<1>4. Current(lg, Carried(e))
  BY <1>1, <1>3, CarriedIs DEF Current
<1> QED BY <1>2, <1>3, <1>4 DEF e

\* A catch-up that cannot carry every new row carries the oldest.
LEMMA OldestSome ==
  ASSUME NEW n \in Nat, NEW S \in SUBSET (1..n), NEW k \in Nat \ {0}, Oldest(S, k) # S
  PROVE  /\ Max(Oldest(S, k)) \in Nat /\ Max(Oldest(S, k)) \in Oldest(S, k)
         /\ \A y \in Oldest(S, k) : y <= Max(Oldest(S, k))
<1> DEFINE R == Oldest(S, k)
<1>1. R \subseteq S
  BY DEF Oldest
<1>2. PICK x \in S : \A y \in S : x <= y
  <2>1. S \in SUBSET Nat /\ S # {}
    BY DEF Oldest
  <2> QED BY <2>1, LeastNat
<1>3. {t \in S : t < x} = {}
  <2>1. \A t \in S : x <= t /\ t \in Int /\ x \in Int
    BY <1>2
  <2>2. \A t \in S : ~(t < x)
    BY <2>1
  <2> QED BY <2>2
<1>4. x \in R
  BY <1>2, <1>3, FS_EmptySet DEF Oldest
<1> HIDE DEF R
<1>5. PICK m \in R : \A y \in R : y <= m
  <2>1. R \in SUBSET (0..n) /\ R # {}
    BY <1>1, <1>4
  <2> QED BY <2>1, GreatestNat
<1>6. \E z \in R : \A y \in R : z >= y
  BY <1>1, <1>5
<1>7. Max(R) \in R /\ \A y \in R : Max(R) >= y
  BY <1>6, Zenon DEF Max
<1>8. R \subseteq Nat
  BY <1>1
<1>9. Max(R) \in Nat
  BY <1>7, <1>8, Zenon
<1>10. \A y \in R : y <= Max(R)
  BY <1>7, <1>8, <1>9
<1> QED BY <1>7, <1>9, <1>10, Zenon DEF R

LEMMA BuildOK ==
  ASSUME NEW lg \in Seq(Row), NEW ac, Streams(lg, ac), NEW from \in Nat
  PROVE  /\ buildSnapshot(lg, ac, from) \in Event
         /\ buildSnapshot(lg, ac, from).type = "snapshot"
         /\ Current(lg, Carried(buildSnapshot(lg, ac, from)))
<1>1. Len(lg) \in Nat /\ DOMAIN lg = 1..Len(lg) /\ SnapshotMaxRows \in Nat \ {0}
  BY HubLimits
<1>2. CASE NeedsFull(lg, from)
  <2> DEFINE rows == Newest(Newest(DOMAIN lg, SnapshotFullLimit), SnapshotMaxRows)
  <2>1. rows \in SUBSET (DOMAIN lg)
    BY DEF Newest
  <2>2. buildSnapshot(lg, ac, from) =
          Snapshot(lg, ac, "full", rows, {}, Len(lg), rows # {} /\ 1 \notin rows)
    BY <1>2 DEF buildSnapshot, FullSnapshot
  <2> HIDE DEF rows
  <2>3. PICK cut \in BOOLEAN : cut = (rows # {} /\ 1 \notin rows)
    OBVIOUS
  <2>4. buildSnapshot(lg, ac, from) = Snapshot(lg, ac, "full", rows, {}, Len(lg), cut)
    BY <2>2, <2>3
  <2>5. {} \in SUBSET (DOMAIN lg) /\ "full" \in {"full", "catchup"}
    OBVIOUS
  <2>6. /\ Snapshot(lg, ac, "full", rows, {}, Len(lg), cut) \in Event
        /\ Snapshot(lg, ac, "full", rows, {}, Len(lg), cut).type = "snapshot"
        /\ Current(lg, Carried(Snapshot(lg, ac, "full", rows, {}, Len(lg), cut)))
    <3>1. Len(lg) \in Nat
      BY <1>1
    <3> QED BY <2>1, <2>3, <2>5, <3>1, SnapshotOK
  <2> QED BY <2>4, <2>6
<1>3. CASE ~NeedsFull(lg, from)
  <2> DEFINE fresh == {s \in DOMAIN lg : s > from}
             rows == Oldest(fresh, SnapshotMaxRows)
             resync == ResyncRows(lg, from)
             replaced == Newest(resync, SnapshotMaxRows - Cardinality(rows))
             latest == IF rows # fresh THEN Max(rows) ELSE Len(lg)
  <2>1. rows \in SUBSET (DOMAIN lg) /\ replaced \in SUBSET (DOMAIN lg)
    BY DEF Oldest, Newest, ResyncRows
  <2>2. latest \in Nat
    <3>1. fresh \in SUBSET (1..Len(lg))
      BY <1>1
    <3> HIDE DEF fresh
    <3> QED BY <1>1, <3>1, OldestSome
  <2>3. buildSnapshot(lg, ac, from) =
          Snapshot(lg, ac, "catchup", rows, replaced, latest, rows # fresh \/ replaced # resync)
    BY <1>3 DEF buildSnapshot, CatchupSnapshot
  <2> HIDE DEF fresh, rows, resync, replaced, latest
  <2>4. PICK cut \in BOOLEAN : cut = (rows # fresh \/ replaced # resync)
    OBVIOUS
  <2>5. buildSnapshot(lg, ac, from) = Snapshot(lg, ac, "catchup", rows, replaced, latest, cut)
    BY <2>3, <2>4
  <2>6. "catchup" \in {"full", "catchup"}
    OBVIOUS
  <2>7. /\ Snapshot(lg, ac, "catchup", rows, replaced, latest, cut) \in Event
        /\ Snapshot(lg, ac, "catchup", rows, replaced, latest, cut).type = "snapshot"
        /\ Current(lg, Carried(Snapshot(lg, ac, "catchup", rows, replaced, latest, cut)))
    BY <2>1, <2>2, <2>4, <2>6, SnapshotOK
  <2> QED BY <2>5, <2>7
<1> QED BY <1>2, <1>3

-----------------------------------------------------------------------------
(* The log changes, and copies of its rows stay versions it has reached.   *)

Grows(lg, lh) ==
  \A s \in DOMAIN lg :
    /\ s \in DOMAIN lh /\ lh[s].kind = lg[s].kind /\ lg[s].ver <= lh[s].ver
    /\ lg[s].ver = lh[s].ver => Same(lg[s], lh[s])

LEMMA GrowsSelf ==
  ASSUME NEW lg \in Seq(Row)
  PROVE  Grows(lg, lg)
<1>1. \A s \in DOMAIN lg : lg[s] \in Row
  OBVIOUS
<1>2. \A s \in DOMAIN lg : lg[s].ver <= lg[s].ver
  BY <1>1, RowFields
<1> QED BY <1>2, SameSelf DEF Grows

LEMMA VersionGrows ==
  ASSUME NEW lg \in Seq(Row), NEW lh \in Seq(Row), Grows(lg, lh),
         NEW V, \A v \in V : v.row \in Row, Logged(lg, V)
  PROVE  Logged(lh, V)
<1> SUFFICES ASSUME NEW v \in V PROVE Version(lh, v.seq, v.row)
  BY DEF Logged
<1> DEFINE s == v.seq
<1>1. /\ s \in DOMAIN lg /\ v.row.kind = lg[s].kind /\ v.row.ver <= lg[s].ver
      /\ v.row.ver = lg[s].ver => Same(v.row, lg[s])
  BY DEF Logged, Version
<1>2. /\ s \in DOMAIN lh /\ lh[s].kind = lg[s].kind /\ lg[s].ver <= lh[s].ver
      /\ lg[s].ver = lh[s].ver => Same(lg[s], lh[s])
  BY <1>1 DEF Grows
<1>3. v.row \in Row /\ lg[s] \in Row /\ lh[s] \in Row
  BY <1>1, <1>2
<1>4. v.row.ver \in Nat /\ lg[s].ver \in Nat /\ lh[s].ver \in Nat
  BY <1>3, RowFields
<1>5. v.row.ver <= lh[s].ver
  BY <1>1, <1>2, <1>4
<1>6. v.row.ver = lh[s].ver => v.row.ver = lg[s].ver /\ lg[s].ver = lh[s].ver
  BY <1>1, <1>2, <1>4
<1>7. v.row.ver = lh[s].ver => Same(v.row, lh[s])
  BY <1>1, <1>2, <1>6 DEF Same
<1> QED BY <1>1, <1>2, <1>5, <1>7 DEF Version

LEMMA CurrentIsLogged ==
  ASSUME NEW lg \in Seq(Row), NEW V, Current(lg, V)
  PROVE  Logged(lg, V)
<1> SUFFICES ASSUME NEW v \in V PROVE Version(lg, v.seq, v.row)
  BY DEF Logged
<1>1. v.seq \in DOMAIN lg /\ Same(v.row, lg[v.seq])
  BY DEF Current
<1>2. lg[v.seq] \in Row
  BY <1>1
<1>3. lg[v.seq].ver \in Nat
  BY <1>2, RowFields
<1> QED BY <1>1, <1>3 DEF Version, Same

LEMMA FromLogged ==
  ASSUME NEW lg, NEW V, NEW W, NEW X, From(V, W, X), Logged(lg, V), Logged(lg, X)
  PROVE  Logged(lg, W)
BY DEF From, Logged, Version, Same

LEMMA CurrentIsLast ==
  ASSUME NEW lg, NEW V, NEW W, Logged(lg, V), Current(lg, W)
  PROVE  NotBefore(V, W)
BY DEF Logged, Version, Current, Same, NotBefore

LEMMA FromNotBefore ==
  ASSUME NEW V, NEW W, NEW X, NEW Y, From(V, W, X), NotBefore(V, Y), NotBefore(X, Y)
  PROVE  NotBefore(W, Y)
BY DEF From, NotBefore, Same

LEMMA InvRows ==
  ASSUME SyncInv
  PROVE  /\ client.messages \in Partial(Row) /\ load.page \in Partial(Row)
         /\ \A v \in Shown(client.messages) : v.row \in Row
         /\ \A v \in Shown(load.page) : v.row \in Row
         /\ \A i \in DOMAIN net : net[i] \in Event
         /\ \A i \in DOMAIN net : \A v \in Carried(net[i]) : v.row \in Row
<1>1. client \in ReducerState /\ load \in Request /\ net \in Seq(Event)
  BY DEF SyncInv, BrowserTypes
<1>2. client.messages \in Partial(Row) /\ load.page \in Partial(Row)
  BY <1>1, ReducerFields DEF Request
<1>3. \A i \in DOMAIN net : net[i] \in Event
  BY <1>1
<1> QED BY <1>2, <1>3, ShownRows, CarriedRows

LEMMA KeptByGrowth ==
  ASSUME SyncInv, log' \in Seq(Row), Grows(log, log')
  PROVE  /\ Logged(log', Shown(client.messages)) /\ Logged(log', Shown(load.page))
         /\ \A i \in DOMAIN net : Logged(log', Carried(net[i]))
<1>1. /\ log \in Seq(Row)
      /\ Logged(log, Shown(client.messages)) /\ Logged(log, Shown(load.page))
      /\ \A i \in DOMAIN net : Logged(log, Carried(net[i]))
  BY DEF SyncInv
<1> QED BY <1>1, InvRows, VersionGrows

\* A step that changes the log and the streams, and tells nobody.
LEMMA Silent ==
  ASSUME SyncInv, log' \in Seq(Row), Grows(log, log'), Streams(log', acc'),
         UNCHANGED wire, BrowserUnchanged
  PROVE  SyncInv' /\ (SocketInOrder => SocketInOrder')
<1>1. /\ UNCHANGED <<sub, net, client, load>>
      /\ UNCHANGED <<sock, since, cursor, attempts, seen, hasMore>>
  BY DEF wire, BrowserUnchanged, socket, react, paging
<1>2. BrowserTypes'
  BY <1>1 DEF SyncInv, BrowserTypes
<1>3. SyncInv'
  BY <1>1, <1>2, KeptByGrowth DEF SyncInv
<1>4. SocketInOrder => SocketInOrder'
  BY <1>1 DEF SocketInOrder
<1> QED BY <1>3, <1>4

\* A step that changes them and broadcasts rows as the log then has them.
LEMMA Sends ==
  ASSUME SyncInv, log' \in Seq(Row), Grows(log, log'), Streams(log', acc'),
         NEW e \in Event, Current(log', Carried(e)), Broadcast(e), BrowserUnchanged
  PROVE  SyncInv' /\ (SocketInOrder => SocketInOrder')
<1>1. /\ UNCHANGED <<client, load>>
      /\ UNCHANGED <<sock, since, cursor, attempts, seen, hasMore>>
  BY DEF BrowserUnchanged, socket, react, paging
<1>2. BrowserTypes'
  BY <1>1 DEF SyncInv, BrowserTypes
<1>3. net \in Seq(Event) /\ sub \in SubStates
  BY DEF SyncInv
<1>4. /\ sub' \in SubStates /\ net' \in Seq(Event)
      /\ Len(net) <= Len(net') /\ \A i \in DOMAIN net : net'[i] = net[i]
      /\ \A i \in DOMAIN net' : i \notin DOMAIN net =>
           net'[i] = e \/ Carried(net'[i]) = {}
  <2>1. /\ sub' \in SubStates /\ net' \in Seq(Event)
        /\ Len(net) <= Len(net') /\ \A i \in DOMAIN net : net'[i] = net[i]
        /\ \A i \in DOMAIN net' : i \notin DOMAIN net =>
             net'[i] \in {e, ResyncEvent, CloseEvent}
    BY <1>3, Empties, BroadcastAdds
  <2> QED BY <2>1, Empties
<1>5. \A i \in DOMAIN net : Logged(log', Carried(net[i]))
  BY KeptByGrowth
<1>6. \A i \in DOMAIN net' : i \notin DOMAIN net =>
        Current(log', Carried(net'[i])) /\ Logged(log', Carried(net'[i]))
  BY <1>4, CurrentIsLogged DEF Current, Logged
<1>7. \A i \in DOMAIN net' : Logged(log', Carried(net'[i]))
  BY <1>4, <1>5, <1>6
<1>8. SyncInv'
  BY <1>1, <1>2, <1>4, <1>7, KeptByGrowth DEF SyncInv
<1>9. ASSUME SocketInOrder PROVE SocketInOrder'
  <2>1. \A i \in DOMAIN net' : NotBefore(Shown(client.messages), Carried(net'[i]))
    <3>1. Logged(log', Shown(client.messages))
      BY KeptByGrowth
    <3> QED BY <1>4, <1>6, <1>9, <3>1, CurrentIsLast DEF SocketInOrder
  <2>2. ASSUME NEW i \in DOMAIN net', NEW j \in DOMAIN net', i < j
        PROVE  NotBefore(Carried(net'[i]), Carried(net'[j]))
    <3>1. CASE j \in DOMAIN net
      <4>1. i \in DOMAIN net
        BY <1>3, <1>4, <2>2, <3>1
      <4> QED BY <1>4, <1>9, <2>2, <3>1, <4>1 DEF SocketInOrder
    <3>2. CASE j \notin DOMAIN net
      BY <1>6, <1>7, <3>2, CurrentIsLast
    <3> QED BY <3>1, <3>2
  <2> QED BY <1>1, <1>9, <2>1, <2>2 DEF SocketInOrder
<1> QED BY <1>8, <1>9

-----------------------------------------------------------------------------
(* Steps of the server.                                                    *)

LEMMA AppendOK ==
  ASSUME NEW lg \in Seq(Row), NEW row \in Row, NEW ac, Streams(lg, ac)
  PROVE  /\ Append(lg, row) \in Seq(Row) /\ Grows(lg, Append(lg, row))
         /\ Streams(Append(lg, row), ac)
         /\ Len(lg) + 1 \in DOMAIN Append(lg, row) /\ Append(lg, row)[Len(lg) + 1] = row
         /\ Len(lg) + 1 \in Nat
<1> DEFINE lh == Append(lg, row)
<1>1. /\ lh \in Seq(Row) /\ Len(lg) \in Nat /\ DOMAIN lg = 1..Len(lg)
      /\ DOMAIN lh = 1..(Len(lg) + 1) /\ lh[Len(lg) + 1] = row
      /\ \A i \in DOMAIN lg : lh[i] = lg[i]
  OBVIOUS
<1> HIDE DEF lh
<1>2. \A i \in DOMAIN lg : i \in DOMAIN lh
  BY <1>1
<1>3. Grows(lg, lh)
  <2>1. \A i \in DOMAIN lg : lg[i].ver <= lg[i].ver
    <3>1. \A i \in DOMAIN lg : lg[i] \in Row
      OBVIOUS
    <3>2. \A i \in DOMAIN lg : lg[i].ver \in Nat
      BY <3>1, RowFields
    <3> QED BY <3>2
  <2> QED BY <1>1, <1>2, <2>1, SameSelf DEF Grows
<1>4. Streams(lh, ac)
  BY <1>1, <1>2 DEF Streams, Stream
<1> QED BY <1>1, <1>3, <1>4 DEF lh

\* A row that is given another version, or keeps what a version fixes.
LEMMA RewriteOK ==
  ASSUME NEW lg \in Seq(Row), NEW s \in DOMAIN lg, NEW row \in Row,
         row.kind = lg[s].kind, lg[s].ver < row.ver \/ Same(lg[s], row)
  PROVE  /\ [lg EXCEPT ![s] = row] \in Seq(Row) /\ Grows(lg, [lg EXCEPT ![s] = row])
         /\ DOMAIN [lg EXCEPT ![s] = row] = DOMAIN lg
         /\ \A t \in DOMAIN lg : [lg EXCEPT ![s] = row][t] = IF t = s THEN row ELSE lg[t]
<1> DEFINE lh == [lg EXCEPT ![s] = row]
<1>1. /\ lh \in Seq(Row) /\ DOMAIN lh = DOMAIN lg
      /\ \A t \in DOMAIN lg : lh[t] = IF t = s THEN row ELSE lg[t]
  OBVIOUS
<1> HIDE DEF lh
<1>2. \A t \in DOMAIN lg : lg[t] \in Row /\ lh[t] \in Row
  BY <1>1
<1>3. \A t \in DOMAIN lg : lg[t].ver \in Nat /\ lh[t].ver \in Nat
  BY <1>2, RowFields
<1>4. ASSUME NEW t \in DOMAIN lg
      PROVE  /\ lh[t].kind = lg[t].kind /\ lg[t].ver <= lh[t].ver
             /\ lg[t].ver = lh[t].ver => Same(lg[t], lh[t])
  <2>1. CASE t = s
    <3>1. lh[t] = row /\ lg[t].ver \in Nat /\ row.ver \in Nat
      BY <1>1, <1>3, <2>1
    <3>2. CASE lg[s].ver < row.ver
      BY <2>1, <3>1, <3>2
    <3>3. CASE Same(lg[s], row)
      BY <2>1, <3>1, <3>3 DEF Same
    <3> QED BY <3>2, <3>3
  <2>2. CASE t # s
    <3>1. lh[t] = lg[t] /\ lg[t].ver \in Nat
      BY <1>1, <1>3, <2>2
    <3> QED BY <3>1, SameSelf
  <2> QED BY <2>1, <2>2
<1> QED BY <1>1, <1>4 DEF Grows, lh

\* The streams of rows that were left alone.
LEMMA StreamsKept ==
  ASSUME NEW lg \in Seq(Row), NEW s \in DOMAIN lg, NEW row \in Row, row.kind = lg[s].kind,
         NEW ac, Streams(lg, ac)
  PROVE  /\ s \notin DOMAIN ac => Streams([lg EXCEPT ![s] = row], ac)
         /\ Same(lg[s], row) => Streams([lg EXCEPT ![s] = row], ac)
         /\ Streams([lg EXCEPT ![s] = row], Restrict(ac, DOMAIN ac \ {s}))
<1> DEFINE lh == [lg EXCEPT ![s] = row]
<1>1. DOMAIN lh = DOMAIN lg /\ \A t \in DOMAIN lg : lh[t] = IF t = s THEN row ELSE lg[t]
  OBVIOUS
<1> HIDE DEF lh
<1>2. ASSUME NEW t \in DOMAIN ac, t # s \/ Same(lg[s], row)
      PROVE  Stream(lh, t, ac[t])
  <2>1. /\ ac[t] \in Accumulator /\ t \in DOMAIN lg /\ lg[t].kind \in {"prose", "card"}
        /\ \A i \in DOMAIN ac[t].update : Same(ac[t].update[i], lg[t])
    BY DEF Streams, Stream
  <2>2. t \in DOMAIN lh /\ lh[t].kind = lg[t].kind /\ Same(lg[t], lh[t])
    BY <1>1, <1>2, <2>1, SameSelf
  <2>3. \A i \in DOMAIN ac[t].update : Same(ac[t].update[i], lh[t])
    BY <2>1, <2>2 DEF Same
  <2> QED BY <2>1, <2>2, <2>3 DEF Stream
<1>3. ac = [t \in DOMAIN ac |-> ac[t]]
  BY DEF Streams
<1>4. Streams(lh, Restrict(ac, DOMAIN ac \ {s}))
  <2> DEFINE kept == Restrict(ac, DOMAIN ac \ {s})
  <2>1. /\ DOMAIN kept = DOMAIN ac \ {s} /\ kept = [t \in DOMAIN kept |-> kept[t]]
        /\ \A t \in DOMAIN kept : kept[t] = ac[t]
    BY DEF Restrict
  <2> HIDE DEF kept
  <2>2. \A t \in DOMAIN kept : Stream(lh, t, kept[t])
    BY <1>2, <2>1
  <2>3. Streams(lh, kept)
    BY <2>1, <2>2 DEF Streams
  <2> QED BY <2>3 DEF kept
<1> QED BY <1>2, <1>3, <1>4 DEF Streams, lh

\* An open stream's own state changes.
LEMMA StreamPut ==
  ASSUME NEW lg, NEW ac, Streams(lg, ac), NEW s \in DOMAIN ac, NEW a, Stream(lg, s, a)
  PROVE  Streams(lg, [ac EXCEPT ![s] = a])
<1> DEFINE ad == [ac EXCEPT ![s] = a]
<1>1. /\ DOMAIN ad = DOMAIN ac /\ ad = [t \in DOMAIN ad |-> ad[t]]
      /\ \A t \in DOMAIN ad : ad[t] = IF t = s THEN a ELSE ac[t]
  BY DEF Streams
<1> HIDE DEF ad
<1>2. \A t \in DOMAIN ad : Stream(lg, t, ad[t])
  BY <1>1 DEF Streams
<1>3. Streams(lg, ad)
  BY <1>1, <1>2 DEF Streams
<1> QED BY <1>3 DEF ad

\* A new row is announced as it is.
LEMMA CurrentRow ==
  ASSUME NEW lg, NEW s \in Nat, s \in DOMAIN lg, NEW row \in Row, Same(row, lg[s]),
         NEW type \in RowTypes
  PROVE  /\ RowEvent(type, s, row) \in Event
         /\ Current(lg, Carried(RowEvent(type, s, row)))
BY RowEventIs DEF Current

LEMMA NewRowIs ==
  ASSUME NEW kind \in Kinds, NEW status \in Settled \cup {"streaming"}, NEW text \in Seq(Nat)
  PROVE  NewRow(kind, status, text) \in Row /\ NewRow(kind, status, text).kind = kind
<1>1. "none" \in Marks
  BY DEF Marks
<1> QED BY <1>1 DEF NewRow, Row

LEMMA SyncPost ==
  ASSUME SyncInv, Post
  PROVE  SyncInv' /\ (SocketInOrder => SocketInOrder')
<1> DEFINE row == NewRow("human", "complete", <<>>)
<1>1. /\ log' = Append(log, row) /\ acc' = acc
      /\ Broadcast(RowEvent("created", Len(log) + 1, row)) /\ BrowserUnchanged
  BY DEF Post
<1>2. row \in Row
  <2>1. "human" \in Kinds /\ "complete" \in Settled \cup {"streaming"} /\ <<>> \in Seq(Nat)
    BY DEF Kinds, Settled
  <2> QED BY <2>1, NewRowIs
<1> HIDE DEF row
<1>3. log \in Seq(Row) /\ Streams(log, acc)
  BY DEF SyncInv
<1>4. /\ log' \in Seq(Row) /\ Grows(log, log') /\ Streams(log', acc')
      /\ Len(log) + 1 \in DOMAIN log' /\ log'[Len(log) + 1] = row /\ Len(log) + 1 \in Nat
  BY <1>1, <1>2, <1>3, AppendOK
<1>5. /\ RowEvent("created", Len(log) + 1, row) \in Event
      /\ Current(log', Carried(RowEvent("created", Len(log) + 1, row)))
  BY <1>2, <1>4, CurrentRow, SameSelf DEF RowTypes
<1> QED BY <1>1, <1>4, <1>5, Sends

LEMMA SyncBegin ==
  ASSUME SyncInv, NEW kind \in StreamKinds, NEW text \in {<<>>, << 1 >>}, BeginStream(kind, text)
  PROVE  SyncInv' /\ (SocketInOrder => SocketInOrder')
<1> DEFINE row == NewRow(kind, "streaming", text)
           s == Len(log) + 1
           a == [text |-> text, pending |-> <<>>, deltaIndex |-> -1, update |-> <<>>]
<1>1. /\ log' = Append(log, row) /\ acc' = Put(acc, s, a)
      /\ Broadcast(RowEvent("created", s, row)) /\ BrowserUnchanged
  BY DEF BeginStream
<1>2. kind \in {"prose", "card"} /\ text \in Seq(Nat)
  <2>1. kind \in {"prose", "card"}
    BY SyncLimits
  <2>2. <<>> \in Seq(Nat) /\ <<1>> \in Seq(Nat)
    OBVIOUS
  <2>3. text \in Seq(Nat)
    BY <2>2
  <2> QED BY <2>1, <2>3
<1>3. row \in Row /\ row.kind = kind
  <2>1. kind \in Kinds /\ "streaming" \in Settled \cup {"streaming"}
    BY <1>2 DEF Kinds
  <2> QED BY <1>2, <2>1, NewRowIs
<1>4. log \in Seq(Row) /\ Streams(log, acc)
  BY DEF SyncInv
<1>5. a \in Accumulator /\ a.update = <<>>
  BY <1>2 DEF Accumulator
<1> HIDE DEF row, a
<1>6. /\ log' \in Seq(Row) /\ Grows(log, log') /\ Streams(log', acc)
      /\ s \in DOMAIN log' /\ log'[s] = row /\ s \in Nat
  BY <1>1, <1>3, <1>4, AppendOK
<1> HIDE DEF s
<1>7. Stream(log', s, a)
  BY <1>2, <1>3, <1>5, <1>6 DEF Stream
<1>8. Streams(log', acc')
  <2>1. /\ DOMAIN acc' = DOMAIN acc \cup {s} /\ acc' = [t \in DOMAIN acc' |-> acc'[t]]
        /\ \A t \in DOMAIN acc' : acc'[t] = IF t = s THEN a ELSE acc[t]
    BY <1>1 DEF Put
  <2>2. \A t \in DOMAIN acc' : Stream(log', t, acc'[t])
    BY <1>6, <1>7, <2>1 DEF Streams
  <2> QED BY <2>1, <2>2 DEF Streams
<1>9. /\ RowEvent("created", s, row) \in Event
      /\ Current(log', Carried(RowEvent("created", s, row)))
  BY <1>3, <1>6, CurrentRow, SameSelf DEF RowTypes
<1> QED BY <1>1, <1>6, <1>8, <1>9, Sends

\* A row is rewritten, its stream if any is released, and all is told.
LEMMA Settles ==
  ASSUME SyncInv, NEW s \in DOMAIN log, NEW row \in Row, row.kind = log[s].kind,
         log[s].ver < row.ver \/ Same(log[s], row), NEW type \in RowTypes,
         log' = [log EXCEPT ![s] = row], acc' = Restrict(acc, DOMAIN acc \ {s}),
         Broadcast(RowEvent(type, s, row)), BrowserUnchanged
  PROVE  SyncInv' /\ (SocketInOrder => SocketInOrder')
<1>1. log \in Seq(Row) /\ Streams(log, acc)
  BY DEF SyncInv
<1>2. s \in Nat
  BY <1>1
<1>3. /\ log' \in Seq(Row) /\ Grows(log, log') /\ DOMAIN log' = DOMAIN log /\ log'[s] = row
  BY <1>1, RewriteOK
<1>4. Streams(log', acc')
  BY <1>1, StreamsKept
<1>5. RowEvent(type, s, row) \in Event /\ Current(log', Carried(RowEvent(type, s, row)))
  BY <1>2, <1>3, CurrentRow, SameSelf
<1> QED BY <1>3, <1>4, <1>5, Sends

LEMMA RevisedOK ==
  ASSUME NEW row \in Row, NEW text \in Seq(Nat), NEW status \in Settled \cup {"streaming"},
         NEW mark \in Marks
  PROVE  LET new == [row EXCEPT !.text = text, !.status = status, !.ver = @ + 1, !.mark = mark]
         IN new \in Row /\ new.kind = row.kind /\ row.ver < new.ver
<1>1. row.ver \in Nat
  BY RowFields
<1>2. row.ver + 1 \in Nat /\ row.ver < row.ver + 1
  BY <1>1
<1> QED BY <1>2 DEF Row

\* The row of an open stream.
LEMMA OpenRow ==
  ASSUME SyncInv, NEW s \in DOMAIN acc
  PROVE  /\ log \in Seq(Row) /\ Streams(log, acc) /\ s \in DOMAIN log /\ s \in Nat
         /\ log[s] \in Row /\ log[s].kind \in {"prose", "card"}
         /\ acc[s] \in Accumulator /\ Stream(log, s, acc[s])
         /\ acc[s].text \in Seq(Nat) /\ acc[s].pending \in Seq(Nat)
         /\ acc[s].deltaIndex \in Int /\ acc[s].update \in Seq(Row)
<1>1. log \in Seq(Row) /\ Streams(log, acc)
  BY DEF SyncInv
<1>2. Stream(log, s, acc[s])
  BY <1>1 DEF Streams
<1>3. s \in DOMAIN log /\ log[s].kind \in {"prose", "card"} /\ acc[s] \in Accumulator
  BY <1>2 DEF Stream
<1> QED BY <1>1, <1>2, <1>3 DEF Accumulator

LEMMA SyncFinalize ==
  ASSUME SyncInv, NEW s \in DOMAIN acc, NEW status \in Settled,
         NEW mark \in {"none", "provisional", "explicit"}, Finalize(s, status, mark)
  PROVE  SyncInv' /\ (SocketInOrder => SocketInOrder')
<1> DEFINE row == [log[s] EXCEPT !.text = acc[s].text, !.status = status,
                                 !.ver = @ + 1, !.mark = mark]
<1>1. /\ log' = [log EXCEPT ![s] = row] /\ acc' = Restrict(acc, DOMAIN acc \ {s})
      /\ Broadcast(RowEvent("completed", s, row)) /\ BrowserUnchanged
  BY DEF Finalize
<1>2. mark \in Marks /\ "completed" \in RowTypes
  BY DEF Marks, RowTypes
<1>3. row \in Row /\ row.kind = log[s].kind /\ log[s].ver < row.ver
  BY <1>2, OpenRow, RevisedOK
<1> HIDE DEF row
<1> QED BY <1>1, <1>2, <1>3, OpenRow, Settles

LEMMA SyncFinalizeStream ==
  ASSUME SyncInv, NEW s, NEW status \in Settled,
         NEW mark \in {"none", "provisional", "explicit"}, FinalizeStream(s, status, mark)
  PROVE  SyncInv' /\ (SocketInOrder => SocketInOrder')
<1>1. s \in DOMAIN acc /\ Finalize(s, status, mark)
  BY DEF FinalizeStream
<1> QED BY <1>1, SyncFinalize

LEMMA SyncAppendDelta ==
  ASSUME SyncInv, NEW s, AppendDelta(s)
  PROVE  SyncInv' /\ (SocketInOrder => SocketInOrder')
<1> DEFINE chunk == Len(acc[s].text) + 1
           a == [acc[s] EXCEPT !.text = Append(@, chunk), !.pending = Append(@, chunk)]
<1>1. s \in DOMAIN acc
  BY DEF AppendDelta
<1>2. CASE chunk <= BodyMaxChunks
  <2>1. acc' = [acc EXCEPT ![s] = a] /\ UNCHANGED <<log, wire>> /\ BrowserUnchanged
    BY <1>1, <1>2 DEF AppendDelta
  <2>2. /\ acc[s].text \in Seq(Nat) /\ acc[s].pending \in Seq(Nat) /\ acc[s] \in Accumulator
        /\ Stream(log, s, acc[s]) /\ log \in Seq(Row) /\ Streams(log, acc)
    BY <1>1, OpenRow
  <2>3. chunk \in Nat
    BY <2>2
  <2> HIDE DEF chunk
  <2>4. Append(acc[s].text, chunk) \in Seq(Nat) /\ Append(acc[s].pending, chunk) \in Seq(Nat)
    BY <2>2, <2>3
  <2>5. a \in Accumulator /\ a.update = acc[s].update
    BY <2>2, <2>4 DEF Accumulator
  <2> HIDE DEF a
  <2>6. Stream(log, s, a)
    BY <2>2, <2>5 DEF Stream
  <2>7. Streams(log', acc') /\ log' \in Seq(Row)
    BY <1>1, <2>1, <2>2, <2>6, StreamPut
  <2> QED BY <2>1, <2>7, Silent, GrowsSelf
<1>3. CASE ~(chunk <= BodyMaxChunks)
  <2>1. Finalize(s, "truncated", "none")
    BY <1>3 DEF AppendDelta
  <2>2. "truncated" \in Settled /\ "none" \in {"none", "provisional", "explicit"}
    BY DEF Settled
  <2> QED BY <1>1, <2>1, <2>2, SyncFinalize
<1> QED BY <1>2, <1>3

LEMMA SyncFlushAccumulator ==
  ASSUME SyncInv, NEW s, FlushAccumulator(s)
  PROVE  SyncInv' /\ (SocketInOrder => SocketInOrder')
<1> DEFINE a == [acc[s] EXCEPT !.deltaIndex = @ + 1, !.pending = <<>>]
           e == DeltaEvent(s, acc[s].deltaIndex + 1, acc[s].pending)
<1>1. /\ s \in DOMAIN acc /\ acc' = [acc EXCEPT ![s] = a] /\ log' = log
      /\ Broadcast(e) /\ BrowserUnchanged
  BY DEF FlushAccumulator
<1>2. /\ acc[s].deltaIndex \in Int /\ acc[s].pending \in Seq(Nat) /\ acc[s] \in Accumulator
      /\ Stream(log, s, acc[s]) /\ log \in Seq(Row) /\ Streams(log, acc) /\ s \in Nat
  BY <1>1, OpenRow
<1>3. acc[s].deltaIndex + 1 \in Int
  BY <1>2
<1>4. a \in Accumulator /\ a.update = acc[s].update
  <2>1. <<>> \in Seq(Nat)
    OBVIOUS
  <2> QED BY <1>2, <1>3, <2>1 DEF Accumulator
<1>5. e \in Event /\ Carried(e) = {}
  BY <1>2, <1>3, DeltaEventIs
<1> HIDE DEF a, e
<1>6. Stream(log, s, a)
  BY <1>2, <1>4 DEF Stream
<1>7. Streams(log', acc') /\ log' \in Seq(Row) /\ Grows(log, log')
  BY <1>1, <1>2, <1>6, StreamPut, GrowsSelf
<1>8. Current(log', Carried(e))
  BY <1>5 DEF Current
<1> QED BY <1>1, <1>5, <1>7, <1>8, Sends

LEMMA SyncFlushStreamText ==
  ASSUME SyncInv, NEW s, FlushStreamText(s)
  PROVE  SyncInv' /\ (SocketInOrder => SocketInOrder')
<1> DEFINE row == [log[s] EXCEPT !.text = acc[s].text]
<1>1. /\ s \in DOMAIN acc /\ log' = [log EXCEPT ![s] = row]
      /\ UNCHANGED <<acc, wire>> /\ BrowserUnchanged
  BY DEF FlushStreamText
<1>2. /\ log \in Seq(Row) /\ Streams(log, acc) /\ s \in DOMAIN log /\ log[s] \in Row
      /\ acc[s].text \in Seq(Nat)
  BY <1>1, OpenRow
<1>3. row \in Row /\ Same(log[s], row)
  BY <1>2, RetextOK
<1> HIDE DEF row
<1>4. row.kind = log[s].kind
  BY <1>3 DEF Same
<1>5. log' \in Seq(Row) /\ Grows(log, log') /\ Streams(log', acc')
  BY <1>1, <1>2, <1>3, <1>4, RewriteOK, StreamsKept
<1> QED BY <1>1, <1>5, Silent

LEMMA SyncUpdateAgentDetail ==
  ASSUME SyncInv, NEW s, UpdateAgentDetail(s)
  PROVE  SyncInv' /\ (SocketInOrder => SocketInOrder')
<1> DEFINE row == [log[s] EXCEPT !.ver = @ + 1]
           a == [acc[s] EXCEPT !.update = <<log'[s]>>]
<1>1. /\ s \in DOMAIN acc /\ log' = [log EXCEPT ![s] = row]
      /\ acc' = [acc EXCEPT ![s] = a] /\ UNCHANGED wire /\ BrowserUnchanged
  BY DEF UpdateAgentDetail
<1>2. /\ log \in Seq(Row) /\ Streams(log, acc) /\ s \in DOMAIN log /\ log[s] \in Row
      /\ acc[s] \in Accumulator /\ Stream(log, s, acc[s])
  BY <1>1, OpenRow
<1>3. row \in Row /\ row.kind = log[s].kind /\ log[s].ver < row.ver
  <2>1. log[s].ver \in Nat
    BY <1>2, RowFields
  <2>2. log[s].ver + 1 \in Nat /\ log[s].ver < log[s].ver + 1
    BY <2>1
  <2> QED BY <1>2, <2>2 DEF Row
<1> HIDE DEF row
<1>4. /\ log' \in Seq(Row) /\ Grows(log, log') /\ DOMAIN log' = DOMAIN log
      /\ \A t \in DOMAIN log : log'[t] = IF t = s THEN row ELSE log[t]
  BY <1>1, <1>2, <1>3, RewriteOK
<1>5. log'[s] = row
  BY <1>2, <1>4
<1>6. a \in Accumulator /\ a.update = <<row>>
  <2>1. <<row>> \in Seq(Row)
    BY <1>3
  <2> QED BY <1>2, <1>5, <2>1 DEF Accumulator
<1> HIDE DEF a
<1>7. Stream(log', s, a)
  BY <1>2, <1>3, <1>4, <1>5, <1>6, SameSelf DEF Stream
<1>8. Streams(log', acc')
  <2>1. /\ DOMAIN acc' = DOMAIN acc /\ acc' = [t \in DOMAIN acc' |-> acc'[t]]
        /\ \A t \in DOMAIN acc' : acc'[t] = IF t = s THEN a ELSE acc[t]
    BY <1>1
  <2>2. \A t \in DOMAIN acc' : Stream(log', t, acc'[t])
    BY <1>2, <1>4, <1>7, <2>1 DEF Streams, Stream
  <2> QED BY <2>1, <2>2 DEF Streams
<1> QED BY <1>1, <1>4, <1>8, Silent

LEMMA SyncFlushRowUpdate ==
  ASSUME SyncInv, NEW s, FlushRowUpdate(s)
  PROVE  SyncInv' /\ (SocketInOrder => SocketInOrder')
<1> DEFINE a == [acc[s] EXCEPT !.update = <<>>]
           row == Head(acc[s].update)
<1>1. /\ s \in DOMAIN acc /\ acc' = [acc EXCEPT ![s] = a] /\ log' = log
      /\ acc[s].update # <<>>
      /\ Broadcast(RowEvent("updated", s, row)) /\ BrowserUnchanged
  BY DEF FlushRowUpdate
<1>2. /\ log \in Seq(Row) /\ Streams(log, acc) /\ s \in DOMAIN log /\ s \in Nat
      /\ acc[s] \in Accumulator /\ Stream(log, s, acc[s]) /\ acc[s].update \in Seq(Row)
  BY <1>1, OpenRow
<1>3. row \in Row /\ 1 \in DOMAIN acc[s].update /\ row = acc[s].update[1]
  BY <1>1, <1>2
<1>4. Same(row, log[s])
  BY <1>2, <1>3 DEF Stream
<1>5. a \in Accumulator /\ a.update = <<>>
  <2>1. <<>> \in Seq(Row)
    OBVIOUS
  <2> QED BY <1>2, <2>1 DEF Accumulator
<1> HIDE DEF a, row
<1>6. Stream(log, s, a)
  BY <1>2, <1>5 DEF Stream
<1>7. Streams(log', acc') /\ log' \in Seq(Row) /\ Grows(log, log')
  BY <1>1, <1>2, <1>6, StreamPut, GrowsSelf
<1>8. /\ RowEvent("updated", s, row) \in Event
      /\ Current(log', Carried(RowEvent("updated", s, row)))
  BY <1>1, <1>2, <1>3, <1>4, CurrentRow DEF RowTypes
<1> QED BY <1>1, <1>7, <1>8, Sends

LEMMA RevisedRow ==
  ASSUME NEW row \in Row, NEW status \in Settled \cup {"streaming"}, NEW mark \in Marks
  PROVE  LET new == [row EXCEPT !.status = status, !.mark = mark, !.ver = @ + 1]
         IN new \in Row /\ new.kind = row.kind /\ row.ver < new.ver
<1>1. row.ver \in Nat
  BY RowFields
<1>2. row.ver + 1 \in Nat /\ row.ver < row.ver + 1
  BY <1>1
<1> QED BY <1>2 DEF Row

LEMMA SyncResolveProvisional ==
  ASSUME SyncInv, NEW s, NEW status \in Settled, ResolveProvisional(s, status)
  PROVE  SyncInv' /\ (SocketInOrder => SocketInOrder')
<1> DEFINE row == [log[s] EXCEPT !.status = status, !.mark = "explicit", !.ver = @ + 1]
<1>1. /\ s \in DOMAIN log /\ log' = [log EXCEPT ![s] = row]
      /\ acc' = Restrict(acc, DOMAIN acc \ {s})
      /\ Broadcast(RowEvent("completed", s, row)) /\ BrowserUnchanged
  BY DEF ResolveProvisional
<1>2. log[s] \in Row
  BY <1>1 DEF SyncInv
<1>3. "explicit" \in Marks /\ "completed" \in RowTypes
  BY DEF Marks, RowTypes
<1>4. row \in Row /\ row.kind = log[s].kind /\ log[s].ver < row.ver
  BY <1>2, <1>3, RevisedRow
<1> HIDE DEF row
<1> QED BY <1>1, <1>3, <1>4, Settles

\* An operator's row has no stream.
LEMMA HumanAlone ==
  ASSUME SyncInv, NEW s \in DOMAIN log, log[s].kind = "human"
  PROVE  s \notin DOMAIN acc
BY DEF SyncInv, Streams, Stream

LEMMA SyncEdit ==
  ASSUME SyncInv, NEW s, EditMessage(s)
  PROVE  SyncInv' /\ (SocketInOrder => SocketInOrder')
<1> DEFINE row == [log[s] EXCEPT !.ver = @ + 1, !.mark = "edited"]
<1>1. /\ s \in DOMAIN log /\ log[s].kind = "human" /\ log' = [log EXCEPT ![s] = row]
      /\ acc' = acc /\ Broadcast(RowEvent("edited", s, row)) /\ BrowserUnchanged
  BY DEF EditMessage
<1>2. log[s] \in Row /\ log \in Seq(Row) /\ Streams(log, acc)
  BY <1>1 DEF SyncInv
<1>3. "edited" \in Marks /\ "edited" \in RowTypes
  BY DEF Marks, RowTypes
<1>4. row \in Row /\ row.kind = log[s].kind /\ log[s].ver < row.ver
  <2>1. log[s].ver \in Nat
    BY <1>2, RowFields
  <2>2. log[s].ver + 1 \in Nat /\ log[s].ver < log[s].ver + 1
    BY <2>1
  <2> QED BY <1>2, <1>3, <2>2 DEF Row
<1> HIDE DEF row
<1>5. /\ log' \in Seq(Row) /\ Grows(log, log') /\ DOMAIN log' = DOMAIN log /\ log'[s] = row
  BY <1>1, <1>2, <1>4, RewriteOK
<1>6. Streams(log', acc')
  BY <1>1, <1>2, <1>4, HumanAlone, StreamsKept
<1>7. s \in Nat
  BY <1>1, <1>2
<1>8. RowEvent("edited", s, row) \in Event /\ Current(log', Carried(RowEvent("edited", s, row)))
  BY <1>1, <1>3, <1>4, <1>5, <1>7, CurrentRow, SameSelf
<1> QED BY <1>1, <1>5, <1>6, <1>8, Sends

LEMMA SyncDelete ==
  ASSUME SyncInv, NEW s, DeleteMessage(s)
  PROVE  SyncInv' /\ (SocketInOrder => SocketInOrder')
<1> DEFINE new == [log[s] EXCEPT !.ver = @ + 1, !.mark = "deleted"]
           row == IF log[s].mark = "deleted" THEN log[s] ELSE new
<1>1. /\ s \in DOMAIN log /\ log' = [log EXCEPT ![s] = row]
      /\ acc' = Restrict(acc, DOMAIN acc \ {s})
      /\ Broadcast(RowEvent("deleted", s, row)) /\ BrowserUnchanged
  BY DEF DeleteMessage
<1>2. log[s] \in Row
  BY <1>1 DEF SyncInv
<1>3. "deleted" \in Marks /\ "deleted" \in RowTypes
  BY DEF Marks, RowTypes
<1>4. new \in Row /\ new.kind = log[s].kind /\ log[s].ver < new.ver
  <2>1. log[s].ver \in Nat
    BY <1>2, RowFields
  <2>2. log[s].ver + 1 \in Nat /\ log[s].ver < log[s].ver + 1
    BY <2>1
  <2> QED BY <1>2, <1>3, <2>2 DEF Row
<1>5. row \in Row /\ row.kind = log[s].kind /\ (log[s].ver < row.ver \/ Same(log[s], row))
  <2> HIDE DEF new
  <2> QED BY <1>2, <1>4, SameSelf
<1> HIDE DEF row
<1> QED BY <1>1, <1>3, <1>5, Settles

\* The deltas that a flush owes a browser which gets the snapshot.
Owed(snapshot) ==
  {DeltaEvent(s, Flushed[s].deltaIndex, acc[s].pending) :
     s \in {t \in DOMAIN acc : acc[t].pending # <<>>}
            \ (DOMAIN snapshot.inFlight \cup DOMAIN snapshot.replacementInFlight)}

\* The queue behind a snapshot holds them, each stream's once.
LEMMA QueuedOK ==
  ASSUME SyncInv, NEW snapshot
  PROVE  /\ QueuedDeltas(snapshot) \in Seq(Event)
         /\ \A i \in DOMAIN QueuedDeltas(snapshot) :
              QueuedDeltas(snapshot)[i].type = "delta" /\ QueuedDeltas(snapshot)[i] \in Owed(snapshot)
         /\ \A i, j \in DOMAIN QueuedDeltas(snapshot) :
              i < j => QueuedDeltas(snapshot)[i].seq # QueuedDeltas(snapshot)[j].seq
<1> DEFINE recorded == DOMAIN snapshot.inFlight \cup DOMAIN snapshot.replacementInFlight
           S == {s \in DOMAIN acc : acc[s].pending # <<>>} \ recorded
           order == InOrder(S)
           E(i) == DeltaEvent(order[i], Flushed[order[i]].deltaIndex, acc[order[i]].pending)
           q == QueuedDeltas(snapshot)
<1>1. q = [i \in 1..Len(order) |-> E(i)]
  BY DEF QueuedDeltas
<1>2. S \in SUBSET (DOMAIN acc)
  OBVIOUS
<1>3. order \in Seq(S) /\ \A i, j \in DOMAIN order : i < j => order[i] < order[j]
  <2>1. log \in Seq(Row) /\ \A s \in DOMAIN acc : s \in DOMAIN log
    BY DEF SyncInv, Streams, Stream
  <2>2. Len(log) \in Nat /\ S \in SUBSET (0..Len(log))
    BY <2>1, <1>2
  <2> HIDE DEF S
  <2> QED BY <2>2, InOrderIs
<1>4. ASSUME NEW s \in DOMAIN acc
      PROVE  DeltaEvent(s, Flushed[s].deltaIndex, acc[s].pending) \in Event
  <2>1. /\ s \in Nat /\ acc[s] \in Accumulator
        /\ acc[s].pending \in Seq(Nat) /\ acc[s].deltaIndex \in Int
    BY OpenRow
  <2>2. acc[s].deltaIndex + 1 \in Int
    BY <2>1
  <2>3. Flushed[s].deltaIndex \in Int
    BY <2>1, <2>2 DEF Flushed, Accumulator
  <2> QED BY <2>1, <2>3, DeltaEventIs
<1> HIDE DEF order
<1>5. \A i \in 1..Len(order) : order[i] \in S
  BY <1>3
<1>6. /\ \A i \in 1..Len(order) : E(i) \in Event /\ E(i).type = "delta" /\ E(i).seq = order[i]
      /\ \A i \in 1..Len(order) : E(i) \in Owed(snapshot)
  <2>1. \A i \in 1..Len(order) : E(i) \in Event /\ E(i).type = "delta" /\ E(i).seq = order[i]
    BY <1>2, <1>4, <1>5 DEF DeltaEvent
  <2>2. \A i \in 1..Len(order) : E(i) \in Owed(snapshot)
    BY <1>5 DEF Owed
  <2> QED BY <2>1, <2>2
<1>7. Len(order) \in Nat /\ DOMAIN order = 1..Len(order)
  BY <1>3
<1>8. \A i, j \in 1..Len(order) : i < j => order[i] # order[j]
  <2>1. \A t \in S : t \in Int
    BY <1>2, OpenRow
  <2> HIDE DEF S
  <2> SUFFICES ASSUME NEW i \in 1..Len(order), NEW j \in 1..Len(order), i < j
               PROVE  order[i] # order[j]
    OBVIOUS
  <2>2. order[i] < order[j] /\ order[i] \in Int /\ order[j] \in Int
    BY <1>3, <1>5, <1>7, <2>1
  <2> QED BY <2>2
<1> HIDE DEF S, E, q
<1>9. q \in Seq(Event) /\ DOMAIN q = 1..Len(order) /\ \A i \in 1..Len(order) : q[i] = E(i)
  BY <1>1, <1>6, <1>7
<1>10. /\ \A i \in DOMAIN q : q[i].type = "delta" /\ q[i] \in Owed(snapshot)
       /\ \A i, j \in DOMAIN q : i < j => q[i].seq # q[j].seq
  BY <1>6, <1>8, <1>9
<1> QED BY <1>9, <1>10 DEF q

LEMMA FlushedOK ==
  ASSUME SyncInv
  PROVE  Streams(log, Flushed)
<1>1. DOMAIN Flushed = DOMAIN acc /\ Flushed = [s \in DOMAIN Flushed |-> Flushed[s]]
  BY DEF Flushed
<1>2. ASSUME NEW s \in DOMAIN acc
      PROVE  Stream(log, s, Flushed[s])
  <2> DEFINE a == [acc[s] EXCEPT !.deltaIndex = @ + 1, !.pending = <<>>]
  <2>1. acc[s] \in Accumulator /\ acc[s].deltaIndex \in Int /\ Stream(log, s, acc[s])
    BY OpenRow
  <2>2. acc[s].deltaIndex + 1 \in Int /\ <<>> \in Seq(Nat)
    BY <2>1
  <2>3. a \in Accumulator /\ a.update = acc[s].update
    BY <2>1, <2>2 DEF Accumulator
  <2>4. Flushed[s] = acc[s] \/ Flushed[s] = a
    BY DEF Flushed
  <2> HIDE DEF a
  <2>5. Stream(log, s, a)
    BY <2>1, <2>3 DEF Stream
  <2> QED BY <2>1, <2>4, <2>5
<1> QED BY <1>1, <1>2 DEF Streams

\* subscribe sends a snapshot, then flushed deltas, then perhaps a close frame.
LEMMA SubscribeSends ==
  ASSUME SyncInv, Subscribe
  PROVE  /\ net' \in Seq(Event) /\ sub' \in SubStates
         /\ 1 \in DOMAIN net' /\ net'[1] = buildSnapshot(log, Flushed, since)
         /\ buildSnapshot(log, Flushed, since) \in Event
         /\ Current(log, Carried(buildSnapshot(log, Flushed, since)))
         /\ \A i \in DOMAIN net' : i # 1 => net'[i].type \in {"delta", "close"}
         /\ \A i \in DOMAIN net' : i # 1 =>
              net'[i] \in Owed(buildSnapshot(log, Flushed, since)) \cup {CloseEvent}
         /\ \A i, j \in DOMAIN net' :
              i < j /\ net'[i].type = "delta" /\ net'[j].type = "delta" => net'[i].seq # net'[j].seq
<1> DEFINE snapshot == buildSnapshot(log, Flushed, since)
           queued == QueuedDeltas(snapshot)
<1>1. PICK k \in 0..Len(queued) :
        LET sent == <<snapshot>> \o SubSeq(queued, 1, k)
        IN \/ /\ sub' = IF k = Len(queued) THEN "live" ELSE "lagging"
              /\ net' = sent
           \/ /\ k < Len(queued)
              /\ sub' = "none" /\ net' = Append(sent, CloseEvent)
  BY DEF Subscribe
<1>2. log \in Seq(Row) /\ since \in Nat
  BY DEF SyncInv, BrowserTypes
<1>3. snapshot \in Event /\ Current(log, Carried(snapshot))
  BY <1>2, FlushedOK, BuildOK
<1> DEFINE Delta(e) == e.type = "delta" /\ e \in Owed(snapshot)
<1>4. /\ queued \in Seq(Event) /\ \A i \in DOMAIN queued : Delta(queued[i])
      /\ \A i, j \in DOMAIN queued : i < j => queued[i].seq # queued[j].seq
  BY QueuedOK
<1> HIDE DEF snapshot, queued, Delta
<1> DEFINE rest == SubSeq(queued, 1, k)
           sent == <<snapshot>> \o rest
<1>5. /\ rest \in Seq(Event) /\ Len(rest) = k /\ k \in Nat
      /\ \A i \in 1..k : rest[i] = queued[i] /\ i \in DOMAIN queued
  <2>1. k \in Nat /\ k <= Len(queued) /\ Len(queued) \in Nat
    BY <1>4
  <2>2. rest \in Seq(Event)
    BY <1>4, <2>1
  <2>3. Len(rest) = k
    BY <1>4, <2>1
  <2>4. \A i \in 1..k : rest[i] = queued[i] /\ i \in DOMAIN queued
    BY <1>4, <2>1
  <2> QED BY <1>4, <2>1, <2>2, <2>3, <2>4
<1>6. /\ sent \in Seq(Event) /\ Len(sent) = k + 1 /\ sent[1] = snapshot
      /\ \A i \in 1..(k + 1) : i # 1 => sent[i] = queued[i - 1] /\ i - 1 \in DOMAIN queued
  <2> HIDE DEF rest
  <2>1. <<snapshot>> \in Seq(Event) /\ Len(<<snapshot>>) = 1 /\ <<snapshot>>[1] = snapshot
    BY <1>3
  <2>2. /\ sent \in Seq(Event) /\ Len(sent) = 1 + k
        /\ \A i \in 1..(1 + k) : sent[i] = IF i <= 1 THEN <<snapshot>>[i] ELSE rest[i - 1]
    BY <1>5, <2>1, ConcatProperties
  <2>3. \A i \in 1..(k + 1) : i # 1 => i - 1 \in 1..k /\ ~(i <= 1)
    BY <1>5
  <2>4. 1 \in 1..(1 + k) /\ 1 + k = k + 1
    BY <1>5
  <2> HIDE DEF sent
  <2> QED BY <1>5, <2>1, <2>2, <2>3, <2>4
<1> HIDE DEF rest, sent
<1>7. /\ net' \in Seq(Event) /\ sub' \in SubStates
      /\ 1 \in DOMAIN net' /\ net'[1] = snapshot
      /\ \A i \in DOMAIN net' : i # 1 =>
           \/ net'[i] = CloseEvent /\ \A j \in DOMAIN net' : ~(i < j)
           \/ net'[i] = queued[i - 1] /\ i - 1 \in DOMAIN queued
  <2>1. CASE net' = sent /\ sub' = (IF k = Len(queued) THEN "live" ELSE "lagging")
    BY <1>5, <1>6, <2>1 DEF SubStates
  <2>2. CASE net' = Append(sent, CloseEvent) /\ sub' = "none"
    <3>1. /\ net' \in Seq(Event) /\ DOMAIN net' = 1..(k + 2)
          /\ \A i \in 1..(k + 1) : net'[i] = sent[i]
          /\ net'[k + 2] = CloseEvent
      BY <1>5, <1>6, <2>2, Empties
    <3>2. \A i \in 1..(k + 2) : i \in 1..(k + 1) \/ i = k + 2
      BY <1>5
    <3>3. 1 \in 1..(k + 1) /\ 1 \in 1..(k + 2) /\ \A j \in 1..(k + 2) : ~(k + 2 < j)
      BY <1>5
    <3> QED BY <1>6, <2>2, <3>1, <3>2, <3>3 DEF SubStates
  <2> QED BY <1>1, <2>1, <2>2 DEF rest, sent
<1>8. \A i \in DOMAIN net' : i # 1 => Delta(net'[i]) \/ net'[i] = CloseEvent
  BY <1>4, <1>7
<1>9. /\ \A i \in DOMAIN net' : i # 1 => net'[i].type \in {"delta", "close"}
      /\ \A i \in DOMAIN net' : i # 1 => net'[i] \in Owed(snapshot) \cup {CloseEvent}
  BY <1>8 DEF Delta, CloseEvent
<1>10. ASSUME NEW i \in DOMAIN net', NEW j \in DOMAIN net', i < j,
              net'[i].type = "delta", net'[j].type = "delta"
       PROVE  net'[i].seq # net'[j].seq
  <2>1. CloseEvent.type # "delta"
    BY DEF CloseEvent
  <2>2. i # 1 /\ j # 1
    <3>1. net'[1].type # "delta" /\ i \in Nat /\ j \in Nat /\ 1 <= i
      <4>1. snapshot.type = "snapshot"
        BY <1>2, FlushedOK, BuildOK DEF snapshot
      <4> QED BY <1>7, <4>1
    <3> QED BY <1>10, <3>1
  <2>3. /\ net'[i] = queued[i - 1] /\ i - 1 \in DOMAIN queued
        /\ net'[j] = queued[j - 1] /\ j - 1 \in DOMAIN queued
    BY <1>7, <1>10, <2>1, <2>2
  <2>4. i - 1 < j - 1
    BY <1>7, <1>10
  <2> QED BY <1>4, <2>3, <2>4
<1> QED BY <1>3, <1>7, <1>9, <1>10 DEF snapshot

LEMMA SyncSubscribe ==
  ASSUME SyncInv, Subscribe
  PROVE  SyncInv' /\ (SocketInOrder => SocketInOrder')
<1> DEFINE snapshot == buildSnapshot(log, Flushed, since)
<1>1. /\ acc' = Flushed /\ sock' = "open" /\ since' = NoCursor /\ attempts' = 0
      /\ UNCHANGED <<log, client, cursor, seen, load, hasMore>>
  BY DEF Subscribe, react, paging
<1>2. log \in Seq(Row) /\ since \in Nat
  BY DEF SyncInv, BrowserTypes
<1>3. snapshot \in Event /\ Current(log, Carried(snapshot))
  BY SubscribeSends
<1>4. /\ net' \in Seq(Event) /\ sub' \in SubStates
      /\ 1 \in DOMAIN net' /\ net'[1] = snapshot
      /\ \A i \in DOMAIN net' : i # 1 => net'[i].type \in {"delta", "close"}
  BY SubscribeSends
<1> HIDE DEF snapshot
<1>5. /\ net' \in Seq(Event) /\ sub' \in SubStates
      /\ 1 \in DOMAIN net' /\ net'[1] = snapshot
      /\ \A i \in DOMAIN net' : i # 1 => Carried(net'[i]) = {}
  BY <1>4, CarriedIs
<1>6. Logged(log, Carried(snapshot))
  BY <1>2, <1>3, CurrentIsLogged
<1>7. \A i \in DOMAIN net' : Logged(log', Carried(net'[i]))
  BY <1>1, <1>5, <1>6 DEF Logged
<1>8. BrowserTypes'
  BY <1>1 DEF SyncInv, BrowserTypes, SockStates, NoCursor
<1>9. SyncInv'
  BY <1>1, <1>5, <1>7, <1>8, FlushedOK DEF SyncInv
<1>10. ASSUME SocketInOrder PROVE SocketInOrder'
  <2>1. NotBefore(Shown(client.messages), Carried(snapshot))
    BY <1>3, CurrentIsLast DEF SyncInv
  <2>2. \A i \in DOMAIN net' : NotBefore(Shown(client.messages), Carried(net'[i]))
    BY <1>5, <2>1 DEF NotBefore
  <2>3. \A i, j \in DOMAIN net' : i < j => j # 1
    BY <1>5
  <2>4. \A i, j \in DOMAIN net' : i < j => NotBefore(Carried(net'[i]), Carried(net'[j]))
    BY <1>5, <2>3 DEF NotBefore
  <2> QED BY <1>1, <1>10, <2>2, <2>4 DEF SocketInOrder
<1> QED BY <1>9, <1>10

\* A restart settles what streamed and may post a notice.
LEMMA SyncCrash ==
  ASSUME SyncInv, CrashRestart
  PROVE  SyncInv' /\ (SocketInOrder => SocketInOrder')
<1> DEFINE stale == {s \in DOMAIN log : log[s].status = "streaming"}
           Cut(row) == [row EXCEPT !.status = "truncated", !.ver = @ + 1,
                                   !.mark = IF row.kind = "card" THEN "provisional" ELSE "none"]
           swept == [s \in DOMAIN log |-> IF s \in stale THEN Cut(log[s]) ELSE log[s]]
           notice == NewRow("system", "complete", <<>>)
<1>1. /\ log' = IF stale = {} THEN log ELSE Append(swept, notice)
      /\ acc' = Empty /\ sub' = "none"
      /\ UNCHANGED <<net, client, load, sock, since, cursor, attempts, seen, hasMore>>
  BY DEF CrashRestart, socket, react, paging
<1>2. log \in Seq(Row) /\ DOMAIN log = 1..Len(log) /\ Len(log) \in Nat
  BY DEF SyncInv
<1>3. ASSUME NEW row \in Row
      PROVE  Cut(row) \in Row /\ Cut(row).kind = row.kind /\ row.ver < Cut(row).ver
  <2>1. row.ver + 1 \in Nat /\ row.ver < row.ver + 1
    <3>1. row.ver \in Nat
      BY RowFields
    <3> QED BY <3>1
  <2>2. {"provisional", "none"} \subseteq Marks /\ "truncated" \in Settled
    BY DEF Marks, Settled
  <2> QED BY <2>1, <2>2 DEF Row
<1>4. notice \in Row
  <2>1. "system" \in Kinds /\ "complete" \in Settled \cup {"streaming"} /\ <<>> \in Seq(Nat)
    BY DEF Kinds, Settled
  <2> QED BY <2>1, NewRowIs
<1>5. \A s \in DOMAIN log : log[s] \in Row /\ log[s].ver \in Nat
  <2>1. \A s \in DOMAIN log : log[s] \in Row
    BY <1>2
  <2> QED BY <2>1, RowFields
<1> HIDE DEF Cut, notice, stale
<1>6. \A s \in DOMAIN log : swept[s] \in Row /\ swept[s].kind = log[s].kind
  BY <1>3, <1>5
<1>7. ASSUME NEW s \in DOMAIN log
      PROVE  log[s].ver <= swept[s].ver /\ (log[s].ver = swept[s].ver => Same(log[s], swept[s]))
  <2>1. CASE s \in stale
    <3>1. swept[s] = Cut(log[s])
      BY <2>1
    <3>2. log[s].ver < swept[s].ver /\ log[s].ver \in Nat /\ swept[s].ver \in Nat
      BY <1>3, <1>5, <1>6, <3>1, RowFields
    <3> QED BY <3>2
  <2>2. CASE s \notin stale
    <3>1. swept[s] = log[s]
      BY <2>2
    <3>2. log[s].ver <= log[s].ver
      BY <1>5
    <3> QED BY <3>1, <3>2, SameSelf
  <2> QED BY <2>1, <2>2
<1>8. swept \in Seq(Row) /\ DOMAIN swept = DOMAIN log /\ Grows(log, swept)
  <2>1. DOMAIN swept = DOMAIN log /\ swept \in [1..Len(log) -> Row]
    BY <1>2, <1>6
  <2> HIDE DEF swept
  <2> QED BY <1>2, <1>6, <1>7, <2>1 DEF Grows
<1> HIDE DEF swept
<1>9. Append(swept, notice) \in Seq(Row) /\ Grows(log, Append(swept, notice))
  <2>1. Streams(swept, Empty)
    BY DEF Streams, Empty
  <2>2. Append(swept, notice) \in Seq(Row)
    BY <1>4, <1>8
  <2>3. \A s \in DOMAIN swept : s \in DOMAIN Append(swept, notice) /\ Append(swept, notice)[s] = swept[s]
    BY <1>4, <1>8
  <2> QED BY <1>8, <2>2, <2>3 DEF Grows
<1>10. log' \in Seq(Row) /\ Grows(log, log')
  BY <1>1, <1>2, <1>9, GrowsSelf
<1>11. Streams(log', acc')
  BY <1>1 DEF Streams, Empty
<1>12. BrowserTypes'
  BY <1>1 DEF SyncInv, BrowserTypes
<1>13. SyncInv'
  BY <1>1, <1>10, <1>11, <1>12, KeptByGrowth DEF SyncInv, SubStates
<1>14. SocketInOrder => SocketInOrder'
  BY <1>1 DEF SocketInOrder
<1> QED BY <1>13, <1>14

-----------------------------------------------------------------------------
(* Steps of the network and the browser.                                   *)

\* A new socket starts with nothing on its way.
LEMMA SyncConnect ==
  ASSUME SyncInv, Connect, cursor' \in Nat, attempts' \in Nat, seen' \in BOOLEAN,
         UNCHANGED <<log, acc, client, load, hasMore>>
  PROVE  SyncInv' /\ (SocketInOrder => SocketInOrder')
<1>1. sock' = "connecting" /\ since' = cursor' /\ sub' = "none" /\ net' = <<>>
  BY DEF Connect
<1>2. DOMAIN net' = {} /\ net' \in Seq(Event)
  BY <1>1
<1>3. BrowserTypes'
  BY <1>1 DEF SyncInv, BrowserTypes, SockStates
<1>4. SyncInv'
  BY <1>1, <1>2, <1>3 DEF SyncInv, SubStates
<1>5. SocketInOrder => SocketInOrder'
  BY <1>2 DEF SocketInOrder
<1> QED BY <1>4, <1>5

\* Events on their way are lost from the end.
LEMMA SyncLoses ==
  ASSUME SyncInv, NEW k \in 0..Len(net), net' = SubSeq(net, 1, k), sub' = "none",
         UNCHANGED <<log, acc, client, load>>, BrowserTypes'
  PROVE  SyncInv' /\ (SocketInOrder => SocketInOrder')
<1>1. net \in Seq(Event) /\ Len(net) \in Nat /\ DOMAIN net = 1..Len(net) /\ k \in Nat /\ k <= Len(net)
  BY DEF SyncInv
<1>2. /\ net' \in Seq(Event) /\ DOMAIN net' = 1..k
      /\ \A i \in 1..k : net'[i] = net[i]
  BY <1>1
<1>3. \A i \in DOMAIN net' : i \in DOMAIN net /\ net'[i] = net[i]
  BY <1>1, <1>2
<1>4. SyncInv'
  BY <1>2, <1>3 DEF SyncInv, SubStates
<1>5. SocketInOrder => SocketInOrder'
  BY <1>3 DEF SocketInOrder
<1> QED BY <1>4, <1>5

LEMMA SyncNetwork ==
  ASSUME SyncInv, NetworkStep
  PROVE  SyncInv' /\ (SocketInOrder => SocketInOrder')
<1>0. net \in Seq(Event)
  BY DEF SyncInv
<1>1. CASE SilentDrop
  <2>1. PICK k \in 0..Len(net) : net' = SubSeq(net, 1, k)
    BY <1>1 DEF SilentDrop
  <2>2. /\ sub' = "none" /\ UNCHANGED <<log, acc, client, load>>
        /\ UNCHANGED <<sock, since, cursor, attempts, seen, hasMore>>
    BY <1>1 DEF SilentDrop, server, socket, react, paging
  <2>3. BrowserTypes'
    BY <2>2 DEF SyncInv, BrowserTypes
  <2> QED BY <2>1, <2>2, <2>3, SyncLoses
<1>2. CASE SocketClosed
  <2>1. /\ sock' = "down" /\ since' = NoCursor /\ sub' = "none" /\ net' = <<>>
        /\ UNCHANGED <<log, acc, client, load>>
        /\ UNCHANGED <<cursor, attempts, seen, hasMore>>
    BY <1>2 DEF SocketClosed, server, react, paging
  <2>2. BrowserTypes'
    BY <2>1 DEF SyncInv, BrowserTypes, SockStates, NoCursor
  <2>3. 0 \in 0..Len(net) /\ net' = SubSeq(net, 1, 0)
    BY <1>0, <2>1
  <2> QED BY <2>1, <2>2, <2>3, SyncLoses
<1> QED BY <1>1, <1>2 DEF NetworkStep

\* A reconnect of the browser's own.
LEMMA SyncReconnect ==
  ASSUME SyncInv, ReconnectTimer \/ ForceReconnect \/ Probe
  PROVE  SyncInv' /\ (SocketInOrder => SocketInOrder') /\ client' = client
<1>1. cursor \in Nat /\ attempts \in Nat /\ seen \in BOOLEAN
  BY DEF SyncInv, BrowserTypes
<1>2. /\ Connect /\ UNCHANGED <<log, acc, client, load, hasMore, cursor, seen>>
      /\ attempts' = 0 \/ attempts' = attempts + 1
  BY DEF ReconnectTimer, ForceReconnect, Probe, server, react, paging
<1>3. cursor' \in Nat /\ attempts' \in Nat /\ seen' \in BOOLEAN
  BY <1>1, <1>2
<1> QED BY <1>2, <1>3, SyncConnect

LEMMA SyncCommit ==
  ASSUME SyncInv, Commit
  PROVE  SyncInv' /\ (SocketInOrder => SocketInOrder') /\ client' = client
<1>1. /\ client \in ReducerState /\ cursor \in Nat /\ attempts \in Nat
  BY DEF SyncInv, BrowserTypes
<1>2. client.lastSeq \in Nat /\ client.needsCatchup \in BOOLEAN
  BY <1>1, ReducerFields
<1>3. /\ cursor' = (IF client.lastSeq > 0 THEN client.lastSeq ELSE cursor)
      /\ seen' = client.needsCatchup
      /\ UNCHANGED <<log, acc, client, load, hasMore>>
  BY DEF Commit, server, paging
<1>4. cursor' \in Nat /\ seen' \in BOOLEAN
  BY <1>1, <1>2, <1>3
<1>5. (attempts' = 0 /\ Connect) \/ UNCHANGED <<sub, net, socket>>
  BY DEF Commit
<1>6. CASE attempts' = 0 /\ Connect
  BY <1>3, <1>4, <1>6, SyncConnect
<1>7. CASE UNCHANGED <<sub, net, socket>>
  <2>1. UNCHANGED <<sub, net, sock, since, attempts>>
    BY <1>7 DEF socket
  <2>2. BrowserTypes'
    BY <1>3, <1>4, <2>1 DEF SyncInv, BrowserTypes
  <2>3. SyncInv'
    BY <1>3, <2>1, <2>2 DEF SyncInv
  <2>4. SocketInOrder => SocketInOrder'
    BY <1>3, <2>1 DEF SocketInOrder
  <2> QED BY <1>3, <2>3, <2>4
<1> QED BY <1>5, <1>6, <1>7

\* A row that is held before and after has not gone back.
NotBack(f, g) == \A s \in DOMAIN f \cap DOMAIN g : f[s].ver <= g[s].ver

LEMMA NotBackSelf ==
  ASSUME NEW f \in Partial(Row)
  PROVE  NotBack(f, f)
<1>1. \A s \in DOMAIN f : f[s] \in Row
  BY PartialIs
<1>2. \A s \in DOMAIN f : f[s].ver <= f[s].ver
  BY <1>1, RowFields
<1> QED BY <1>2 DEF NotBack

LEMMA FromNotBack ==
  ASSUME NEW f \in Partial(Row), NEW g \in Partial(Row), NEW X,
         From(Shown(f), Shown(g), X), NotBefore(Shown(f), X)
  PROVE  NotBack(f, g)
<1> SUFFICES ASSUME NEW s \in DOMAIN f \cap DOMAIN g PROVE f[s].ver <= g[s].ver
  BY DEF NotBack
<1> DEFINE v == [seq |-> s, row |-> f[s]]
           w == [seq |-> s, row |-> g[s]]
<1>1. v \in Shown(f) /\ w \in Shown(g) /\ v.seq = w.seq /\ v.row = f[s] /\ w.row = g[s]
  BY DEF Shown
<1> HIDE DEF v, w
<1>2. CASE w \in X
  BY <1>1, <1>2 DEF NotBefore
<1>3. CASE w \notin X
  <2>1. PICK u \in Shown(f) : u.seq = w.seq /\ Same(u.row, w.row)
    BY <1>1, <1>3 DEF From
  <2>2. u.row = f[s] /\ u.row \in Row
    <3>1. u.row = f[u.seq] /\ u.row \in Row /\ u.seq \in DOMAIN f
      BY <2>1, ShownRows
    <3>2. u.seq = s
      BY <2>1 DEF w
    <3> QED BY <3>1, <3>2
  <2>3. u.row.ver \in Nat
    BY <2>2, RowFields
  <2> QED BY <1>1, <2>1, <2>2, <2>3 DEF Same
<1> QED BY <1>2, <1>3

\* The next event is folded into the timeline.
LEMMA SyncReceive ==
  ASSUME SyncInv, Receive
  PROVE  /\ SyncInv'
         /\ SocketInOrder => SocketInOrder' /\ NotBack(client.messages, client'.messages)
<1> DEFINE e == Head(net)
<1>1. /\ net \in Seq(Event) /\ net # <<>> /\ client \in ReducerState
      /\ cursor \in Nat /\ seen \in BOOLEAN /\ hasMore \in BOOLEAN
  BY DEF SyncInv, BrowserTypes, Receive
<1>2. /\ Len(net) \in Nat \ {0} /\ DOMAIN net = 1..Len(net) /\ 1 \in DOMAIN net
      /\ e = net[1] /\ e \in Event
  BY <1>1
<1>3. UNCHANGED <<log, acc, load>>
  BY DEF Receive, server
<1>4. \/ /\ attempts' = 0 /\ Connect /\ UNCHANGED <<client, hasMore, cursor, seen>>
      \/ /\ e.type # "close" /\ client' = applyChannelEventV1(client, e) /\ net' = Tail(net)
         /\ hasMore' = IF e.type = "snapshot" /\ e.mode = "full" THEN e.truncated ELSE hasMore
         /\ UNCHANGED <<sub, sock, since, attempts, cursor, seen>>
  BY DEF Receive, socket, react
<1>5. CASE attempts' = 0 /\ Connect /\ UNCHANGED <<client, hasMore, cursor, seen>>
  <2>1. SyncInv' /\ (SocketInOrder => SocketInOrder')
    <3>1. cursor' \in Nat /\ attempts' \in Nat /\ seen' \in BOOLEAN
      BY <1>1, <1>5
    <3> QED BY <1>3, <1>5, <3>1, SyncConnect
  <2>2. client.messages \in Partial(Row)
    BY <1>1, ReducerFields
  <2> QED BY <1>5, <2>1, <2>2, NotBackSelf
<1>6. CASE /\ e.type # "close" /\ client' = applyChannelEventV1(client, e) /\ net' = Tail(net)
           /\ hasMore' = IF e.type = "snapshot" /\ e.mode = "full" THEN e.truncated ELSE hasMore
           /\ UNCHANGED <<sub, sock, since, attempts, cursor, seen>>
  <2> DEFINE V == Shown(client.messages)
             W == Shown(client'.messages)
  <2>1. client' \in ReducerState /\ From(V, W, Carried(e))
    BY <1>1, <1>2, <1>6, ReducerOK
  <2>2. hasMore' \in BOOLEAN
    BY <1>1, <1>2, <1>6, EventIs
  <2>3. /\ net' \in Seq(Event) /\ Len(net') = Len(net) - 1
        /\ \A i \in DOMAIN net' : i + 1 \in DOMAIN net /\ net'[i] = net[i + 1]
    BY <1>1, <1>2, <1>6, HeadTailProperties
  <2>4. client.messages \in Partial(Row) /\ client'.messages \in Partial(Row)
    BY <1>1, <2>1, ReducerFields
  <2> HIDE DEF e
  <2>5. BrowserTypes'
    BY <1>3, <1>6, <2>1, <2>2 DEF SyncInv, BrowserTypes
  <2>6. Logged(log, V) /\ \A i \in DOMAIN net : Logged(log, Carried(net[i]))
    BY DEF SyncInv
  <2>7. Logged(log, W)
    <3>1. Logged(log, Carried(e))
      BY <1>2, <2>6
    <3> HIDE DEF V, W
    <3> QED BY <2>1, <2>6, <3>1, FromLogged
  <2>8. SyncInv'
    <3>1. \A i \in DOMAIN net' : Logged(log, Carried(net'[i]))
      BY <2>3, <2>6
    <3>2. Logged(log, W) /\ W = Shown(client'.messages)
      BY <2>7
    <3> HIDE DEF W
    <3> QED BY <1>3, <1>6, <2>3, <2>5, <3>1, <3>2 DEF SyncInv
  <2>9. ASSUME SocketInOrder
        PROVE  SocketInOrder' /\ NotBack(client.messages, client'.messages)
    <3>1. \A i \in DOMAIN net : NotBefore(V, Carried(net[i]))
      BY <2>9 DEF SocketInOrder
    <3>2. \A i, j \in DOMAIN net : i < j => NotBefore(Carried(net[i]), Carried(net[j]))
      BY <2>9 DEF SocketInOrder
    <3>3. ASSUME NEW i \in DOMAIN net'
          PROVE  NotBefore(W, Carried(net'[i]))
      <4>1. i + 1 \in DOMAIN net /\ net'[i] = net[i + 1] /\ 1 < i + 1
        <5>1. i \in Nat \ {0}
          BY <2>3
        <5> QED BY <2>3, <5>1
      <4>2. NotBefore(V, Carried(net'[i])) /\ NotBefore(Carried(e), Carried(net'[i]))
        BY <1>2, <3>1, <3>2, <4>1
      <4> HIDE DEF V, W
      <4> QED BY <2>1, <4>2, FromNotBefore
    <3>4. ASSUME NEW i \in DOMAIN net', NEW j \in DOMAIN net', i < j
          PROVE  NotBefore(Carried(net'[i]), Carried(net'[j]))
      <4>1. /\ i + 1 \in DOMAIN net /\ net'[i] = net[i + 1]
            /\ j + 1 \in DOMAIN net /\ net'[j] = net[j + 1]
        BY <2>3
      <4>2. i + 1 < j + 1
        <5>1. i \in Nat /\ j \in Nat
          BY <2>3
        <5> QED BY <3>4, <5>1
      <4> QED BY <3>2, <4>1, <4>2
    <3>5. NotBack(client.messages, client'.messages)
      BY <1>2, <2>1, <2>4, <3>1, FromNotBack
    <3> QED BY <3>3, <3>4, <3>5 DEF SocketInOrder
  <2> QED BY <2>8, <2>9
<1> QED BY <1>4, <1>5, <1>6

LEMMA SyncLoadOlder ==
  ASSUME SyncInv, LoadOlder
  PROVE  SyncInv' /\ (SocketInOrder => SocketInOrder') /\ client' = client
<1> DEFINE least == Min(DOMAIN client.messages)
<1>1. /\ load' = [NoLoad EXCEPT !.state = "asked", !.before = least]
      /\ DOMAIN client.messages # {}
      /\ UNCHANGED <<log, acc, sub, net, sock, since, attempts, client, cursor, seen, hasMore>>
  BY DEF LoadOlder, server, wire, socket, react
<1>2. client \in ReducerState
  BY DEF SyncInv, BrowserTypes
<1>3. least \in Nat
  <2>1. DOMAIN client.messages \subseteq Nat
    BY <1>2, ReducerFields
  <2>2. \E x \in DOMAIN client.messages : \A y \in DOMAIN client.messages : x <= y
    BY <1>1, <2>1, LeastNat
  <2>3. least \in DOMAIN client.messages
    BY <2>2, Zenon DEF Min
  <2> QED BY <2>1, <2>3, Zenon
<1> HIDE DEF least
<1>4. load' \in Request /\ load'.page = Empty
  BY <1>1, <1>3, EmptyPartial DEF Request, NoLoad
<1>5. Shown(Empty) = {}
  BY DEF Shown, Empty
<1>6. BrowserTypes'
  BY <1>1, <1>4 DEF SyncInv, BrowserTypes
<1>7. SyncInv'
  BY <1>1, <1>4, <1>5, <1>6 DEF SyncInv, Logged
<1>8. SocketInOrder => SocketInOrder'
  BY <1>1 DEF SocketInOrder
<1> QED BY <1>1, <1>7, <1>8

LEMMA SyncServeHistory ==
  ASSUME SyncInv, ServeHistory
  PROVE  SyncInv' /\ (SocketInOrder => SocketInOrder') /\ client' = client
<1> DEFINE older == {s \in DOMAIN log : s < load.before}
           rows == Newest(older, HistoryPageLimit)
           page == Restrict(log, rows)
<1>1. /\ load' = [load EXCEPT !.state = "page", !.page = page, !.more = (rows # older)]
      /\ UNCHANGED <<log, acc, sub, net, sock, since, attempts, client, cursor, seen, hasMore>>
  BY DEF ServeHistory, server, wire, socket, react
<1>2. log \in Seq(Row) /\ load \in Request
  BY DEF SyncInv, BrowserTypes
<1>3. rows \subseteq DOMAIN log
  BY DEF Newest
<1>4. (rows # older) \in BOOLEAN
  OBVIOUS
<1> HIDE DEF older, rows
<1>5. /\ page = [s \in DOMAIN page |-> page[s]] /\ DOMAIN page = rows
      /\ \A s \in rows : s \in DOMAIN log /\ s \in Nat /\ page[s] = log[s] /\ log[s] \in Row
  BY <1>2, <1>3 DEF Restrict
<1> HIDE DEF page
<1>6. page \in Partial(Row)
  <2>1. DOMAIN page \subseteq Nat /\ \A s \in DOMAIN page : page[s] \in Row
    BY <1>5
  <2> QED BY <1>5, <2>1, PartialIs
<1>7. load' \in Request /\ load'.page = page
  BY <1>1, <1>2, <1>4, <1>6 DEF Request
<1>8. Logged(log, Shown(page))
  <2>1. Current(log, Shown(page))
    BY <1>5, SameSelf DEF Current, Shown
  <2> QED BY <1>2, <2>1, CurrentIsLogged
<1>9. BrowserTypes'
  BY <1>1, <1>7 DEF SyncInv, BrowserTypes
<1>10. SyncInv'
  BY <1>1, <1>7, <1>8, <1>9 DEF SyncInv
<1>11. SocketInOrder => SocketInOrder'
  BY <1>1 DEF SocketInOrder
<1> QED BY <1>1, <1>10, <1>11

LEMMA SyncMergePage ==
  ASSUME SyncInv, MergePage
  PROVE  SyncInv'
<1>1. /\ client' = mergeHistoryPage(client, load.page) /\ load' = NoLoad
      /\ hasMore' = (load.more \/ Cardinality(DOMAIN load.page) >= HistoryPageLimit)
      /\ UNCHANGED <<log, acc, sub, net, sock, since, attempts, cursor, seen>>
  BY DEF MergePage, server, wire, socket, react
<1>2. client \in ReducerState /\ load \in Request /\ load.page \in Partial(Row)
  BY DEF SyncInv, BrowserTypes, Request
<1>3. /\ client' \in ReducerState
      /\ From(Shown(client.messages), Shown(client'.messages), Shown(load.page))
  BY <1>1, <1>2, MergeOK
<1>4. hasMore' \in BOOLEAN
  BY <1>1
<1>5. load' \in Request /\ load'.page = Empty
  BY <1>1, EmptyPartial DEF Request, NoLoad
<1>6. Logged(log, Shown(client'.messages))
  BY <1>3, FromLogged DEF SyncInv
<1>7. Shown(Empty) = {}
  BY DEF Shown, Empty
<1>8. BrowserTypes'
  BY <1>1, <1>3, <1>4, <1>5 DEF SyncInv, BrowserTypes
<1> QED BY <1>1, <1>5, <1>6, <1>7, <1>8 DEF SyncInv, Logged

-----------------------------------------------------------------------------
(* The invariants.                                                         *)

LEMMA SyncInit ==
  ASSUME Init
  PROVE  SyncInv /\ SocketInOrder
<1>1. /\ log = <<>> /\ acc = Empty /\ sub = "none" /\ net = <<>>
      /\ sock = "connecting" /\ since = NoCursor /\ attempts = 0
      /\ client = initialChannelReducerState /\ cursor = NoCursor /\ seen = FALSE
      /\ load = NoLoad /\ hasMore = FALSE
  BY DEF Init
<1>2. /\ client \in ReducerState /\ client.messages = Empty
  BY <1>1, EmptyPartial DEF initialChannelReducerState, ReducerState
<1>3. load \in Request /\ load.page = Empty
  BY <1>1, EmptyPartial DEF NoLoad, Request
<1>4. Shown(Empty) = {} /\ DOMAIN Empty = {} /\ Empty = [s \in DOMAIN Empty |-> Empty[s]]
  BY DEF Shown, Empty
<1>5. log \in Seq(Row) /\ net \in Seq(Event) /\ DOMAIN net = {}
  BY <1>1
<1>6. Streams(log, acc)
  BY <1>1, <1>4 DEF Streams
<1>7. BrowserTypes
  BY <1>1, <1>2, <1>3 DEF BrowserTypes, SockStates, NoCursor
<1>8. SyncInv
  BY <1>1, <1>2, <1>3, <1>4, <1>5, <1>6, <1>7 DEF SyncInv, SubStates, Logged
<1>9. SocketInOrder
  BY <1>5 DEF SocketInOrder
<1> QED BY <1>8, <1>9

LEMMA SyncServer ==
  ASSUME SyncInv, ServerStep
  PROVE  SyncInv' /\ (SocketInOrder => SocketInOrder')
<1>1. CASE Post
  BY <1>1, SyncPost
<1>2. CASE \E kind \in StreamKinds, text \in {<<>>, <<1>>} : BeginStream(kind, text)
  BY <1>2, SyncBegin
<1>3. CASE \E s \in 1..Len(log) :
             \/ \E status \in Settled, mark \in {"none", "provisional", "explicit"} :
                  FinalizeStream(s, status, mark)
             \/ \E status \in Settled : ResolveProvisional(s, status)
             \/ AppendDelta(s) \/ FlushAccumulator(s) \/ FlushStreamText(s)
  BY <1>3, SyncFinalizeStream, SyncResolveProvisional, SyncAppendDelta,
     SyncFlushAccumulator, SyncFlushStreamText
<1>4. CASE \E s \in 1..Len(log) :
             \/ UpdateAgentDetail(s) \/ FlushRowUpdate(s)
             \/ EditMessage(s) \/ DeleteMessage(s)
  BY <1>4, SyncUpdateAgentDetail, SyncFlushRowUpdate, SyncEdit, SyncDelete
<1>5. CASE Subscribe \/ CrashRestart
  BY <1>5, SyncSubscribe, SyncCrash
<1> QED BY <1>1, <1>2, <1>3, <1>4, <1>5 DEF ServerStep

\* The browser is a bystander of a server's or the network's step.
LEMMA ServerKeepsClient ==
  ASSUME ServerStep \/ NetworkStep
  PROVE  client' = client
<1>1. CASE Post \/ \E kind \in StreamKinds, text \in {<<>>, <<1>>} : BeginStream(kind, text)
  BY <1>1 DEF Post, BeginStream, BrowserUnchanged
<1>2. CASE \E s \in 1..Len(log) :
             \/ \E status \in Settled, mark \in {"none", "provisional", "explicit"} :
                  FinalizeStream(s, status, mark)
             \/ \E status \in Settled : ResolveProvisional(s, status)
             \/ AppendDelta(s) \/ FlushAccumulator(s) \/ FlushStreamText(s)
  BY <1>2 DEF FinalizeStream, Finalize, ResolveProvisional, AppendDelta, FlushAccumulator,
              FlushStreamText, BrowserUnchanged
<1>3. CASE \E s \in 1..Len(log) :
             \/ UpdateAgentDetail(s) \/ FlushRowUpdate(s)
             \/ EditMessage(s) \/ DeleteMessage(s)
  BY <1>3 DEF UpdateAgentDetail, FlushRowUpdate, EditMessage, DeleteMessage, BrowserUnchanged
<1>4. CASE Subscribe \/ CrashRestart \/ NetworkStep
  BY <1>4 DEF Subscribe, CrashRestart, NetworkStep, SilentDrop, SocketClosed
<1> QED BY <1>1, <1>2, <1>3, <1>4 DEF ServerStep

LEMMA SyncStutters ==
  ASSUME SyncInv, UNCHANGED vars
  PROVE  SyncInv' /\ (SocketInOrder => SocketInOrder') /\ client' = client
<1>1. UNCHANGED <<log, acc, sub, net, sock, since, client, cursor, seen, attempts, load, hasMore>>
  BY DEF vars
<1>2. BrowserTypes'
  BY <1>1 DEF SyncInv, BrowserTypes
<1> QED BY <1>1, <1>2 DEF SyncInv, SocketInOrder

LEMMA SyncStep ==
  ASSUME SyncInv, [Next]_vars
  PROVE  /\ SyncInv'
         /\ SocketInOrder /\ ~MergePage => SocketInOrder' /\ NotBack(client.messages, client'.messages)
<1>0. NotBack(client.messages, client.messages)
  BY InvRows, NotBackSelf
<1>1. CASE ServerStep
  BY <1>0, <1>1, SyncServer, ServerKeepsClient
<1>2. CASE NetworkStep
  BY <1>0, <1>2, SyncNetwork, ServerKeepsClient
<1>3. CASE Receive
  BY <1>3, SyncReceive
<1>4. CASE Commit
  BY <1>0, <1>4, SyncCommit
<1>5. CASE ReconnectTimer \/ ForceReconnect \/ Probe
  BY <1>0, <1>5, SyncReconnect
<1>6. CASE LoadOlder
  BY <1>0, <1>6, SyncLoadOlder
<1>7. CASE ServeHistory
  BY <1>0, <1>7, SyncServeHistory
<1>8. CASE MergePage
  BY <1>8, SyncMergePage
<1>9. CASE UNCHANGED vars
  BY <1>0, <1>9, SyncStutters
<1> QED BY <1>1, <1>2, <1>3, <1>4, <1>5, <1>6, <1>7, <1>8, <1>9 DEF Next, BrowserStep

THEOREM SyncInvariant == Spec => []SyncInv
<1>1. Init => SyncInv
  BY SyncInit
<1>2. SyncInv /\ [Next]_vars => SyncInv'
  BY SyncStep
<1> QED BY <1>1, <1>2, PTL DEF Spec

\* The channel's state keeps its shape, however many rows, faults and
\* reconnects there are.
THEOREM SyncTypes == Spec => []TypeOK
<1>1. SyncInv => TypeOK
  BY DEF SyncInv, BrowserTypes, Streams, Stream, TypeOK
<1> QED BY <1>1, SyncInvariant, PTL

\* Nothing is shown that the log never held: snapshots, broadcasts, held row
\* updates, late pages, lost events and restarts bring a browser only versions
\* that the log has reached, and the current version as the log has it.
THEOREM ShowsTheLog == Spec => []ShownIsLogged
<1>1. ASSUME SyncInv PROVE ShownIsLogged
  <2>1. ASSUME NEW s \in DOMAIN client.messages
        PROVE  Version(log, s, client.messages[s])
    <3>1. [seq |-> s, row |-> client.messages[s]] \in Shown(client.messages)
      BY DEF Shown
    <3> QED BY <1>1, <3>1 DEF SyncInv, Logged
  <2> QED BY <2>1 DEF ShownIsLogged, Version, Same
<1> QED BY <1>1, SyncInvariant, PTL

\* As long as no page of older rows is merged, a row that the browser holds
\* never goes back to an earlier version, whatever is lost, reordered by a
\* reconnect, or sent again. A page is read from the log, so that it may be ahead
\* of what the socket still holds and be followed by it: with one page TLC shows a
\* row that goes back, and the theorem excludes it.
THEOREM NeverGoesBack == Spec /\ [][~MergePage]_vars => NeverBackwards
<1>1. Init => SyncInv /\ SocketInOrder
  BY SyncInit
<1>2. SyncInv /\ SocketInOrder /\ [Next]_vars /\ [~MergePage]_vars
        => SyncInv' /\ SocketInOrder' /\ NotBack(client.messages, client'.messages)
  <2> SUFFICES ASSUME SyncInv, SocketInOrder, [Next]_vars, [~MergePage]_vars
               PROVE  SyncInv' /\ SocketInOrder' /\ NotBack(client.messages, client'.messages)
    OBVIOUS
  <2>1. CASE ~MergePage
    BY <2>1, SyncStep
  <2>2. CASE UNCHANGED vars
    BY <2>2, SyncStutters, InvRows, NotBackSelf
  <2> QED BY <2>1, <2>2
<1>3. NotBack(client.messages, client'.messages)
        => [\A s \in DOMAIN client.messages \cap DOMAIN client'.messages :
              client.messages[s].ver <= client'.messages[s].ver]_vars
  BY DEF NotBack
<1> QED BY <1>1, <1>2, <1>3, PTL DEF Spec, NeverBackwards

-----------------------------------------------------------------------------
(* The timeline is a window of the log, as long as no page is merged.      *)

\* The members are the numbers from one of them on up to n.
Joined(D, n) == \A s \in D : s \in 1..n /\ s..n \subseteq D

\* A snapshot in the socket ends where the timeline would end with it, and
\* leaves no hole behind what is shown.
Follows(c, e) ==
  e.type = "snapshot" =>
    /\ e.mode = "full" => Joined(DOMAIN e.messages, e.latestSeq) /\ c.lastSeq <= e.latestSeq
    /\ e.mode = "catchup" =>
         \E from \in 0..c.lastSeq : DOMAIN e.messages = (from + 1)..e.latestSeq

\* What an event says of the log's length.
Reach(e) == IF e.type = "snapshot" THEN e.latestSeq ELSE IF e.type = "created" THEN e.seq ELSE 0

WindowInv ==
  /\ Joined(DOMAIN client.messages, client.lastSeq)
  /\ client.lastSeq <= Len(log) /\ cursor <= client.lastSeq /\ since <= client.lastSeq
  /\ \A i \in DOMAIN net : Follows(client, net[i]) /\ Reach(net[i]) <= Len(log)
  /\ \A i \in DOMAIN net : i # 1 => net[i].type # "snapshot"

\* Catching up from where the timeline ends, or from before it, joins on to it.
LEMMA CatchupJoins ==
  ASSUME NEW c \in ReducerState, NEW e \in Event, e.type = "snapshot", e.mode = "catchup",
         Joined(DOMAIN c.messages, c.lastSeq), Follows(c, e)
  PROVE  /\ Joined(DOMAIN ApplyCatchup(c, e).messages, ApplyCatchup(c, e).lastSeq)
         /\ ApplyCatchup(c, e).lastSeq = IF e.latestSeq > c.lastSeq THEN e.latestSeq ELSE c.lastSeq
<1> DEFINE accepted == {s \in DOMAIN e.messages : s \in DOMAIN c.messages \/ s > c.lastSeq}
           n == IF e.latestSeq > c.lastSeq THEN e.latestSeq ELSE c.lastSeq
           D == DOMAIN ApplyCatchup(c, e).messages
<1>1. ApplyCatchup(c, e).lastSeq = n
  BY DEF ApplyCatchup
<1>2. D = DOMAIN c.messages \cup accepted
  BY DEF ApplyCatchup, Overlay, Restrict
<1>3. c.lastSeq \in Nat /\ e.latestSeq \in Nat
  BY ReducerFields, EventIs
<1>4. PICK from \in 0..c.lastSeq : DOMAIN e.messages = (from + 1)..e.latestSeq
  BY DEF Follows
<1> HIDE DEF D
<1>5. \A s \in DOMAIN c.messages : s \in 1..c.lastSeq /\ s..c.lastSeq \subseteq DOMAIN c.messages
  BY DEF Joined
<1>6. /\ n \in Nat /\ c.lastSeq <= n /\ e.latestSeq <= n
      /\ n # c.lastSeq => n = e.latestSeq
  BY <1>3
<1> HIDE DEF n
<1>7. \A t \in Int : c.lastSeq < t /\ t <= n => t \in accepted
  <2> SUFFICES ASSUME NEW t \in Int, c.lastSeq < t, t <= n
               PROVE  t \in accepted
    OBVIOUS
  <2>1. n = e.latestSeq /\ from + 1 <= t
    BY <1>3, <1>4, <1>6
  <2>2. t \in DOMAIN e.messages /\ t > c.lastSeq
    BY <1>3, <1>4, <2>1
  <2> QED BY <2>2
<1>8. \A s \in accepted : s \in DOMAIN c.messages \/ (s \in Int /\ c.lastSeq < s /\ s <= n)
  BY <1>3, <1>4, <1>6
<1> HIDE DEF accepted
<1>9. ASSUME NEW s \in D
      PROVE  s \in 1..n /\ s..n \subseteq D
  <2>1. CASE s \in DOMAIN c.messages
    <3>1. s \in 1..c.lastSeq /\ s..c.lastSeq \subseteq DOMAIN c.messages
      BY <1>5, <2>1
    <3>2. \A t \in s..n : t \in s..c.lastSeq \/ c.lastSeq < t
      BY <1>3, <3>1
    <3>3. s \in 1..n
      BY <1>3, <1>6, <3>1
    <3>4. \A t \in s..n : t \in D
      BY <1>2, <1>7, <3>1, <3>2
    <3> QED BY <3>3, <3>4
  <2>2. CASE s \notin DOMAIN c.messages
    <3>1. s \in Int /\ c.lastSeq < s /\ s <= n
      BY <1>2, <1>8, <2>2
    <3>2. \A t \in s..n : t \in Int /\ c.lastSeq < t /\ t <= n
      BY <1>3, <1>6, <3>1
    <3>3. s \in 1..n
      BY <1>3, <1>6, <3>1
    <3>4. \A t \in s..n : t \in D
      BY <1>2, <1>7, <3>2
    <3> QED BY <3>3, <3>4
  <2> QED BY <2>1, <2>2
<1> QED BY <1>1, <1>9 DEF Joined, D, n

\* Only a snapshot or a new row changes which rows are shown.
LEMMA OthersKeepRows ==
  ASSUME NEW c \in ReducerState, NEW e \in Event, e.type \notin {"close", "snapshot", "created"}
  PROVE  /\ DOMAIN applyChannelEventV1(c, e).messages = DOMAIN c.messages
         /\ applyChannelEventV1(c, e).lastSeq = c.lastSeq
<1> DEFINE d == applyChannelEventV1(c, e)
<1>1. /\ c.messages \in Partial(Row)
      /\ c = [messages |-> c.messages, lastSeq |-> c.lastSeq, inFlightDelta |-> c.inFlightDelta,
              quarantined |-> c.quarantined, needsCatchup |-> c.needsCatchup]
  BY ReducerFields DEF ReducerState
<1>2. AskCatchup(c).messages = c.messages /\ AskCatchup(c).lastSeq = c.lastSeq
  BY <1>1 DEF AskCatchup
<1>3. ASSUME e.seq \in DOMAIN c.messages
      PROVE  /\ DOMAIN WithRow(c, e.seq, e.row).messages = DOMAIN c.messages
             /\ WithRow(c, e.seq, e.row).lastSeq = c.lastSeq
  <2>1. WithRow(c, e.seq, e.row).messages = Put(c.messages, e.seq, e.row)
    BY <1>1 DEF WithRow
  <2>2. DOMAIN Put(c.messages, e.seq, e.row) = DOMAIN c.messages
    BY <1>3 DEF Put
  <2>3. WithRow(c, e.seq, e.row).lastSeq = c.lastSeq
    BY <1>1 DEF WithRow
  <2> QED BY <2>1, <2>2, <2>3
<1>4. CASE e.type = "delta"
  <2>1. d = ApplyDelta(c, e)
    BY <1>4 DEF applyChannelEventV1
  <2>2. DOMAIN ApplyDelta(c, e).messages = DOMAIN c.messages /\ ApplyDelta(c, e).lastSeq = c.lastSeq
    BY <1>1, <1>2 DEF ApplyDelta
  <2> QED BY <2>1, <2>2
<1>5. CASE e.type \in {"updated", "edited", "deleted"}
  <2>1. d = ApplyUpdated(c, e) \/ d = ApplyRevised(c, e)
    BY <1>5 DEF applyChannelEventV1
  <2>2. \/ d = c \/ d = AskCatchup(c)
        \/ e.seq \in DOMAIN c.messages /\ d = WithRow(c, e.seq, e.row)
    BY <2>1 DEF ApplyUpdated, ApplyRevised
  <2> HIDE DEF d
  <2>3. DOMAIN d.messages = DOMAIN c.messages /\ d.lastSeq = c.lastSeq
    BY <1>2, <1>3, <2>2
  <2> QED BY <2>3 DEF d
<1>6. CASE e.type = "completed"
  <2> DEFINE w == WithRow(c, e.seq, e.row)
  <2>1. d = ApplyCompleted(c, e)
    BY <1>6 DEF applyChannelEventV1
  <2>2. CASE e.seq \notin DOMAIN c.messages
    BY <1>2, <2>1, <2>2 DEF ApplyCompleted
  <2>3. CASE e.seq \in DOMAIN c.messages
    <3>1. d = [w EXCEPT !.inFlightDelta = Restrict(@, DOMAIN @ \ {e.seq}),
                        !.quarantined = @ \ {e.seq}]
      BY <2>1, <2>3 DEF ApplyCompleted
    <3>2. w \in ReducerState
      BY <1>6, EventIs, RowEventOK DEF RowTypes
    <3>3. DOMAIN w.messages = DOMAIN c.messages /\ w.lastSeq = c.lastSeq
      BY <1>3, <2>3
    <3> HIDE DEF w, d
    <3>4. d.messages = w.messages /\ d.lastSeq = w.lastSeq
      BY <3>1, <3>2 DEF ReducerState
    <3>5. DOMAIN d.messages = DOMAIN c.messages /\ d.lastSeq = c.lastSeq
      BY <3>3, <3>4
    <3> QED BY <3>5 DEF d
  <2> QED BY <2>2, <2>3
<1>7. CASE e.type = "resync"
  BY <1>2, <1>7 DEF applyChannelEventV1
<1> QED BY <1>4, <1>5, <1>6, <1>7, EventIs DEF RowTypes

LEMMA WindowReduces ==
  ASSUME NEW c \in ReducerState, NEW e \in Event, e.type # "close",
         Joined(DOMAIN c.messages, c.lastSeq), Follows(c, e)
  PROVE  LET d == applyChannelEventV1(c, e)
         IN /\ Joined(DOMAIN d.messages, d.lastSeq)
            /\ c.lastSeq <= d.lastSeq /\ (d.lastSeq = c.lastSeq \/ d.lastSeq = Reach(e))
<1> DEFINE d == applyChannelEventV1(c, e)
<1>1. c.lastSeq \in Nat
  BY ReducerFields
<1>2. CASE e.type = "snapshot"
  <2>1. e.latestSeq \in Nat /\ e.mode \in {"full", "catchup"} /\ Reach(e) = e.latestSeq
    BY <1>2, EventIs DEF Reach
  <2>2. CASE e.mode = "full"
    <3>1. d.messages = e.messages /\ d.lastSeq = e.latestSeq
      BY <1>2, <2>2 DEF applyChannelEventV1, ApplySnapshot, ApplyFull
    <3> HIDE DEF d
    <3> QED BY <1>2, <2>1, <2>2, <3>1 DEF Follows, d
  <2>3. CASE e.mode = "catchup"
    <3>1. d = ApplyCatchup(c, e)
      BY <1>2, <2>3 DEF applyChannelEventV1, ApplySnapshot
    <3> HIDE DEF d
    <3>2. Joined(DOMAIN d.messages, d.lastSeq)
      BY <1>2, <2>3, <3>1, CatchupJoins
    <3>3. d.lastSeq = IF e.latestSeq > c.lastSeq THEN e.latestSeq ELSE c.lastSeq
      BY <1>2, <2>3, <3>1, CatchupJoins
    <3> QED BY <1>1, <2>1, <3>2, <3>3 DEF d
  <2> QED BY <2>1, <2>2, <2>3
<1>3. CASE e.type = "created"
  <2>1. e.seq \in Nat /\ e.row \in Row /\ Reach(e) = e.seq
    BY <1>3, EventIs DEF Reach, RowTypes
  <2>2. d = ApplyCreated(c, e)
    BY <1>3 DEF applyChannelEventV1
  <2>3. CASE e.seq \in DOMAIN c.messages \/ e.seq <= c.lastSeq
    <3>1. d = c
      BY <1>1, <2>1, <2>2, <2>3 DEF ApplyCreated
    <3> QED BY <1>1, <3>1
  <2>4. CASE e.seq \notin DOMAIN c.messages /\ e.seq > c.lastSeq + 1
    <3>1. d = AskCatchup(c)
      BY <1>1, <2>1, <2>2, <2>4 DEF ApplyCreated
    <3>2. d.messages = c.messages /\ d.lastSeq = c.lastSeq
      BY <3>1 DEF AskCatchup, ReducerState
    <3> HIDE DEF d
    <3> QED BY <1>1, <3>2 DEF d
  <2>5. CASE e.seq \notin DOMAIN c.messages /\ e.seq = c.lastSeq + 1
    <3>1. d = [WithRow(c, e.seq, e.row) EXCEPT !.lastSeq = e.seq]
      BY <1>1, <2>1, <2>2, <2>5 DEF ApplyCreated
    <3>2. /\ WithRow(c, e.seq, e.row).messages = Put(c.messages, e.seq, e.row)
          /\ WithRow(c, e.seq, e.row) \in ReducerState
      <4>1. [seq |-> e.seq, row |-> e.row] \in {[seq |-> e.seq, row |-> e.row]}
        OBVIOUS
      <4> QED BY <2>1, <4>1, WithRowOK
    <3>3. d.messages = Put(c.messages, e.seq, e.row) /\ d.lastSeq = e.seq
      BY <3>1, <3>2 DEF ReducerState
    <3>4. DOMAIN d.messages = DOMAIN c.messages \cup {e.seq}
      BY <3>3 DEF Put
    <3> HIDE DEF d
    <3>5. \A s \in DOMAIN c.messages : s \in 1..c.lastSeq /\ s..c.lastSeq \subseteq DOMAIN c.messages
      BY DEF Joined
    <3>6. ASSUME NEW s \in DOMAIN d.messages
          PROVE  s \in 1..d.lastSeq /\ s..d.lastSeq \subseteq DOMAIN d.messages
      <4>1. CASE s \in DOMAIN c.messages
        <5>1. s \in 1..c.lastSeq /\ s..c.lastSeq \subseteq DOMAIN c.messages
          BY <3>5, <4>1
        <5>2. \A t \in s..d.lastSeq : t \in s..c.lastSeq \/ t = e.seq
          BY <1>1, <2>5, <3>3, <5>1
        <5>3. s \in 1..d.lastSeq
          BY <1>1, <2>5, <3>3, <5>1
        <5> QED BY <3>4, <5>1, <5>2, <5>3
      <4>2. CASE s = e.seq
        <5>1. \A t \in s..d.lastSeq : t = e.seq
          BY <1>1, <2>5, <3>3, <4>2
        <5>2. s \in 1..d.lastSeq
          BY <1>1, <2>5, <3>3, <4>2
        <5> QED BY <3>4, <5>1, <5>2
      <4> QED BY <3>4, <4>1, <4>2
    <3> QED BY <1>1, <2>1, <2>5, <3>3, <3>6 DEF Joined, d
  <2> QED BY <1>1, <2>1, <2>3, <2>4, <2>5
<1>4. CASE e.type \notin {"snapshot", "created"}
  <2>1. DOMAIN d.messages = DOMAIN c.messages /\ d.lastSeq = c.lastSeq
    BY <1>4, OthersKeepRows
  <2> HIDE DEF d
  <2> QED BY <1>1, <2>1 DEF d
<1> QED BY <1>2, <1>3, <1>4

-----------------------------------------------------------------------------
(* A snapshot follows the timeline of any browser that is not ahead of it. *)

LEMMA NewestJoined ==
  ASSUME NEW n \in Nat, NEW S, Joined(S, n), NEW k \in Nat
  PROVE  Joined(Newest(S, k), n)
<1> DEFINE Above(s) == {t \in S : t > s}
<1>1. ASSUME NEW s \in Newest(S, k), NEW t \in s..n
      PROVE  t \in Newest(S, k)
  <2>1. s \in S /\ s \in 1..n /\ s..n \subseteq S /\ Cardinality(Above(s)) < k
    BY DEF Newest, Joined
  <2>2. Above(t) \subseteq Above(s)
    <3>1. \A u \in S : u \in Int
      BY DEF Joined
    <3>2. s \in Int /\ t \in Int /\ s <= t
      BY <2>1
    <3> QED BY <3>1, <3>2
  <2>3. IsFiniteSet(1..n)
    BY FS_Interval
  <2>4. Above(s) \subseteq 1..n
    BY DEF Joined
  <2> HIDE DEF Above
  <2>5. IsFiniteSet(Above(s)) /\ Cardinality(Above(s)) \in Nat
    BY <2>3, <2>4, FS_Subset, FS_CardinalityType
  <2>6. Cardinality(Above(t)) <= Cardinality(Above(s)) /\ Cardinality(Above(t)) \in Nat
    BY <2>2, <2>5, FS_Subset, FS_CardinalityType
  <2>7. Cardinality(Above(t)) < k
    BY <2>1, <2>5, <2>6
  <2> QED BY <2>1, <2>7 DEF Newest, Above
<1>2. \A s \in Newest(S, k) : s \in 1..n
  BY DEF Newest, Joined
<1> QED BY <1>1, <1>2 DEF Joined

\* A truncated catch-up is the start of what it had to carry.
LEMMA OldestRun ==
  ASSUME NEW n \in Nat, NEW from \in Nat, NEW k \in Nat \ {0},
         Oldest((from + 1)..n, k) # (from + 1)..n
  PROVE  LET last == Max(Oldest((from + 1)..n, k))
         IN last \in 1..n /\ Oldest((from + 1)..n, k) = (from + 1)..last
<1> DEFINE S == (from + 1)..n
           R == Oldest(S, k)
           last == Max(R)
           Below(s) == {t \in S : t < s}
<1>1. S \in SUBSET (1..n)
  OBVIOUS
<1>2. last \in Nat /\ last \in R /\ \A y \in R : y <= last
  <2>1. Oldest(S, k) # S
    OBVIOUS
  <2> HIDE DEF S
  <2> QED BY <1>1, <2>1, OldestSome
<1>3. R \subseteq S
  BY DEF Oldest
<1>4. ASSUME NEW s \in R, NEW t \in S, t <= s
      PROVE  t \in R
  <2>1. Below(t) \subseteq Below(s)
    <3>1. \A u \in S : u \in Int
      OBVIOUS
    <3>2. s \in Int /\ t \in Int
      BY <1>3
    <3> QED BY <1>4, <3>1, <3>2
  <2>2. IsFiniteSet(1..n) /\ Below(s) \subseteq 1..n
    BY FS_Interval
  <2>3. Cardinality(Below(s)) < k
    BY DEF Oldest
  <2> HIDE DEF Below
  <2>4. IsFiniteSet(Below(s)) /\ Cardinality(Below(s)) \in Nat
    BY <2>2, FS_Subset, FS_CardinalityType
  <2>5. Cardinality(Below(t)) <= Cardinality(Below(s)) /\ Cardinality(Below(t)) \in Nat
    BY <2>1, <2>4, FS_Subset, FS_CardinalityType
  <2>6. Cardinality(Below(t)) < k
    BY <2>3, <2>4, <2>5
  <2> QED BY <2>6 DEF Oldest, Below
<1> HIDE DEF R, last
<1>5. last \in 1..n
  BY <1>1, <1>2, <1>3
<1>6. R \subseteq (from + 1)..last
  BY <1>2, <1>3
<1>7. (from + 1)..last \subseteq R
  <2> SUFFICES ASSUME NEW t \in (from + 1)..last
               PROVE  t \in R
    OBVIOUS
  <2>1. t \in S /\ t <= last
    BY <1>5
  <2> QED BY <1>2, <1>4, <2>1
<1> QED BY <1>5, <1>6, <1>7 DEF R, last

LEMMA SnapshotFollows ==
  ASSUME NEW lg \in Seq(Row), NEW ac, NEW from \in Nat, NEW c, c.lastSeq \in Nat,
         from <= c.lastSeq, c.lastSeq <= Len(lg)
  PROVE  /\ Follows(c, buildSnapshot(lg, ac, from))
         /\ Reach(buildSnapshot(lg, ac, from)) <= Len(lg)
<1> DEFINE n == Len(lg)
<1>1. n \in Nat /\ DOMAIN lg = 1..n
  OBVIOUS
<1>2. CASE NeedsFull(lg, from)
  <2> DEFINE rows == Newest(Newest(1..n, SnapshotFullLimit), SnapshotMaxRows)
             e == buildSnapshot(lg, ac, from)
  <2>1. e = Snapshot(lg, ac, "full", rows, {}, n, rows # {} /\ 1 \notin rows)
    BY <1>1, <1>2 DEF buildSnapshot, FullSnapshot
  <2>2. Joined(1..n, n)
    BY <1>1 DEF Joined
  <2>3. Joined(rows, n)
    BY <1>1, <2>2, NewestJoined, HubLimits
  <2> HIDE DEF rows, e, n
  <2>4. e.type = "snapshot" /\ e.mode = "full" /\ DOMAIN e.messages = rows /\ e.latestSeq = n
    BY <2>1 DEF Snapshot, Materialized
  <2>5. Follows(c, e) /\ Reach(e) <= n
    BY <1>1, <2>3, <2>4 DEF Follows, Reach, n
  <2> QED BY <2>5 DEF e, n
<1>3. CASE ~NeedsFull(lg, from)
  <2> DEFINE fresh == (from + 1)..n
             rows == Oldest(fresh, SnapshotMaxRows)
             resync == ResyncRows(lg, from)
             replaced == Newest(resync, SnapshotMaxRows - Cardinality(rows))
             latest == IF rows # fresh THEN Max(rows) ELSE n
             e == buildSnapshot(lg, ac, from)
  <2>1. {s \in DOMAIN lg : s > from} = fresh
    BY <1>1
  <2>2. e = Snapshot(lg, ac, "catchup", rows, replaced, latest,
                     rows # fresh \/ replaced # resync)
    BY <1>3, <2>1 DEF buildSnapshot, CatchupSnapshot
  <2>3. latest \in 0..n /\ rows = (from + 1)..latest
    <3>1. CASE rows # fresh
      <4>1. Max(rows) \in 1..n /\ rows = (from + 1)..Max(rows)
        BY <1>1, <3>1, OldestRun, HubLimits
      <4> HIDE DEF rows
      <4> QED BY <1>1, <3>1, <4>1
    <3>2. CASE rows = fresh
      <4> HIDE DEF rows
      <4> QED BY <1>1, <3>2
    <3> QED BY <3>1, <3>2
  <2> HIDE DEF fresh, rows, resync, replaced, latest, e, n
  <2>4. /\ e.type = "snapshot" /\ e.mode = "catchup" /\ DOMAIN e.messages = rows
        /\ e.latestSeq = latest
    BY <2>2 DEF Snapshot, Materialized
  <2>5. from \in 0..c.lastSeq
    OBVIOUS
  <2>6. Follows(c, e) /\ Reach(e) = latest
    BY <2>3, <2>4, <2>5 DEF Follows, Reach
  <2>7. latest <= n
    BY <1>1, <2>3
  <2> QED BY <2>6, <2>7 DEF e, n
<1> QED BY <1>2, <1>3

\* Every other step of the server keeps the browser's state, and may send an
\* event that is not a snapshot.
LEMMA ServerSends ==
  ASSUME SyncInv, ServerStep, ~Subscribe, ~CrashRestart
  PROVE  /\ BrowserUnchanged /\ Len(log) <= Len(log')
         /\ \/ net' = net
            \/ \E e : e.type # "snapshot" /\ Reach(e) <= Len(log') /\ Broadcast(e)
<1> DEFINE Sent(e) == e.type # "snapshot" /\ Reach(e) <= Len(log') /\ Broadcast(e)
           Goal == /\ BrowserUnchanged /\ Len(log) <= Len(log')
                   /\ net' = net \/ \E e : Sent(e)
<1>1. log \in Seq(Row) /\ Len(log) \in Nat
  BY DEF SyncInv
<1>2. ASSUME NEW row, log' = Append(log, row), BrowserUnchanged,
             Broadcast(RowEvent("created", Len(log) + 1, row))
      PROVE  Goal
  <2> DEFINE e == RowEvent("created", Len(log) + 1, row)
  <2>1. e.type = "created" /\ e.seq = Len(log) + 1
    BY DEF RowEvent
  <2>2. Len(log') = Len(log) + 1
    BY <1>1, <1>2
  <2> HIDE DEF e
  <2>3. Reach(e) <= Len(log') /\ Len(log) <= Len(log')
    BY <1>1, <2>1, <2>2 DEF Reach
  <2>4. Sent(e)
    BY <1>2, <2>1, <2>3 DEF e
  <2> HIDE DEF Sent
  <2> QED BY <1>2, <2>3, <2>4
<1>3. ASSUME NEW type \in {"updated", "completed", "edited", "deleted"}, NEW s, NEW row,
             \/ log' = log
             \/ \E new : log' = [log EXCEPT ![s] = new],
             BrowserUnchanged, Broadcast(RowEvent(type, s, row))
      PROVE  Goal
  <2> DEFINE e == RowEvent(type, s, row)
  <2>1. e.type = type
    BY DEF RowEvent
  <2>2. Len(log') = Len(log)
    BY <1>1, <1>3
  <2> HIDE DEF e
  <2>3. e.type # "snapshot" /\ Reach(e) = 0
    BY <2>1 DEF Reach
  <2>4. Sent(e) /\ Len(log) <= Len(log')
    BY <1>1, <1>3, <2>2, <2>3 DEF e
  <2> HIDE DEF Sent
  <2> QED BY <1>3, <2>4
<1>4. ASSUME \/ log' = log
             \/ \E s, new : log' = [log EXCEPT ![s] = new],
             BrowserUnchanged, UNCHANGED wire
      PROVE  Goal
  <2>1. Len(log') = Len(log)
    BY <1>1, <1>4
  <2> QED BY <1>1, <1>4, <2>1 DEF wire
<1> SUFFICES Goal
  BY DEF Goal
<1> HIDE DEF Goal
<1>5. CASE Post
  BY <1>2, <1>5 DEF Post
<1>6. CASE \E kind \in StreamKinds, text \in {<<>>, <<1>>} : BeginStream(kind, text)
  BY <1>2, <1>6 DEF BeginStream
<1>7. ASSUME NEW s, NEW status, NEW mark, Finalize(s, status, mark)
      PROVE  Goal
  BY <1>3, <1>7 DEF Finalize
<1>8. CASE \E s \in 1..Len(log) :
             \/ \E status \in Settled, mark \in {"none", "provisional", "explicit"} :
                  FinalizeStream(s, status, mark)
             \/ \E status \in Settled : ResolveProvisional(s, status)
  <2>1. ASSUME NEW s, NEW status, NEW mark, FinalizeStream(s, status, mark)
        PROVE  Goal
    BY <1>7, <2>1 DEF FinalizeStream
  <2>2. ASSUME NEW s, NEW status, ResolveProvisional(s, status)
        PROVE  Goal
    BY <1>3, <2>2 DEF ResolveProvisional
  <2> QED BY <1>8, <2>1, <2>2
<1>9. CASE \E s \in 1..Len(log) : AppendDelta(s)
  <2> PICK s \in 1..Len(log) : AppendDelta(s)
    BY <1>9
  <2>1. \/ Finalize(s, "truncated", "none")
        \/ UNCHANGED <<log, wire>> /\ BrowserUnchanged
    BY DEF AppendDelta
  <2> QED BY <1>4, <1>7, <2>1
<1>10. CASE \E s \in 1..Len(log) : FlushAccumulator(s)
  <2> PICK s \in 1..Len(log) : FlushAccumulator(s)
    BY <1>10
  <2> DEFINE e == DeltaEvent(s, acc[s].deltaIndex + 1, acc[s].pending)
  <2>1. Broadcast(e) /\ log' = log /\ BrowserUnchanged
    BY DEF FlushAccumulator
  <2>2. e.type = "delta"
    BY DEF DeltaEvent
  <2> HIDE DEF e
  <2>3. Sent(e) /\ Len(log) <= Len(log')
    BY <1>1, <2>1, <2>2 DEF Reach
  <2> QED BY <2>1, <2>3 DEF Goal
<1>11. CASE \E s \in 1..Len(log) : FlushStreamText(s) \/ UpdateAgentDetail(s)
  <2> PICK s \in 1..Len(log) : FlushStreamText(s) \/ UpdateAgentDetail(s)
    BY <1>11
  <2>1. (\E new : log' = [log EXCEPT ![s] = new]) /\ UNCHANGED wire /\ BrowserUnchanged
    BY DEF FlushStreamText, UpdateAgentDetail
  <2> QED BY <1>4, <2>1
<1>12. CASE \E s \in 1..Len(log) : FlushRowUpdate(s) \/ EditMessage(s) \/ DeleteMessage(s)
  <2>1. ASSUME NEW s, FlushRowUpdate(s)
        PROVE  Goal
    BY <1>3, <2>1 DEF FlushRowUpdate
  <2>2. ASSUME NEW s, EditMessage(s)
        PROVE  Goal
    BY <1>3, <2>2 DEF EditMessage
  <2>3. ASSUME NEW s, DeleteMessage(s)
        PROVE  Goal
    BY <1>3, <2>3 DEF DeleteMessage
  <2> QED BY <1>12, <2>1, <2>2, <2>3
<1> QED BY <1>5, <1>6, <1>8, <1>9, <1>10, <1>11, <1>12 DEF ServerStep

\* What a step must keep, when the browser's timeline and cursors stay.
LEMMA WindowKept ==
  ASSUME SyncInv, SyncInv', WindowInv, client' = client, Len(log) <= Len(log'),
         cursor' = cursor, since' \in {since, cursor, NoCursor},
         \A i \in DOMAIN net' : Follows(client, net'[i]) /\ Reach(net'[i]) <= Len(log'),
         \A i \in DOMAIN net' : i # 1 => net'[i].type # "snapshot"
  PROVE  WindowInv'
<1>1. /\ client.lastSeq \in Nat /\ cursor \in Nat /\ since \in Nat
      /\ Len(log) \in Nat /\ Len(log') \in Nat
  BY ReducerFields DEF SyncInv, BrowserTypes
<1>2. client.lastSeq <= Len(log) /\ cursor <= client.lastSeq /\ since <= client.lastSeq
  BY DEF WindowInv
<1>3. client.lastSeq <= Len(log') /\ since' <= client.lastSeq
  BY <1>1, <1>2 DEF NoCursor
<1> QED BY <1>2, <1>3 DEF WindowInv

LEMMA WindowServer ==
  ASSUME SyncInv, SyncInv', WindowInv, ServerStep
  PROVE  WindowInv'
<1>1. net \in Seq(Event) /\ sub \in SubStates /\ net' \in Seq(Event) /\ log \in Seq(Row)
  BY DEF SyncInv
<1>2. /\ \A i \in DOMAIN net : Follows(client, net[i]) /\ Reach(net[i]) <= Len(log)
      /\ \A i \in DOMAIN net : i # 1 => net[i].type # "snapshot"
  BY DEF WindowInv
<1>3. /\ client.lastSeq \in Nat /\ cursor \in Nat /\ since \in Nat
      /\ client.lastSeq <= Len(log) /\ since <= client.lastSeq
      /\ Len(log) \in Nat /\ Len(log') \in Nat
      /\ \A i \in DOMAIN net : Reach(net[i]) \in Nat
  <2>1. \A i \in DOMAIN net : net[i] \in Event
    BY <1>1
  <2>2. \A i \in DOMAIN net : Reach(net[i]) \in Nat
    BY <2>1, EventIs DEF Reach, RowTypes
  <2> QED BY <2>2, ReducerFields DEF SyncInv, BrowserTypes, WindowInv
<1>4. CASE ~Subscribe /\ ~CrashRestart
  <2>1. client' = client /\ cursor' = cursor /\ since' = since /\ Len(log) <= Len(log')
    BY <1>4, ServerSends DEF BrowserUnchanged, socket, react
  <2>2. \A i \in DOMAIN net : Follows(client, net[i]) /\ Reach(net[i]) <= Len(log')
    BY <1>2, <1>3, <2>1
  <2>3. CASE net' = net
    BY <1>2, <2>1, <2>2, <2>3, WindowKept
  <2>4. CASE \E e : e.type # "snapshot" /\ Reach(e) <= Len(log') /\ Broadcast(e)
    <3> PICK e : e.type # "snapshot" /\ Reach(e) <= Len(log') /\ Broadcast(e)
      BY <2>4
    <3> DEFINE S == Event \cup {e}
    <3>1. net \in Seq(S) /\ e \in S /\ ResyncEvent \in S /\ CloseEvent \in S
      BY <1>1, Empties
    <3> HIDE DEF S
    <3>2. /\ net' \in Seq(S) /\ Len(net) <= Len(net')
          /\ \A i \in DOMAIN net : net'[i] = net[i]
          /\ \A i \in DOMAIN net' : i \notin DOMAIN net =>
               net'[i] \in {e, ResyncEvent, CloseEvent}
      BY <1>1, <3>1, BroadcastAdds
    <3>3. \A f \in {e, ResyncEvent, CloseEvent} : f.type # "snapshot" /\ Reach(f) <= Len(log')
      BY <1>3 DEF ResyncEvent, CloseEvent, Reach
    <3>4. \A i \in DOMAIN net' : Follows(client, net'[i]) /\ Reach(net'[i]) <= Len(log')
      BY <2>2, <3>2, <3>3 DEF Follows
    <3>5. \A i \in DOMAIN net' : i # 1 => net'[i].type # "snapshot"
      BY <1>2, <3>2, <3>3
    <3> QED BY <2>1, <3>4, <3>5, WindowKept
  <2> QED BY <1>4, <2>3, <2>4, ServerSends
<1>5. CASE Subscribe
  <2>1. /\ client' = client /\ cursor' = cursor /\ since' = NoCursor /\ log' = log
    BY <1>5 DEF Subscribe, react
  <2>2. /\ net'[1] = buildSnapshot(log, Flushed, since)
        /\ \A i \in DOMAIN net' : i # 1 => net'[i].type \in {"delta", "close"}
    BY <1>5, SubscribeSends
  <2>3. /\ Follows(client, buildSnapshot(log, Flushed, since))
        /\ Reach(buildSnapshot(log, Flushed, since)) <= Len(log)
    BY <1>1, <1>3, SnapshotFollows
  <2>4. \A i \in DOMAIN net' : i # 1 => Follows(client, net'[i]) /\ Reach(net'[i]) <= Len(log)
    BY <1>3, <2>2 DEF Follows, Reach
  <2>5. \A i \in DOMAIN net' : Follows(client, net'[i]) /\ Reach(net'[i]) <= Len(log')
    BY <2>1, <2>2, <2>3, <2>4
  <2>6. Len(log) <= Len(log')
    BY <1>3, <2>1
  <2> QED BY <2>1, <2>2, <2>5, <2>6, WindowKept
<1>6. CASE CrashRestart
  <2>1. net' = net /\ client' = client /\ cursor' = cursor /\ since' = since
    BY <1>6 DEF CrashRestart, socket, react
  <2>2. Len(log) <= Len(log')
    <3>1. \/ log' = log
          \/ \E swept, row : log' = Append(swept, row) /\ swept = [s \in DOMAIN log |-> swept[s]]
      <4> DEFINE stale == {s \in DOMAIN log : log[s].status = "streaming"}
                 swept == [s \in DOMAIN log |->
                             IF s \in stale
                             THEN [log[s] EXCEPT !.status = "truncated", !.ver = @ + 1,
                                     !.mark = IF log[s].kind = "card" THEN "provisional"
                                                                      ELSE "none"]
                             ELSE log[s]]
                 row == NewRow("system", "complete", <<>>)
      <4>1. log' = IF stale = {} THEN log ELSE Append(swept, row)
        BY <1>6 DEF CrashRestart
      <4>2. swept = [s \in DOMAIN log |-> swept[s]]
        OBVIOUS
      <4> HIDE DEF stale, swept, row
      <4> QED BY <4>1, <4>2
    <3>2. CASE log' = log
      BY <1>3, <3>2
    <3>3. ASSUME NEW swept, NEW row, log' = Append(swept, row),
                 swept = [s \in DOMAIN log |-> swept[s]]
          PROVE  Len(log) <= Len(log')
      <4>1. DOMAIN log = 1..Len(log) /\ Len(log) \in Nat
        BY <1>1
      <4> DEFINE S == {swept[s] : s \in DOMAIN log}
      <4>2. swept \in Seq(S) /\ Len(swept) = Len(log)
        BY <3>3, <4>1
      <4>3. Len(log') = Len(swept) + 1
        BY <3>3, <4>2
      <4> QED BY <4>1, <4>2, <4>3
    <3> QED BY <3>1, <3>2, <3>3
  <2>3. \A i \in DOMAIN net : Follows(client, net[i]) /\ Reach(net[i]) <= Len(log')
    BY <1>2, <1>3, <2>2
  <2> QED BY <1>2, <2>1, <2>2, <2>3, WindowKept
<1> QED BY <1>4, <1>5, <1>6

\* A new socket, or none, holds nothing yet.
LEMMA WindowEmpty ==
  ASSUME SyncInv, SyncInv', WindowInv, client' = client, log' = log, net' = <<>>,
         cursor' \in {cursor, client.lastSeq}, since' \in {cursor', NoCursor}
  PROVE  WindowInv'
<1>1. client.lastSeq \in Nat /\ cursor \in Nat
  BY ReducerFields DEF SyncInv, BrowserTypes
<1>2. client.lastSeq <= Len(log) /\ cursor <= client.lastSeq
  BY DEF WindowInv
<1>3. cursor' <= client.lastSeq /\ since' <= client.lastSeq
  BY <1>1, <1>2 DEF NoCursor
<1>4. DOMAIN net' = {}
  OBVIOUS
<1> QED BY <1>2, <1>3, <1>4 DEF WindowInv

LEMMA WindowNetwork ==
  ASSUME SyncInv, SyncInv', WindowInv, NetworkStep
  PROVE  WindowInv'
<1>1. CASE SilentDrop
  <2>1. PICK k \in 0..Len(net) : net' = SubSeq(net, 1, k)
    BY <1>1 DEF SilentDrop
  <2>2. client' = client /\ log' = log /\ cursor' = cursor /\ since' = since
    BY <1>1 DEF SilentDrop, server, socket, react
  <2>3. net \in Seq(Event) /\ Len(net) \in Nat /\ log \in Seq(Row) /\ Len(log) \in Nat
    BY DEF SyncInv
  <2>4. DOMAIN net' = 1..k /\ \A i \in 1..k : net'[i] = net[i] /\ i \in DOMAIN net
    BY <2>1, <2>3
  <2>5. Len(log) <= Len(log')
    BY <2>2, <2>3
  <2> QED BY <2>2, <2>4, <2>5, WindowKept DEF WindowInv
<1>2. CASE SocketClosed
  <2>1. client' = client /\ log' = log /\ net' = <<>> /\ cursor' = cursor /\ since' = NoCursor
    BY <1>2 DEF SocketClosed, server, react
  <2> QED BY <2>1, WindowEmpty
<1> QED BY <1>1, <1>2 DEF NetworkStep

LEMMA WindowReceive ==
  ASSUME SyncInv, SyncInv', WindowInv, Receive
  PROVE  WindowInv'
<1> DEFINE e == Head(net)
<1>1. net \in Seq(Event) /\ net # <<>> /\ log' = log /\ client \in ReducerState
      /\ log \in Seq(Row) /\ Len(log) \in Nat
  BY DEF Receive, SyncInv, BrowserTypes, server
<1>2. /\ e = net[1] /\ 1 \in DOMAIN net /\ e \in Event
      /\ Tail(net) \in Seq(Event)
      /\ \A i \in DOMAIN Tail(net) : Tail(net)[i] = net[i + 1] /\ i + 1 \in DOMAIN net /\ i + 1 # 1
  BY <1>1
<1>3. Follows(client, e) /\ Reach(e) <= Len(log)
  BY <1>2 DEF WindowInv
<1>4. CASE e.type = "close"
  <2>1. client' = client /\ cursor' = cursor /\ net' = <<>> /\ since' = cursor'
    BY <1>4 DEF Receive, Connect, react
  <2> QED BY <1>1, <2>1, WindowEmpty
<1>5. CASE e.type # "close"
  <2>1. /\ client' = applyChannelEventV1(client, e) /\ net' = Tail(net)
        /\ cursor' = cursor /\ since' = since
    BY <1>5 DEF Receive, react, socket
  <2> HIDE DEF e
  <2>2. /\ Joined(DOMAIN client'.messages, client'.lastSeq)
        /\ client.lastSeq <= client'.lastSeq
        /\ client'.lastSeq = client.lastSeq \/ client'.lastSeq = Reach(e)
    <3>1. Joined(DOMAIN client.messages, client.lastSeq)
      BY DEF WindowInv
    <3> QED BY <1>1, <1>2, <1>3, <1>5, <2>1, <3>1, WindowReduces
  <2>3. client'.lastSeq \in Nat /\ client.lastSeq \in Nat /\ cursor \in Nat /\ since \in Nat
    BY ReducerFields DEF SyncInv, BrowserTypes
  <2>4. client.lastSeq <= Len(log) /\ cursor <= client.lastSeq /\ since <= client.lastSeq
    BY DEF WindowInv
  <2>5. /\ client'.lastSeq <= Len(log') /\ cursor' <= client'.lastSeq
        /\ since' <= client'.lastSeq
    BY <1>1, <1>3, <2>1, <2>2, <2>3, <2>4
  <2>6. \A i \in DOMAIN net' : net'[i].type # "snapshot" /\ Reach(net'[i]) <= Len(log')
    BY <1>1, <1>2, <2>1 DEF WindowInv
  <2> QED BY <2>2, <2>5, <2>6 DEF WindowInv, Follows
<1> QED BY <1>4, <1>5

LEMMA WindowBrowser ==
  ASSUME SyncInv, SyncInv', WindowInv, BrowserStep, ~MergePage
  PROVE  WindowInv'
<1>1. CASE Receive
  BY <1>1, WindowReceive
<1>2. CASE Commit
  <2>1. client' = client /\ log' = log /\ cursor' \in {cursor, client.lastSeq}
    BY <1>2 DEF Commit, server
  <2>2. CASE Connect
    BY <2>1, <2>2, WindowEmpty DEF Connect
  <2>3. CASE UNCHANGED <<sub, net, socket>>
    <3>1. net' = net /\ since' = since
      BY <2>3 DEF socket
    <3>2. cursor' <= client.lastSeq
      <4>1. client.lastSeq \in Nat
        BY ReducerFields DEF SyncInv, BrowserTypes
      <4> QED BY <2>1, <4>1 DEF WindowInv
    <3> QED BY <2>1, <3>1, <3>2 DEF WindowInv
  <2> QED BY <1>2, <2>2, <2>3 DEF Commit
<1>3. CASE ReconnectTimer \/ ForceReconnect \/ Probe
  <2>1. client' = client /\ log' = log /\ cursor' = cursor /\ net' = <<>> /\ since' = cursor'
    BY <1>3 DEF ReconnectTimer, ForceReconnect, Probe, Connect, server, react
  <2> QED BY <2>1, WindowEmpty
<1>4. CASE LoadOlder \/ ServeHistory
  <2>1. UNCHANGED <<client, log, cursor, net, since>>
    BY <1>4 DEF LoadOlder, ServeHistory, server, react, wire, socket
  <2> QED BY <2>1 DEF WindowInv
<1> QED BY <1>1, <1>2, <1>3, <1>4 DEF BrowserStep

LEMMA WindowStep ==
  ASSUME SyncInv, WindowInv, [Next]_vars, [~MergePage]_vars
  PROVE  WindowInv'
<1>1. SyncInv'
  BY SyncStep
<1>2. CASE UNCHANGED vars
  <2>1. UNCHANGED <<client, log, cursor, net, since>>
    BY <1>2 DEF vars
  <2> QED BY <2>1 DEF WindowInv
<1>3. CASE Next /\ ~MergePage
  BY <1>1, <1>3, WindowServer, WindowNetwork, WindowBrowser DEF Next
<1> QED BY <1>2, <1>3

LEMMA WindowInit ==
  ASSUME Init
  PROVE  WindowInv
<1>1. log = <<>> /\ net = <<>> /\ since = 0 /\ cursor = 0 /\ client = initialChannelReducerState
  BY DEF Init, NoCursor
<1>2. DOMAIN client.messages = {} /\ client.lastSeq = 0
  BY <1>1 DEF initialChannelReducerState, Empty
<1>3. Len(log) = 0 /\ DOMAIN net = {}
  BY <1>1
<1> QED BY <1>1, <1>2, <1>3 DEF WindowInv, Joined

\* As long as no page of older rows is merged, the timeline is one unbroken run
\* of the log that ends at the cursor, through truncated catch-ups, gaps,
\* suppressed and lost events, reconnects with an older cursor and restarts.
\* With a page it is not: that is the hole which SyncPageHole shows.
THEOREM NoHoles == Spec /\ [][~MergePage]_vars => []WindowContiguous
<1>1. Init => SyncInv /\ WindowInv
  BY SyncInit, WindowInit
<1>2. SyncInv /\ WindowInv /\ [Next]_vars /\ [~MergePage]_vars => SyncInv' /\ WindowInv'
  BY SyncStep, WindowStep
<1>3. WindowInv => WindowContiguous
  BY DEF WindowInv, Joined, WindowContiguous
<1> QED BY <1>1, <1>2, <1>3, PTL DEF Spec

-----------------------------------------------------------------------------
(* What is streamed reaches the timeline chunk by chunk, without a page.   *)

\* The text holds the chunks that follow the first `from` ones, in order.
Counts(text, from) == \A i \in DOMAIN text : text[i] = from + i

\* How much of an open stream its broadcasts and snapshots carried.
Emitted(a) == Len(a.text) - Len(a.pending)

OpenProse(row) == row.kind = "prose" /\ row.status = "streaming"

\* The browser still joins deltas on to the row.
Live(c, s) == s \in DOMAIN c.messages /\ OpenProse(c.messages[s]) /\ s \notin c.quarantined

Buffer(lg, s, a) ==
  /\ Counts(a.text, 0) /\ Counts(a.pending, Emitted(a)) /\ Len(a.pending) <= Len(a.text)
  /\ a.deltaIndex >= -1 /\ (a.pending # <<>> => lg[s].kind = "prose")
  /\ \A i \in DOMAIN a.update : lg[s].kind # "prose" /\ Counts(a.update[i].text, 0)

Buffers(lg, ac) ==
  /\ \A s \in DOMAIN lg : Counts(lg[s].text, 0)
  /\ \A s \in DOMAIN ac : Buffer(lg, s, ac[s])

\* The last chunk of a delta.
Until(d) == d.text[Len(d.text)]

\* A row or a delta leads up to what its stream has emitted, if none followed it.
Sent(lg, ac, e) ==
  /\ \A v \in Carried(e) : Counts(v.row.text, 0)
  /\ e.type \in RowTypes \ {"created"} => ~OpenProse(e.row)
  /\ e.type = "created" /\ OpenProse(e.row) /\ e.seq \in DOMAIN ac
     /\ ac[e.seq].deltaIndex = -1 => Emitted(ac[e.seq]) = Len(e.row.text)
  /\ e.type = "delta" =>
       /\ e.text # <<>> /\ e.seq \in DOMAIN lg /\ lg[e.seq].kind = "prose"
       /\ e.seq \in DOMAIN ac =>
            /\ e.index <= ac[e.seq].deltaIndex
            /\ e.index = ac[e.seq].deltaIndex => Until(e) = Emitted(ac[e.seq])

\* A delta joins on to the one before it, or to the row that opened its stream.
Chained(d, e) ==
  e.type = "delta" =>
    /\ d.type = "delta" /\ d.seq = e.seq /\ e.index = d.index + 1 => Counts(e.text, Until(d))
    /\ d.type = "created" /\ d.seq = e.seq /\ OpenProse(d.row) /\ e.index = 0 =>
         Counts(e.text, Len(d.row.text))

\* The timeline holds chunks in order, and what its stream has emitted where
\* it has the stream's last index.
Held(c, ac) ==
  /\ \A s \in DOMAIN c.messages : Counts(c.messages[s].text, 0)
  /\ \A s \in DOMAIN c.inFlightDelta :
       c.inFlightDelta[s] >= -1 /\ (s \in DOMAIN c.messages \/ s <= c.lastSeq)
  /\ \A s \in DOMAIN ac : Live(c, s) =>
       /\ ExpectedDelta(c, s) <= ac[s].deltaIndex + 1
       /\ ExpectedDelta(c, s) = ac[s].deltaIndex + 1 =>
            Len(c.messages[s].text) = Emitted(ac[s])

\* The delta that the timeline expects next goes on where its row ends.
Awaits(c, e) ==
  e.type = "delta" /\ Live(c, e.seq) /\ e.index = ExpectedDelta(c, e.seq) =>
    Counts(e.text, Len(c.messages[e.seq].text))

\* The timeline as it is once a snapshot that arrives first is applied.
Ahead == IF net # <<>> /\ net[1].type = "snapshot"
         THEN applyChannelEventV1(client, net[1]) ELSE client

ChunkInv ==
  /\ Buffers(log, acc)
  /\ \A i \in DOMAIN net : Sent(log, acc, net[i]) /\ Awaits(Ahead, net[i])
  /\ \A i, j \in DOMAIN net : i < j => Chained(net[i], net[j])
  /\ Held(client, acc) /\ Held(Ahead, acc)

\* Chunks follow chunks.
LEMMA CountsOn ==
  ASSUME NEW t \in Seq(Nat), NEW u \in Seq(Nat), NEW from \in Nat,
         Counts(t, from), Counts(u, from + Len(t))
  PROVE  Counts(t \o u, from)
<1>1. /\ t \o u \in Seq(Nat) /\ Len(t \o u) = Len(t) + Len(u)
      /\ \A i \in 1..(Len(t) + Len(u)) : (t \o u)[i] = IF i <= Len(t) THEN t[i] ELSE u[i - Len(t)]
  BY ConcatProperties
<1>2. Len(t) \in Nat /\ Len(u) \in Nat
  OBVIOUS
<1> SUFFICES ASSUME NEW i \in 1..(Len(t) + Len(u))
             PROVE  (t \o u)[i] = from + i
  BY <1>1, <1>2 DEF Counts
<1>3. CASE i <= Len(t)
  <2>1. i \in DOMAIN t
    BY <1>2, <1>3
  <2> QED BY <1>1, <1>3, <2>1 DEF Counts
<1>4. CASE ~(i <= Len(t))
  <2>1. i - Len(t) \in DOMAIN u /\ i - Len(t) \in Int
    BY <1>2, <1>4
  <2>2. u[i - Len(t)] = from + Len(t) + (i - Len(t))
    BY <2>1 DEF Counts
  <2> QED BY <1>1, <1>2, <1>4, <2>2
<1> QED BY <1>3, <1>4

LEMMA CountsEmpty ==
  ASSUME NEW from
  PROVE  Counts(<<>>, from)
BY DEF Counts

\* The last of chunks in order.
LEMMA UntilIs ==
  ASSUME NEW d, d.text \in Seq(Nat), d.text # <<>>, NEW from \in Nat, Counts(d.text, from)
  PROVE  Until(d) = from + Len(d.text)
<1>1. Len(d.text) \in DOMAIN d.text
  BY EmptySeq
<1> QED BY <1>1 DEF Counts, Until

LEMMA ExpectedIs ==
  ASSUME NEW c \in ReducerState, NEW ac, Held(c, ac), NEW s
  PROVE  ExpectedDelta(c, s) \in Nat
<1>1. c.inFlightDelta \in Partial(Int)
  BY ReducerFields
<1>2. s \in DOMAIN c.inFlightDelta => c.inFlightDelta[s] \in Int /\ c.inFlightDelta[s] >= -1
  BY <1>1, PartialIs DEF Held
<1> QED BY <1>2 DEF ExpectedDelta

\* A stream of the timeline that a step leaves alone, or has given up.
Untouched(c, d, s) ==
  Live(d, s) =>
    /\ Live(c, s) /\ ExpectedDelta(d, s) = ExpectedDelta(c, s)
    /\ d.messages[s].text = c.messages[s].text

\* A step of the timeline that touches no stream.
LEMMA HeldKept ==
  ASSUME NEW c, NEW d, NEW ac, Held(c, ac),
         \A s \in DOMAIN ac : Untouched(c, d, s),
         \A s \in DOMAIN d.messages : Counts(d.messages[s].text, 0),
         \A s \in DOMAIN d.inFlightDelta :
           d.inFlightDelta[s] >= -1 /\ (s \in DOMAIN d.messages \/ s <= d.lastSeq)
  PROVE  Held(d, ac)
BY DEF Held, Untouched

LEMMA AwaitsKept ==
  ASSUME NEW c, NEW d, NEW e, Awaits(c, e), Untouched(c, d, e.seq)
  PROVE  Awaits(d, e)
BY DEF Awaits, Untouched

\* An event that is not a snapshot: what every case of the reducer keeps.
Passes(c, d, e, ac) ==
  /\ Held(d, ac)
  /\ \A f : Awaits(c, f) /\ Chained(e, f) => Awaits(d, f)

LEMMA PassesSelf ==
  ASSUME NEW c, NEW e, NEW ac, Held(c, ac)
  PROVE  Passes(c, c, e, ac)
BY DEF Passes

LEMMA PassesAsk ==
  ASSUME NEW c \in ReducerState, NEW e, NEW ac, Held(c, ac)
  PROVE  Passes(c, AskCatchup(c), e, ac)
<1> DEFINE d == AskCatchup(c)
<1>1. /\ d.messages = c.messages /\ d.inFlightDelta = c.inFlightDelta
      /\ d.quarantined = c.quarantined /\ d.lastSeq = c.lastSeq
  BY DEF AskCatchup, ReducerState
<1> HIDE DEF d
<1>2. \A s : Untouched(c, d, s)
  BY <1>1 DEF Untouched, Live, ExpectedDelta
<1>3. Held(d, ac)
  <2>1. \A s \in DOMAIN d.messages : Counts(d.messages[s].text, 0)
    BY <1>1 DEF Held
  <2>2. \A s \in DOMAIN d.inFlightDelta :
          d.inFlightDelta[s] >= -1 /\ (s \in DOMAIN d.messages \/ s <= d.lastSeq)
    BY <1>1 DEF Held
  <2> QED BY <1>2, <2>1, <2>2, HeldKept
<1>4. \A f : Awaits(c, f) => Awaits(d, f)
  BY <1>2, AwaitsKept
<1> QED BY <1>3, <1>4 DEF Passes, d

\* A row that is not an open prose row is put over the one held, or a stream's
\* cursor and quarantine go with it.
LEMMA PassesRow ==
  ASSUME NEW c \in ReducerState, NEW e, NEW ac, Held(c, ac), NEW s \in DOMAIN c.messages,
         NEW row, ~OpenProse(row), Counts(row.text, 0), NEW d,
         d.messages = Put(c.messages, s, row), d.lastSeq = c.lastSeq,
         \/ d.inFlightDelta = c.inFlightDelta /\ d.quarantined = c.quarantined
         \/ /\ d.inFlightDelta = Restrict(c.inFlightDelta, DOMAIN c.inFlightDelta \ {s})
            /\ d.quarantined = c.quarantined \ {s}
  PROVE  Passes(c, d, e, ac)
<1>1. /\ DOMAIN d.messages = DOMAIN c.messages
      /\ \A t \in DOMAIN c.messages : d.messages[t] = IF t = s THEN row ELSE c.messages[t]
  BY DEF Put
<1>2. /\ DOMAIN d.inFlightDelta \subseteq DOMAIN c.inFlightDelta
      /\ \A t : t # s => (t \in DOMAIN d.inFlightDelta <=> t \in DOMAIN c.inFlightDelta)
      /\ \A t \in DOMAIN d.inFlightDelta : d.inFlightDelta[t] = c.inFlightDelta[t]
      /\ \A t : t # s => (t \in d.quarantined <=> t \in c.quarantined)
  BY DEF Restrict
<1>3. \A t : Untouched(c, d, t)
  BY <1>1, <1>2 DEF Untouched, Live, ExpectedDelta
<1>4. Held(d, ac)
  <2>1. \A t \in DOMAIN d.messages : Counts(d.messages[t].text, 0)
    BY <1>1 DEF Held
  <2>2. \A t \in DOMAIN d.inFlightDelta :
          d.inFlightDelta[t] >= -1 /\ (t \in DOMAIN d.messages \/ t <= d.lastSeq)
    BY <1>1, <1>2 DEF Held
  <2> QED BY <1>3, <2>1, <2>2, HeldKept
<1>5. \A f : Awaits(c, f) => Awaits(d, f)
  BY <1>3, AwaitsKept
<1> QED BY <1>4, <1>5 DEF Passes

LEMMA PassesCreated ==
  ASSUME NEW c \in ReducerState, NEW e \in Event, e.type = "created",
         NEW lg, NEW ac, Held(c, ac), Sent(lg, ac, e),
         \A s \in DOMAIN ac : ac[s].deltaIndex \in Int /\ ac[s].deltaIndex >= -1
  PROVE  Passes(c, ApplyCreated(c, e), e, ac)
<1> DEFINE d == ApplyCreated(c, e)
<1>1. e.seq \in Nat /\ e.row \in Row /\ c.lastSeq \in Nat
  BY EventIs, ReducerFields DEF RowTypes
<1>2. CASE e.seq \in DOMAIN c.messages \/ e.seq <= c.lastSeq
  <2>1. d = c
    BY <1>1, <1>2 DEF ApplyCreated
  <2> QED BY <2>1, PassesSelf
<1>3. CASE e.seq \notin DOMAIN c.messages /\ e.seq > c.lastSeq + 1
  <2>1. d = AskCatchup(c)
    BY <1>1, <1>3 DEF ApplyCreated
  <2> QED BY <2>1, PassesAsk
<1>4. CASE e.seq \notin DOMAIN c.messages /\ e.seq = c.lastSeq + 1
  <2>1. d = [WithRow(c, e.seq, e.row) EXCEPT !.lastSeq = e.seq]
    BY <1>1, <1>4 DEF ApplyCreated
  <2>2. /\ d.messages = Put(c.messages, e.seq, e.row) /\ d.lastSeq = e.seq
        /\ d.inFlightDelta = c.inFlightDelta /\ d.quarantined = c.quarantined
    BY <2>1 DEF WithRow, ReducerState
  <2>3. /\ DOMAIN d.messages = DOMAIN c.messages \cup {e.seq}
        /\ \A t \in DOMAIN c.messages : d.messages[t] = c.messages[t]
        /\ d.messages[e.seq] = e.row
    BY <1>4, <2>2 DEF Put
  <2> HIDE DEF d
  <2>4. e.seq \notin DOMAIN c.inFlightDelta
    BY <1>1, <1>4 DEF Held
  <2>5. ExpectedDelta(d, e.seq) = 0
    BY <2>2, <2>4 DEF ExpectedDelta
  <2>6. \A t : t # e.seq => Untouched(c, d, t)
    BY <2>2, <2>3 DEF Untouched, Live, ExpectedDelta
  <2>7. Counts(e.row.text, 0)
    <3>1. [seq |-> e.seq, row |-> e.row] \in Carried(e)
      BY CarriedIs DEF RowTypes
    <3> QED BY <3>1 DEF Sent
  <2>8. \A t \in DOMAIN d.messages : Counts(d.messages[t].text, 0)
    BY <2>3, <2>7 DEF Held
  <2>9. \A t \in DOMAIN d.inFlightDelta :
          d.inFlightDelta[t] >= -1 /\ (t \in DOMAIN d.messages \/ t <= d.lastSeq)
    <3> SUFFICES ASSUME NEW t \in DOMAIN c.inFlightDelta
                 PROVE  c.inFlightDelta[t] >= -1 /\ (t \in DOMAIN d.messages \/ t <= d.lastSeq)
      BY <2>2
    <3>1. c.inFlightDelta[t] >= -1 /\ (t \in DOMAIN c.messages \/ t <= c.lastSeq)
      BY DEF Held
    <3>2. t \in Nat
      BY ReducerFields, PartialIs
    <3>3. t <= c.lastSeq => t <= d.lastSeq
      BY <1>1, <1>4, <2>2, <3>2
    <3> QED BY <2>3, <3>1, <3>3
  <2>10. ASSUME NEW t \in DOMAIN ac, Live(d, t)
         PROVE  /\ ExpectedDelta(d, t) <= ac[t].deltaIndex + 1
                /\ ExpectedDelta(d, t) = ac[t].deltaIndex + 1 =>
                     Len(d.messages[t].text) = Emitted(ac[t])
    <3>1. CASE t = e.seq
      <4>1. ac[t].deltaIndex + 1 >= 0 /\ (0 = ac[t].deltaIndex + 1 => ac[t].deltaIndex = -1)
        OBVIOUS
      <4>2. OpenProse(e.row)
        BY <2>3, <2>10, <3>1 DEF Live
      <4>3. ac[t].deltaIndex = -1 => Len(e.row.text) = Emitted(ac[t])
        BY <3>1, <4>2 DEF Sent
      <4> QED BY <2>3, <2>5, <3>1, <4>1, <4>3
    <3>2. CASE t # e.seq
      BY <2>6, <2>10, <3>2 DEF Held, Untouched
    <3> QED BY <3>1, <3>2
  <2>11. Held(d, ac)
    BY <2>8, <2>9, <2>10 DEF Held
  <2>12. ASSUME NEW f, Awaits(c, f), Chained(e, f)
         PROVE  Awaits(d, f)
    <3>1. CASE f.seq = e.seq
      <4>1. Live(d, f.seq) => OpenProse(e.row)
        BY <2>3, <3>1 DEF Live
      <4> QED BY <2>3, <2>5, <2>12, <3>1, <4>1 DEF Awaits, Chained
    <3>2. CASE f.seq # e.seq
      BY <2>6, <2>12, <3>2, AwaitsKept
    <3> QED BY <3>1, <3>2
  <2> QED BY <2>11, <2>12 DEF Passes, d
<1> QED BY <1>1, <1>2, <1>3, <1>4

\* A delta that the timeline expects is joined on, any other quarantines.
LEMMA PassesDelta ==
  ASSUME NEW c \in ReducerState, NEW e \in Event, e.type = "delta",
         NEW lg, NEW ac, Held(c, ac), Awaits(c, e), Sent(lg, ac, e),
         \A s \in DOMAIN ac : ac[s].deltaIndex \in Int,
         e.seq \in DOMAIN c.messages => c.messages[e.seq].kind = "prose"
  PROVE  Passes(c, ApplyDelta(c, e), e, ac)
<1> DEFINE d == ApplyDelta(c, e)
           s == e.seq
           row == [c.messages[s] EXCEPT !.text = @ \o e.text]
           n == ExpectedDelta(c, s)
<1>1. /\ e.seq \in Nat /\ e.index \in Int /\ e.text \in Seq(Nat)
      /\ c.messages \in Partial(Row) /\ c.inFlightDelta \in Partial(Int)
  BY EventIs, ReducerFields
<1>2. CASE s \notin DOMAIN c.messages
  <2>1. d = AskCatchup(c)
    BY <1>2 DEF ApplyDelta
  <2> QED BY <2>1, PassesAsk
<1>3. CASE s \in DOMAIN c.messages /\ (c.messages[s].status # "streaming" \/ s \in c.quarantined)
  <2>1. d = c
    BY <1>3 DEF ApplyDelta
  <2> QED BY <2>1, PassesSelf
<1>4. CASE /\ s \in DOMAIN c.messages /\ c.messages[s].status = "streaming"
           /\ s \notin c.quarantined /\ e.index # n
  <2>1. d = [c EXCEPT !.quarantined = @ \cup {s}]
    BY <1>4 DEF ApplyDelta
  <2>2. /\ d.messages = c.messages /\ d.inFlightDelta = c.inFlightDelta
        /\ d.quarantined = c.quarantined \cup {s} /\ d.lastSeq = c.lastSeq
    BY <2>1 DEF ReducerState
  <2> HIDE DEF d, n
  <2>3. \A t : Untouched(c, d, t)
    BY <2>2 DEF Untouched, Live, ExpectedDelta
  <2>4. \A t \in DOMAIN d.messages : Counts(d.messages[t].text, 0)
    BY <2>2 DEF Held
  <2>5. \A t \in DOMAIN d.inFlightDelta :
          d.inFlightDelta[t] >= -1 /\ (t \in DOMAIN d.messages \/ t <= d.lastSeq)
    BY <2>2 DEF Held
  <2>6. Held(d, ac)
    BY <2>3, <2>4, <2>5, HeldKept
  <2>7. \A f : Awaits(c, f) => Awaits(d, f)
    BY <2>3, AwaitsKept
  <2> QED BY <2>6, <2>7 DEF Passes, d
<1>5. CASE /\ s \in DOMAIN c.messages /\ c.messages[s].status = "streaming"
           /\ s \notin c.quarantined /\ e.index = n
  <2>0. c.messages[s] \in Row /\ c.messages[s].text \in Seq(Nat)
    BY <1>5, ReducerFields, RowFields
  <2>1. d = [c EXCEPT !.messages[s].text = @ \o e.text, !.inFlightDelta = Put(@, s, e.index)]
    BY <1>5 DEF ApplyDelta
  <2>2. /\ d.messages = [c.messages EXCEPT ![s] = row] /\ d.lastSeq = c.lastSeq
        /\ d.inFlightDelta = Put(c.inFlightDelta, s, e.index) /\ d.quarantined = c.quarantined
    BY <2>1 DEF ReducerState
  <2>3. /\ row.text = c.messages[s].text \o e.text /\ row.kind = c.messages[s].kind
        /\ row.status = c.messages[s].status
    BY <2>0 DEF Row
  <2> HIDE DEF row, d
  <2>4. /\ DOMAIN d.messages = DOMAIN c.messages /\ d.messages[s] = row
        /\ \A t \in DOMAIN c.messages : t # s => d.messages[t] = c.messages[t]
    BY <1>1, <1>5, <2>2, PartialIs
  <2>5. /\ DOMAIN d.inFlightDelta = DOMAIN c.inFlightDelta \cup {s} /\ d.inFlightDelta[s] = e.index
        /\ \A t \in DOMAIN c.inFlightDelta : t # s => d.inFlightDelta[t] = c.inFlightDelta[t]
    BY <2>2 DEF Put
  <2>6. \A t : t # s => Untouched(c, d, t)
    BY <2>2, <2>4, <2>5 DEF Untouched, Live, ExpectedDelta
  <2>7. n \in Nat
    BY ExpectedIs
  <2> HIDE DEF n
  <2>8. ExpectedDelta(d, s) = n + 1 /\ e.index = n
    BY <1>5, <2>5 DEF ExpectedDelta
  <2>9. Live(d, s) => Live(c, s)
    BY <1>5, <2>2, <2>3, <2>4 DEF Live, OpenProse
  <2>10. Counts(c.messages[s].text, 0)
    BY <1>5 DEF Held
  <2>11. Live(c, s)
    BY <1>5 DEF Live, OpenProse
  <2>12. Counts(e.text, Len(c.messages[s].text))
    BY <1>1, <2>8, <2>11 DEF Awaits, n
  <2>13. Len(c.messages[s].text) \in Nat /\ Len(e.text) \in Nat
    BY <1>1, <2>0
  <2>14. Counts(row.text, 0) /\ Len(row.text) = Len(c.messages[s].text) + Len(e.text)
    <3>1. Counts(e.text, 0 + Len(c.messages[s].text))
      BY <2>12, <2>13
    <3>2. Counts(c.messages[s].text \o e.text, 0)
      BY <1>1, <2>0, <2>10, <3>1, CountsOn
    <3>3. Len(c.messages[s].text \o e.text) = Len(c.messages[s].text) + Len(e.text)
      BY <1>1, <2>0, ConcatProperties
    <3> QED BY <2>3, <3>2, <3>3
  <2>15. Until(e) = Len(row.text)
    <3>1. e.text # <<>>
      BY DEF Sent
    <3>2. Until(e) = Len(c.messages[s].text) + Len(e.text)
      BY <1>1, <2>12, <2>13, <3>1, UntilIs
    <3> QED BY <2>14, <3>2
  <2>16. \A t \in DOMAIN d.messages : Counts(d.messages[t].text, 0)
    BY <2>4, <2>14 DEF Held
  <2>17. \A t \in DOMAIN d.inFlightDelta :
           d.inFlightDelta[t] >= -1 /\ (t \in DOMAIN d.messages \/ t <= d.lastSeq)
    <3>1. e.index >= -1
      BY <2>7, <2>8
    <3>2. \A t \in DOMAIN c.inFlightDelta :
            c.inFlightDelta[t] >= -1 /\ (t \in DOMAIN c.messages \/ t <= c.lastSeq)
      BY DEF Held
    <3> QED BY <1>5, <2>2, <2>4, <2>5, <3>1, <3>2
  <2>18. ASSUME NEW t \in DOMAIN ac, Live(d, t)
         PROVE  /\ ExpectedDelta(d, t) <= ac[t].deltaIndex + 1
                /\ ExpectedDelta(d, t) = ac[t].deltaIndex + 1 =>
                     Len(d.messages[t].text) = Emitted(ac[t])
    <3>1. CASE t = s
      <4>1. e.index <= ac[t].deltaIndex /\ (e.index = ac[t].deltaIndex => Until(e) = Emitted(ac[t]))
        BY <3>1 DEF Sent
      <4>2. n + 1 <= ac[t].deltaIndex + 1 /\ (n + 1 = ac[t].deltaIndex + 1 => n = ac[t].deltaIndex)
        BY <2>7, <2>8, <4>1
      <4> QED BY <2>4, <2>8, <2>15, <3>1, <4>1, <4>2
    <3>2. CASE t # s
      BY <2>6, <2>18, <3>2 DEF Held, Untouched
    <3> QED BY <3>1, <3>2
  <2>19. Held(d, ac)
    BY <2>16, <2>17, <2>18 DEF Held
  <2>20. ASSUME NEW f, Awaits(c, f), Chained(e, f)
         PROVE  Awaits(d, f)
    <3>1. CASE f.seq = s
      <4>1. f.type = "delta" /\ f.index = n + 1 => Counts(f.text, Until(e))
        BY <2>8, <2>20, <3>1 DEF Chained
      <4> QED BY <2>4, <2>8, <2>15, <3>1, <4>1 DEF Awaits
    <3>2. CASE f.seq # s
      BY <2>6, <2>20, <3>2, AwaitsKept
    <3> QED BY <3>1, <3>2
  <2> QED BY <2>19, <2>20 DEF Passes, d
<1> QED BY <1>2, <1>3, <1>4, <1>5

LEMMA PassesAll ==
  ASSUME NEW c \in ReducerState, NEW e \in Event, e.type \notin {"snapshot", "close"},
         NEW lg, NEW ac, Held(c, ac), Awaits(c, e), Sent(lg, ac, e),
         \A s \in DOMAIN ac : ac[s].deltaIndex \in Int /\ ac[s].deltaIndex >= -1,
         e.type = "delta" /\ e.seq \in DOMAIN c.messages => c.messages[e.seq].kind = "prose"
  PROVE  Passes(c, applyChannelEventV1(c, e), e, ac)
<1> DEFINE d == applyChannelEventV1(c, e)
<1>1. CASE e.type = "delta"
  <2>1. d = ApplyDelta(c, e)
    BY <1>1 DEF applyChannelEventV1
  <2>2. Passes(c, ApplyDelta(c, e), e, ac)
    BY <1>1, PassesDelta
  <2> QED BY <2>1, <2>2
<1>2. CASE e.type = "created"
  <2>1. d = ApplyCreated(c, e)
    BY <1>2 DEF applyChannelEventV1
  <2>2. Passes(c, ApplyCreated(c, e), e, ac)
    BY <1>2, PassesCreated
  <2> QED BY <2>1, <2>2
<1>3. CASE e.type \in RowTypes \ {"created"}
  <2>1. ~OpenProse(e.row) /\ Counts(e.row.text, 0)
    <3>1. [seq |-> e.seq, row |-> e.row] \in Carried(e)
      BY <1>3, CarriedIs
    <3> QED BY <1>3, <3>1 DEF Sent
  <2>2. e.seq \in Nat /\ e.row \in Row
    BY <1>3, EventIs
  <2> DEFINE w == WithRow(c, e.seq, e.row)
             x == [w EXCEPT !.inFlightDelta = Restrict(@, DOMAIN @ \ {e.seq}),
                            !.quarantined = @ \ {e.seq}]
  <2>3. \/ d = c \/ d = AskCatchup(c)
        \/ e.seq \in DOMAIN c.messages /\ (d = w \/ d = x)
    BY <1>3 DEF applyChannelEventV1, ApplyUpdated, ApplyCompleted, ApplyRevised, RowTypes
  <2>4. /\ w.messages = Put(c.messages, e.seq, e.row) /\ w.lastSeq = c.lastSeq
        /\ w.inFlightDelta = c.inFlightDelta /\ w.quarantined = c.quarantined
    BY DEF WithRow, ReducerState
  <2>5. w \in ReducerState
    <3>1. [seq |-> e.seq, row |-> e.row] \in {[seq |-> e.seq, row |-> e.row]}
      OBVIOUS
    <3> QED BY <2>2, <3>1, WithRowOK
  <2>6. /\ x.messages = w.messages /\ x.lastSeq = w.lastSeq
        /\ x.inFlightDelta = Restrict(w.inFlightDelta, DOMAIN w.inFlightDelta \ {e.seq})
        /\ x.quarantined = w.quarantined \ {e.seq}
    <3> HIDE DEF w
    <3> QED BY <2>5 DEF ReducerState
  <2> HIDE DEF d, w, x
  <2>7. CASE e.seq \in DOMAIN c.messages /\ d = w
    <3>1. Passes(c, w, e, ac)
      BY <2>1, <2>4, <2>7, PassesRow
    <3> QED BY <2>7, <3>1 DEF d
  <2>8. CASE e.seq \in DOMAIN c.messages /\ d = x
    <3>1. Passes(c, x, e, ac)
      BY <2>1, <2>4, <2>6, <2>8, PassesRow
    <3> QED BY <2>8, <3>1 DEF d
  <2>9. CASE d = c \/ d = AskCatchup(c)
    BY <2>9, PassesSelf, PassesAsk DEF d
  <2> QED BY <2>3, <2>7, <2>8, <2>9
<1>4. CASE e.type = "resync"
  <2>1. d = AskCatchup(c)
    BY <1>4 DEF applyChannelEventV1
  <2> QED BY <2>1, PassesAsk
<1> QED BY <1>1, <1>2, <1>3, <1>4, EventIs
-----------------------------------------------------------------------------
(* Chunks and the steps of the server.                                     *)

\* An open stream has emitted as much as before, or it has another index.
Moved(lg, ac, bc) ==
  \A s \in DOMAIN bc : s \in DOMAIN lg =>
    /\ s \in DOMAIN ac /\ bc[s].deltaIndex \in Int
    /\ \/ Emitted(bc[s]) = Emitted(ac[s]) /\ bc[s].deltaIndex = ac[s].deltaIndex
       \/ bc[s].deltaIndex > ac[s].deltaIndex

\* Rows stay what they are.
KindsKept(lg, lh) == \A s \in DOMAIN lg : s \in DOMAIN lh /\ lh[s].kind = lg[s].kind

LEMMA HeldMoved ==
  ASSUME NEW c \in ReducerState, NEW lg, Logged(lg, Shown(c.messages)),
         NEW ac, NEW bc, Held(c, ac), Moved(lg, ac, bc),
         \A s \in DOMAIN ac : ac[s].deltaIndex \in Int
  PROVE  Held(c, bc)
<1>1. ASSUME NEW s \in DOMAIN bc, Live(c, s)
      PROVE  /\ ExpectedDelta(c, s) <= bc[s].deltaIndex + 1
             /\ ExpectedDelta(c, s) = bc[s].deltaIndex + 1 =>
                  Len(c.messages[s].text) = Emitted(bc[s])
  <2>1. s \in DOMAIN c.messages
    BY <1>1 DEF Live
  <2>2. s \in DOMAIN lg
    <3>1. [seq |-> s, row |-> c.messages[s]] \in Shown(c.messages)
      BY <2>1 DEF Shown
    <3>2. Version(lg, [seq |-> s, row |-> c.messages[s]].seq, [seq |-> s, row |-> c.messages[s]].row)
      BY <3>1 DEF Logged
    <3> QED BY <3>2 DEF Version
  <2>3. /\ s \in DOMAIN ac /\ bc[s].deltaIndex \in Int
        /\ \/ Emitted(bc[s]) = Emitted(ac[s]) /\ bc[s].deltaIndex = ac[s].deltaIndex
           \/ bc[s].deltaIndex > ac[s].deltaIndex
    BY <2>2 DEF Moved
  <2>4. /\ ExpectedDelta(c, s) <= ac[s].deltaIndex + 1
        /\ ExpectedDelta(c, s) = ac[s].deltaIndex + 1 => Len(c.messages[s].text) = Emitted(ac[s])
    BY <1>1, <2>3 DEF Held
  <2>5. ac[s].deltaIndex \in Int /\ ExpectedDelta(c, s) \in Nat
    BY <2>3, ExpectedIs
  <2>6. CASE Emitted(bc[s]) = Emitted(ac[s]) /\ bc[s].deltaIndex = ac[s].deltaIndex
    <3> HIDE DEF Emitted
    <3>1. bc[s].deltaIndex + 1 = ac[s].deltaIndex + 1
      BY <2>6
    <3> QED BY <2>4, <2>6, <3>1
  <2>7. CASE bc[s].deltaIndex > ac[s].deltaIndex
    <3>1. ExpectedDelta(c, s) < bc[s].deltaIndex + 1
      BY <2>3, <2>4, <2>5, <2>7
    <3> QED BY <2>3, <2>5, <3>1
  <2> QED BY <2>3, <2>6, <2>7
<1>2. /\ \A s \in DOMAIN c.messages : Counts(c.messages[s].text, 0)
      /\ \A s \in DOMAIN c.inFlightDelta :
           c.inFlightDelta[s] >= -1 /\ (s \in DOMAIN c.messages \/ s <= c.lastSeq)
  BY DEF Held
<1> QED BY <1>1, <1>2 DEF Held

LEMMA SentMoved ==
  ASSUME NEW lg, NEW lh, KindsKept(lg, lh), NEW ac, NEW bc, Moved(lg, ac, bc),
         \A s \in DOMAIN ac : ac[s].deltaIndex \in Int /\ ac[s].deltaIndex >= -1,
         NEW e \in Event, Logged(lg, Carried(e)), Sent(lg, ac, e)
  PROVE  Sent(lh, bc, e)
<1>1. ASSUME e.type = "created", OpenProse(e.row), e.seq \in DOMAIN bc, bc[e.seq].deltaIndex = -1
      PROVE  Emitted(bc[e.seq]) = Len(e.row.text)
  <2>1. [seq |-> e.seq, row |-> e.row] \in Carried(e)
    BY <1>1, CarriedIs DEF RowTypes
  <2>2. e.seq \in DOMAIN lg
    BY <2>1 DEF Logged, Version
  <2>3. /\ e.seq \in DOMAIN ac
        /\ \/ Emitted(bc[e.seq]) = Emitted(ac[e.seq]) /\ bc[e.seq].deltaIndex = ac[e.seq].deltaIndex
           \/ bc[e.seq].deltaIndex > ac[e.seq].deltaIndex
    BY <1>1, <2>2 DEF Moved
  <2>4. Emitted(bc[e.seq]) = Emitted(ac[e.seq]) /\ ac[e.seq].deltaIndex = -1
    BY <1>1, <2>3
  <2> QED BY <1>1, <2>3, <2>4 DEF Sent
<1>2. ASSUME e.type = "delta"
      PROVE  /\ e.text # <<>> /\ e.seq \in DOMAIN lh /\ lh[e.seq].kind = "prose"
             /\ e.seq \in DOMAIN bc =>
                  /\ e.index <= bc[e.seq].deltaIndex
                  /\ e.index = bc[e.seq].deltaIndex => Until(e) = Emitted(bc[e.seq])
  <2>1. e.text # <<>> /\ e.seq \in DOMAIN lg /\ lg[e.seq].kind = "prose" /\ e.index \in Int
    BY <1>2, EventIs DEF Sent
  <2>2. e.seq \in DOMAIN lh /\ lh[e.seq].kind = "prose"
    BY <2>1 DEF KindsKept
  <2>3. ASSUME e.seq \in DOMAIN bc
        PROVE  /\ e.index <= bc[e.seq].deltaIndex
               /\ e.index = bc[e.seq].deltaIndex => Until(e) = Emitted(bc[e.seq])
    <3>1. /\ e.seq \in DOMAIN ac /\ bc[e.seq].deltaIndex \in Int /\ ac[e.seq].deltaIndex \in Int
          /\ \/ Emitted(bc[e.seq]) = Emitted(ac[e.seq]) /\ bc[e.seq].deltaIndex = ac[e.seq].deltaIndex
             \/ bc[e.seq].deltaIndex > ac[e.seq].deltaIndex
      BY <2>1, <2>3 DEF Moved
    <3>2. e.index <= ac[e.seq].deltaIndex /\ (e.index = ac[e.seq].deltaIndex => Until(e) = Emitted(ac[e.seq]))
      BY <1>2, <3>1 DEF Sent
    <3> QED BY <2>1, <3>1, <3>2
  <2> QED BY <2>1, <2>2, <2>3
<1>3. /\ \A v \in Carried(e) : Counts(v.row.text, 0)
      /\ e.type \in RowTypes \ {"created"} => ~OpenProse(e.row)
  BY DEF Sent
<1> QED BY <1>1, <1>2, <1>3 DEF Sent

\* What is shown, and what will be, is in the log.
LEMMA AheadIs ==
  ASSUME SyncInv
  PROVE  Ahead \in ReducerState /\ Logged(log, Shown(Ahead.messages))
<1>1. client \in ReducerState /\ Logged(log, Shown(client.messages))
  BY DEF SyncInv, BrowserTypes
<1>2. ASSUME net # <<>>, net[1].type = "snapshot"
      PROVE  Ahead \in ReducerState /\ Logged(log, Shown(Ahead.messages))
  <2>1. 1 \in DOMAIN net /\ net[1] \in Event /\ Logged(log, Carried(net[1]))
    <3>1. net \in Seq(Event)
      BY DEF SyncInv
    <3>2. 1 \in DOMAIN net
      BY <1>2, <3>1, EmptySeq
    <3> QED BY <3>1, <3>2 DEF SyncInv
  <2>2. /\ applyChannelEventV1(client, net[1]) \in ReducerState
        /\ From(Shown(client.messages), Shown(applyChannelEventV1(client, net[1]).messages),
                Carried(net[1]))
    BY <1>1, <1>2, <2>1, ReducerOK
  <2>3. Logged(log, Shown(applyChannelEventV1(client, net[1]).messages))
    BY <1>1, <2>1, <2>2, FromLogged
  <2> QED BY <1>2, <2>2, <2>3 DEF Ahead
<1> QED BY <1>1, <1>2 DEF Ahead

\* A step of the server that adds to the socket no snapshot.
LEMMA ChunkAdds ==
  ASSUME SyncInv, SyncInv', ChunkInv, client' = client, KindsKept(log, log'),
         Buffers(log', acc'), Moved(log, acc, acc'),
         Len(net) <= Len(net'), \A i \in DOMAIN net : net'[i] = net[i],
         \A i \in DOMAIN net' : i \notin DOMAIN net =>
           net'[i].type # "snapshot" /\ Sent(log', acc', net'[i]) /\ Awaits(Ahead, net'[i]),
         \A i, j \in DOMAIN net' : i < j /\ j \notin DOMAIN net => Chained(net'[i], net'[j])
  PROVE  ChunkInv'
<1>1. net \in Seq(Event) /\ net' \in Seq(Event)
  BY DEF SyncInv
<1>2. Ahead' = Ahead
  <2>1. CASE net # <<>>
    <3>1. 1 \in DOMAIN net /\ net' # <<>>
      BY <1>1, <2>1, EmptySeq
    <3> QED BY <2>1, <3>1 DEF Ahead
  <2>2. CASE net = <<>>
    <3>1. net' # <<>> => 1 \in DOMAIN net' /\ 1 \notin DOMAIN net
      BY <1>1, <2>2, EmptySeq
    <3> QED BY <2>2, <3>1 DEF Ahead
  <2> QED BY <2>1, <2>2
<1>3. \A s \in DOMAIN acc : acc[s].deltaIndex \in Int /\ acc[s].deltaIndex >= -1
  BY DEF SyncInv, Streams, Stream, Accumulator, ChunkInv, Buffers, Buffer
<1>4. Held(client, acc') /\ Held(Ahead, acc')
  <2>1. client \in ReducerState /\ Logged(log, Shown(client.messages))
    BY DEF SyncInv, BrowserTypes
  <2>2. Held(client, acc) /\ Held(Ahead, acc)
    BY DEF ChunkInv
  <2> QED BY <1>3, <2>1, <2>2, AheadIs, HeldMoved
<1>5. ASSUME NEW i \in DOMAIN net'
      PROVE  Sent(log', acc', net'[i]) /\ Awaits(Ahead, net'[i])
  <2>1. CASE i \in DOMAIN net
    <3>1. net[i] \in Event /\ Logged(log, Carried(net[i])) /\ Sent(log, acc, net[i]) /\ Awaits(Ahead, net[i])
      BY <1>1, <2>1 DEF SyncInv, ChunkInv
    <3>2. Sent(log', acc', net[i])
      BY <1>3, <3>1, SentMoved
    <3> QED BY <2>1, <3>1, <3>2
  <2> QED BY <2>1
<1>6. ASSUME NEW i \in DOMAIN net', NEW j \in DOMAIN net', i < j
      PROVE  Chained(net'[i], net'[j])
  <2>1. CASE j \in DOMAIN net
    <3>1. i \in DOMAIN net
      BY <1>1, <1>6, <2>1
    <3> QED BY <1>6, <2>1, <3>1 DEF ChunkInv
  <2> QED BY <1>6, <2>1
<1>7. (Held(client, acc) /\ Held(Ahead, acc))'
  BY <1>2, <1>4
<1> QED BY <1>2, <1>5, <1>6, <1>7 DEF ChunkInv

\* It adds no delta either.
LEMMA ChunkTells ==
  ASSUME SyncInv, SyncInv', ChunkInv, client' = client, KindsKept(log, log'),
         Buffers(log', acc'), Moved(log, acc, acc'),
         \/ net' = net
         \/ \E e : /\ Broadcast(e) /\ Sent(log', acc', e)
                    /\ e.type \notin {"snapshot", "delta"}
  PROVE  ChunkInv'
<1>1. net \in Seq(Event) /\ sub \in SubStates
  BY DEF SyncInv
<1>2. /\ Len(net) <= Len(net') /\ \A i \in DOMAIN net : net'[i] = net[i]
      /\ \A i \in DOMAIN net' : i \notin DOMAIN net =>
           net'[i].type \notin {"snapshot", "delta"} /\ Sent(log', acc', net'[i])
  <2>1. CASE net' = net
    BY <1>1, <2>1
  <2>2. ASSUME NEW e, Broadcast(e), Sent(log', acc', e),
               e.type \notin {"snapshot", "delta"}
        PROVE  /\ Len(net) <= Len(net') /\ \A i \in DOMAIN net : net'[i] = net[i]
               /\ \A i \in DOMAIN net' : i \notin DOMAIN net =>
                    net'[i].type \notin {"snapshot", "delta"} /\ Sent(log', acc', net'[i])
    <3>1. /\ Len(net) <= Len(net') /\ \A i \in DOMAIN net : net'[i] = net[i]
          /\ \A i \in DOMAIN net' : i \notin DOMAIN net =>
               net'[i] \in {e, ResyncEvent, CloseEvent}
      <4> DEFINE S == Event \cup {e}
      <4>1. net \in Seq(S) /\ e \in S /\ ResyncEvent \in S /\ CloseEvent \in S
        BY <1>1, Empties
      <4> HIDE DEF S
      <4> QED BY <1>1, <2>2, <4>1, BroadcastAdds
    <3>2. /\ Sent(log', acc', ResyncEvent) /\ Sent(log', acc', CloseEvent)
          /\ ResyncEvent.type = "resync" /\ CloseEvent.type = "close"
      <4>1. ResyncEvent.type = "resync" /\ CloseEvent.type = "close"
        BY DEF ResyncEvent, CloseEvent
      <4> QED BY <4>1, Empties DEF Sent, RowTypes
    <3> QED BY <2>2, <3>1, <3>2
  <2> QED BY <2>1, <2>2
<1>3. \A i \in DOMAIN net' : i \notin DOMAIN net => Awaits(Ahead, net'[i])
  BY <1>2 DEF Awaits
<1>4. \A i, j \in DOMAIN net' : i < j /\ j \notin DOMAIN net => Chained(net'[i], net'[j])
  BY <1>2 DEF Chained
<1> QED BY <1>2, <1>3, <1>4, ChunkAdds

\* A stream or a row of its own changes.
LEMMA BuffersStream ==
  ASSUME NEW lg, NEW ac, Buffers(lg, ac), NEW s \in DOMAIN ac, NEW a, Buffer(lg, s, a)
  PROVE  Buffers(lg, [ac EXCEPT ![s] = a])
BY DEF Buffers

LEMMA BuffersRow ==
  ASSUME NEW lg, NEW ac, Buffers(lg, ac), NEW s \in DOMAIN lg, NEW row,
         row.kind = lg[s].kind, Counts(row.text, 0), DOMAIN ac \subseteq DOMAIN lg
  PROVE  /\ Buffers([lg EXCEPT ![s] = row], ac)
         /\ KindsKept(lg, [lg EXCEPT ![s] = row])
<1> DEFINE lh == [lg EXCEPT ![s] = row]
<1>1. DOMAIN lh = DOMAIN lg /\ \A t \in DOMAIN lg : lh[t] = IF t = s THEN row ELSE lg[t]
  OBVIOUS
<1> HIDE DEF lh
<1>2. \A t \in DOMAIN lg : lh[t].kind = lg[t].kind /\ Counts(lh[t].text, 0)
  BY <1>1 DEF Buffers
<1>3. \A t \in DOMAIN ac : Buffer(lh, t, ac[t])
  BY <1>2 DEF Buffers, Buffer
<1> QED BY <1>1, <1>2, <1>3 DEF Buffers, KindsKept, lh

LEMMA BuffersClosed ==
  ASSUME NEW lg, NEW ac, Buffers(lg, ac), NEW D, D \subseteq DOMAIN ac,
         \A s \in DOMAIN ac : ac[s].deltaIndex \in Int
  PROVE  Buffers(lg, Restrict(ac, D)) /\ Moved(lg, ac, Restrict(ac, D))
BY DEF Buffers, Moved, Restrict

LEMMA MovedSelf ==
  ASSUME NEW lg, NEW ac, \A s \in DOMAIN ac : ac[s].deltaIndex \in Int
  PROVE  Moved(lg, ac, ac)
BY DEF Moved

\* What open streams have, and rows.
LEMMA ChunkFacts ==
  ASSUME SyncInv, ChunkInv
  PROVE  /\ Buffers(log, acc) /\ DOMAIN acc \subseteq DOMAIN log /\ log \in Seq(Row)
         /\ \A s \in DOMAIN acc : /\ acc[s].deltaIndex \in Int /\ acc[s].deltaIndex >= -1
                                  /\ Counts(acc[s].text, 0)
         /\ \A s \in DOMAIN log : log[s] \in Row /\ Counts(log[s].text, 0)
BY DEF SyncInv, Streams, Stream, Accumulator, ChunkInv, Buffers, Buffer

\* A row event that opens no stream.
LEMMA SentRow ==
  ASSUME NEW lg, NEW ac, NEW type \in RowTypes, NEW s, NEW row, ~OpenProse(row),
         Counts(row.text, 0)
  PROVE  /\ Sent(lg, ac, RowEvent(type, s, row))
         /\ RowEvent(type, s, row).type \notin {"snapshot", "delta"}
<1> DEFINE e == RowEvent(type, s, row)
<1>1. e.type = type /\ e.seq = s /\ e.row = row
  BY DEF RowEvent
<1> HIDE DEF e
<1>2. Carried(e) = {[seq |-> e.seq, row |-> e.row]}
  BY <1>1, CarriedIs
<1>3. \A v \in Carried(e) : Counts(v.row.text, 0)
  BY <1>1, <1>2
<1>4. e.type \notin {"snapshot", "delta"}
  BY <1>1 DEF RowTypes
<1> QED BY <1>1, <1>3, <1>4 DEF Sent, e

\* A row is settled or revised, and its stream if any is released.
LEMMA ChunkSettles ==
  ASSUME SyncInv, SyncInv', ChunkInv, client' = client, NEW s \in DOMAIN log,
         NEW row, row.kind = log[s].kind, ~OpenProse(row), Counts(row.text, 0),
         log' = [log EXCEPT ![s] = row],
         acc' = acc \/ acc' = Restrict(acc, DOMAIN acc \ {s}),
         NEW type \in RowTypes, Broadcast(RowEvent(type, s, row))
  PROVE  ChunkInv'
<1>1. /\ Buffers(log, acc) /\ DOMAIN acc \subseteq DOMAIN log
      /\ \A t \in DOMAIN acc : acc[t].deltaIndex \in Int
  BY ChunkFacts
<1>2. Buffers(log', acc) /\ KindsKept(log, log')
  BY <1>1, BuffersRow
<1>3. Buffers(log', acc') /\ Moved(log, acc, acc')
  <2>1. CASE acc' = acc
    BY <1>1, <1>2, <2>1, MovedSelf
  <2>2. CASE acc' = Restrict(acc, DOMAIN acc \ {s})
    <3>1. DOMAIN acc \ {s} \subseteq DOMAIN acc
      OBVIOUS
    <3>2. Buffers(log', acc')
      BY <1>1, <1>2, <2>2, <3>1, BuffersClosed
    <3>3. Moved(log, acc, acc')
      BY <1>1, <2>2, <3>1, BuffersClosed
    <3> QED BY <3>2, <3>3
  <2> QED BY <2>1, <2>2
<1> DEFINE e == RowEvent(type, s, row)
<1>4. Sent(log', acc', e) /\ e.type \notin {"snapshot", "delta"}
  BY SentRow
<1> HIDE DEF e
<1>5. Broadcast(e)
  BY DEF e
<1> QED BY <1>2, <1>3, <1>4, <1>5, ChunkTells

\* A row is added.
LEMMA BuffersAppend ==
  ASSUME NEW lg \in Seq(Row), NEW row \in Row, NEW ac, Buffers(lg, ac), Counts(row.text, 0),
         DOMAIN ac \subseteq DOMAIN lg
  PROVE  Buffers(Append(lg, row), ac) /\ KindsKept(lg, Append(lg, row))
<1> DEFINE lh == Append(lg, row)
<1>1. /\ Len(lg) \in Nat /\ DOMAIN lh = 1..(Len(lg) + 1) /\ DOMAIN lg = 1..Len(lg)
      /\ lh[Len(lg) + 1] = row /\ \A t \in 1..Len(lg) : lh[t] = lg[t]
  OBVIOUS
<1> HIDE DEF lh
<1>2. \A t \in DOMAIN lh : (t \in DOMAIN lg /\ lh[t] = lg[t]) \/ lh[t] = row
  BY <1>1
<1>3. \A t \in DOMAIN lg : t \in DOMAIN lh /\ lh[t] = lg[t]
  BY <1>1
<1>4. \A t \in DOMAIN lh : Counts(lh[t].text, 0)
  BY <1>2 DEF Buffers
<1>5. \A t \in DOMAIN ac : Buffer(lh, t, ac[t])
  BY <1>3 DEF Buffers, Buffer
<1> QED BY <1>3, <1>4, <1>5 DEF Buffers, KindsKept, lh

LEMMA ChunkPost ==
  ASSUME SyncInv, SyncInv', ChunkInv, Post
  PROVE  ChunkInv'
<1> DEFINE row == NewRow("human", "complete", <<>>)
           e == RowEvent("created", Len(log) + 1, row)
<1>1. log' = Append(log, row) /\ acc' = acc /\ Broadcast(e) /\ client' = client
  BY DEF Post, BrowserUnchanged
<1>2. row \in Row
  <2>1. "human" \in Kinds /\ "complete" \in Settled \cup {"streaming"} /\ <<>> \in Seq(Nat)
    BY DEF Kinds, Settled
  <2> QED BY <2>1, NewRowIs
<1>3. ~OpenProse(row) /\ Counts(row.text, 0)
  BY CountsEmpty DEF NewRow, OpenProse
<1> HIDE DEF row
<1>4. Buffers(log', acc') /\ KindsKept(log, log') /\ Moved(log, acc, acc')
  BY <1>1, <1>2, <1>3, ChunkFacts, BuffersAppend, MovedSelf
<1>5. Sent(log', acc', e) /\ e.type \notin {"snapshot", "delta"}
  <2>1. "created" \in RowTypes
    BY DEF RowTypes
  <2> QED BY <1>3, <2>1, SentRow
<1> HIDE DEF e
<1> QED BY <1>1, <1>4, <1>5, ChunkTells

LEMMA ChunkBegin ==
  ASSUME SyncInv, SyncInv', ChunkInv,
         NEW kind \in StreamKinds, NEW text \in {<<>>, << 1 >>}, BeginStream(kind, text)
  PROVE  ChunkInv'
<1> DEFINE row == NewRow(kind, "streaming", text)
           s == Len(log) + 1
           a == [text |-> text, pending |-> <<>>, deltaIndex |-> -1, update |-> <<>>]
           e == RowEvent("created", s, row)
<1>1. log' = Append(log, row) /\ acc' = Put(acc, s, a) /\ Broadcast(e) /\ client' = client
  BY DEF BeginStream, BrowserUnchanged
<1>2. kind \in {"prose", "card"} /\ text \in Seq(Nat) /\ Counts(text, 0)
  <2>1. kind \in {"prose", "card"}
    BY SyncLimits
  <2>2. <<>> \in Seq(Nat) /\ <<1>> \in Seq(Nat) /\ Counts(<<>>, 0) /\ Counts(<<1>>, 0)
    BY DEF Counts
  <2> QED BY <2>1, <2>2
<1>3. row \in Row /\ row.text = text
  <2>1. kind \in Kinds /\ "streaming" \in Settled \cup {"streaming"}
    BY <1>2 DEF Kinds
  <2>2. row \in Row
    BY <1>2, <2>1, NewRowIs
  <2> QED BY <2>2 DEF NewRow
<1>4. /\ a.text = text /\ a.pending = <<>> /\ a.deltaIndex = -1 /\ a.update = <<>>
      /\ e.type = "created" /\ e.seq = s /\ e.row = row
  BY DEF RowEvent
<1> HIDE DEF row, a, e
<1>5. Buffers(log', acc) /\ KindsKept(log, log')
  BY <1>1, <1>2, <1>3, ChunkFacts, BuffersAppend
<1>6. s \notin DOMAIN log /\ s \in DOMAIN log'
  <2>1. log \in Seq(Row)
    BY ChunkFacts
  <2> QED BY <1>1, <2>1
<1> HIDE DEF s
<1>7. /\ DOMAIN acc' = DOMAIN acc \cup {s}
      /\ \A t \in DOMAIN acc' : acc'[t] = IF t = s THEN a ELSE acc[t]
  BY <1>1 DEF Put
<1>8. Emitted(a) = Len(text) /\ Len(text) \in Nat
  <2>1. Len(text) \in Nat /\ Len(a.pending) = 0 /\ Len(a.text) = Len(text)
    BY <1>2, <1>4
  <2> QED BY <2>1 DEF Emitted
<1>9. Buffer(log', s, a)
  <2>1. Len(a.pending) = 0 /\ Len(a.text) = Len(text)
    BY <1>4
  <2>2. Counts(a.pending, Emitted(a)) /\ Counts(a.text, 0) /\ DOMAIN a.update = {}
    BY <1>2, <1>4, CountsEmpty
  <2>3. a.deltaIndex >= -1
    BY <1>4
  <2> QED BY <1>4, <1>8, <2>1, <2>2, <2>3 DEF Buffer
<1>10. Buffers(log', acc')
  BY <1>5, <1>7, <1>9 DEF Buffers
<1>11. Moved(log, acc, acc')
  BY <1>6, <1>7, ChunkFacts DEF Moved
<1>12. Sent(log', acc', e) /\ e.type \notin {"snapshot", "delta"}
  <2>1. Carried(e) = {[seq |-> s, row |-> row]}
    BY <1>4, CarriedIs DEF RowTypes
  <2>2. \A v \in Carried(e) : Counts(v.row.text, 0)
    BY <1>2, <1>3, <2>1
  <2>3. acc'[s] = a
    BY <1>7
  <2>4. Emitted(acc'[e.seq]) = Len(e.row.text)
    BY <1>3, <1>4, <1>8, <2>3
  <2> QED BY <1>4, <2>2, <2>4 DEF Sent
<1> QED BY <1>1, <1>5, <1>10, <1>11, <1>12, ChunkTells

LEMMA ChunkFinalize ==
  ASSUME SyncInv, SyncInv', ChunkInv, NEW s \in DOMAIN acc, NEW status \in Settled, NEW mark,
         Finalize(s, status, mark)
  PROVE  ChunkInv'
<1> DEFINE row == [log[s] EXCEPT !.text = acc[s].text, !.status = status, !.ver = @ + 1, !.mark = mark]
<1>1. /\ log' = [log EXCEPT ![s] = row] /\ acc' = Restrict(acc, DOMAIN acc \ {s})
      /\ Broadcast(RowEvent("completed", s, row)) /\ client' = client
  BY DEF Finalize, BrowserUnchanged
<1>2. s \in DOMAIN log /\ log[s] \in Row /\ Counts(acc[s].text, 0)
  BY ChunkFacts
<1>3. row.kind = log[s].kind /\ row.status = status /\ row.text = acc[s].text
  BY <1>2 DEF Row
<1> HIDE DEF row
<1>4. ~OpenProse(row) /\ Counts(row.text, 0)
  BY <1>2, <1>3 DEF OpenProse, Settled
<1>5. "completed" \in RowTypes
  BY DEF RowTypes
<1> QED BY <1>1, <1>2, <1>3, <1>4, <1>5, ChunkSettles

LEMMA ChunkResolve ==
  ASSUME SyncInv, SyncInv', ChunkInv, NEW s, NEW status \in Settled, ResolveProvisional(s, status)
  PROVE  ChunkInv'
<1> DEFINE row == [log[s] EXCEPT !.status = status, !.mark = "explicit", !.ver = @ + 1]
<1>1. /\ s \in DOMAIN log /\ log' = [log EXCEPT ![s] = row]
      /\ acc' = Restrict(acc, DOMAIN acc \ {s})
      /\ Broadcast(RowEvent("completed", s, row)) /\ client' = client
  BY DEF ResolveProvisional, BrowserUnchanged
<1>2. log[s] \in Row /\ Counts(log[s].text, 0)
  BY <1>1, ChunkFacts
<1>3. row.kind = log[s].kind /\ row.status = status /\ row.text = log[s].text
  BY <1>2 DEF Row
<1> HIDE DEF row
<1>4. ~OpenProse(row) /\ Counts(row.text, 0)
  BY <1>2, <1>3 DEF OpenProse, Settled
<1>5. "completed" \in RowTypes
  BY DEF RowTypes
<1> QED BY <1>1, <1>3, <1>4, <1>5, ChunkSettles

LEMMA ChunkRevises ==
  ASSUME SyncInv, SyncInv', ChunkInv, NEW s, EditMessage(s) \/ DeleteMessage(s)
  PROVE  ChunkInv'
<1> DEFINE Marked(mark) == [log[s] EXCEPT !.ver = @ + 1, !.mark = mark]
<1>1. s \in DOMAIN log /\ log[s].kind = "human" /\ client' = client
  BY DEF EditMessage, DeleteMessage, BrowserUnchanged
<1>2. PICK row \in {log[s], Marked("edited"), Marked("deleted")}, type \in {"edited", "deleted"} :
        /\ log' = [log EXCEPT ![s] = row] /\ Broadcast(RowEvent(type, s, row))
        /\ acc' = acc \/ acc' = Restrict(acc, DOMAIN acc \ {s})
  BY DEF EditMessage, DeleteMessage
<1>3. log[s] \in Row /\ Counts(log[s].text, 0)
  BY <1>1, ChunkFacts
<1>4. row.kind = log[s].kind /\ row.text = log[s].text
  BY <1>3 DEF Row
<1> HIDE DEF Marked
<1>5. ~OpenProse(row) /\ Counts(row.text, 0)
  BY <1>1, <1>3, <1>4 DEF OpenProse
<1>6. type \in RowTypes
  BY DEF RowTypes
<1> QED BY <1>1, <1>2, <1>4, <1>5, <1>6, ChunkSettles

\* An open stream's own state changes, and perhaps its row's.
LEMMA ChunkStream ==
  ASSUME SyncInv, SyncInv', ChunkInv, client' = client, NEW s \in DOMAIN acc, NEW a,
         acc' = [acc EXCEPT ![s] = a], KindsKept(log, log'), Buffers(log', acc),
         Buffer(log', s, a),
         Emitted(a) = Emitted(acc[s]) /\ a.deltaIndex = acc[s].deltaIndex,
         \/ net' = net
         \/ \E e : /\ Broadcast(e) /\ Sent(log', acc', e)
                   /\ e.type \notin {"snapshot", "delta"}
  PROVE  ChunkInv'
<1>1. \A t \in DOMAIN acc : acc[t].deltaIndex \in Int
  BY ChunkFacts
<1>2. DOMAIN acc' = DOMAIN acc /\ \A t \in DOMAIN acc : acc'[t] = IF t = s THEN a ELSE acc[t]
  OBVIOUS
<1>3. Moved(log, acc, acc')
  BY <1>1, <1>2 DEF Moved
<1>4. Buffers(log', acc')
  BY BuffersStream
<1> QED BY <1>3, <1>4, ChunkTells

\* One more chunk in a stream and in what it has yet to emit.
LEMMA OneChunk ==
  ASSUME NEW t \in Seq(Nat), NEW p \in Seq(Nat), Counts(t, 0), Len(p) <= Len(t),
         Counts(p, Len(t) - Len(p)), NEW x, x = Len(t) + 1
  PROVE  /\ Counts(Append(t, x), 0) /\ Counts(Append(p, x), Len(t) - Len(p))
         /\ Len(Append(p, x)) <= Len(Append(t, x))
         /\ Len(Append(t, x)) - Len(Append(p, x)) = Len(t) - Len(p)
<1> DEFINE u == Append(t, x)
           q == Append(p, x)
<1>1. Len(t) \in Nat /\ Len(p) \in Nat /\ x \in Nat
  OBVIOUS
<1>2. /\ Len(u) = Len(t) + 1 /\ DOMAIN u = 1..(Len(t) + 1)
      /\ \A i \in 1..Len(t) : u[i] = t[i]
      /\ u[Len(t) + 1] = x
  BY <1>1
<1>3. /\ Len(q) = Len(p) + 1 /\ DOMAIN q = 1..(Len(p) + 1)
      /\ \A i \in 1..Len(p) : q[i] = p[i]
      /\ q[Len(p) + 1] = x
  BY <1>1
<1> HIDE DEF u, q
<1>4. ASSUME NEW i \in 1..(Len(t) + 1)
      PROVE  u[i] = 0 + i
  <2>1. CASE i \in 1..Len(t)
    <3>1. t[i] = 0 + i
      BY <2>1 DEF Counts
    <3> QED BY <1>2, <2>1, <3>1
  <2>2. CASE i = Len(t) + 1
    BY <1>1, <1>2, <2>2
  <2> QED BY <1>1, <2>1, <2>2
<1>5. ASSUME NEW i \in 1..(Len(p) + 1)
      PROVE  q[i] = (Len(t) - Len(p)) + i
  <2>1. CASE i \in 1..Len(p)
    <3>1. p[i] = (Len(t) - Len(p)) + i
      BY <2>1 DEF Counts
    <3> QED BY <1>3, <2>1, <3>1
  <2>2. CASE i = Len(p) + 1
    <3>1. (Len(t) - Len(p)) + i = x
      BY <1>1, <2>2
    <3> QED BY <1>3, <2>2, <3>1
  <2> QED BY <1>1, <2>1, <2>2
<1>6. /\ Len(t) + 1 - (Len(p) + 1) = Len(t) - Len(p) /\ Len(p) + 1 <= Len(t) + 1
  BY <1>1
<1>7. Counts(u, 0) /\ Counts(q, Len(t) - Len(p))
  BY <1>2, <1>3, <1>4, <1>5 DEF Counts
<1> QED BY <1>2, <1>3, <1>6, <1>7 DEF u, q

LEMMA ChunkAppendDelta ==
  ASSUME SyncInv, SyncInv', ChunkInv, NEW s, AppendDelta(s)
  PROVE  ChunkInv'
<1> DEFINE chunk == Len(acc[s].text) + 1
           a == [acc[s] EXCEPT !.text = Append(@, chunk), !.pending = Append(@, chunk)]
<1>1. s \in DOMAIN acc /\ log[s].kind = "prose"
  BY DEF AppendDelta
<1>2. CASE chunk <= BodyMaxChunks
  <2>1. acc' = [acc EXCEPT ![s] = a] /\ UNCHANGED <<log, net>> /\ client' = client
    BY <1>1, <1>2 DEF AppendDelta, BrowserUnchanged, wire
  <2>2. /\ acc[s].text \in Seq(Nat) /\ acc[s].pending \in Seq(Nat) /\ acc[s] \in Accumulator
        /\ acc[s].deltaIndex \in Int
    BY <1>1, OpenRow
  <2>3. Buffers(log, acc) /\ Buffer(log, s, acc[s])
    BY <1>1 DEF ChunkInv, Buffers
  <2>4. /\ a.text = Append(acc[s].text, chunk) /\ a.pending = Append(acc[s].pending, chunk)
        /\ a.deltaIndex = acc[s].deltaIndex /\ a.update = acc[s].update
    BY <2>2 DEF Accumulator
  <2>5. /\ Counts(acc[s].text, 0) /\ Len(acc[s].pending) <= Len(acc[s].text)
        /\ Counts(acc[s].pending, Len(acc[s].text) - Len(acc[s].pending))
    BY <2>3 DEF Buffer, Emitted
  <2> HIDE DEF a
  <2>6. /\ Counts(Append(acc[s].text, chunk), 0)
        /\ Counts(Append(acc[s].pending, chunk), Len(acc[s].text) - Len(acc[s].pending))
        /\ Len(Append(acc[s].pending, chunk)) <= Len(Append(acc[s].text, chunk))
        /\ Len(Append(acc[s].text, chunk)) - Len(Append(acc[s].pending, chunk))
             = Len(acc[s].text) - Len(acc[s].pending)
    BY <2>2, <2>5, OneChunk
  <2> HIDE DEF chunk
  <2>7. Emitted(a) = Emitted(acc[s])
    BY <2>4, <2>6 DEF Emitted
  <2>8. Counts(a.text, 0) /\ Counts(a.pending, Emitted(a)) /\ Len(a.pending) <= Len(a.text)
    BY <2>4, <2>6, <2>7 DEF Emitted
  <2>9. Buffer(log, s, a)
    BY <1>1, <2>3, <2>4, <2>8 DEF Buffer
  <2>10. KindsKept(log, log') /\ Buffers(log', acc) /\ Buffer(log', s, a)
    BY <2>1, <2>3, <2>9 DEF KindsKept
  <2> QED BY <1>1, <2>1, <2>4, <2>7, <2>10, ChunkStream
<1>3. CASE ~(chunk <= BodyMaxChunks)
  <2>1. Finalize(s, "truncated", "none")
    BY <1>3 DEF AppendDelta
  <2> QED BY <1>1, <2>1, ChunkFinalize DEF Settled
<1> QED BY <1>2, <1>3

LEMMA ChunkFlushText ==
  ASSUME SyncInv, SyncInv', ChunkInv, NEW s, FlushStreamText(s)
  PROVE  ChunkInv'
<1> DEFINE row == [log[s] EXCEPT !.text = acc[s].text]
<1>1. /\ s \in DOMAIN acc /\ log' = [log EXCEPT ![s] = row] /\ acc' = acc
      /\ net' = net /\ client' = client
  BY DEF FlushStreamText, BrowserUnchanged, wire
<1>2. /\ s \in DOMAIN log /\ log[s] \in Row /\ Counts(acc[s].text, 0) /\ Buffers(log, acc)
      /\ DOMAIN acc \subseteq DOMAIN log /\ \A t \in DOMAIN acc : acc[t].deltaIndex \in Int
  BY <1>1, ChunkFacts
<1>3. row.kind = log[s].kind /\ row.text = acc[s].text
  BY <1>2 DEF Row
<1> HIDE DEF row
<1>4. Buffers(log', acc') /\ KindsKept(log, log') /\ Moved(log, acc, acc')
  BY <1>1, <1>2, <1>3, BuffersRow, MovedSelf
<1> QED BY <1>1, <1>4, ChunkTells

LEMMA ChunkUpdateDetail ==
  ASSUME SyncInv, SyncInv', ChunkInv, NEW s, UpdateAgentDetail(s)
  PROVE  ChunkInv'
<1> DEFINE row == [log[s] EXCEPT !.ver = @ + 1]
           a == [acc[s] EXCEPT !.update = <<log'[s]>>]
<1>1. /\ s \in DOMAIN acc /\ log[s].kind = "card" /\ log' = [log EXCEPT ![s] = row]
      /\ acc' = [acc EXCEPT ![s] = a] /\ net' = net /\ client' = client
  BY DEF UpdateAgentDetail, BrowserUnchanged, wire
<1>2. /\ s \in DOMAIN log /\ log[s] \in Row /\ Counts(log[s].text, 0) /\ Buffers(log, acc)
      /\ DOMAIN acc \subseteq DOMAIN log
  BY <1>1, ChunkFacts
<1>3. row.kind = log[s].kind /\ row.text = log[s].text
  BY <1>2 DEF Row
<1> HIDE DEF row
<1>4. Buffers(log', acc) /\ KindsKept(log, log')
  BY <1>1, <1>2, <1>3, BuffersRow
<1>5. log'[s] = row
  BY <1>1, <1>2
<1>6. /\ a.text = acc[s].text /\ a.pending = acc[s].pending /\ a.deltaIndex = acc[s].deltaIndex
      /\ a.update = <<row>>
  BY <1>1, <1>5, OpenRow DEF Accumulator
<1> HIDE DEF a
<1>7. Emitted(a) = Emitted(acc[s])
  BY <1>6 DEF Emitted
<1>8. Buffer(log', s, acc[s])
  BY <1>1, <1>4 DEF Buffers
<1>9. Buffer(log', s, a)
  <2>1. \A i \in DOMAIN a.update : a.update[i] = row
    BY <1>6
  <2>2. \A i \in DOMAIN a.update : log'[s].kind # "prose" /\ Counts(a.update[i].text, 0)
    BY <1>1, <1>2, <1>3, <1>5, <2>1
  <2> QED BY <1>6, <1>7, <1>8, <2>2 DEF Buffer
<1> QED BY <1>1, <1>4, <1>6, <1>7, <1>9, ChunkStream

LEMMA ChunkFlushUpdate ==
  ASSUME SyncInv, SyncInv', ChunkInv, NEW s, FlushRowUpdate(s)
  PROVE  ChunkInv'
<1> DEFINE a == [acc[s] EXCEPT !.update = <<>>]
           row == Head(acc[s].update)
           e == RowEvent("updated", s, row)
<1>1. /\ s \in DOMAIN acc /\ acc' = [acc EXCEPT ![s] = a] /\ log' = log
      /\ acc[s].update # <<>> /\ Broadcast(e) /\ client' = client
  BY DEF FlushRowUpdate, BrowserUnchanged
<1>2. acc[s].update \in Seq(Row) /\ Stream(log, s, acc[s]) /\ acc[s] \in Accumulator
  BY <1>1, OpenRow
<1>3. Buffer(log, s, acc[s]) /\ Buffers(log, acc)
  BY <1>1 DEF ChunkInv, Buffers
<1>4. 1 \in DOMAIN acc[s].update /\ row = acc[s].update[1]
  BY <1>1, <1>2
<1>5. ~OpenProse(row) /\ Counts(row.text, 0)
  <2>1. row.kind = log[s].kind /\ log[s].kind # "prose"
    BY <1>2, <1>3, <1>4 DEF Stream, Same, Buffer
  <2> QED BY <1>3, <1>4, <2>1 DEF OpenProse, Buffer
<1>6. /\ a.text = acc[s].text /\ a.pending = acc[s].pending /\ a.deltaIndex = acc[s].deltaIndex
      /\ a.update = <<>>
  BY <1>2 DEF Accumulator
<1> HIDE DEF row, a
<1>7. Emitted(a) = Emitted(acc[s])
  BY <1>6 DEF Emitted
<1>8. Buffer(log, s, a)
  BY <1>3, <1>6, <1>7 DEF Buffer
<1>9. Sent(log', acc', e) /\ e.type \notin {"snapshot", "delta"}
  <2>1. "updated" \in RowTypes
    BY DEF RowTypes
  <2> QED BY <1>5, <2>1, SentRow
<1> HIDE DEF e
<1>10. KindsKept(log, log') /\ Buffers(log', acc) /\ Buffer(log', s, a)
  BY <1>1, <1>3, <1>8 DEF KindsKept
<1> QED BY <1>1, <1>6, <1>7, <1>9, <1>10, ChunkStream

\* A flushed stream has emitted all its text.
LEMMA FlushedBuffer ==
  ASSUME NEW lg, NEW s, NEW a \in Accumulator, Buffer(lg, s, a), a.pending # <<>>
  PROVE  LET b == [a EXCEPT !.deltaIndex = @ + 1, !.pending = <<>>]
         IN /\ Buffer(lg, s, b) /\ b.deltaIndex = a.deltaIndex + 1 /\ b.pending = <<>>
            /\ b.text = a.text /\ b.deltaIndex \in Int /\ a.deltaIndex < b.deltaIndex
            /\ a.deltaIndex \in Int /\ a.deltaIndex >= -1
            /\ a.pending \in Seq(Nat) /\ Emitted(a) \in Nat
            /\ Emitted(b) = Emitted(a) + Len(a.pending)
            /\ Emitted(b) = Len(a.text) /\ lg[s].kind = "prose"
<1> DEFINE b == [a EXCEPT !.deltaIndex = @ + 1, !.pending = <<>>]
<1>1. /\ a.text \in Seq(Nat) /\ a.pending \in Seq(Nat) /\ a.deltaIndex \in Int
      /\ b.text = a.text /\ b.pending = <<>> /\ b.deltaIndex = a.deltaIndex + 1
      /\ b.update = a.update
  BY DEF Accumulator
<1> HIDE DEF b
<1>2. /\ Counts(a.text, 0) /\ Len(a.pending) <= Len(a.text) /\ a.deltaIndex >= -1
      /\ lg[s].kind = "prose"
      /\ \A i \in DOMAIN a.update : lg[s].kind # "prose" /\ Counts(a.update[i].text, 0)
  BY DEF Buffer
<1>3. Len(a.text) \in Nat /\ Len(a.pending) \in Nat /\ Len(b.pending) = 0 /\ Len(b.text) = Len(a.text)
  BY <1>1
<1>4. /\ Emitted(a) = Len(a.text) - Len(a.pending) /\ Emitted(b) = Len(a.text) - 0
  BY <1>3 DEF Emitted
<1>5. /\ Emitted(a) \in Nat /\ Emitted(b) = Len(a.text)
      /\ Emitted(b) = Emitted(a) + Len(a.pending)
  BY <1>2, <1>3, <1>4
<1>6. b.deltaIndex >= -1 /\ a.deltaIndex < b.deltaIndex /\ b.deltaIndex \in Int
  BY <1>1, <1>2
<1>7. Counts(b.pending, Emitted(b))
  BY <1>1, CountsEmpty
<1>8. Len(b.pending) <= Len(b.text)
  BY <1>3
<1>9. Buffer(lg, s, b)
  BY <1>1, <1>2, <1>6, <1>7, <1>8 DEF Buffer
<1> QED BY <1>1, <1>2, <1>5, <1>6, <1>9 DEF b

\* The delta of a flush joins on to what the socket holds of its stream.
LEMMA FlushJoins ==
  ASSUME NEW d \in Event, NEW lg, NEW ac, Sent(lg, ac, d), NEW e, e.seq \in DOMAIN ac,
         ac[e.seq].deltaIndex \in Int, e.index = ac[e.seq].deltaIndex + 1,
         Counts(e.text, Emitted(ac[e.seq]))
  PROVE  Chained(d, e)
<1>1. ASSUME d.type = "delta", d.seq = e.seq, e.index = d.index + 1
      PROVE  Counts(e.text, Until(d))
  <2>1. d.index = ac[d.seq].deltaIndex
    BY <1>1, EventIs
  <2> QED BY <1>1, <2>1 DEF Sent
<1>2. ASSUME d.type = "created", d.seq = e.seq, OpenProse(d.row), e.index = 0
      PROVE  Counts(e.text, Len(d.row.text))
  <2>1. ac[d.seq].deltaIndex = -1
    BY <1>2
  <2> QED BY <1>2, <2>1 DEF Sent
<1> QED BY <1>1, <1>2 DEF Chained

LEMMA ChunkFlush ==
  ASSUME SyncInv, SyncInv', ChunkInv, NEW s, FlushAccumulator(s)
  PROVE  ChunkInv'
<1> DEFINE a == acc[s]
           b == [a EXCEPT !.deltaIndex = @ + 1, !.pending = <<>>]
           e == DeltaEvent(s, a.deltaIndex + 1, a.pending)
<1>1. /\ s \in DOMAIN acc /\ a.pending # <<>> /\ acc' = [acc EXCEPT ![s] = b] /\ log' = log
      /\ Broadcast(e) /\ client' = client
  BY DEF FlushAccumulator, BrowserUnchanged
<1>2. a \in Accumulator /\ Buffer(log, s, a) /\ Buffers(log, acc) /\ s \in DOMAIN log /\ s \in Nat
  BY <1>1, OpenRow DEF ChunkInv, Buffers
<1>3. /\ Buffer(log, s, b) /\ b.deltaIndex = a.deltaIndex + 1 /\ b.pending = <<>>
      /\ b.text = a.text /\ b.deltaIndex \in Int /\ a.deltaIndex < b.deltaIndex
      /\ a.deltaIndex \in Int /\ a.deltaIndex >= -1
      /\ a.pending \in Seq(Nat) /\ Emitted(a) \in Nat
      /\ Emitted(b) = Emitted(a) + Len(a.pending)
      /\ Emitted(b) = Len(a.text) /\ log[s].kind = "prose"
  BY <1>1, <1>2, FlushedBuffer
<1>4. Counts(a.pending, Emitted(a))
  BY <1>2 DEF Buffer
<1> HIDE DEF a, b
<1>5. e.type = "delta" /\ e.seq = s /\ e.index = a.deltaIndex + 1 /\ e.text = a.pending
  BY DEF DeltaEvent
<1> HIDE DEF e
<1>6. e.index \in Int /\ e.index = b.deltaIndex
  BY <1>3, <1>5
<1>7. Until(e) = Emitted(b)
  BY <1>1, <1>3, <1>4, <1>5, UntilIs
<1>8. DOMAIN acc' = DOMAIN acc /\ \A t \in DOMAIN acc : acc'[t] = IF t = s THEN b ELSE acc[t]
  BY <1>1
<1>9. Moved(log, acc, acc')
  <2>1. \A t \in DOMAIN acc : acc[t].deltaIndex \in Int
    BY ChunkFacts
  <2> QED BY <1>3, <1>8, <2>1 DEF Moved, a
<1>10. Buffers(log', acc') /\ KindsKept(log, log')
  BY <1>1, <1>2, <1>3, BuffersStream DEF KindsKept
<1>11. Sent(log', acc', e)
  <2>1. Carried(e) = {}
    BY <1>5, CarriedIs
  <2>2. acc'[e.seq] = b
    BY <1>1, <1>5, <1>8
  <2>3. e.index <= acc'[e.seq].deltaIndex /\ Until(e) = Emitted(acc'[e.seq])
    BY <1>6, <1>7, <2>2
  <2>4. e.text # <<>> /\ e.seq \in DOMAIN log' /\ log'[e.seq].kind = "prose"
    BY <1>1, <1>2, <1>3, <1>5
  <2> QED BY <1>5, <2>1, <2>3, <2>4 DEF Sent, RowTypes
<1>12. Awaits(Ahead, e)
  <2>1. Held(Ahead, acc)
    BY DEF ChunkInv
  <2> SUFFICES ASSUME Live(Ahead, s), e.index = ExpectedDelta(Ahead, s)
               PROVE  Counts(e.text, Len(Ahead.messages[s].text))
    BY <1>5 DEF Awaits
  <2>2. Len(Ahead.messages[s].text) = Emitted(a)
    BY <1>1, <1>5, <2>1 DEF Held, a
  <2> QED BY <1>4, <1>5, <2>2
<1>13. net \in Seq(Event) /\ sub \in SubStates /\ \A i \in DOMAIN net : Sent(log, acc, net[i])
  BY DEF SyncInv, ChunkInv
<1>14. /\ Len(net) <= Len(net') /\ \A i \in DOMAIN net : net'[i] = net[i]
       /\ \A i \in DOMAIN net' : i \notin DOMAIN net => net'[i] \in {e, ResyncEvent, CloseEvent}
  <2> DEFINE S == Event \cup {e}
  <2>1. net \in Seq(S) /\ e \in S /\ ResyncEvent \in S /\ CloseEvent \in S
    BY <1>13, Empties
  <2> HIDE DEF S
  <2> QED BY <1>1, <1>13, <2>1, BroadcastAdds
<1>15. ASSUME NEW f \in {ResyncEvent, CloseEvent}
       PROVE  /\ f.type \in {"resync", "close"} /\ Sent(log', acc', f) /\ Awaits(Ahead, f)
  <2>1. f.type \in {"resync", "close"} /\ Carried(f) = {}
    BY Empties DEF ResyncEvent, CloseEvent
  <2> QED BY <2>1 DEF Sent, Awaits, RowTypes
<1>16. \A i \in DOMAIN net' : i \notin DOMAIN net =>
         net'[i].type # "snapshot" /\ Sent(log', acc', net'[i]) /\ Awaits(Ahead, net'[i])
  BY <1>5, <1>11, <1>12, <1>14, <1>15
<1>17. ASSUME NEW i \in DOMAIN net', NEW j \in DOMAIN net', i < j, j \notin DOMAIN net
       PROVE  Chained(net'[i], net'[j])
  <2>1. CASE net'[j] # e
    BY <1>14, <1>15, <1>17, <2>1 DEF Chained
  <2>2. CASE net'[j] = e /\ i \in DOMAIN net
    <3>1. net[i] \in Event /\ Sent(log, acc, net[i]) /\ net'[i] = net[i]
      BY <1>13, <1>14, <2>2
    <3>2. Chained(net[i], e)
      BY <1>1, <1>3, <1>4, <1>5, <3>1, FlushJoins DEF a
    <3> QED BY <2>2, <3>1, <3>2
  <2>3. CASE net'[j] = e /\ i \notin DOMAIN net
    <3>1. net'[i] = e \/ net'[i].type \in {"resync", "close"}
      BY <1>14, <1>15, <2>3
    <3>2. e.index # e.index + 1
      BY <1>6
    <3> QED BY <1>5, <2>3, <3>1, <3>2 DEF Chained
  <2> QED BY <2>1, <2>2, <2>3
<1> QED BY <1>1, <1>9, <1>10, <1>14, <1>16, <1>17, ChunkAdds

LEMMA ChunkServes ==
  ASSUME SyncInv, SyncInv', ChunkInv, ServerStep, ~Subscribe, ~CrashRestart
  PROVE  ChunkInv'
<1>1. CASE Post
  BY <1>1, ChunkPost
<1>2. CASE \E kind \in StreamKinds, text \in {<<>>, <<1>>} : BeginStream(kind, text)
  <2> PICK kind \in StreamKinds, text \in {<<>>, <<1>>} : BeginStream(kind, text)
    BY <1>2
  <2> QED BY ChunkBegin
<1>3. ASSUME NEW s \in 1..Len(log), NEW status \in Settled,
             NEW mark \in {"none", "provisional", "explicit"}, FinalizeStream(s, status, mark)
      PROVE  ChunkInv'
  BY <1>3, ChunkFinalize DEF FinalizeStream
<1>4. ASSUME NEW s \in 1..Len(log), NEW status \in Settled, ResolveProvisional(s, status)
      PROVE  ChunkInv'
  BY <1>4, ChunkResolve
<1>5. ASSUME NEW s \in 1..Len(log),
             \/ AppendDelta(s) \/ FlushAccumulator(s) \/ FlushStreamText(s)
             \/ UpdateAgentDetail(s) \/ FlushRowUpdate(s)
             \/ EditMessage(s) \/ DeleteMessage(s)
      PROVE  ChunkInv'
  BY <1>5, ChunkAppendDelta, ChunkFlush, ChunkFlushText, ChunkUpdateDetail, ChunkFlushUpdate,
     ChunkRevises
<1> QED BY <1>1, <1>2, <1>3, <1>4, <1>5 DEF ServerStep

\* A restart settles what streamed and forgets what was held.
LEMMA ChunkCrash ==
  ASSUME SyncInv, SyncInv', ChunkInv, CrashRestart
  PROVE  ChunkInv'
<1> DEFINE stale == {s \in DOMAIN log : log[s].status = "streaming"}
           Cut(row) == [row EXCEPT !.status = "truncated", !.ver = @ + 1,
                                   !.mark = IF row.kind = "card" THEN "provisional" ELSE "none"]
           swept == [s \in DOMAIN log |-> IF s \in stale THEN Cut(log[s]) ELSE log[s]]
           notice == NewRow("system", "complete", <<>>)
<1>1. /\ log' = IF stale = {} THEN log ELSE Append(swept, notice)
      /\ acc' = Empty /\ net' = net /\ client' = client
  BY DEF CrashRestart
<1>2. log \in Seq(Row) /\ \A s \in DOMAIN log : log[s] \in Row /\ Counts(log[s].text, 0)
  BY ChunkFacts
<1>3. \A row \in Row : Cut(row).kind = row.kind /\ Cut(row).text = row.text
  BY DEF Row
<1>4. Counts(notice.text, 0)
  BY CountsEmpty DEF NewRow
<1> HIDE DEF Cut, notice, stale
<1>5. /\ DOMAIN swept = DOMAIN log
      /\ \A s \in DOMAIN log : swept[s].kind = log[s].kind /\ Counts(swept[s].text, 0)
  BY <1>2, <1>3
<1>6. Len(swept) = Len(log) /\ Len(log) \in Nat /\ DOMAIN log = 1..Len(log)
  <2>1. DOMAIN log = 1..Len(log) /\ Len(log) \in Nat
    BY <1>2
  <2>2. swept = [s \in 1..Len(log) |-> swept[s]]
    BY <2>1
  <2> HIDE DEF swept
  <2> QED BY <1>5, <2>1, <2>2
<1> HIDE DEF swept
<1>7. KindsKept(log, log') /\ \A s \in DOMAIN log' : Counts(log'[s].text, 0)
  <2>1. CASE stale = {}
    BY <1>1, <1>2, <2>1 DEF KindsKept
  <2>2. CASE stale # {}
    <3>1. log' = Append(swept, notice)
      BY <1>1, <2>2
    <3>2. /\ DOMAIN log' = 1..(Len(log) + 1)
          /\ \A s \in 1..(Len(log) + 1) : log'[s] = IF s = Len(log) + 1 THEN notice ELSE swept[s]
      BY <1>6, <3>1
    <3>3. \A s \in DOMAIN log : s \in 1..(Len(log) + 1) /\ s # Len(log) + 1
      BY <1>6
    <3>4. \A s \in 1..(Len(log) + 1) : s = Len(log) + 1 \/ s \in DOMAIN log
      BY <1>6
    <3> QED BY <1>4, <1>5, <3>2, <3>3, <3>4 DEF KindsKept
  <2> QED BY <2>1, <2>2
<1>8. DOMAIN acc' = {}
  BY <1>1 DEF Empty
<1>9. Buffers(log', acc') /\ Moved(log, acc, acc')
  BY <1>7, <1>8 DEF Buffers, Moved
<1> QED BY <1>1, <1>7, <1>9, ChunkTells
-----------------------------------------------------------------------------
(* Chunks and the steps of the network and the browser.                    *)

\* Nothing arrives before what is left of the socket, and it starts as it did or
\* with no snapshot: the timeline stands as it will.
LEMMA ChunkLeaves ==
  ASSUME SyncInv, SyncInv', ChunkInv, UNCHANGED <<log, acc, client>>,
         \A i \in DOMAIN net' : i \in DOMAIN net /\ net'[i] = net[i]
  PROVE  ChunkInv'
<1>1. net \in Seq(Event) /\ net' \in Seq(Event)
  BY DEF SyncInv
<1>2. \/ Ahead' = Ahead
      \/ DOMAIN net' = {} /\ Ahead' = client
  <2>1. CASE net' = <<>>
    BY <2>1 DEF Ahead
  <2>2. CASE net' # <<>>
    <3>1. 1 \in DOMAIN net'
      BY <1>1, <2>2, EmptySeq
    <3>2. net # <<>> /\ net'[1] = net[1]
      BY <1>1, <3>1
    <3>3. client' = client
      OBVIOUS
    <3>4. Ahead' = IF net'[1].type = "snapshot" THEN applyChannelEventV1(client', net'[1]) ELSE client'
      BY <2>2 DEF Ahead
    <3>5. Ahead' = Ahead
      BY <3>2, <3>3, <3>4 DEF Ahead
    <3> QED BY <3>5
  <2> QED BY <2>1, <2>2
<1>3. Buffers(log', acc') /\ (Held(client, acc) /\ Held(Ahead, acc))'
  <2>1. Buffers(log, acc) /\ Held(client, acc) /\ Held(Ahead, acc)
    BY DEF ChunkInv
  <2>2. Held(Ahead', acc)
    BY <1>2, <2>1
  <2> QED BY <2>1, <2>2
<1>4. \A i \in DOMAIN net' : Sent(log', acc', net'[i]) /\ Awaits(Ahead', net'[i])
  BY <1>2 DEF ChunkInv
<1>5. \A i, j \in DOMAIN net' : i < j => Chained(net'[i], net'[j])
  BY DEF ChunkInv
<1> QED BY <1>3, <1>4, <1>5 DEF ChunkInv

LEMMA ChunkNetwork ==
  ASSUME SyncInv, SyncInv', ChunkInv, NetworkStep
  PROVE  ChunkInv'
<1>1. CASE SilentDrop
  <2>1. PICK k \in 0..Len(net) : net' = SubSeq(net, 1, k)
    BY <1>1 DEF SilentDrop
  <2>2. UNCHANGED <<log, acc, client>>
    BY <1>1 DEF SilentDrop, server
  <2>3. net \in Seq(Event) /\ Len(net) \in Nat
    BY DEF SyncInv
  <2>4. DOMAIN net' = 1..k /\ \A i \in 1..k : net'[i] = net[i] /\ i \in DOMAIN net
    BY <2>1, <2>3
  <2> QED BY <2>2, <2>4, ChunkLeaves
<1>2. CASE SocketClosed
  <2>1. UNCHANGED <<log, acc, client>> /\ net' = <<>>
    BY <1>2 DEF SocketClosed, server
  <2> QED BY <2>1, ChunkLeaves
<1> QED BY <1>1, <1>2 DEF NetworkStep

LEMMA ChunkReceive ==
  ASSUME SyncInv, SyncInv', WindowInv, ChunkInv, Receive
  PROVE  ChunkInv'
<1> DEFINE e == Head(net)
<1>1. /\ net \in Seq(Event) /\ net # <<>> /\ UNCHANGED <<log, acc>>
      /\ client \in ReducerState /\ net' \in Seq(Event)
  BY DEF Receive, SyncInv, BrowserTypes, server
<1>2. /\ e = net[1] /\ 1 \in DOMAIN net /\ e \in Event
      /\ \A i \in DOMAIN Tail(net) :
           /\ Tail(net)[i] = net[i + 1] /\ i + 1 \in DOMAIN net /\ i + 1 # 1 /\ 1 < i + 1
           /\ i \in Nat
  BY <1>1
<1>3. CASE e.type = "close"
  <2>1. client' = client /\ net' = <<>>
    BY <1>3 DEF Receive, Connect
  <2> QED BY <1>1, <2>1, ChunkLeaves
<1>4. CASE e.type # "close"
  <2> DEFINE d == applyChannelEventV1(client, e)
  <2>1. client' = d /\ net' = Tail(net)
    BY <1>4 DEF Receive
  <2> HIDE DEF d, e
  <2>2. \A i \in DOMAIN net' : net'[i].type # "snapshot"
    BY <1>2, <2>1 DEF WindowInv
  <2>3. Ahead' = client'
    <3>1. net' # <<>> => 1 \in DOMAIN net'
      BY <1>1, EmptySeq
    <3> QED BY <2>2, <3>1 DEF Ahead
  <2>4. Held(d, acc) /\ \A i \in DOMAIN net : i # 1 => Awaits(d, net[i])
    <3>1. CASE e.type = "snapshot"
      <4>1. Ahead = d
        BY <1>1, <1>2, <3>1 DEF Ahead, d
      <4> QED BY <4>1 DEF ChunkInv
    <3>2. CASE e.type # "snapshot"
      <4>1. Ahead = client
        BY <1>2, <3>2 DEF Ahead
      <4>2. /\ Held(client, acc) /\ Awaits(client, e) /\ Sent(log, acc, e)
            /\ \A i \in DOMAIN net : Awaits(client, net[i])
        BY <1>2, <4>1 DEF ChunkInv
      <4>3. \A s \in DOMAIN acc : acc[s].deltaIndex \in Int /\ acc[s].deltaIndex >= -1
        BY ChunkFacts
      <4>4. e.type = "delta" /\ e.seq \in DOMAIN client.messages =>
              client.messages[e.seq].kind = "prose"
        <5> SUFFICES ASSUME e.type = "delta", e.seq \in DOMAIN client.messages
                     PROVE  client.messages[e.seq].kind = "prose"
          OBVIOUS
        <5> DEFINE v == [seq |-> e.seq, row |-> client.messages[e.seq]]
        <5>1. v \in Shown(client.messages) /\ Logged(log, Shown(client.messages))
          BY DEF SyncInv, Shown
        <5>2. Version(log, v.seq, v.row)
          BY <5>1 DEF Logged
        <5>3. log[e.seq].kind = "prose"
          BY <4>2 DEF Sent
        <5> QED BY <5>2, <5>3 DEF Version
      <4>5. Passes(client, d, e, acc)
        BY <1>1, <1>2, <1>4, <3>2, <4>2, <4>3, <4>4, PassesAll DEF d
      <4>6. \A i \in DOMAIN net : i # 1 => Chained(e, net[i])
        <5>1. \A i \in DOMAIN net : i # 1 => 1 < i
          BY <1>1
        <5> QED BY <1>2, <5>1 DEF ChunkInv
      <4> QED BY <4>2, <4>5, <4>6 DEF Passes
    <3> QED BY <3>1, <3>2
  <2>5. \A i \in DOMAIN net' : Sent(log', acc', net'[i]) /\ Awaits(Ahead', net'[i])
    BY <1>1, <1>2, <2>1, <2>3, <2>4 DEF ChunkInv
  <2>6. \A i, j \in DOMAIN net' : i < j => Chained(net'[i], net'[j])
    <3> SUFFICES ASSUME NEW i \in DOMAIN net', NEW j \in DOMAIN net', i < j
                 PROVE  Chained(net'[i], net'[j])
      OBVIOUS
    <3>1. net'[i] = net[i + 1] /\ net'[j] = net[j + 1] /\ i + 1 \in DOMAIN net /\ j + 1 \in DOMAIN net
      BY <1>2, <2>1
    <3>2. i + 1 < j + 1
      BY <1>2, <2>1
    <3> QED BY <3>1, <3>2 DEF ChunkInv
  <2>7. Buffers(log', acc') /\ (Held(client, acc) /\ Held(Ahead, acc))'
    BY <1>1, <2>1, <2>3, <2>4 DEF ChunkInv
  <2> QED BY <2>5, <2>6, <2>7 DEF ChunkInv
<1> QED BY <1>3, <1>4

LEMMA ChunkBrowser ==
  ASSUME SyncInv, SyncInv', WindowInv, ChunkInv, BrowserStep, ~MergePage
  PROVE  ChunkInv'
<1>1. CASE Receive
  BY <1>1, ChunkReceive
<1>2. CASE Commit \/ ReconnectTimer \/ ForceReconnect \/ Probe \/ LoadOlder \/ ServeHistory
  <2>1. UNCHANGED <<log, acc, client>>
    BY <1>2 DEF Commit, ReconnectTimer, ForceReconnect, Probe, LoadOlder, ServeHistory, server
  <2>2. net' = <<>> \/ net' = net
    BY <1>2 DEF Commit, ReconnectTimer, ForceReconnect, Probe, LoadOlder, ServeHistory, Connect, wire
  <2>3. \A i \in DOMAIN net' : i \in DOMAIN net /\ net'[i] = net[i]
    BY <2>2
  <2> QED BY <2>1, <2>3, ChunkLeaves
<1> QED BY <1>1, <1>2 DEF BrowserStep
-----------------------------------------------------------------------------
(* Chunks and a snapshot.                                                  *)

\* Rows with the indexes of their open streams, as the hub has them.
Carries(ac, f, g) ==
  /\ \A s \in DOMAIN f :
       /\ Counts(f[s].text, 0)
       /\ s \in DOMAIN ac /\ OpenProse(f[s]) => s \in DOMAIN g /\ f[s].text = ac[s].text
  /\ DOMAIN g \subseteq DOMAIN f
  /\ \A s \in DOMAIN g : s \in DOMAIN ac /\ g[s] = ac[s].deltaIndex

LEMMA MaterializedCarries ==
  ASSUME NEW lg \in Seq(Row), NEW ac, Buffers(lg, ac), NEW S \in SUBSET (DOMAIN lg)
  PROVE  Carries(ac, Materialized(lg, ac, S), InFlightOf(lg, ac, S))
<1> DEFINE f == Materialized(lg, ac, S)
           g == InFlightOf(lg, ac, S)
<1>1. /\ DOMAIN f = S /\ \A s \in S : f[s] = Materialize(lg, ac, s)
      /\ DOMAIN g = {t \in S \cap DOMAIN ac : lg[t].status = "streaming"}
      /\ \A s \in DOMAIN g : g[s] = ac[s].deltaIndex
  BY DEF Materialized, InFlightOf
<1> HIDE DEF f, g
<1>2. ASSUME NEW s \in S
      PROVE  /\ Counts(f[s].text, 0)
             /\ s \in DOMAIN ac /\ OpenProse(f[s]) => s \in DOMAIN g /\ f[s].text = ac[s].text
  <2>1. lg[s] \in Row /\ Counts(lg[s].text, 0)
    BY DEF Buffers
  <2>2. CASE s \in DOMAIN ac /\ lg[s].status = "streaming"
    <3>1. f[s] = [lg[s] EXCEPT !.text = ac[s].text]
      BY <1>1, <2>2 DEF Materialize
    <3>2. f[s].text = ac[s].text
      BY <2>1, <3>1 DEF Row
    <3>3. Counts(ac[s].text, 0)
      BY <2>2 DEF Buffers, Buffer
    <3> QED BY <1>1, <2>2, <3>2, <3>3
  <2>3. CASE ~(s \in DOMAIN ac /\ lg[s].status = "streaming")
    <3>1. f[s] = lg[s]
      BY <1>1, <2>3 DEF Materialize
    <3> QED BY <2>1, <2>3, <3>1 DEF OpenProse
  <2> QED BY <2>2, <2>3
<1> QED BY <1>1, <1>2 DEF Carries, f, g

\* A snapshot holds two sets of the log's rows.
LEMMA BuildIs ==
  ASSUME NEW lg \in Seq(Row), NEW ac, NEW from
  PROVE  \E mode, latest, cut : \E R, S \in SUBSET (DOMAIN lg) :
           buildSnapshot(lg, ac, from) = Snapshot(lg, ac, mode, R, S, latest, cut)
<1> DEFINE e == buildSnapshot(lg, ac, from)
<1>1. CASE NeedsFull(lg, from)
  <2> DEFINE rows == Newest(Newest(DOMAIN lg, SnapshotFullLimit), SnapshotMaxRows)
  <2>1. rows \in SUBSET (DOMAIN lg) /\ {} \in SUBSET (DOMAIN lg)
    BY DEF Newest
  <2>2. e = Snapshot(lg, ac, "full", rows, {}, Len(lg), rows # {} /\ 1 \notin rows)
    BY <1>1 DEF buildSnapshot, FullSnapshot
  <2> HIDE DEF rows, e
  <2> QED BY <2>1, <2>2 DEF e
<1>2. CASE ~NeedsFull(lg, from)
  <2> DEFINE fresh == {s \in DOMAIN lg : s > from}
             rows == Oldest(fresh, SnapshotMaxRows)
             resync == ResyncRows(lg, from)
             replaced == Newest(resync, SnapshotMaxRows - Cardinality(rows))
             latest == IF rows # fresh THEN Max(rows) ELSE Len(lg)
  <2>1. rows \in SUBSET (DOMAIN lg) /\ replaced \in SUBSET (DOMAIN lg)
    BY DEF Oldest, Newest, ResyncRows
  <2>2. e = Snapshot(lg, ac, "catchup", rows, replaced, latest, rows # fresh \/ replaced # resync)
    BY <1>2 DEF buildSnapshot, CatchupSnapshot
  <2> HIDE DEF fresh, rows, resync, replaced, latest, e
  <2> QED BY <2>1, <2>2 DEF e
<1> QED BY <1>1, <1>2

LEMMA SnapshotCarries ==
  ASSUME NEW lg \in Seq(Row), NEW ac, Buffers(lg, ac), NEW from
  PROVE  LET e == buildSnapshot(lg, ac, from)
         IN /\ Carries(ac, e.messages, e.inFlight)
            /\ Carries(ac, e.replacements, e.replacementInFlight)
<1> DEFINE e == buildSnapshot(lg, ac, from)
<1> HIDE DEF e
<1> PICK mode, latest, cut : \E R, S \in SUBSET (DOMAIN lg) :
      e = Snapshot(lg, ac, mode, R, S, latest, cut)
  BY BuildIs DEF e
<1>2. PICK R \in SUBSET (DOMAIN lg), S \in SUBSET (DOMAIN lg) :
        e = Snapshot(lg, ac, mode, R, S, latest, cut)
  OBVIOUS
<1>3. /\ e.messages = Materialized(lg, ac, R) /\ e.inFlight = InFlightOf(lg, ac, R)
      /\ e.replacements = Materialized(lg, ac, S) /\ e.replacementInFlight = InFlightOf(lg, ac, S)
  BY <1>2 DEF Snapshot
<1>4. /\ Carries(ac, e.messages, e.inFlight)
      /\ Carries(ac, e.replacements, e.replacementInFlight)
  BY <1>3, MaterializedCarries
<1> QED BY <1>4 DEF e

\* The indexes of the streams that a snapshot records.
Recorded(e, s) == s \in DOMAIN e.inFlight \cup DOMAIN e.replacementInFlight

\* A stream is resumed as the snapshot has it, or from its start as it is shown.
Resumed(c, d, e, ac, s) ==
  IF Recorded(e, s)
  THEN ExpectedDelta(d, s) = ac[s].deltaIndex + 1 /\ d.messages[s].text = ac[s].text
  ELSE ExpectedDelta(d, s) = 0 /\ Live(c, s) /\ d.messages[s] = c.messages[s]

\* What a snapshot leaves behind.
Resumes(c, d, e, ac) ==
  /\ \A s \in DOMAIN d.messages : Counts(d.messages[s].text, 0)
  /\ \A s \in DOMAIN d.inFlightDelta :
       /\ s \in DOMAIN ac /\ d.inFlightDelta[s] = ac[s].deltaIndex
       /\ s \in DOMAIN d.messages \/ s <= d.lastSeq
  /\ \A s \in DOMAIN ac : Live(d, s) => Resumed(c, d, e, ac, s)

LEMMA FullResumes ==
  ASSUME NEW c, NEW e, NEW ac, Carries(ac, e.messages, e.inFlight)
  PROVE  Resumes(c, ApplyFull(c, e), e, ac)
<1> DEFINE d == ApplyFull(c, e)
<1>1. /\ d.messages = e.messages /\ d.inFlightDelta = e.inFlight
  BY DEF ApplyFull
<1> HIDE DEF d
<1>2. /\ \A s \in DOMAIN d.messages : Counts(d.messages[s].text, 0)
      /\ \A s \in DOMAIN d.inFlightDelta :
           s \in DOMAIN ac /\ d.inFlightDelta[s] = ac[s].deltaIndex /\ s \in DOMAIN d.messages
  BY <1>1 DEF Carries
<1>3. ASSUME NEW s \in DOMAIN ac, Live(d, s)
      PROVE  Resumed(c, d, e, ac, s)
  <2>1. s \in DOMAIN e.messages /\ OpenProse(e.messages[s])
    BY <1>1, <1>3 DEF Live
  <2>2. s \in DOMAIN e.inFlight /\ e.messages[s].text = ac[s].text /\ e.inFlight[s] = ac[s].deltaIndex
    BY <2>1 DEF Carries
  <2>3. ExpectedDelta(d, s) = ac[s].deltaIndex + 1
    BY <1>1, <2>2 DEF ExpectedDelta
  <2> QED BY <1>1, <2>2, <2>3 DEF Resumed, Recorded
<1> QED BY <1>2, <1>3 DEF Resumes, d

LEMMA CatchupResumes ==
  ASSUME NEW c \in ReducerState, NEW e \in Event, e.type = "snapshot", NEW ac,
         Carries(ac, e.messages, e.inFlight), Carries(ac, e.replacements, e.replacementInFlight),
         \A s \in DOMAIN c.messages : Counts(c.messages[s].text, 0)
  PROVE  Resumes(c, ApplyCatchup(c, e), e, ac)
<1> DEFINE d == ApplyCatchup(c, e)
           accepted == {s \in DOMAIN e.messages : s \in DOMAIN c.messages \/ s > c.lastSeq}
           replaced == DOMAIN e.replacements \cap DOMAIN c.messages
           streaming == replaced \cap DOMAIN e.replacementInFlight
<1>1. /\ d.messages = Overlay(Overlay(c.messages, Restrict(e.messages, accepted)),
                              Restrict(e.replacements, replaced))
      /\ d.lastSeq = (IF e.latestSeq > c.lastSeq THEN e.latestSeq ELSE c.lastSeq)
      /\ d.inFlightDelta = Overlay(Restrict(e.inFlight, DOMAIN e.inFlight \ replaced),
                                   Restrict(e.replacementInFlight, streaming))
      /\ d.quarantined = c.quarantined \ replaced
  BY DEF ApplyCatchup
<1> HIDE DEF d
<1>2. c.lastSeq \in Nat /\ e.latestSeq \in Nat /\ DOMAIN e.messages \subseteq Nat
  BY EventIs, ReducerFields, PartialIs
<1>3. /\ DOMAIN d.messages = DOMAIN c.messages \cup accepted \cup replaced
      /\ \A s \in replaced : d.messages[s] = e.replacements[s]
      /\ \A s \in accepted \ replaced : d.messages[s] = e.messages[s]
      /\ \A s \in DOMAIN d.messages : s \notin accepted \cup replaced =>
           s \in DOMAIN c.messages /\ d.messages[s] = c.messages[s]
  <2> HIDE DEF accepted, replaced
  <2> QED BY <1>1 DEF Overlay, Restrict
<1>4. /\ DOMAIN d.inFlightDelta = (DOMAIN e.inFlight \ replaced) \cup streaming
      /\ \A s \in streaming : d.inFlightDelta[s] = e.replacementInFlight[s]
      /\ \A s \in DOMAIN e.inFlight \ replaced : d.inFlightDelta[s] = e.inFlight[s]
  <2>1. \A s \in streaming : s \in replaced
    OBVIOUS
  <2> HIDE DEF streaming, replaced
  <2> QED BY <1>1, <2>1 DEF Overlay, Restrict
<1>5. /\ DOMAIN e.inFlight \subseteq DOMAIN e.messages
      /\ DOMAIN e.replacementInFlight \subseteq DOMAIN e.replacements
      /\ \A s \in DOMAIN e.inFlight : s \in DOMAIN ac /\ e.inFlight[s] = ac[s].deltaIndex
      /\ \A s \in DOMAIN e.replacementInFlight :
           s \in DOMAIN ac /\ e.replacementInFlight[s] = ac[s].deltaIndex
      /\ \A s \in DOMAIN e.messages : Counts(e.messages[s].text, 0)
      /\ \A s \in DOMAIN e.replacements : Counts(e.replacements[s].text, 0)
  BY DEF Carries
<1>6. \A s \in DOMAIN d.messages : Counts(d.messages[s].text, 0)
  <2> SUFFICES ASSUME NEW s \in DOMAIN d.messages
               PROVE  Counts(d.messages[s].text, 0)
    OBVIOUS
  <2>1. CASE s \in replaced
    BY <1>3, <1>5, <2>1
  <2>2. CASE s \in accepted \ replaced
    BY <1>3, <1>5, <2>2
  <2>3. CASE s \notin accepted \cup replaced
    BY <1>3, <2>3
  <2> QED BY <2>1, <2>2, <2>3
<1>7. ASSUME NEW s \in DOMAIN d.inFlightDelta
      PROVE  /\ s \in DOMAIN ac /\ d.inFlightDelta[s] = ac[s].deltaIndex
             /\ s \in DOMAIN d.messages \/ s <= d.lastSeq
  <2>1. CASE s \in streaming
    BY <1>3, <1>4, <1>5, <2>1
  <2>2. CASE s \in DOMAIN e.inFlight \ replaced
    <3>1. s \in DOMAIN e.messages /\ s \in Nat
      BY <1>2, <1>5, <2>2
    <3>2. s \in accepted \/ s <= c.lastSeq
      BY <1>2, <3>1
    <3>3. c.lastSeq <= d.lastSeq /\ d.lastSeq \in Nat
      BY <1>1, <1>2
    <3>4. s \in DOMAIN d.messages \/ s <= d.lastSeq
      BY <1>2, <1>3, <3>1, <3>2, <3>3
    <3> QED BY <1>4, <1>5, <2>2, <3>4
  <2> QED BY <1>4, <1>7, <2>1, <2>2
<1>8. ASSUME NEW s \in DOMAIN ac, Live(d, s)
      PROVE  Resumed(c, d, e, ac, s)
  <2>1. s \in DOMAIN d.messages /\ OpenProse(d.messages[s]) /\ s \notin d.quarantined
    BY <1>8 DEF Live
  <2>2. CASE s \in replaced
    <3>1. OpenProse(e.replacements[s]) /\ s \in DOMAIN e.replacements
      BY <1>3, <2>1, <2>2
    <3>2. s \in DOMAIN e.replacementInFlight /\ e.replacements[s].text = ac[s].text
      BY <3>1 DEF Carries
    <3>3. s \in DOMAIN d.inFlightDelta /\ d.inFlightDelta[s] = ac[s].deltaIndex
      BY <1>4, <1>5, <2>2, <3>2
    <3>4. ExpectedDelta(d, s) = ac[s].deltaIndex + 1
      BY <3>3 DEF ExpectedDelta
    <3>5. d.messages[s].text = ac[s].text
      BY <1>3, <2>2, <3>2
    <3> QED BY <3>2, <3>4, <3>5 DEF Resumed, Recorded
  <2>3. CASE s \in accepted \ replaced
    <3>1. OpenProse(e.messages[s]) /\ s \in DOMAIN e.messages
      BY <1>3, <2>1, <2>3
    <3>2. s \in DOMAIN e.inFlight /\ e.messages[s].text = ac[s].text
      BY <3>1 DEF Carries
    <3>3. s \in DOMAIN d.inFlightDelta /\ d.inFlightDelta[s] = ac[s].deltaIndex
      BY <1>4, <1>5, <2>3, <3>2
    <3>4. ExpectedDelta(d, s) = ac[s].deltaIndex + 1
      BY <3>3 DEF ExpectedDelta
    <3>5. d.messages[s].text = ac[s].text
      BY <1>3, <2>3, <3>2
    <3> QED BY <3>2, <3>4, <3>5 DEF Resumed, Recorded
  <2>4. CASE s \notin accepted \cup replaced
    <3>1. s \in DOMAIN c.messages /\ d.messages[s] = c.messages[s]
      BY <1>3, <2>1, <2>4
    <3>2. s \notin DOMAIN e.messages /\ s \notin DOMAIN e.replacements
      BY <2>4, <3>1
    <3>3. ~Recorded(e, s)
      BY <1>5, <3>2 DEF Recorded
    <3>4. s \notin DOMAIN d.inFlightDelta
      BY <1>4, <3>3 DEF Recorded
    <3>5. ExpectedDelta(d, s) = 0
      BY <3>4 DEF ExpectedDelta
    <3>6. s \notin c.quarantined
      BY <1>1, <2>1, <2>4
    <3>7. Live(c, s)
      BY <2>1, <3>1, <3>6 DEF Live
    <3> QED BY <3>1, <3>3, <3>5, <3>7 DEF Resumed
  <2> QED BY <2>2, <2>3, <2>4
<1> QED BY <1>6, <1>7, <1>8 DEF Resumes, d

\* A timeline that a snapshot has been applied to holds what the hub has sent.
LEMMA ResumesHeld ==
  ASSUME NEW c \in ReducerState, NEW d, NEW e, NEW ac, Resumes(c, d, e, ac), Held(c, ac),
         \A s \in DOMAIN ac : /\ ac[s].deltaIndex \in Int /\ ac[s].deltaIndex >= -1
                              /\ Emitted(ac[s]) = Len(ac[s].text)
  PROVE  Held(d, ac)
<1>1. ASSUME NEW s \in DOMAIN ac, Live(d, s)
      PROVE  /\ ExpectedDelta(d, s) <= ac[s].deltaIndex + 1
             /\ ExpectedDelta(d, s) = ac[s].deltaIndex + 1 =>
                  Len(d.messages[s].text) = Emitted(ac[s])
  <2>1. Resumed(c, d, e, ac, s)
    BY <1>1 DEF Resumes
  <2>2. ac[s].deltaIndex + 1 \in Int /\ ac[s].deltaIndex + 1 >= 0
    OBVIOUS
  <2>3. CASE Recorded(e, s)
    <3>1. ExpectedDelta(d, s) = ac[s].deltaIndex + 1 /\ d.messages[s].text = ac[s].text
      BY <2>1, <2>3 DEF Resumed
    <3>2. ExpectedDelta(d, s) <= ac[s].deltaIndex + 1
      BY <2>2, <3>1
    <3> QED BY <3>1, <3>2
  <2>4. CASE ~Recorded(e, s)
    <3>1. ExpectedDelta(d, s) = 0 /\ Live(c, s) /\ d.messages[s] = c.messages[s]
      BY <2>1, <2>4 DEF Resumed
    <3>2. /\ ExpectedDelta(c, s) <= ac[s].deltaIndex + 1
          /\ ExpectedDelta(c, s) = ac[s].deltaIndex + 1 => Len(c.messages[s].text) = Emitted(ac[s])
      BY <3>1 DEF Held
    <3>3. ExpectedDelta(c, s) \in Nat
      BY ExpectedIs
    <3>4. 0 = ac[s].deltaIndex + 1 => ExpectedDelta(c, s) = ac[s].deltaIndex + 1
      BY <2>2, <3>2, <3>3
    <3>5. ExpectedDelta(d, s) <= ac[s].deltaIndex + 1
      BY <2>2, <3>1
    <3> QED BY <3>1, <3>2, <3>4, <3>5
  <2> QED BY <2>3, <2>4
<1>2. /\ \A s \in DOMAIN d.messages : Counts(d.messages[s].text, 0)
      /\ \A s \in DOMAIN d.inFlightDelta :
           d.inFlightDelta[s] >= -1 /\ (s \in DOMAIN d.messages \/ s <= d.lastSeq)
  BY DEF Resumes
<1> QED BY <1>1, <1>2 DEF Held

\* A flush of all streams.
LEMMA ChunkFlushed ==
  ASSUME SyncInv, ChunkInv
  PROVE  /\ Buffers(log, Flushed) /\ Moved(log, acc, Flushed) /\ DOMAIN Flushed = DOMAIN acc
         /\ \A s \in DOMAIN acc :
              /\ Flushed[s].deltaIndex \in Int /\ Flushed[s].deltaIndex >= -1
              /\ Flushed[s].text = acc[s].text /\ Emitted(Flushed[s]) = Len(Flushed[s].text)
         /\ \A s \in DOMAIN acc : acc[s].pending # <<>> =>
              /\ Flushed[s].deltaIndex = acc[s].deltaIndex + 1
              /\ acc[s].deltaIndex \in Int /\ acc[s].deltaIndex >= -1
              /\ acc[s].pending \in Seq(Nat) /\ Counts(acc[s].pending, Emitted(acc[s]))
              /\ Emitted(acc[s]) \in Nat
              /\ Emitted(Flushed[s]) = Emitted(acc[s]) + Len(acc[s].pending)
              /\ s \in DOMAIN log /\ s \in Nat /\ log[s].kind = "prose"
<1>1. DOMAIN Flushed = DOMAIN acc
  BY DEF Flushed
<1>2. ASSUME NEW s \in DOMAIN acc
      PROVE  /\ acc[s] \in Accumulator /\ Buffer(log, s, acc[s]) /\ s \in DOMAIN log /\ s \in Nat
             /\ acc[s].deltaIndex \in Int /\ acc[s].deltaIndex >= -1
             /\ Counts(acc[s].pending, Emitted(acc[s]))
  <2>1. Buffer(log, s, acc[s])
    BY DEF ChunkInv, Buffers
  <2> QED BY <2>1, OpenRow DEF Buffer
<1>3. ASSUME NEW s \in DOMAIN acc, acc[s].pending # <<>>
      PROVE  /\ Buffer(log, s, Flushed[s]) /\ Flushed[s].deltaIndex = acc[s].deltaIndex + 1
             /\ Flushed[s].text = acc[s].text /\ Flushed[s].deltaIndex \in Int
             /\ acc[s].deltaIndex < Flushed[s].deltaIndex
             /\ acc[s].pending \in Seq(Nat) /\ Emitted(acc[s]) \in Nat
             /\ Emitted(Flushed[s]) = Emitted(acc[s]) + Len(acc[s].pending)
             /\ Emitted(Flushed[s]) = Len(acc[s].text) /\ log[s].kind = "prose"
  <2> DEFINE a == acc[s]
             b == [a EXCEPT !.deltaIndex = @ + 1, !.pending = <<>>]
  <2>1. Flushed[s] = b
    BY <1>3 DEF Flushed
  <2>2. a \in Accumulator /\ Buffer(log, s, a) /\ a.pending # <<>>
    BY <1>2, <1>3
  <2>3. /\ Buffer(log, s, b) /\ b.deltaIndex = a.deltaIndex + 1
        /\ b.text = a.text /\ b.deltaIndex \in Int /\ a.deltaIndex < b.deltaIndex
        /\ a.pending \in Seq(Nat) /\ Emitted(a) \in Nat
        /\ Emitted(b) = Emitted(a) + Len(a.pending)
        /\ Emitted(b) = Len(a.text) /\ log[s].kind = "prose"
    BY <2>2, FlushedBuffer
  <2> HIDE DEF b
  <2> QED BY <2>1, <2>3
<1>4. ASSUME NEW s \in DOMAIN acc, acc[s].pending = <<>>
      PROVE  Flushed[s] = acc[s] /\ Emitted(acc[s]) = Len(acc[s].text)
  <2>1. acc[s].text \in Seq(Nat)
    BY OpenRow
  <2>2. Len(acc[s].pending) = 0 /\ Len(acc[s].text) \in Nat
    BY <1>4, <2>1
  <2> QED BY <1>4, <2>2 DEF Flushed, Emitted
<1>5. ASSUME NEW s \in DOMAIN acc
      PROVE  /\ Buffer(log, s, Flushed[s])
             /\ Flushed[s].deltaIndex \in Int /\ Flushed[s].deltaIndex >= -1
             /\ Flushed[s].text = acc[s].text /\ Emitted(Flushed[s]) = Len(Flushed[s].text)
             /\ \/ Emitted(Flushed[s]) = Emitted(acc[s]) /\ Flushed[s].deltaIndex = acc[s].deltaIndex
                \/ Flushed[s].deltaIndex > acc[s].deltaIndex
  <2>1. CASE acc[s].pending # <<>>
    <3>1. Buffer(log, s, Flushed[s]) /\ Flushed[s].deltaIndex > acc[s].deltaIndex
      BY <1>2, <1>3, <2>1
    <3> QED BY <1>3, <2>1, <3>1 DEF Buffer
  <2>2. CASE acc[s].pending = <<>>
    BY <1>2, <1>4, <2>2
  <2> QED BY <2>1, <2>2
<1>6. Buffers(log, Flushed) /\ Moved(log, acc, Flushed)
  BY <1>1, <1>5 DEF ChunkInv, Buffers, Moved
<1> QED BY <1>1, <1>2, <1>3, <1>5, <1>6

\* A delta that subscribe flushes behind a snapshot.
LEMMA OwedIs ==
  ASSUME SyncInv, ChunkInv, NEW e, NEW f \in Owed(e), NEW d, Resumes(client, d, e, Flushed)
  PROVE  Sent(log, Flushed, f) /\ Awaits(d, f)
<1>1. PICK s \in DOMAIN acc : /\ acc[s].pending # <<>> /\ ~Recorded(e, s)
                              /\ f = DeltaEvent(s, Flushed[s].deltaIndex, acc[s].pending)
  BY DEF Owed, Recorded
<1>2. f.type = "delta" /\ f.seq = s /\ f.index = Flushed[s].deltaIndex /\ f.text = acc[s].pending
  BY <1>1 DEF DeltaEvent
<1>3. /\ DOMAIN Flushed = DOMAIN acc
      /\ Flushed[s].deltaIndex = acc[s].deltaIndex + 1 /\ acc[s].deltaIndex \in Int
      /\ acc[s].deltaIndex >= -1
      /\ acc[s].pending \in Seq(Nat) /\ Counts(acc[s].pending, Emitted(acc[s]))
      /\ Emitted(acc[s]) \in Nat
      /\ Emitted(Flushed[s]) = Emitted(acc[s]) + Len(acc[s].pending)
      /\ s \in DOMAIN log /\ log[s].kind = "prose"
  BY <1>1, ChunkFlushed
<1>4. Sent(log, Flushed, f)
  <2>1. Until(f) = Emitted(Flushed[s])
    BY <1>1, <1>2, <1>3, UntilIs
  <2>2. Carried(f) = {}
    BY <1>2, CarriedIs
  <2>3. f.index <= Flushed[s].deltaIndex
    BY <1>2, <1>3
  <2> QED BY <1>1, <1>2, <1>3, <2>1, <2>2, <2>3 DEF Sent, RowTypes
<1>5. Awaits(d, f)
  <2> SUFFICES ASSUME Live(d, s), f.index = ExpectedDelta(d, s)
               PROVE  Counts(f.text, Len(d.messages[s].text))
    BY <1>2 DEF Awaits
  <2>1. Resumed(client, d, e, Flushed, s)
    BY <1>3 DEF Resumes
  <2>2. ExpectedDelta(d, s) = 0 /\ Live(client, s) /\ d.messages[s] = client.messages[s]
    BY <1>1, <2>1 DEF Resumed
  <2>3. acc[s].deltaIndex + 1 = 0
    BY <1>2, <1>3, <2>2
  <2>4. Held(client, acc) /\ client \in ReducerState
    BY DEF ChunkInv, SyncInv, BrowserTypes
  <2>5. ExpectedDelta(client, s) \in Nat /\ ExpectedDelta(client, s) <= 0
    BY <2>2, <2>3, <2>4, ExpectedIs DEF Held
  <2>6. ExpectedDelta(client, s) = acc[s].deltaIndex + 1
    BY <2>3, <2>5
  <2>7. Len(client.messages[s].text) = Emitted(acc[s])
    BY <2>2, <2>4, <2>6 DEF Held
  <2> QED BY <1>2, <1>3, <2>2, <2>7
<1> QED BY <1>4, <1>5

LEMMA ChunkSubscribe ==
  ASSUME SyncInv, SyncInv', ChunkInv, Subscribe
  PROVE  ChunkInv'
<1> DEFINE e == buildSnapshot(log, Flushed, since)
           d == applyChannelEventV1(client, e)
<1>1. acc' = Flushed /\ UNCHANGED <<log, client>>
  BY DEF Subscribe
<1>2. /\ net' \in Seq(Event) /\ 1 \in DOMAIN net' /\ net'[1] = e /\ e \in Event
      /\ \A i \in DOMAIN net' : i # 1 => net'[i] \in Owed(e) \cup {CloseEvent}
      /\ \A i, j \in DOMAIN net' :
           i < j /\ net'[i].type = "delta" /\ net'[j].type = "delta" => net'[i].seq # net'[j].seq
  BY SubscribeSends
<1>3. /\ log \in Seq(Row) /\ since \in Nat /\ client \in ReducerState
      /\ Logged(log, Shown(client.messages)) /\ Held(client, acc)
  BY DEF SyncInv, BrowserTypes, ChunkInv
<1>4. e.type = "snapshot"
  BY <1>3, FlushedOK, BuildOK
<1>5. /\ Buffers(log, Flushed) /\ Moved(log, acc, Flushed) /\ DOMAIN Flushed = DOMAIN acc
      /\ \A s \in DOMAIN acc :
           /\ Flushed[s].deltaIndex \in Int /\ Flushed[s].deltaIndex >= -1
           /\ Emitted(Flushed[s]) = Len(Flushed[s].text)
  BY ChunkFlushed
<1>6. Carries(Flushed, e.messages, e.inFlight) /\ Carries(Flushed, e.replacements, e.replacementInFlight)
  BY <1>3, <1>5, SnapshotCarries
<1> HIDE DEF e
<1>7. Resumes(client, d, e, Flushed)
  <2>1. d = ApplyFull(client, e) \/ d = ApplyCatchup(client, e)
    BY <1>4 DEF applyChannelEventV1, ApplySnapshot
  <2>2. \A s \in DOMAIN client.messages : Counts(client.messages[s].text, 0)
    BY <1>3 DEF Held
  <2>3. Resumes(client, ApplyFull(client, e), e, Flushed)
    BY <1>6, FullResumes
  <2>4. Resumes(client, ApplyCatchup(client, e), e, Flushed)
    BY <1>2, <1>3, <1>4, <1>6, <2>2, CatchupResumes
  <2> QED BY <2>1, <2>3, <2>4
<1> HIDE DEF d
<1>8. Held(client, Flushed)
  BY <1>3, <1>5, ChunkFacts, HeldMoved
<1>9. Held(d, Flushed)
  BY <1>3, <1>5, <1>7, <1>8, ResumesHeld
<1>10. Ahead' = d
  <2>1. net' # <<>>
    BY <1>2
  <2> QED BY <1>1, <1>2, <1>4, <2>1 DEF Ahead, d
<1>11. Sent(log, Flushed, e) /\ Awaits(d, e)
  <2>1. Carried(e) = Shown(e.messages) \cup Shown(e.replacements)
    BY <1>4, CarriedIs
  <2>2. \A v \in Carried(e) : Counts(v.row.text, 0)
    BY <1>6, <2>1 DEF Carries, Shown
  <2> QED BY <1>4, <2>2 DEF Sent, Awaits, RowTypes
<1>12. ASSUME NEW i \in DOMAIN net'
       PROVE  Sent(log, Flushed, net'[i]) /\ Awaits(d, net'[i])
  <2>1. Sent(log, Flushed, CloseEvent) /\ Awaits(d, CloseEvent)
    <3>1. CloseEvent.type = "close" /\ Carried(CloseEvent) = {}
      BY Empties DEF CloseEvent
    <3> QED BY <3>1 DEF Sent, Awaits, RowTypes
  <2>2. \A f \in Owed(e) : Sent(log, Flushed, f) /\ Awaits(d, f)
    BY <1>7, OwedIs
  <2> QED BY <1>2, <1>11, <2>1, <2>2
<1>13. ASSUME NEW i \in DOMAIN net', NEW j \in DOMAIN net', i < j
       PROVE  Chained(net'[i], net'[j])
  <2>1. CloseEvent.type = "close" /\ \A f \in Owed(e) : f.type = "delta"
    BY DEF CloseEvent, Owed, DeltaEvent
  <2>2. net'[i].type # "created"
    BY <1>2, <1>4, <2>1
  <2> QED BY <1>2, <1>13, <2>2 DEF Chained
<1>14. Buffers(log', acc') /\ (Held(client, acc) /\ Held(Ahead, acc))'
  BY <1>1, <1>5, <1>8, <1>9, <1>10
<1>15. \A i \in DOMAIN net' : Sent(log', acc', net'[i]) /\ Awaits(Ahead', net'[i])
  BY <1>1, <1>10, <1>12
<1> QED BY <1>13, <1>14, <1>15 DEF ChunkInv

LEMMA ChunkStep ==
  ASSUME SyncInv, WindowInv, ChunkInv, [Next]_vars, [~MergePage]_vars
  PROVE  ChunkInv'
<1>1. SyncInv'
  BY SyncStep
<1>2. CASE UNCHANGED vars
  <2>1. UNCHANGED <<log, acc, client, net>>
    BY <1>2 DEF vars
  <2> QED BY <1>1, <2>1, ChunkLeaves
<1>3. CASE Next /\ ~MergePage
  <2>1. CASE ServerStep
    BY <1>1, <2>1, ChunkServes, ChunkSubscribe, ChunkCrash
  <2>2. CASE BrowserStep
    BY <1>1, <1>3, <2>2, ChunkBrowser
  <2>3. CASE NetworkStep
    BY <1>1, <2>3, ChunkNetwork
  <2> QED BY <1>3, <2>1, <2>2, <2>3 DEF Next
<1> QED BY <1>2, <1>3

LEMMA ChunkInit ==
  ASSUME Init
  PROVE  ChunkInv
<1>1. log = <<>> /\ acc = Empty /\ net = <<>> /\ client = initialChannelReducerState
  BY DEF Init
<1>2. /\ DOMAIN client.messages = {} /\ DOMAIN client.inFlightDelta = {}
      /\ DOMAIN acc = {} /\ DOMAIN net = {} /\ DOMAIN log = {}
  BY <1>1 DEF initialChannelReducerState, Empty
<1>3. Ahead = client
  BY <1>1 DEF Ahead
<1>4. Held(client, acc)
  BY <1>2 DEF Held
<1> QED BY <1>2, <1>3, <1>4 DEF ChunkInv, Buffers

\* As long as no page of older rows is merged, the text of a row in the timeline
\* is the row's chunks from the first one on, none lost, repeated or out of
\* order: deltas that a slow socket was not sent, that a cut socket took with it
\* or that a flush queued behind a snapshot are never joined on to a text that
\* ends elsewhere.
THEOREM ChunksInOrder == Spec /\ [][~MergePage]_vars => []ChunkExact
<1>1. Init => SyncInv /\ WindowInv /\ ChunkInv
  BY SyncInit, WindowInit, ChunkInit
<1>2. SyncInv /\ WindowInv /\ ChunkInv /\ [Next]_vars /\ [~MergePage]_vars
        => SyncInv' /\ WindowInv' /\ ChunkInv'
  BY SyncStep, WindowStep, ChunkStep
<1>3. SyncInv /\ ChunkInv => ChunkExact
  <2> SUFFICES ASSUME SyncInv, ChunkInv, NEW s \in DOMAIN client.messages
               PROVE  \A i \in DOMAIN client.messages[s].text : client.messages[s].text[i] = i
    BY DEF ChunkExact
  <2>1. client.messages[s].text \in Seq(Nat)
    BY ReducerFields, RowFields DEF SyncInv, BrowserTypes
  <2>2. Counts(client.messages[s].text, 0)
    BY DEF ChunkInv, Held
  <2> HIDE DEF ChunkInv, SyncInv
  <2>3. \A i \in DOMAIN client.messages[s].text : i \in Int /\ 0 + i = i
    BY <2>1
  <2> QED BY <2>2, <2>3 DEF Counts
<1> QED BY <1>1, <1>2, <1>3, PTL DEF Spec

-----------------------------------------------------------------------------
(* Copies of a row, to the text.                                           *)

\* A copy of row s. Rows that have settled stay so, an operator's row is never
\* open, and the current version has the log's text unless it is being streamed.
Copy(lg, s, v) ==
  /\ v.status \in Settled => lg[s].status \in Settled
  /\ v.kind \in {"human", "system"} => v.status \in Settled
  /\ v.ver = lg[s].ver /\ ~OpenProse(lg[s]) => v.text = lg[s].text

Copies(lg, V) == \A v \in V : Copy(lg, v.seq, v.row)

\* What the type of a row event says of its row.
Typed(e) ==
  /\ e.type = "updated" => e.row.status = "streaming"
  /\ e.type = "completed" => e.row.status \in Settled
  /\ e.type \in {"edited", "deleted"} => e.row.kind = "human"

\* The open rows are those with a stream, a row that nothing marks as revised is
\* an operator's or the system's only if it was never changed, and a card's text
\* stays what it is.
Plain(lg, ac) ==
  \A s \in DOMAIN lg :
    /\ lg[s].status = "streaming" <=> s \in DOMAIN ac
    /\ lg[s].kind \in {"human", "system"} =>
         /\ lg[s].status \in Settled
         /\ lg[s].mark \in {"edited", "deleted"} \/ (lg[s].mark = "none" /\ lg[s].ver = 0)
    /\ s \in DOMAIN ac /\ lg[s].kind # "prose" =>
         /\ lg[s].text = ac[s].text
         /\ \A i \in DOMAIN ac[s].update : ac[s].update[i].text = lg[s].text

CopyInv ==
  /\ Plain(log, acc) /\ Copies(log, Shown(client.messages))
  /\ \A i \in DOMAIN net : Copies(log, Carried(net[i])) /\ Typed(net[i])

\* The log changes and copies stay copies.
Copied(lg, lh) ==
  \A s \in DOMAIN lg :
    /\ s \in DOMAIN lh /\ lh[s].kind = lg[s].kind /\ lg[s].ver <= lh[s].ver
    /\ lg[s].status \in Settled => lh[s].status \in Settled
    /\ lg[s].ver = lh[s].ver /\ ~OpenProse(lh[s]) => lh[s].text = lg[s].text /\ ~OpenProse(lg[s])

LEMMA CopiedSelf ==
  ASSUME NEW lg \in Seq(Row)
  PROVE  Copied(lg, lg)
<1>1. \A s \in DOMAIN lg : lg[s] \in Row
  OBVIOUS
<1>2. \A s \in DOMAIN lg : lg[s].ver <= lg[s].ver
  BY <1>1, RowFields
<1> QED BY <1>2 DEF Copied

LEMMA CopiesKept ==
  ASSUME NEW lg \in Seq(Row), NEW lh \in Seq(Row), Copied(lg, lh),
         NEW V, \A v \in V : v.row \in Row, Logged(lg, V), Copies(lg, V)
  PROVE  Copies(lh, V)
<1> SUFFICES ASSUME NEW v \in V PROVE Copy(lh, v.seq, v.row)
  BY DEF Copies
<1> DEFINE s == v.seq
<1>1. s \in DOMAIN lg /\ v.row.ver <= lg[s].ver /\ Copy(lg, s, v.row)
  BY DEF Logged, Version, Copies
<1>2. /\ s \in DOMAIN lh /\ lg[s].ver <= lh[s].ver
      /\ lg[s].status \in Settled => lh[s].status \in Settled
      /\ lg[s].ver = lh[s].ver /\ ~OpenProse(lh[s]) => lh[s].text = lg[s].text /\ ~OpenProse(lg[s])
  BY <1>1 DEF Copied
<1>3. v.row \in Row /\ lg[s] \in Row /\ lh[s] \in Row
  BY <1>1, <1>2
<1>4. v.row.ver \in Nat /\ lg[s].ver \in Nat /\ lh[s].ver \in Nat
  BY <1>3, RowFields
<1>5. v.row.ver = lh[s].ver => v.row.ver = lg[s].ver /\ lg[s].ver = lh[s].ver
  BY <1>1, <1>2, <1>4
<1> HIDE DEF s
<1>6. Copy(lh, s, v.row)
  BY <1>1, <1>2, <1>5 DEF Copy
<1> QED BY <1>6 DEF s

\* The log's own row is a copy.
LEMMA OwnCopy ==
  ASSUME NEW lg, NEW ac, Plain(lg, ac), NEW s \in DOMAIN lg
  PROVE  Copy(lg, s, lg[s])
BY DEF Copy, Plain

\* A copy of the current version is the row, but for the text of an open stream.
LEMMA CopyIs ==
  ASSUME NEW lg \in Seq(Row), NEW s, NEW v \in Row, Version(lg, s, v), Copy(lg, s, v),
         v.ver = lg[s].ver, ~OpenProse(lg[s])
  PROVE  v = lg[s]
<1>1. lg[s] \in Row /\ Same(v, lg[s]) /\ v.text = lg[s].text
  BY DEF Version, Copy
<1>2. \A w \in Row : w = [kind |-> w.kind, status |-> w.status, text |-> w.text,
                          ver |-> w.ver, mark |-> w.mark]
  BY DEF Row
<1> QED BY <1>1, <1>2 DEF Same

\* Where the rows of a timeline come from when an event is applied.
Stems(c, d, e) ==
  \A s \in DOMAIN d.messages :
    \/ [seq |-> s, row |-> d.messages[s]] \in Carried(e)
    \/ s \in DOMAIN c.messages /\ d.messages[s] = c.messages[s]
    \/ /\ e.type = "delta" /\ s = e.seq /\ s \in DOMAIN c.messages
       /\ c.messages[s].status = "streaming"
       /\ \E text \in Seq(Nat) : d.messages[s] = [c.messages[s] EXCEPT !.text = text]

LEMMA StemsSelf ==
  ASSUME NEW c, NEW d, d.messages = c.messages, NEW e
  PROVE  Stems(c, d, e)
BY DEF Stems

LEMMA StemsPut ==
  ASSUME NEW c, NEW d, NEW e, e.type \in RowTypes, d.messages = Put(c.messages, e.seq, e.row)
  PROVE  Stems(c, d, e)
<1>1. [seq |-> e.seq, row |-> e.row] \in Carried(e)
  BY CarriedIs
<1> QED BY <1>1 DEF Stems, Put

LEMMA StemsSnapshot ==
  ASSUME NEW c \in ReducerState, NEW e \in Event, e.type = "snapshot"
  PROVE  Stems(c, applyChannelEventV1(c, e), e)
<1> DEFINE d == applyChannelEventV1(c, e)
<1>1. Carried(e) = Shown(e.messages) \cup Shown(e.replacements)
  BY CarriedIs
<1>2. d = ApplyFull(c, e) \/ d = ApplyCatchup(c, e)
  BY DEF applyChannelEventV1, ApplySnapshot
<1> HIDE DEF d
<1>3. CASE d = ApplyFull(c, e)
  <2>1. d.messages = e.messages
    BY <1>3 DEF ApplyFull
  <2> QED BY <1>1, <2>1 DEF Stems, Shown, d
<1>4. CASE d = ApplyCatchup(c, e)
  <2> DEFINE accepted == {s \in DOMAIN e.messages : s \in DOMAIN c.messages \/ s > c.lastSeq}
             replaced == DOMAIN e.replacements \cap DOMAIN c.messages
  <2>1. d.messages = Overlay(Overlay(c.messages, Restrict(e.messages, accepted)),
                             Restrict(e.replacements, replaced))
    BY <1>4 DEF ApplyCatchup
  <2>2. accepted \subseteq DOMAIN e.messages /\ replaced \subseteq DOMAIN e.replacements
    OBVIOUS
  <2> HIDE DEF accepted, replaced
  <2>3. ASSUME NEW s \in DOMAIN d.messages
        PROVE  \/ s \in DOMAIN e.replacements /\ d.messages[s] = e.replacements[s]
               \/ s \in DOMAIN e.messages /\ d.messages[s] = e.messages[s]
               \/ s \in DOMAIN c.messages /\ d.messages[s] = c.messages[s]
    BY <2>1, <2>2, <2>3 DEF Overlay, Restrict
  <2> QED BY <1>1, <2>3 DEF Stems, Shown, d
<1> QED BY <1>2, <1>3, <1>4

LEMMA StemsEvent ==
  ASSUME NEW c \in ReducerState, NEW e \in Event, e.type # "close"
  PROVE  Stems(c, applyChannelEventV1(c, e), e)
<1> DEFINE d == applyChannelEventV1(c, e)
<1>1. CASE e.type = "snapshot"
  BY <1>1, StemsSnapshot
<1>2. CASE e.type = "delta"
  <2>1. d = ApplyDelta(c, e)
    BY <1>2 DEF applyChannelEventV1
  <2> HIDE DEF d
  <2>2. ASSUME d.messages = c.messages
        PROVE  Stems(c, d, e)
    BY <2>2, StemsSelf
  <2>3. ASSUME d.messages # c.messages
        PROVE  Stems(c, d, e)
    <3>1. e.seq \in DOMAIN c.messages /\ c.messages[e.seq].status = "streaming"
      BY <2>1, <2>3, AskOK DEF ApplyDelta
    <3>2. d = [c EXCEPT !.messages[e.seq].text = @ \o e.text,
                        !.inFlightDelta = Put(@, e.seq, e.index)]
      <4>1. \/ d = c \/ d = [c EXCEPT !.quarantined = @ \cup {e.seq}]
            \/ d = [c EXCEPT !.messages[e.seq].text = @ \o e.text,
                             !.inFlightDelta = Put(@, e.seq, e.index)]
        BY <2>1, <3>1 DEF ApplyDelta
      <4>2. CASE d = [c EXCEPT !.quarantined = @ \cup {e.seq}]
        <5>1. d.messages = c.messages
          BY <4>2 DEF ReducerState
        <5> QED BY <2>3, <5>1
      <4> QED BY <2>3, <4>1, <4>2
    <3>3. d.messages = [c.messages EXCEPT ![e.seq].text = @ \o e.text]
      BY <3>2 DEF ReducerState
    <3>4. /\ DOMAIN d.messages = DOMAIN c.messages
          /\ \A s \in DOMAIN c.messages : s # e.seq => d.messages[s] = c.messages[s]
          /\ d.messages[e.seq] = [c.messages[e.seq] EXCEPT !.text = @ \o e.text]
      BY <3>1, <3>3
    <3>5. PICK text \in Seq(Nat) : text = c.messages[e.seq].text \o e.text
      <4>1. c.messages[e.seq].text \in Seq(Nat) /\ e.text \in Seq(Nat)
        BY <1>2, <3>1, EventIs, ReducerFields, RowFields
      <4> QED BY <4>1, ConcatProperties
    <3>6. d.messages[e.seq] = [c.messages[e.seq] EXCEPT !.text = text]
      BY <3>4, <3>5
    <3>7. ASSUME NEW s \in DOMAIN d.messages, s # e.seq
          PROVE  s \in DOMAIN c.messages /\ d.messages[s] = c.messages[s]
      BY <3>4, <3>7
    <3> QED BY <1>2, <3>1, <3>6, <3>7 DEF Stems
  <2> QED BY <2>2, <2>3 DEF d
<1>3. CASE e.type \in RowTypes
  <2> DEFINE w == WithRow(c, e.seq, e.row)
  <2>1. w.messages = Put(c.messages, e.seq, e.row)
    BY DEF WithRow, ReducerState
  <2>2. w \in ReducerState
    BY <1>3, EventIs, WithRowOK
  <2>3. \/ d.messages = c.messages
        \/ d.messages = w.messages
    <3>1. CASE e.type = "created"
      <4>1. d = ApplyCreated(c, e)
        BY <3>1 DEF applyChannelEventV1
      <4>2. c.lastSeq \in Nat /\ e.seq \in Nat
        BY <1>3, EventIs, ReducerFields
      <4> HIDE DEF d, w
      <4>3. d = c \/ d = AskCatchup(c) \/ d = [w EXCEPT !.lastSeq = e.seq]
        BY <4>1, <4>2 DEF ApplyCreated, w
      <4> QED BY <2>2, <4>3, AskOK DEF ReducerState
    <3>2. CASE e.type = "updated"
      <4>1. d = ApplyUpdated(c, e)
        BY <3>2 DEF applyChannelEventV1
      <4> HIDE DEF d, w
      <4> QED BY <4>1, AskOK DEF ApplyUpdated, w
    <3>3. CASE e.type = "completed"
      <4>1. d = ApplyCompleted(c, e)
        BY <3>3 DEF applyChannelEventV1
      <4> HIDE DEF d, w
      <4>2. \/ d = AskCatchup(c)
            \/ d = [w EXCEPT !.inFlightDelta = Restrict(@, DOMAIN @ \ {e.seq}),
                             !.quarantined = @ \ {e.seq}]
        BY <4>1 DEF ApplyCompleted, w
      <4> QED BY <2>2, <4>2, AskOK DEF ReducerState
    <3>4. CASE e.type \in {"edited", "deleted"}
      <4>1. d = ApplyRevised(c, e)
        BY <3>4 DEF applyChannelEventV1
      <4> HIDE DEF d, w
      <4> QED BY <4>1 DEF ApplyRevised, w
    <3> QED BY <1>3, <3>1, <3>2, <3>3, <3>4 DEF RowTypes
  <2> HIDE DEF d, w
  <2>4. ASSUME d.messages = c.messages
        PROVE  Stems(c, d, e)
    BY <2>4, StemsSelf
  <2>5. ASSUME d.messages = w.messages
        PROVE  Stems(c, d, e)
    BY <1>3, <2>1, <2>5, StemsPut
  <2> QED BY <2>3, <2>4, <2>5 DEF d
<1>4. CASE e.type = "resync"
  <2>1. d.messages = c.messages
    BY <1>4, AskOK DEF applyChannelEventV1
  <2> HIDE DEF d
  <2> QED BY <2>1, StemsSelf DEF d
<1> QED BY <1>1, <1>2, <1>3, <1>4, EventIs

\* What an event leaves of copies are copies: a delta only adds to the text of a
\* row that is an open stream if it is current.
LEMMA CopiesStem ==
  ASSUME NEW lg, NEW c \in ReducerState, NEW d, NEW e, Stems(c, d, e),
         Logged(lg, Shown(c.messages)), Copies(lg, Shown(c.messages)), Copies(lg, Carried(e)),
         e.type = "delta" => e.seq \in DOMAIN lg /\ lg[e.seq].kind = "prose"
  PROVE  Copies(lg, Shown(d.messages))
<1> SUFFICES ASSUME NEW s \in DOMAIN d.messages
             PROVE  Copy(lg, s, d.messages[s])
  BY DEF Copies, Shown
<1>1. CASE [seq |-> s, row |-> d.messages[s]] \in Carried(e)
  BY <1>1 DEF Copies
<1>2. ASSUME NEW t \in DOMAIN c.messages
      PROVE  Version(lg, t, c.messages[t]) /\ Copy(lg, t, c.messages[t])
  <2>1. [seq |-> t, row |-> c.messages[t]] \in Shown(c.messages)
    BY DEF Shown
  <2> QED BY <2>1 DEF Logged, Copies
<1>3. CASE s \in DOMAIN c.messages /\ d.messages[s] = c.messages[s]
  BY <1>2, <1>3
<1>4. ASSUME NEW text \in Seq(Nat), e.type = "delta", s = e.seq, s \in DOMAIN c.messages,
             c.messages[s].status = "streaming",
             d.messages[s] = [c.messages[s] EXCEPT !.text = text]
      PROVE  Copy(lg, s, d.messages[s])
  <2> DEFINE row == c.messages[s]
  <2>1. row \in Row /\ lg[s].kind = "prose" /\ row.status = "streaming" /\ Version(lg, s, row)
    BY <1>2, <1>4, ReducerFields
  <2>2. d.messages[s] = [row EXCEPT !.text = text]
    BY <1>4
  <2> HIDE DEF row
  <2>3. Same(row, d.messages[s])
    BY <2>1, <2>2, RetextOK
  <2>4. row.kind = "prose"
    BY <2>1 DEF Version
  <2>5. d.messages[s].kind = "prose" /\ d.messages[s].status = "streaming"
    BY <2>1, <2>3, <2>4 DEF Same
  <2>6. d.messages[s].ver = lg[s].ver => OpenProse(lg[s])
    BY <2>1, <2>3, <2>4 DEF Same, Version, OpenProse
  <2> QED BY <2>5, <2>6 DEF Copy, Settled
<1> QED BY <1>1, <1>3, <1>4 DEF Stems

-----------------------------------------------------------------------------
(* What the socket owes to a timeline.                                     *)

\* An update of the row is held for its tick.
Waits(ac, s) == s \in DOMAIN ac /\ ac[s].update # <<>>

\* The event brings the row that the log now has.
Brings(lg, e, s) == e.type \in RowTypes \ {"created"} /\ e.seq = s /\ e.row.ver = lg[s].ver

\* A copy of row s, shown or at place i of the socket, is current or will be.
Due(lg, ac, q, s, ver, i) ==
  \/ ver = lg[s].ver \/ Waits(ac, s)
  \/ \E j \in DOMAIN q : j > i /\ Brings(lg, q[j], s)

\* The socket holds every row past the timeline's end, what makes every row of
\* the timeline and every new row current, and the deltas of each open stream
\* from where its row ends.
Owes(c, lg, ac, q) ==
  /\ \A n \in (c.lastSeq + 1)..Len(lg) :
       \E i \in DOMAIN q : q[i].type = "created" /\ q[i].seq = n
  /\ \A s \in DOMAIN c.messages : Due(lg, ac, q, s, c.messages[s].ver, 0)
  /\ \A i \in DOMAIN q : q[i].type = "created" => Due(lg, ac, q, q[i].seq, q[i].row.ver, i)
  /\ \A s \in DOMAIN ac \ c.quarantined :
       lg[s].kind = "prose" /\ (s \in DOMAIN c.messages \/ s > c.lastSeq) =>
         \A k \in ExpectedDelta(c, s)..ac[s].deltaIndex :
           \E i \in DOMAIN q : q[i].type = "delta" /\ q[i].seq = s /\ q[i].index = k

\* The browser is about to reconnect, or told to by what is in its socket.
Warned ==
  \/ sub # "live" \/ Ahead.needsCatchup
  \/ \E i \in DOMAIN net : net[i].type = "resync"

QuietInv == ~Warned => Owes(Ahead, log, acc, net)

\* The event tells of everything that a change of the log and the streams
\* leaves to be told.
Tells(lg, ac, lh, bc, e) ==
  /\ Copied(lg, lh) /\ Plain(lh, bc) /\ Len(lg) <= Len(lh)
  /\ Typed(e) /\ e.type \notin {"snapshot", "resync"}
  /\ e.type \in RowTypes =>
       e.seq \in DOMAIN lh /\ e.row.ver = lh[e.seq].ver /\ Copy(lh, e.seq, e.row)
  /\ \A n \in (Len(lg) + 1)..Len(lh) : e.type = "created" /\ e.seq = n
  /\ \A s \in DOMAIN lg :
       \/ Brings(lh, e, s) \/ Waits(bc, s)
       \/ lh[s].ver = lg[s].ver /\ ~Waits(ac, s)
  /\ \A s \in DOMAIN bc :
       \/ bc[s].deltaIndex = -1
       \/ s \in DOMAIN ac /\ bc[s].deltaIndex = ac[s].deltaIndex
       \/ /\ s \in DOMAIN ac /\ bc[s].deltaIndex = ac[s].deltaIndex + 1
          /\ e.type = "delta" /\ e.seq = s /\ e.index = bc[s].deltaIndex

LEMMA DueLater ==
  ASSUME NEW lg \in Seq(Row), NEW ac, NEW lh, NEW bc, NEW e \in Event, Tells(lg, ac, lh, bc, e),
         NEW q \in Seq(Event), NEW p \in Seq(Event), p = Append(q, e) \/ (p = q /\ e.type = "close"),
         NEW s \in DOMAIN lg, NEW ver, NEW i \in 0..Len(q), Due(lg, ac, q, s, ver, i)
  PROVE  Due(lh, bc, p, s, ver, i)
<1>1. Len(q) \in Nat /\ DOMAIN q = 1..Len(q) /\ \A j \in DOMAIN q : j \in DOMAIN p /\ p[j] = q[j]
  OBVIOUS
<1>2. CASE Waits(bc, s)
  BY <1>2 DEF Due
<1>3. CASE Brings(lh, e, s)
  <2>1. p = Append(q, e)
    BY <1>3 DEF Brings, RowTypes
  <2>2. Len(q) + 1 \in DOMAIN p /\ p[Len(q) + 1] = e /\ Len(q) + 1 > i
    BY <1>1, <2>1
  <2> QED BY <1>3, <2>2 DEF Due
<1>4. CASE lh[s].ver = lg[s].ver /\ ~Waits(ac, s)
  <2>1. CASE ver = lg[s].ver
    BY <1>4, <2>1 DEF Due
  <2>2. CASE \E j \in DOMAIN q : j > i /\ Brings(lg, q[j], s)
    <3> PICK j \in DOMAIN q : j > i /\ Brings(lg, q[j], s)
      BY <2>2
    <3>1. j \in DOMAIN p /\ Brings(lh, p[j], s)
      BY <1>1, <1>4 DEF Brings
    <3> QED BY <3>1 DEF Due
  <2> QED BY <1>4, <2>1, <2>2 DEF Due
<1> QED BY <1>2, <1>3, <1>4 DEF Tells

\* A step whose event is sent leaves nothing untold.
LEMMA OwesMore ==
  ASSUME NEW lg \in Seq(Row), NEW lh \in Seq(Row), NEW ac, NEW bc, DOMAIN ac \subseteq DOMAIN lg,
         \A s \in DOMAIN ac : ac[s].deltaIndex \in Int,
         NEW e \in Event, Tells(lg, ac, lh, bc, e),
         NEW q \in Seq(Event), NEW p \in Seq(Event), p = Append(q, e) \/ (p = q /\ e.type = "close"),
         NEW c \in ReducerState, Logged(lg, Shown(c.messages)),
         \A s : ExpectedDelta(c, s) \in Nat,
         \A i \in DOMAIN q : Logged(lg, Carried(q[i])),
         Owes(c, lg, ac, q)
  PROVE  Owes(c, lh, bc, p)
<1>1. /\ Len(q) \in Nat /\ DOMAIN q = 1..Len(q) /\ \A j \in DOMAIN q : j \in DOMAIN p /\ p[j] = q[j]
      /\ DOMAIN p = 1..Len(p) /\ Len(p) \in Nat
  OBVIOUS
<1>2. p = Append(q, e) => Len(p) = Len(q) + 1 /\ p[Len(q) + 1] = e /\ Len(q) + 1 \in DOMAIN p
  OBVIOUS
<1>3. e.type = "created" \/ e.type = "delta" => p = Append(q, e)
  OBVIOUS
<1>4. 0 \in 0..Len(q) /\ \A i \in DOMAIN q : i \in 0..Len(q)
  OBVIOUS
<1>5. \A i \in DOMAIN p : i \in DOMAIN q \/ p[i] = e
  OBVIOUS
<1>6. ASSUME NEW n \in (c.lastSeq + 1)..Len(lh)
      PROVE  \E i \in DOMAIN p : p[i].type = "created" /\ p[i].seq = n
  <2>1. c.lastSeq \in Nat /\ Len(lg) \in Nat /\ Len(lh) \in Nat
    BY ReducerFields
  <2>2. CASE n \in (c.lastSeq + 1)..Len(lg)
    <3>1. PICK i \in DOMAIN q : q[i].type = "created" /\ q[i].seq = n
      BY <2>2 DEF Owes
    <3> QED BY <1>1, <3>1
  <2>3. CASE n \in (Len(lg) + 1)..Len(lh)
    <3>1. e.type = "created" /\ e.seq = n
      BY <2>3 DEF Tells
    <3> QED BY <1>2, <1>3, <3>1
  <2> QED BY <1>6, <2>1, <2>2, <2>3
<1>7. ASSUME NEW s \in DOMAIN c.messages
      PROVE  Due(lh, bc, p, s, c.messages[s].ver, 0)
  <2>1. [seq |-> s, row |-> c.messages[s]] \in Shown(c.messages)
    BY DEF Shown
  <2>2. s \in DOMAIN lg
    BY <2>1 DEF Logged, Version
  <2>3. Due(lg, ac, q, s, c.messages[s].ver, 0)
    BY DEF Owes
  <2> QED BY <1>4, <2>2, <2>3, DueLater
<1>8. ASSUME NEW i \in DOMAIN p, p[i].type = "created"
      PROVE  Due(lh, bc, p, p[i].seq, p[i].row.ver, i)
  <2>1. CASE i \in DOMAIN q
    <3>1. p[i] = q[i] /\ q[i].type = "created" /\ i \in 0..Len(q)
      BY <1>1, <1>8, <1>4, <2>1
    <3>2. [seq |-> q[i].seq, row |-> q[i].row] \in Carried(q[i])
      BY <3>1, CarriedIs DEF RowTypes
    <3>3. q[i].seq \in DOMAIN lg
      BY <2>1, <3>2 DEF Logged, Version
    <3>4. Due(lg, ac, q, q[i].seq, q[i].row.ver, i)
      BY <2>1, <3>1 DEF Owes
    <3> QED BY <3>1, <3>3, <3>4, DueLater
  <2>2. CASE i \notin DOMAIN q
    <3>1. p[i] = e
      BY <1>5, <2>2
    <3>2. e.row.ver = lh[e.seq].ver
      BY <1>8, <3>1 DEF Tells, RowTypes
    <3> QED BY <3>1, <3>2 DEF Due
  <2> QED BY <2>1, <2>2
<1>9. ASSUME NEW s \in DOMAIN bc \ c.quarantined, lh[s].kind = "prose",
             s \in DOMAIN c.messages \/ s > c.lastSeq,
             NEW k \in ExpectedDelta(c, s)..bc[s].deltaIndex
      PROVE  \E i \in DOMAIN p : p[i].type = "delta" /\ p[i].seq = s /\ p[i].index = k
  <2>1. ExpectedDelta(c, s) \in Nat
    OBVIOUS
  <2> DEFINE x == ExpectedDelta(c, s)
  <2>2. x \in Nat /\ k \in x..bc[s].deltaIndex
    BY <2>1
  <2> HIDE DEF x
  <2>3. bc[s].deltaIndex # -1
    BY <2>2
  <2>4. s \in DOMAIN ac /\ ac[s].deltaIndex \in Int /\ lg[s].kind = "prose"
    BY <1>9, <2>3 DEF Tells, Copied
  <2>5. CASE k \in x..ac[s].deltaIndex
    <3>1. PICK i \in DOMAIN q : q[i].type = "delta" /\ q[i].seq = s /\ q[i].index = k
      BY <1>9, <2>4, <2>5 DEF Owes, x
    <3> QED BY <1>1, <3>1
  <2>6. CASE k \notin x..ac[s].deltaIndex
    <3>1. /\ bc[s].deltaIndex # ac[s].deltaIndex
          /\ bc[s].deltaIndex = ac[s].deltaIndex + 1 => k = bc[s].deltaIndex
      <4>1. \A b, m \in Int : k \in x..b /\ k \notin x..m => b # m /\ (b = m + 1 => k = b)
        BY <2>2
      <4> DEFINE b == bc[s].deltaIndex
                 m == ac[s].deltaIndex
      <4>2. m \in Int /\ k \in x..b /\ k \notin x..m
        BY <2>2, <2>4, <2>6
      <4> HIDE DEF b, m
      <4>3. b = m \/ b = m + 1 => b \in Int
        BY <4>2
      <4>4. b # m /\ (b = m + 1 => k = b)
        BY <4>1, <4>2, <4>3
      <4> QED BY <4>4 DEF b, m
    <3>2. e.type = "delta" /\ e.seq = s /\ e.index = k
      BY <2>3, <3>1 DEF Tells
    <3> QED BY <1>2, <1>3, <3>2
  <2> QED BY <2>5, <2>6
<1> QED BY <1>6, <1>7, <1>8, <1>9 DEF Owes

-----------------------------------------------------------------------------
(* What each step of the server has to tell.                               *)

\* A new row, with or without a stream.
LEMMA TellsNew ==
  ASSUME NEW lg \in Seq(Row), NEW ac, Streams(lg, ac), Plain(lg, ac),
         NEW row \in Row, row.ver = 0, row.mark = "none",
         row.kind \in {"human", "system"} => row.status \in Settled,
         NEW bc,
         \/ bc = ac /\ row.status \in Settled
         \/ \E a : /\ bc = Put(ac, Len(lg) + 1, a) /\ row.status = "streaming"
                   /\ a.deltaIndex = -1 /\ a.update = <<>> /\ row.text = a.text
  PROVE  Tells(lg, ac, Append(lg, row), bc, RowEvent("created", Len(lg) + 1, row))
<1> DEFINE lh == Append(lg, row)
           s == Len(lg) + 1
           e == RowEvent("created", s, row)
<1>1. /\ Len(lg) \in Nat /\ Len(lh) = s /\ s \notin DOMAIN lg /\ s \in DOMAIN lh /\ lh[s] = row
      /\ DOMAIN lh = DOMAIN lg \cup {s}
      /\ \A t \in DOMAIN lg : lh[t] = lg[t] /\ lg[t] \in Row
  OBVIOUS
<1>2. e.type = "created" /\ e.seq = s /\ e.row = row
  BY DEF RowEvent
<1>3. DOMAIN ac \subseteq DOMAIN lg
  BY DEF Streams, Stream
<1>4. /\ \A t \in DOMAIN lg : /\ t \in DOMAIN bc <=> t \in DOMAIN ac
                              /\ t \in DOMAIN ac => bc[t] = ac[t]
      /\ DOMAIN bc \subseteq DOMAIN lh
      /\ s \in DOMAIN bc <=> row.status = "streaming"
      /\ s \in DOMAIN bc => /\ bc[s].deltaIndex = -1 /\ bc[s].update = <<>>
                            /\ row.text = bc[s].text
  <2>1. CASE bc = ac /\ row.status \in Settled
    BY <1>1, <1>3, <2>1 DEF Settled
  <2>2. ASSUME NEW a, bc = Put(ac, s, a), row.status = "streaming", a.deltaIndex = -1,
               a.update = <<>>, row.text = a.text
        PROVE  /\ \A t \in DOMAIN lg : /\ t \in DOMAIN bc <=> t \in DOMAIN ac
                                       /\ t \in DOMAIN ac => bc[t] = ac[t]
               /\ DOMAIN bc \subseteq DOMAIN lh
               /\ s \in DOMAIN bc <=> row.status = "streaming"
               /\ s \in DOMAIN bc => /\ bc[s].deltaIndex = -1 /\ bc[s].update = <<>>
                                     /\ row.text = bc[s].text
    <3>1. /\ DOMAIN bc = DOMAIN ac \cup {s} /\ bc[s] = a
          /\ \A t \in DOMAIN ac : t # s => bc[t] = ac[t]
      BY <2>2 DEF Put
    <3> HIDE DEF s, lh
    <3> QED BY <1>1, <1>3, <2>2, <3>1
  <2> QED BY <2>1, <2>2
<1>5. /\ row.kind \in Kinds /\ row.status \in Settled \cup {"streaming"}
      /\ \A t \in DOMAIN lg : lg[t].ver \in Nat
  BY <1>1, RowFields
<1> HIDE DEF lh, s, e
<1>6. Copied(lg, lh)
  BY <1>1, <1>5 DEF Copied
<1>7. ASSUME NEW t \in DOMAIN lh
      PROVE  /\ lh[t].status = "streaming" <=> t \in DOMAIN bc
             /\ lh[t].kind \in {"human", "system"} =>
                  /\ lh[t].status \in Settled
                  /\ lh[t].mark \in {"edited", "deleted"} \/ (lh[t].mark = "none" /\ lh[t].ver = 0)
             /\ t \in DOMAIN bc /\ lh[t].kind # "prose" =>
                  /\ lh[t].text = bc[t].text
                  /\ \A i \in DOMAIN bc[t].update : bc[t].update[i].text = lh[t].text
  <2>1. CASE t \in DOMAIN lg
    BY <1>1, <1>4, <2>1 DEF Plain
  <2>2. CASE t = s
    BY <1>1, <1>4, <2>2
  <2> QED BY <1>1, <2>1, <2>2
<1>8. Plain(lh, bc)
  BY <1>7 DEF Plain
<1>9. Copy(lh, s, row) /\ Typed(e)
  BY <1>1, <1>2, <1>8, OwnCopy DEF Typed
<1>10. \A n \in (Len(lg) + 1)..Len(lh) : n = s
  BY <1>1 DEF s
<1>11. ASSUME NEW t \in DOMAIN lg
       PROVE  Waits(bc, t) \/ (lh[t].ver = lg[t].ver /\ ~Waits(ac, t))
  BY <1>1, <1>4 DEF Waits
<1>12. \A t \in DOMAIN bc : bc[t].deltaIndex = -1 \/ (t \in DOMAIN ac /\ bc[t].deltaIndex = ac[t].deltaIndex)
  BY <1>1, <1>4
<1>13. Len(lg) <= Len(lh)
  BY <1>1 DEF s
<1>14. Tells(lg, ac, lh, bc, e)
  BY <1>1, <1>2, <1>6, <1>8, <1>9, <1>10, <1>11, <1>12, <1>13 DEF Tells
<1> QED BY <1>14 DEF lh, s, e

\* A row that is changed in place and has no stream any more.
LEMMA TellsRevised ==
  ASSUME NEW lg \in Seq(Row), NEW ac, DOMAIN ac \subseteq DOMAIN lg, Plain(lg, ac),
         NEW s \in DOMAIN lg, NEW row \in Row, row.kind = lg[s].kind, row.status \in Settled,
         row.kind \in {"human", "system"} => row.mark \in {"edited", "deleted"},
         lg[s].ver < row.ver \/ row = lg[s],
         NEW bc, s \notin DOMAIN bc, DOMAIN bc \subseteq DOMAIN ac, DOMAIN ac \subseteq DOMAIN bc \cup {s},
         \A t \in DOMAIN bc : bc[t] = ac[t],
         NEW type \in {"completed", "edited", "deleted"},
         type # "completed" => row.kind = "human"
  PROVE  Tells(lg, ac, [lg EXCEPT ![s] = row], bc, RowEvent(type, s, row))
<1> DEFINE lh == [lg EXCEPT ![s] = row]
           e == RowEvent(type, s, row)
<1>1. /\ lh \in Seq(Row) /\ DOMAIN lh = DOMAIN lg /\ Len(lh) = Len(lg) /\ Len(lg) \in Nat
      /\ lh[s] = row /\ \A t \in DOMAIN lg : t # s => lh[t] = lg[t]
      /\ \A t \in DOMAIN lg : lg[t] \in Row
  OBVIOUS
<1>2. e.type = type /\ e.seq = s /\ e.row = row
  BY DEF RowEvent
<1>3. /\ \A t \in DOMAIN lg : lg[t].ver \in Nat
      /\ row.ver \in Nat
  BY <1>1, RowFields
<1> HIDE DEF lh, e
<1>4. /\ lg[s].ver <= row.ver
      /\ lg[s].ver = row.ver => row = lg[s]
  BY <1>3
<1>5. ASSUME NEW t \in DOMAIN lg
      PROVE  /\ t \in DOMAIN lh /\ lh[t].kind = lg[t].kind /\ lg[t].ver <= lh[t].ver
             /\ lg[t].status \in Settled => lh[t].status \in Settled
             /\ lg[t].ver = lh[t].ver => lh[t] = lg[t]
  <2>1. CASE t = s
    BY <1>1, <1>4, <2>1
  <2>2. CASE t # s
    BY <1>1, <1>3, <2>2
  <2> QED BY <2>1, <2>2
<1>6. Copied(lg, lh)
  BY <1>5 DEF Copied
<1>7. ASSUME NEW t \in DOMAIN lh
      PROVE  /\ lh[t].status = "streaming" <=> t \in DOMAIN bc
             /\ lh[t].kind \in {"human", "system"} =>
                  /\ lh[t].status \in Settled
                  /\ lh[t].mark \in {"edited", "deleted"} \/ (lh[t].mark = "none" /\ lh[t].ver = 0)
             /\ t \in DOMAIN bc /\ lh[t].kind # "prose" =>
                  /\ lh[t].text = bc[t].text
                  /\ \A i \in DOMAIN bc[t].update : bc[t].update[i].text = lh[t].text
  <2>1. CASE t = s
    BY <1>1, <2>1 DEF Settled
  <2>2. CASE t # s
    <3>1. lh[t] = lg[t] /\ t \in DOMAIN lg /\ (t \in DOMAIN bc <=> t \in DOMAIN ac)
      BY <1>1, <2>2
    <3> QED BY <3>1 DEF Plain
  <2> QED BY <2>1, <2>2
<1>8. Plain(lh, bc)
  BY <1>7 DEF Plain
<1>9. Copy(lh, s, row) /\ Typed(e) /\ e.row.ver = lh[s].ver
  BY <1>1, <1>2, <1>8, OwnCopy DEF Typed
<1>10. ASSUME NEW t \in DOMAIN lg
       PROVE  Brings(lh, e, t) \/ Waits(bc, t) \/ (lh[t].ver = lg[t].ver /\ ~Waits(ac, t))
  <2>1. CASE t = s
    BY <1>2, <1>9, <2>1 DEF Brings, RowTypes
  <2>2. CASE t # s
    BY <1>1, <2>2 DEF Waits
  <2> QED BY <2>1, <2>2
<1>11. Len(lg) <= Len(lh) /\ \A n \in (Len(lg) + 1)..Len(lh) : FALSE
  BY <1>1
<1>12. \A t \in DOMAIN bc : t \in DOMAIN ac /\ bc[t].deltaIndex = ac[t].deltaIndex
  OBVIOUS
<1>13. s \in DOMAIN lh
  BY <1>1
<1>14. Tells(lg, ac, lh, bc, e)
  BY <1>2, <1>6, <1>8, <1>9, <1>10, <1>11, <1>12, <1>13 DEF Tells
<1> QED BY <1>14 DEF lh, e

\* A step of one open stream. Its row may change, but not settle, and its text
\* changes without a new version only if it is prose.
LEMMA TellsStream ==
  ASSUME NEW lg \in Seq(Row), NEW ac, Streams(lg, ac), Plain(lg, ac),
         NEW s \in DOMAIN ac, NEW row \in Row, row.kind = lg[s].kind, row.status = lg[s].status,
         row = lg[s] \/ lg[s].ver < row.ver \/ (row.kind = "prose" /\ row.ver = lg[s].ver),
         NEW a,
         row.kind # "prose" =>
           row.text = a.text /\ \A i \in DOMAIN a.update : a.update[i].text = row.text,
         NEW e \in Event,
         \/ e.type \in {"delta", "close"}
         \/ /\ e.type = "updated" /\ e.seq = s /\ Same(e.row, row)
            /\ row.kind # "prose" => e.row.text = row.text,
         \/ a.update # <<>> \/ e.type = "updated"
         \/ row.ver = lg[s].ver /\ ac[s].update = <<>>,
         \/ a.deltaIndex = ac[s].deltaIndex
         \/ /\ a.deltaIndex = ac[s].deltaIndex + 1
            /\ e.type = "delta" /\ e.seq = s /\ e.index = a.deltaIndex
  PROVE  Tells(lg, ac, [lg EXCEPT ![s] = row], [ac EXCEPT ![s] = a], e)
<1> DEFINE lh == [lg EXCEPT ![s] = row]
           bc == [ac EXCEPT ![s] = a]
<1>1. /\ DOMAIN ac \subseteq DOMAIN lg /\ lg[s].kind \in {"prose", "card"}
      /\ ac = [t \in DOMAIN ac |-> ac[t]]
  BY DEF Streams, Stream
<1>2. /\ lh \in Seq(Row) /\ DOMAIN lh = DOMAIN lg /\ Len(lh) = Len(lg) /\ Len(lg) \in Nat
      /\ lh[s] = row /\ \A t \in DOMAIN lg : t # s => lh[t] = lg[t]
      /\ \A t \in DOMAIN lg : lg[t] \in Row
  BY <1>1
<1>3. /\ \A t \in DOMAIN lg : lg[t].ver \in Nat
      /\ row.ver \in Nat
  BY <1>2, RowFields
<1>4. DOMAIN bc = DOMAIN ac /\ bc[s] = a /\ \A t \in DOMAIN ac : t # s => bc[t] = ac[t]
  BY <1>1
<1> HIDE DEF lh, bc
<1>5. lg[s].status = "streaming" /\ s \in DOMAIN lg
  BY <1>1 DEF Plain
<1>6. ASSUME NEW t \in DOMAIN lg
      PROVE  /\ t \in DOMAIN lh /\ lh[t].kind = lg[t].kind /\ lg[t].ver <= lh[t].ver
             /\ lg[t].status \in Settled => lh[t].status \in Settled
             /\ lg[t].ver = lh[t].ver /\ ~OpenProse(lh[t]) => lh[t].text = lg[t].text /\ ~OpenProse(lg[t])
  <2>1. CASE t = s
    <3>1. lg[s].ver <= row.ver
      BY <1>3, <1>5
    <3>2. lg[s].ver = row.ver => row = lg[s] \/ row.kind = "prose"
      BY <1>3, <1>5
    <3> QED BY <1>2, <1>5, <2>1, <3>1, <3>2 DEF OpenProse
  <2>2. CASE t # s
    BY <1>2, <1>3, <2>2
  <2> QED BY <2>1, <2>2
<1>7. Copied(lg, lh)
  BY <1>6 DEF Copied
<1>8. ASSUME NEW t \in DOMAIN lh
      PROVE  /\ lh[t].status = "streaming" <=> t \in DOMAIN bc
             /\ lh[t].kind \in {"human", "system"} =>
                  /\ lh[t].status \in Settled
                  /\ lh[t].mark \in {"edited", "deleted"} \/ (lh[t].mark = "none" /\ lh[t].ver = 0)
             /\ t \in DOMAIN bc /\ lh[t].kind # "prose" =>
                  /\ lh[t].text = bc[t].text
                  /\ \A i \in DOMAIN bc[t].update : bc[t].update[i].text = lh[t].text
  <2>1. CASE t = s
    BY <1>1, <1>2, <1>4, <1>5, <2>1
  <2>2. CASE t # s
    <3>1. lh[t] = lg[t] /\ t \in DOMAIN lg /\ (t \in DOMAIN bc <=> t \in DOMAIN ac)
      BY <1>2, <1>4, <2>2
    <3>2. t \in DOMAIN bc => bc[t] = ac[t]
      BY <1>4, <2>2
    <3> QED BY <3>1, <3>2 DEF Plain
  <2> QED BY <2>1, <2>2
<1>9. Plain(lh, bc)
  BY <1>8 DEF Plain
<1>10. /\ Typed(e) /\ e.type \notin {"snapshot", "resync", "created"}
       /\ e.type \in RowTypes =>
            e.type = "updated" /\ e.seq \in DOMAIN lh /\ e.row.ver = lh[e.seq].ver /\ Copy(lh, e.seq, e.row)
  <2>1. CASE e.type \in {"delta", "close"}
    BY <2>1 DEF Typed, RowTypes
  <2>2. CASE /\ e.type = "updated" /\ e.seq = s /\ Same(e.row, row)
             /\ row.kind # "prose" => e.row.text = row.text
    <3>1. /\ e.row.kind = row.kind /\ e.row.status = row.status /\ e.row.ver = row.ver
          /\ row.status = "streaming"
      BY <1>5, <2>2 DEF Same
    <3>2. Copy(lh, s, row)
      BY <1>1, <1>2, <1>5, <1>9, OwnCopy
    <3>3. Copy(lh, s, e.row)
      BY <1>2, <1>5, <2>2, <3>1, <3>2 DEF Copy, OpenProse
    <3> QED BY <1>1, <1>2, <1>5, <2>2, <3>1, <3>3 DEF Typed
  <2> QED BY <2>1, <2>2
<1>11. ASSUME NEW t \in DOMAIN lg
       PROVE  Brings(lh, e, t) \/ Waits(bc, t) \/ (lh[t].ver = lg[t].ver /\ ~Waits(ac, t))
  <2>1. CASE t = s
    <3>1. CASE e.type = "updated"
      BY <1>10, <2>1, <3>1 DEF Brings, RowTypes
    <3>2. CASE a.update # <<>>
      BY <1>4, <2>1, <3>2 DEF Waits
    <3>3. CASE row.ver = lg[s].ver /\ ac[s].update = <<>>
      BY <1>2, <2>1, <3>3 DEF Waits
    <3> QED BY <3>1, <3>2, <3>3
  <2>2. CASE t # s
    BY <1>2, <1>4, <2>2 DEF Waits
  <2> QED BY <2>1, <2>2
<1>12. Len(lg) <= Len(lh) /\ \A n \in (Len(lg) + 1)..Len(lh) : FALSE
  BY <1>2
<1>13. ASSUME NEW t \in DOMAIN bc
       PROVE  \/ t \in DOMAIN ac /\ bc[t].deltaIndex = ac[t].deltaIndex
              \/ /\ t \in DOMAIN ac /\ bc[t].deltaIndex = ac[t].deltaIndex + 1
                 /\ e.type = "delta" /\ e.seq = t /\ e.index = bc[t].deltaIndex
  BY <1>4
<1>14. Tells(lg, ac, lh, bc, e)
  BY <1>7, <1>9, <1>10, <1>11, <1>12, <1>13 DEF Tells
<1> QED BY <1>14 DEF lh, bc

\* What a step of the server does: it sends the event that tells of it, or there
\* is nothing to tell.
Told(e) ==
  /\ client' = client /\ Tells(log, acc, log', acc', e)
  /\ \/ Broadcast(e) /\ e.type # "close"
     \/ UNCHANGED wire /\ e.type = "close"

LEMMA RowToldIs ==
  ASSUME NEW type \in RowTypes, NEW s, NEW row, Broadcast(RowEvent(type, s, row)), BrowserUnchanged,
         Tells(log, acc, log', acc', RowEvent(type, s, row)), s \in Nat, row \in Row
  PROVE  \E e \in Event : Told(e)
<1>1. RowEvent(type, s, row) \in Event /\ RowEvent(type, s, row).type # "close"
  BY RowEventIs DEF RowEvent, RowTypes
<1> QED BY <1>1 DEF Told, BrowserUnchanged

LEMMA ToldPost ==
  ASSUME SyncInv, CopyInv, Post
  PROVE  \E e \in Event : Told(e)
<1> DEFINE row == NewRow("human", "complete", <<>>)
           s == Len(log) + 1
<1>1. log \in Seq(Row) /\ Streams(log, acc) /\ Plain(log, acc)
  BY DEF SyncInv, CopyInv
<1>2. row \in Row /\ row.kind = "human" /\ row.status = "complete" /\ row.ver = 0 /\ row.mark = "none"
  <2>1. "human" \in Kinds /\ "complete" \in Settled \cup {"streaming"} /\ <<>> \in Seq(Nat)
    BY DEF Kinds, Settled
  <2>2. row \in Row
    BY <2>1, NewRowIs
  <2> QED BY <2>2 DEF NewRow
<1>3. /\ log' = Append(log, row) /\ Broadcast(RowEvent("created", s, row))
      /\ acc' = acc /\ BrowserUnchanged
  BY DEF Post
<1> HIDE DEF row
<1>4. row.status \in Settled
  BY <1>2 DEF Settled
<1>5. Tells(log, acc, Append(log, row), acc, RowEvent("created", s, row))
  BY <1>1, <1>2, <1>4, TellsNew
<1>6. s \in Nat /\ "created" \in RowTypes
  BY <1>1 DEF RowTypes
<1> HIDE DEF s
<1>7. Tells(log, acc, log', acc', RowEvent("created", s, row))
  BY <1>3, <1>5
<1> QED BY <1>2, <1>3, <1>6, <1>7, RowToldIs

LEMMA ToldBegin ==
  ASSUME SyncInv, CopyInv, NEW kind \in StreamKinds, NEW text \in {<<>>, << 1 >>},
         BeginStream(kind, text)
  PROVE  \E e \in Event : Told(e)
<1> DEFINE row == NewRow(kind, "streaming", text)
           s == Len(log) + 1
           a == [text |-> text, pending |-> <<>>, deltaIndex |-> -1, update |-> <<>>]
<1>1. log \in Seq(Row) /\ Streams(log, acc) /\ Plain(log, acc)
  BY DEF SyncInv, CopyInv
<1>2. kind \in {"prose", "card"} /\ kind \in Kinds /\ text \in Seq(Nat)
  <2>1. kind \in {"prose", "card"}
    BY SyncLimits
  <2>2. <<>> \in Seq(Nat) /\ << 1 >> \in Seq(Nat)
    OBVIOUS
  <2>3. text \in Seq(Nat)
    BY <2>2
  <2> QED BY <2>1, <2>3 DEF Kinds
<1>3. /\ row \in Row /\ row.kind = kind /\ row.status = "streaming" /\ row.ver = 0
      /\ row.mark = "none" /\ row.text = text
  BY <1>2, NewRowIs DEF NewRow
<1>4. /\ log' = Append(log, row) /\ Broadcast(RowEvent("created", s, row))
      /\ acc' = Put(acc, s, a) /\ BrowserUnchanged
  BY DEF BeginStream
<1>5. a.text = text /\ a.deltaIndex = -1 /\ a.update = <<>>
  OBVIOUS
<1> HIDE DEF row, a
<1>6. \/ acc' = acc /\ row.status \in Settled
      \/ \E b : /\ acc' = Put(acc, s, b) /\ row.status = "streaming"
                /\ b.deltaIndex = -1 /\ b.update = <<>> /\ row.text = b.text
  BY <1>3, <1>4, <1>5
<1>7. Tells(log, acc, Append(log, row), acc', RowEvent("created", s, row))
  BY <1>1, <1>2, <1>3, <1>6, TellsNew
<1>8. s \in Nat /\ "created" \in RowTypes
  BY <1>1 DEF RowTypes
<1> HIDE DEF s
<1>9. Tells(log, acc, log', acc', RowEvent("created", s, row))
  BY <1>4, <1>7
<1> QED BY <1>3, <1>4, <1>8, <1>9, RowToldIs

\* The streams without one of them.
LEMMA Without ==
  ASSUME NEW ac, NEW s, NEW bc, bc = Restrict(ac, DOMAIN ac \ {s})
  PROVE  /\ s \notin DOMAIN bc /\ DOMAIN bc \subseteq DOMAIN ac
         /\ DOMAIN ac \subseteq DOMAIN bc \cup {s} /\ \A t \in DOMAIN bc : bc[t] = ac[t]
BY DEF Restrict

LEMMA ToldRevised ==
  ASSUME SyncInv, CopyInv, NEW s \in DOMAIN log, NEW row \in Row, row.kind = log[s].kind,
         row.status \in Settled, row.kind \in {"human", "system"} => row.mark \in {"edited", "deleted"},
         log[s].ver < row.ver \/ row = log[s], log' = [log EXCEPT ![s] = row],
         acc' = Restrict(acc, DOMAIN acc \ {s}) \/ (acc' = acc /\ s \notin DOMAIN acc),
         NEW type \in {"completed", "edited", "deleted"}, type # "completed" => row.kind = "human",
         Broadcast(RowEvent(type, s, row)), BrowserUnchanged
  PROVE  \E e \in Event : Told(e)
<1>1. log \in Seq(Row) /\ Streams(log, acc) /\ Plain(log, acc) /\ DOMAIN acc \subseteq DOMAIN log
  BY DEF SyncInv, CopyInv, Streams, Stream
<1>2. /\ s \notin DOMAIN acc' /\ DOMAIN acc' \subseteq DOMAIN acc
      /\ DOMAIN acc \subseteq DOMAIN acc' \cup {s} /\ \A t \in DOMAIN acc' : acc'[t] = acc[t]
  BY Without
<1>3. s \in Nat /\ type \in RowTypes
  BY <1>1 DEF RowTypes
<1>4. PICK bc : bc = acc'
  OBVIOUS
<1>5. Tells(log, acc, [log EXCEPT ![s] = row], bc, RowEvent(type, s, row))
  BY <1>1, <1>2, <1>4, TellsRevised
<1>6. Tells(log, acc, log', acc', RowEvent(type, s, row))
  BY <1>4, <1>5
<1> QED BY <1>3, <1>6, RowToldIs

LEMMA ToldFinalize ==
  ASSUME SyncInv, CopyInv, NEW s \in DOMAIN acc, NEW status \in Settled,
         NEW mark \in {"none", "provisional", "explicit"}, Finalize(s, status, mark)
  PROVE  \E e \in Event : Told(e)
<1> DEFINE row == [log[s] EXCEPT !.text = acc[s].text, !.status = status,
                                 !.ver = @ + 1, !.mark = mark]
<1>1. /\ log' = [log EXCEPT ![s] = row] /\ acc' = Restrict(acc, DOMAIN acc \ {s})
      /\ Broadcast(RowEvent("completed", s, row)) /\ BrowserUnchanged
  BY DEF Finalize
<1>2. /\ s \in DOMAIN log /\ log[s] \in Row /\ acc[s].text \in Seq(Nat)
      /\ log[s].kind \in {"prose", "card"}
  BY OpenRow
<1>3. row \in Row /\ row.kind = log[s].kind /\ log[s].ver < row.ver
  <2>1. status \in Settled \cup {"streaming"} /\ mark \in Marks
    BY DEF Marks
  <2> QED BY <1>2, <2>1, RevisedOK
<1>4. row.status = status
  BY <1>2 DEF Row
<1> HIDE DEF row
<1>5. /\ row.kind \in {"human", "system"} => row.mark \in {"edited", "deleted"}
      /\ "completed" \in {"completed", "edited", "deleted"}
  BY <1>2, <1>3
<1> QED BY <1>1, <1>2, <1>3, <1>4, <1>5, ToldRevised

LEMMA ToldResolve ==
  ASSUME SyncInv, CopyInv, NEW s, NEW status \in Settled, ResolveProvisional(s, status)
  PROVE  \E e \in Event : Told(e)
<1> DEFINE row == [log[s] EXCEPT !.status = status, !.mark = "explicit", !.ver = @ + 1]
<1>1. /\ s \in DOMAIN log /\ log[s].mark = "provisional" /\ log' = [log EXCEPT ![s] = row]
      /\ acc' = Restrict(acc, DOMAIN acc \ {s})
      /\ Broadcast(RowEvent("completed", s, row)) /\ BrowserUnchanged
  BY DEF ResolveProvisional
<1>2. log[s] \in Row /\ log[s].kind \notin {"human", "system"}
  BY <1>1 DEF SyncInv, CopyInv, Plain
<1>3. row \in Row /\ row.kind = log[s].kind /\ log[s].ver < row.ver
  <2>1. status \in Settled \cup {"streaming"} /\ "explicit" \in Marks
    BY DEF Marks
  <2> QED BY <1>2, <2>1, RevisedRow
<1>4. row.status = status
  BY <1>2 DEF Row
<1> HIDE DEF row
<1>5. /\ row.kind \in {"human", "system"} => row.mark \in {"edited", "deleted"}
      /\ "completed" \in {"completed", "edited", "deleted"}
  BY <1>2, <1>3
<1> QED BY <1>1, <1>3, <1>4, <1>5, ToldRevised

LEMMA ToldEdit ==
  ASSUME SyncInv, CopyInv, NEW s, EditMessage(s)
  PROVE  \E e \in Event : Told(e)
<1> DEFINE row == [log[s] EXCEPT !.ver = @ + 1, !.mark = "edited"]
<1>1. /\ s \in DOMAIN log /\ log[s].kind = "human" /\ log' = [log EXCEPT ![s] = row]
      /\ acc' = acc /\ Broadcast(RowEvent("edited", s, row)) /\ BrowserUnchanged
  BY DEF EditMessage
<1>2. log[s] \in Row /\ log[s].status \in Settled /\ s \notin DOMAIN acc
  BY <1>1, HumanAlone DEF SyncInv, CopyInv, Plain
<1>3. /\ row \in Row /\ row.kind = log[s].kind /\ log[s].ver < row.ver
      /\ row.status = log[s].status /\ row.mark = "edited"
  <2>1. log[s].ver \in Nat
    BY <1>2, RowFields
  <2>2. log[s].ver + 1 \in Nat /\ log[s].ver < log[s].ver + 1
    BY <2>1
  <2> QED BY <1>2, <2>2 DEF Row, Marks
<1> HIDE DEF row
<1>4. "edited" \in {"completed", "edited", "deleted"}
  OBVIOUS
<1> QED BY <1>1, <1>2, <1>3, <1>4, ToldRevised

LEMMA ToldDelete ==
  ASSUME SyncInv, CopyInv, NEW s, DeleteMessage(s)
  PROVE  \E e \in Event : Told(e)
<1> DEFINE new == [log[s] EXCEPT !.ver = @ + 1, !.mark = "deleted"]
           row == IF log[s].mark = "deleted" THEN log[s] ELSE new
<1>1. /\ s \in DOMAIN log /\ log[s].kind = "human" /\ log' = [log EXCEPT ![s] = row]
      /\ acc' = Restrict(acc, DOMAIN acc \ {s})
      /\ Broadcast(RowEvent("deleted", s, row)) /\ BrowserUnchanged
  BY DEF DeleteMessage
<1>2. log[s] \in Row /\ log[s].status \in Settled
  BY <1>1 DEF SyncInv, CopyInv, Plain
<1>3. /\ new \in Row /\ new.kind = log[s].kind /\ log[s].ver < new.ver
      /\ new.status = log[s].status /\ new.mark = "deleted"
  <2>1. log[s].ver \in Nat
    BY <1>2, RowFields
  <2>2. log[s].ver + 1 \in Nat /\ log[s].ver < log[s].ver + 1
    BY <2>1
  <2> QED BY <1>2, <2>2 DEF Row, Marks
<1>4. /\ row \in Row /\ row.kind = log[s].kind /\ (log[s].ver < row.ver \/ row = log[s])
      /\ row.status = log[s].status /\ row.mark = "deleted"
  <2> HIDE DEF new
  <2> QED BY <1>2, <1>3
<1> HIDE DEF row
<1>5. "deleted" \in {"completed", "edited", "deleted"}
  OBVIOUS
<1> QED BY <1>1, <1>2, <1>4, <1>5, ToldRevised

\* The step of one stream, with its event if it has one.
LEMMA ToldStream ==
  ASSUME SyncInv, CopyInv, NEW s \in DOMAIN acc, NEW row \in Row, row.kind = log[s].kind,
         row.status = log[s].status,
         row = log[s] \/ log[s].ver < row.ver \/ (row.kind = "prose" /\ row.ver = log[s].ver),
         NEW a,
         row.kind # "prose" =>
           row.text = a.text /\ \A i \in DOMAIN a.update : a.update[i].text = row.text,
         NEW e \in Event,
         \/ e.type \in {"delta", "close"}
         \/ /\ e.type = "updated" /\ e.seq = s /\ Same(e.row, row)
            /\ row.kind # "prose" => e.row.text = row.text,
         \/ a.update # <<>> \/ e.type = "updated"
         \/ row.ver = log[s].ver /\ acc[s].update = <<>>,
         \/ a.deltaIndex = acc[s].deltaIndex
         \/ /\ a.deltaIndex = acc[s].deltaIndex + 1
            /\ e.type = "delta" /\ e.seq = s /\ e.index = a.deltaIndex,
         log' = [log EXCEPT ![s] = row], acc' = [acc EXCEPT ![s] = a], BrowserUnchanged,
         IF e.type = "close" THEN UNCHANGED wire ELSE Broadcast(e)
  PROVE  \E f \in Event : Told(f)
<1>1. log \in Seq(Row) /\ Streams(log, acc) /\ Plain(log, acc)
  BY DEF SyncInv, CopyInv
<1>2. Tells(log, acc, [log EXCEPT ![s] = row], [acc EXCEPT ![s] = a], e)
  BY <1>1, TellsStream
<1>3. Tells(log, acc, log', acc', e)
  BY <1>2
<1> QED BY <1>3 DEF Told, BrowserUnchanged

\* What a stream's row and text are before its step.
LEMMA StreamIs ==
  ASSUME SyncInv, CopyInv, NEW s \in DOMAIN acc
  PROVE  /\ log[s].status = "streaming"
         /\ log[s].kind # "prose" =>
              /\ log[s].text = acc[s].text
              /\ \A i \in DOMAIN acc[s].update : acc[s].update[i].text = log[s].text
         /\ log = [log EXCEPT ![s] = log[s]]
<1>1. s \in DOMAIN log /\ log \in Seq(Row)
  BY OpenRow
<1> QED BY <1>1 DEF CopyInv, Plain

LEMMA ToldAppendDelta ==
  ASSUME SyncInv, CopyInv, NEW s, AppendDelta(s)
  PROVE  \E e \in Event : Told(e)
<1> DEFINE chunk == Len(acc[s].text) + 1
           a == [acc[s] EXCEPT !.text = Append(@, chunk), !.pending = Append(@, chunk)]
<1>1. s \in DOMAIN acc /\ log[s].kind = "prose"
  BY DEF AppendDelta
<1>2. CASE chunk <= BodyMaxChunks
  <2>1. acc' = [acc EXCEPT ![s] = a] /\ log' = log /\ UNCHANGED wire /\ BrowserUnchanged
    BY <1>1, <1>2 DEF AppendDelta
  <2>2. acc[s] \in Accumulator /\ log[s] \in Row
    BY <1>1, OpenRow
  <2>3. a.update = acc[s].update /\ a.deltaIndex = acc[s].deltaIndex
    BY <2>2 DEF Accumulator
  <2> HIDE DEF a
  <2>4. log = [log EXCEPT ![s] = log[s]]
    BY <1>1, StreamIs
  <2>5. CloseEvent \in Event /\ CloseEvent.type = "close"
    BY Empties DEF CloseEvent
  <2>6. a.update # <<>> \/ (log[s].ver = log[s].ver /\ acc[s].update = <<>>)
    BY <2>3
  <2>7. log' = [log EXCEPT ![s] = log[s]]
    BY <2>1, <2>4
  <2> QED BY <1>1, <2>1, <2>2, <2>3, <2>5, <2>6, <2>7, ToldStream
<1>3. CASE ~(chunk <= BodyMaxChunks)
  <2>1. Finalize(s, "truncated", "none")
    BY <1>3 DEF AppendDelta
  <2>2. "truncated" \in Settled /\ "none" \in {"none", "provisional", "explicit"}
    BY DEF Settled
  <2> QED BY <1>1, <2>1, <2>2, ToldFinalize
<1> QED BY <1>2, <1>3

LEMMA ToldFlushAccumulator ==
  ASSUME SyncInv, CopyInv, NEW s, FlushAccumulator(s)
  PROVE  \E e \in Event : Told(e)
<1> DEFINE a == [acc[s] EXCEPT !.deltaIndex = @ + 1, !.pending = <<>>]
           e == DeltaEvent(s, acc[s].deltaIndex + 1, acc[s].pending)
<1>1. /\ s \in DOMAIN acc /\ acc' = [acc EXCEPT ![s] = a] /\ log' = log
      /\ Broadcast(e) /\ BrowserUnchanged
  BY DEF FlushAccumulator
<1>2. /\ acc[s] \in Accumulator /\ log[s] \in Row /\ s \in Nat
      /\ acc[s].deltaIndex \in Int /\ acc[s].pending \in Seq(Nat)
  BY <1>1, OpenRow
<1>3. a.update = acc[s].update /\ a.deltaIndex = acc[s].deltaIndex + 1 /\ a.text = acc[s].text
  BY <1>2 DEF Accumulator
<1>4. acc[s].deltaIndex + 1 \in Int
  BY <1>2
<1>5. e \in Event
  BY <1>2, <1>4, DeltaEventIs
<1>6. e.type = "delta" /\ e.seq = s /\ e.index = acc[s].deltaIndex + 1
  BY DEF DeltaEvent
<1> HIDE DEF a, e
<1>7. log' = [log EXCEPT ![s] = log[s]]
  BY <1>1, StreamIs
<1>8. log[s].kind # "prose" =>
        log[s].text = a.text /\ \A i \in DOMAIN a.update : a.update[i].text = log[s].text
  BY <1>1, <1>3, StreamIs
<1>9. a.update # <<>> \/ (log[s].ver = log[s].ver /\ acc[s].update = <<>>)
  BY <1>3
<1> QED BY <1>1, <1>2, <1>3, <1>5, <1>6, <1>7, <1>8, <1>9, ToldStream

LEMMA ToldFlushStreamText ==
  ASSUME SyncInv, CopyInv, NEW s, FlushStreamText(s)
  PROVE  \E e \in Event : Told(e)
<1> DEFINE row == [log[s] EXCEPT !.text = acc[s].text]
<1>1. /\ s \in DOMAIN acc /\ log[s].text # acc[s].text /\ log' = [log EXCEPT ![s] = row]
      /\ acc' = acc /\ UNCHANGED wire /\ BrowserUnchanged
  BY DEF FlushStreamText
<1>2. log[s] \in Row /\ acc[s].text \in Seq(Nat)
  BY <1>1, OpenRow
<1>3. row \in Row /\ Same(log[s], row)
  BY <1>2, RetextOK
<1> HIDE DEF row
<1>4. row.kind = log[s].kind /\ row.status = log[s].status /\ row.ver = log[s].ver
  BY <1>3 DEF Same
<1>5. row.kind = "prose"
  BY <1>1, <1>4, StreamIs
<1>6. CloseEvent \in Event /\ CloseEvent.type = "close"
  BY Empties DEF CloseEvent
<1>7. acc' = [acc EXCEPT ![s] = acc[s]]
  <2>1. acc = [t \in DOMAIN acc |-> acc[t]]
    BY DEF SyncInv, Streams
  <2> QED BY <1>1, <2>1
<1>8. acc[s].update # <<>> \/ (row.ver = log[s].ver /\ acc[s].update = <<>>)
  BY <1>4
<1> QED BY <1>1, <1>3, <1>4, <1>5, <1>6, <1>7, <1>8, ToldStream

LEMMA ToldUpdateDetail ==
  ASSUME SyncInv, CopyInv, NEW s, UpdateAgentDetail(s)
  PROVE  \E e \in Event : Told(e)
<1> DEFINE row == [log[s] EXCEPT !.ver = @ + 1]
           a == [acc[s] EXCEPT !.update = <<log'[s]>>]
<1>1. /\ s \in DOMAIN acc /\ log[s].kind = "card" /\ log' = [log EXCEPT ![s] = row]
      /\ acc' = [acc EXCEPT ![s] = a] /\ UNCHANGED wire /\ BrowserUnchanged
  BY DEF UpdateAgentDetail
<1>2. log[s] \in Row /\ acc[s] \in Accumulator /\ s \in DOMAIN log /\ log \in Seq(Row)
  BY <1>1, OpenRow
<1>3. /\ row \in Row /\ row.kind = log[s].kind /\ row.status = log[s].status
      /\ row.text = log[s].text /\ log[s].ver < row.ver
  <2>1. log[s].ver \in Nat
    BY <1>2, RowFields
  <2>2. log[s].ver + 1 \in Nat /\ log[s].ver < log[s].ver + 1
    BY <2>1
  <2> QED BY <1>2, <2>2 DEF Row
<1>4. log'[s] = row
  BY <1>1, <1>2
<1>5. a.update = <<row>> /\ a.deltaIndex = acc[s].deltaIndex /\ a.text = acc[s].text
  BY <1>2, <1>4 DEF Accumulator
<1> HIDE DEF row, a
<1>6. a.update # <<>> /\ \A i \in DOMAIN a.update : a.update[i].text = row.text
  BY <1>5
<1>7. row.text = a.text
  BY <1>1, <1>3, <1>5, StreamIs
<1>8. CloseEvent \in Event /\ CloseEvent.type = "close"
  BY Empties DEF CloseEvent
<1> QED BY <1>1, <1>3, <1>5, <1>6, <1>7, <1>8, ToldStream

LEMMA ToldFlushUpdate ==
  ASSUME SyncInv, CopyInv, NEW s, FlushRowUpdate(s)
  PROVE  \E e \in Event : Told(e)
<1> DEFINE a == [acc[s] EXCEPT !.update = <<>>]
           row == Head(acc[s].update)
           e == RowEvent("updated", s, row)
<1>1. /\ s \in DOMAIN acc /\ acc' = [acc EXCEPT ![s] = a] /\ log' = log
      /\ acc[s].update # <<>> /\ Broadcast(e) /\ BrowserUnchanged
  BY DEF FlushRowUpdate
<1>2. /\ acc[s] \in Accumulator /\ log[s] \in Row /\ s \in Nat /\ acc[s].update \in Seq(Row)
      /\ Stream(log, s, acc[s]) /\ log[s].kind \in {"prose", "card"}
  BY <1>1, OpenRow
<1>3. a.update = <<>> /\ a.deltaIndex = acc[s].deltaIndex /\ a.text = acc[s].text
  BY <1>2 DEF Accumulator
<1>4. row = acc[s].update[1] /\ 1 \in DOMAIN acc[s].update /\ row \in Row
  BY <1>1, <1>2
<1>5. Same(row, log[s])
  BY <1>2, <1>4 DEF Stream
<1>6. e \in Event /\ e.type = "updated" /\ e.seq = s /\ e.row = row
  BY <1>2, <1>4, RowEventIs DEF RowEvent, RowTypes
<1> HIDE DEF a, e, row
<1>7. /\ log' = [log EXCEPT ![s] = log[s]]
      /\ log[s].kind # "prose" => log[s].text = acc[s].text /\ row.text = log[s].text
  BY <1>1, <1>4, StreamIs
<1>8. \A i \in DOMAIN a.update : a.update[i].text = log[s].text
  BY <1>3
<1> QED BY <1>1, <1>2, <1>3, <1>5, <1>6, <1>7, <1>8, ToldStream

LEMMA ToldServes ==
  ASSUME SyncInv, CopyInv, ServerStep, ~Subscribe, ~CrashRestart
  PROVE  \E e \in Event : Told(e)
<1>1. ASSUME NEW s, NEW status \in Settled, NEW mark \in {"none", "provisional", "explicit"},
             FinalizeStream(s, status, mark)
      PROVE  \E e \in Event : Told(e)
  <2>1. s \in DOMAIN acc /\ Finalize(s, status, mark)
    BY <1>1 DEF FinalizeStream
  <2> QED BY <1>1, <2>1, ToldFinalize
<1> QED BY <1>1, ToldPost, ToldBegin, ToldResolve, ToldAppendDelta, ToldFlushAccumulator,
         ToldFlushStreamText, ToldUpdateDetail, ToldFlushUpdate, ToldEdit, ToldDelete
      DEF ServerStep

-----------------------------------------------------------------------------
(* Copies stay copies, and what is owed stays in the socket.               *)

\* What is shown stays, and what is in the socket was there or is a copy.
LEMMA CopyAdds ==
  ASSUME SyncInv, SyncInv', CopyInv, client' = client, Copied(log, log'), Plain(log', acc'),
         \A i \in DOMAIN net' : \/ i \in DOMAIN net /\ net'[i] = net[i]
                                \/ Copies(log', Carried(net'[i])) /\ Typed(net'[i])
  PROVE  CopyInv'
<1>1. log \in Seq(Row) /\ log' \in Seq(Row)
  BY DEF SyncInv
<1>2. Copies(log', Shown(client'.messages))
  <2>1. /\ Logged(log, Shown(client.messages)) /\ Copies(log, Shown(client.messages))
        /\ \A v \in Shown(client.messages) : v.row \in Row
    BY InvRows DEF SyncInv, CopyInv
  <2>2. Copies(log', Shown(client.messages))
    BY <1>1, <2>1, CopiesKept
  <2> QED BY <2>2
<1>3. ASSUME NEW i \in DOMAIN net'
      PROVE  Copies(log', Carried(net'[i])) /\ Typed(net'[i])
  <2>1. CASE i \in DOMAIN net /\ net'[i] = net[i]
    <3>1. /\ Logged(log, Carried(net[i])) /\ Copies(log, Carried(net[i])) /\ Typed(net[i])
          /\ \A v \in Carried(net[i]) : v.row \in Row
      BY <2>1, InvRows DEF SyncInv, CopyInv
    <3>2. Copies(log', Carried(net[i]))
      BY <1>1, <3>1, CopiesKept
    <3> QED BY <2>1, <3>1, <3>2
  <2> QED BY <1>3, <2>1
<1> QED BY <1>2, <1>3 DEF CopyInv

LEMMA CopyTold ==
  ASSUME SyncInv, SyncInv', CopyInv, NEW e \in Event, Told(e)
  PROVE  CopyInv'
<1>1. /\ client' = client /\ Tells(log, acc, log', acc', e)
      /\ net \in Seq(Event) /\ sub \in SubStates
  BY DEF Told, SyncInv
<1>2. Copied(log, log') /\ Plain(log', acc')
  BY <1>1 DEF Tells
<1>3. \A f \in {e, ResyncEvent, CloseEvent} : Copies(log', Carried(f)) /\ Typed(f)
  <2>1. Copies(log', Carried(e)) /\ Typed(e)
    <3>1. CASE e.type \in RowTypes
      <4>1. Carried(e) = {[seq |-> e.seq, row |-> e.row]} /\ Copy(log', e.seq, e.row)
        BY <1>1, <3>1, CarriedIs DEF Tells
      <4> QED BY <1>1, <4>1 DEF Tells, Copies
    <3>2. CASE e.type \in {"delta", "close"}
      BY <1>1, <3>2, CarriedIs DEF Tells, Copies
    <3> QED BY <1>1, <3>1, <3>2, EventIs DEF Tells
  <2>2. ResyncEvent.type = "resync" /\ CloseEvent.type = "close"
    BY DEF ResyncEvent, CloseEvent
  <2> QED BY <2>1, <2>2, Empties DEF Copies, Typed
<1>4. \A i \in DOMAIN net' : \/ i \in DOMAIN net /\ net'[i] = net[i]
                             \/ net'[i] \in {e, ResyncEvent, CloseEvent}
  <2>1. CASE Broadcast(e)
    BY <1>1, <2>1, Empties, BroadcastAdds
  <2>2. CASE UNCHANGED wire
    BY <2>2 DEF wire
  <2> QED BY <2>1, <2>2 DEF Told
<1> QED BY <1>1, <1>2, <1>3, <1>4, CopyAdds

\* A subscriber that stays live got the event, after what it had, or the request
\* to catch up.
LEMMA BroadcastLive ==
  ASSUME NEW e \in Event, net \in Seq(Event), sub \in SubStates, Broadcast(e), sub' = "live"
  PROVE  \/ \E i \in DOMAIN net' : net'[i].type = "resync"
         \/ sub = "live" /\ net' = Append(net, e)
<1>1. PICK b \in Buffered : sub' = SubAfter(sub, b, e) /\ net' = net \o SentBy(sub, b, e)
  BY DEF Broadcast
<1>2. sub # "none" /\ ~(b > HardLimit) /\ ~Suppressed(sub, b, e)
  BY <1>1 DEF SubAfter
<1> DEFINE first == IF Drained(sub, b) THEN <<ResyncEvent>> ELSE <<>>
           last == IF Suppressed(sub, b, e) THEN <<>> ELSE <<e>>
           sent == first \o last
<1>3. net' = net \o sent
  BY <1>1, <1>2 DEF SentBy
<1>4. /\ ResyncEvent \in Event /\ ResyncEvent.type = "resync"
      /\ last = <<e>> /\ last \in Seq(Event)
  BY <1>2, Empties DEF ResyncEvent
<1>5. CASE Drained(sub, b)
  <2>1. first \in Seq(Event) /\ Len(first) = 1 /\ first[1] = ResyncEvent
    BY <1>4, <1>5
  <2> HIDE DEF first, last
  <2>2. /\ sent \in Seq(Event) /\ Len(sent) = Len(first) + Len(last) /\ sent[1] = ResyncEvent
        /\ Len(last) \in Nat
    BY <1>4, <2>1, ConcatProperties
  <2> HIDE DEF sent
  <2>3. Len(net) + 1 \in DOMAIN net' /\ net'[Len(net) + 1] = ResyncEvent
    BY <1>3, <2>1, <2>2, ConcatProperties
  <2> QED BY <1>4, <2>3
<1>6. CASE ~Drained(sub, b)
  <2>1. sub = "live"
    BY <1>1, <1>2, <1>6 DEF SubAfter
  <2>2. first = <<>>
    BY <1>6
  <2> HIDE DEF first, last
  <2>3. sent = last
    BY <1>4, <2>2, ConcatEmptySeq
  <2> HIDE DEF sent
  <2>4. net' = net \o <<e>>
    BY <1>3, <1>4, <2>3
  <2>5. net' = Append(net, e)
    BY <2>4
  <2> QED BY <2>1, <2>5
<1> QED BY <1>5, <1>6

LEMMA QuietTold ==
  ASSUME SyncInv, SyncInv', ChunkInv, QuietInv, NEW e \in Event, Told(e)
  PROVE  QuietInv'
<1> SUFFICES ASSUME ~Warned'
             PROVE  Owes(Ahead', log', acc', net')
  BY DEF QuietInv
<1>1. /\ client' = client /\ Tells(log, acc, log', acc', e)
      /\ net \in Seq(Event) /\ sub \in SubStates /\ log \in Seq(Row) /\ log' \in Seq(Row)
  BY DEF Told, SyncInv
<1>2. /\ sub' = "live" /\ ~Ahead'.needsCatchup
      /\ \A i \in DOMAIN net' : net'[i].type # "resync"
  BY DEF Warned
<1>3. sub = "live" /\ (net' = Append(net, e) \/ (net' = net /\ e.type = "close"))
  <2>1. CASE Broadcast(e)
    BY <1>1, <1>2, <2>1, BroadcastLive
  <2>2. CASE UNCHANGED wire /\ e.type = "close"
    BY <1>2, <2>2 DEF wire
  <2> QED BY <2>1, <2>2 DEF Told
<1>4. \A i \in DOMAIN net : i \in DOMAIN net' /\ net'[i] = net[i]
  BY <1>1, <1>3
<1>5. Ahead' = Ahead
  <2>1. CASE net # <<>>
    <3>1. 1 \in DOMAIN net /\ net'[1] = net[1] /\ net' # <<>>
      BY <1>1, <1>3, <1>4, <2>1
    <3> QED BY <1>1, <2>1, <3>1 DEF Ahead
  <2>2. CASE net = <<>>
    <3>1. net' = <<>> \/ (net'[1] = e /\ e.type # "snapshot")
      BY <1>1, <1>3, <2>2 DEF Tells
    <3> QED BY <1>1, <2>2, <3>1 DEF Ahead
  <2> QED BY <2>1, <2>2
<1>6. Owes(Ahead, log, acc, net)
  BY <1>2, <1>3, <1>4, <1>5 DEF QuietInv, Warned
<1>7. /\ Ahead \in ReducerState /\ Logged(log, Shown(Ahead.messages))
      /\ \A s : ExpectedDelta(Ahead, s) \in Nat
  BY AheadIs, ExpectedIs DEF ChunkInv
<1>8. /\ DOMAIN acc \subseteq DOMAIN log /\ \A s \in DOMAIN acc : acc[s].deltaIndex \in Int
      /\ \A i \in DOMAIN net : Logged(log, Carried(net[i]))
      /\ net' \in Seq(Event)
  BY ChunkFacts DEF SyncInv
<1>9. Owes(Ahead, log', acc', net')
  BY <1>1, <1>3, <1>6, <1>7, <1>8, OwesMore
<1> QED BY <1>5, <1>9

-----------------------------------------------------------------------------
(* The browser takes what it is owed.                                      *)

\* What applying the next event brings, unless it finds a gap: a new row is the
\* event's, the row it brings is current, and an open stream goes past its delta.
Advances(c, d, e, lg, ac) ==
  /\ e.type # "resync" /\ ~c.needsCatchup
  /\ c.lastSeq <= d.lastSeq /\ (e.type = "created" => e.seq <= d.lastSeq)
  /\ \A s \in DOMAIN d.messages :
       \/ s \in DOMAIN c.messages /\ (Brings(lg, e, s) => d.messages[s].ver = lg[s].ver)
       \/ e.type = "created" /\ s = e.seq /\ d.messages[s] = e.row
  /\ \A s \in DOMAIN ac \ d.quarantined : s \in DOMAIN d.messages \/ s > d.lastSeq =>
       /\ s \notin c.quarantined /\ (s \in DOMAIN c.messages \/ s > c.lastSeq)
       /\ ExpectedDelta(c, s) <= ExpectedDelta(d, s)
       /\ e.type = "delta" /\ e.seq = s => e.index < ExpectedDelta(d, s)

LEMMA DueNext ==
  ASSUME NEW lg, NEW ac, NEW q \in Seq(Event), q # <<>>, NEW s, NEW ver, NEW i \in Nat,
         Due(lg, ac, q, s, ver, i), i = 0 => ~Brings(lg, q[1], s)
  PROVE  Due(lg, ac, Tail(q), s, ver, IF i = 0 THEN 0 ELSE i - 1)
<1>1. /\ Tail(q) \in Seq(Event) /\ Len(q) \in Nat \ {0} /\ DOMAIN q = 1..Len(q)
      /\ DOMAIN Tail(q) = 1..(Len(q) - 1) /\ \A j \in DOMAIN Tail(q) : Tail(q)[j] = q[j + 1]
  OBVIOUS
<1>2. CASE \E j \in DOMAIN q : j > i /\ Brings(lg, q[j], s)
  <2> PICK j \in DOMAIN q : j > i /\ Brings(lg, q[j], s)
    BY <1>2
  <2>1. j # 1 /\ j \in Nat
    BY <1>1
  <2>2. j - 1 \in DOMAIN Tail(q) /\ Tail(q)[j - 1] = q[j]
    BY <1>1, <2>1
  <2>3. j - 1 > IF i = 0 THEN 0 ELSE i - 1
    BY <2>1
  <2> QED BY <2>2, <2>3 DEF Due
<1> QED BY <1>2 DEF Due

LEMMA OwesLess ==
  ASSUME NEW lg \in Seq(Row), NEW ac, \A s \in DOMAIN ac : ac[s].deltaIndex \in Int,
         NEW c \in ReducerState, NEW d \in ReducerState, NEW q \in Seq(Event), q # <<>>,
         Owes(c, lg, ac, q), Advances(c, d, q[1], lg, ac),
         NotBack(c.messages, d.messages), Logged(lg, Shown(d.messages)),
         \A s : ExpectedDelta(c, s) \in Nat /\ ExpectedDelta(d, s) \in Nat
  PROVE  Owes(d, lg, ac, Tail(q))
<1>1. /\ Tail(q) \in Seq(Event) /\ Len(q) \in Nat \ {0} /\ DOMAIN q = 1..Len(q) /\ 1 \in DOMAIN q
      /\ DOMAIN Tail(q) = 1..(Len(q) - 1) /\ \A j \in DOMAIN Tail(q) : Tail(q)[j] = q[j + 1]
  OBVIOUS
<1>2. /\ \A i \in DOMAIN q : i # 1 => i - 1 \in DOMAIN Tail(q) /\ Tail(q)[i - 1] = q[i]
      /\ \A i \in DOMAIN Tail(q) : i \in Nat /\ i + 1 \in DOMAIN q /\ i + 1 \in Nat
                                   /\ i + 1 # 0 /\ (i + 1) - 1 = i
  BY <1>1
<1>3. c.lastSeq \in Nat /\ d.lastSeq \in Nat /\ c.lastSeq <= d.lastSeq /\ Len(lg) \in Nat
  BY ReducerFields DEF Advances
<1>4. ASSUME NEW n \in (d.lastSeq + 1)..Len(lg)
      PROVE  \E i \in DOMAIN Tail(q) : Tail(q)[i].type = "created" /\ Tail(q)[i].seq = n
  <2>1. n \in (c.lastSeq + 1)..Len(lg) /\ ~(n <= d.lastSeq)
    BY <1>3
  <2>2. PICK i \in DOMAIN q : q[i].type = "created" /\ q[i].seq = n
    BY <2>1 DEF Owes
  <2>3. i # 1
    BY <2>1, <2>2 DEF Advances
  <2> QED BY <1>2, <2>2, <2>3
<1>5. ASSUME NEW s \in DOMAIN d.messages
      PROVE  Due(lg, ac, Tail(q), s, d.messages[s].ver, 0)
  <2>1. CASE s \in DOMAIN c.messages /\ (Brings(lg, q[1], s) => d.messages[s].ver = lg[s].ver)
    <3>1. Due(lg, ac, q, s, c.messages[s].ver, 0)
      BY <2>1 DEF Owes
    <3>2. CASE Brings(lg, q[1], s)
      BY <2>1, <3>2 DEF Due
    <3>3. CASE ~Brings(lg, q[1], s)
      <4>1. Due(lg, ac, Tail(q), s, c.messages[s].ver, IF 0 = 0 THEN 0 ELSE 0 - 1)
        BY <3>1, <3>3, DueNext
      <4>2. /\ c.messages[s].ver <= d.messages[s].ver /\ d.messages[s].ver <= lg[s].ver
            /\ s \in DOMAIN lg
        <5>1. [seq |-> s, row |-> d.messages[s]] \in Shown(d.messages)
          BY DEF Shown
        <5> QED BY <2>1, <5>1 DEF NotBack, Logged, Version
      <4>3. c.messages[s].ver \in Nat /\ d.messages[s].ver \in Nat /\ lg[s].ver \in Nat
        BY <2>1, <4>2, ReducerFields, RowFields
      <4>4. c.messages[s].ver = lg[s].ver => d.messages[s].ver = lg[s].ver
        BY <4>2, <4>3
      <4> QED BY <4>1, <4>4 DEF Due
    <3> QED BY <3>2, <3>3
  <2>2. CASE q[1].type = "created" /\ s = q[1].seq /\ d.messages[s] = q[1].row
    <3>1. Due(lg, ac, q, s, d.messages[s].ver, 1)
      BY <1>1, <2>2 DEF Owes
    <3>2. Due(lg, ac, Tail(q), s, d.messages[s].ver, IF 1 = 0 THEN 0 ELSE 1 - 1)
      BY <3>1, DueNext
    <3> QED BY <3>2
  <2> QED BY <2>1, <2>2 DEF Advances
<1>6. ASSUME NEW i \in DOMAIN Tail(q), Tail(q)[i].type = "created"
      PROVE  Due(lg, ac, Tail(q), Tail(q)[i].seq, Tail(q)[i].row.ver, i)
  <2>1. Tail(q)[i] = q[i + 1] /\ i + 1 \in DOMAIN q /\ i + 1 \in Nat /\ i + 1 # 0 /\ (i + 1) - 1 = i
    BY <1>1, <1>2
  <2>2. Due(lg, ac, q, q[i + 1].seq, q[i + 1].row.ver, i + 1)
    BY <1>6, <2>1 DEF Owes
  <2>3. Due(lg, ac, Tail(q), q[i + 1].seq, q[i + 1].row.ver,
            IF i + 1 = 0 THEN 0 ELSE (i + 1) - 1)
    BY <2>1, <2>2, DueNext
  <2> QED BY <2>1, <2>3
<1>7. ASSUME NEW s \in DOMAIN ac \ d.quarantined, lg[s].kind = "prose",
             s \in DOMAIN d.messages \/ s > d.lastSeq,
             NEW k \in ExpectedDelta(d, s)..ac[s].deltaIndex
      PROVE  \E i \in DOMAIN Tail(q) :
               Tail(q)[i].type = "delta" /\ Tail(q)[i].seq = s /\ Tail(q)[i].index = k
  <2>1. /\ s \notin c.quarantined /\ (s \in DOMAIN c.messages \/ s > c.lastSeq)
        /\ ExpectedDelta(c, s) <= ExpectedDelta(d, s)
        /\ q[1].type = "delta" /\ q[1].seq = s => q[1].index < ExpectedDelta(d, s)
    BY <1>7 DEF Advances
  <2> DEFINE x == ExpectedDelta(c, s)
             y == ExpectedDelta(d, s)
  <2>2. x \in Nat /\ y \in Nat /\ x <= y /\ k \in y..ac[s].deltaIndex /\ ac[s].deltaIndex \in Int
    BY <2>1
  <2>3. q[1].type = "delta" /\ q[1].seq = s => q[1].index < y
    BY <2>1
  <2> HIDE DEF x, y
  <2>4. k \in x..ac[s].deltaIndex /\ ~(k < y)
    BY <2>2
  <2>5. PICK i \in DOMAIN q : q[i].type = "delta" /\ q[i].seq = s /\ q[i].index = k
    BY <1>7, <2>1, <2>4 DEF Owes, x
  <2>6. i # 1
    BY <2>3, <2>4, <2>5
  <2> QED BY <1>2, <2>5, <2>6
<1> QED BY <1>4, <1>5, <1>6, <1>7 DEF Owes

LEMMA AskAsks ==
  ASSUME NEW c \in ReducerState
  PROVE  AskCatchup(c).needsCatchup
BY DEF AskCatchup, ReducerState

\* A timeline and an event that are copies of the log's rows.
Meets(c, e, lg, ac) ==
  /\ lg \in Seq(Row) /\ DOMAIN ac \subseteq DOMAIN lg /\ Plain(lg, ac) /\ Typed(e)
  /\ \A s \in DOMAIN c.messages :
       Version(lg, s, c.messages[s]) /\ Copy(lg, s, c.messages[s]) /\ s <= c.lastSeq
  /\ e.type \in RowTypes => Version(lg, e.seq, e.row) /\ Copy(lg, e.seq, e.row)
  /\ \A s : ExpectedDelta(c, s) \in Nat

LEMMA AdvancesCreated ==
  ASSUME NEW c \in ReducerState, NEW e \in Event, e.type = "created", NEW lg, NEW ac,
         Meets(c, e, lg, ac), ~ApplyCreated(c, e).needsCatchup
  PROVE  Advances(c, ApplyCreated(c, e), e, lg, ac)
<1> DEFINE d == ApplyCreated(c, e)
<1>1. e.seq \in Nat /\ e.row \in Row /\ c.lastSeq \in Nat
  BY EventIs, ReducerFields DEF RowTypes
<1>2. \A s : ~Brings(lg, e, s)
  BY DEF Brings
<1>3. \A s : ExpectedDelta(c, s) \in Nat
  BY DEF Meets
<1>4. CASE e.seq \in DOMAIN c.messages \/ e.seq <= c.lastSeq
  <2>1. d = c
    BY <1>1, <1>4 DEF ApplyCreated
  <2>2. e.seq <= c.lastSeq
    BY <1>4 DEF Meets
  <2>3. ~c.needsCatchup
    BY <2>1
  <2> HIDE DEF d
  <2>4. \A s : ExpectedDelta(c, s) <= ExpectedDelta(d, s)
    BY <1>3, <2>1
  <2>5. c.lastSeq <= d.lastSeq
    BY <1>1, <2>1
  <2> QED BY <1>2, <2>1, <2>2, <2>3, <2>4, <2>5 DEF Advances, d
<1>5. CASE ~(e.seq \in DOMAIN c.messages \/ e.seq <= c.lastSeq)
  <2>1. d = AskCatchup(c) \/ (e.seq = c.lastSeq + 1 /\ d = [WithRow(c, e.seq, e.row) EXCEPT !.lastSeq = e.seq])
    BY <1>1, <1>5 DEF ApplyCreated
  <2>2. e.seq = c.lastSeq + 1 /\ d = [WithRow(c, e.seq, e.row) EXCEPT !.lastSeq = e.seq]
    BY <2>1, AskAsks
  <2>3. /\ d.messages = Put(c.messages, e.seq, e.row) /\ d.lastSeq = e.seq
        /\ d.inFlightDelta = c.inFlightDelta /\ d.quarantined = c.quarantined
        /\ d.needsCatchup = c.needsCatchup
    BY <2>2 DEF WithRow, ReducerState
  <2> HIDE DEF d
  <2>4. ASSUME NEW s
        PROVE  ExpectedDelta(c, s) <= ExpectedDelta(d, s)
    <3>1. ExpectedDelta(d, s) = ExpectedDelta(c, s)
      BY <2>3 DEF ExpectedDelta
    <3> QED BY <1>3, <3>1
  <2>5. ASSUME NEW s \in DOMAIN d.messages
        PROVE  s \in DOMAIN c.messages \/ (s = e.seq /\ d.messages[s] = e.row)
    BY <2>3 DEF Put
  <2>6. c.lastSeq <= d.lastSeq /\ e.seq <= d.lastSeq /\ e.seq > c.lastSeq
    BY <1>1, <2>2, <2>3
  <2>7. ASSUME NEW s, s \in DOMAIN d.messages \/ s > d.lastSeq, s \in DOMAIN ac
        PROVE  s \in DOMAIN c.messages \/ s > c.lastSeq
    <3>1. CASE s \in DOMAIN d.messages
      BY <2>5, <2>6, <3>1
    <3>2. CASE s > d.lastSeq
      <4>1. s \in DOMAIN lg /\ DOMAIN lg \subseteq Nat
        BY <2>7 DEF Meets
      <4>2. s \in Nat /\ s > e.seq
        BY <2>3, <3>2, <4>1
      <4> QED BY <1>1, <2>2, <4>2
    <3> QED BY <2>7, <3>1, <3>2
  <2>8. ~d.needsCatchup
    BY DEF d
  <2> QED BY <1>2, <2>3, <2>4, <2>5, <2>6, <2>7, <2>8 DEF Advances, d
<1> QED BY <1>4, <1>5

\* Of the other events, a row's moves no stream that is open, ...
LEMMA AdvancesRow ==
  ASSUME NEW c \in ReducerState, NEW d, NEW e, e.type \in RowTypes \ {"created"}, NEW lg, NEW ac,
         Meets(c, e, lg, ac), ~d.needsCatchup, d.needsCatchup = c.needsCatchup,
         DOMAIN d.messages = DOMAIN c.messages, d.lastSeq = c.lastSeq,
         \A s \in DOMAIN ac : /\ ExpectedDelta(d, s) = ExpectedDelta(c, s)
                              /\ s \in c.quarantined => s \in d.quarantined,
         Brings(lg, e, e.seq) /\ e.seq \in DOMAIN c.messages => d.messages[e.seq].ver = lg[e.seq].ver
  PROVE  Advances(c, d, e, lg, ac)
<1>1. c.lastSeq \in Nat /\ \A s : ExpectedDelta(c, s) \in Nat
  BY ReducerFields DEF Meets
<1>2. e.type \notin {"created", "delta", "resync"}
  BY DEF RowTypes
<1>3. ASSUME NEW s \in DOMAIN c.messages, Brings(lg, e, s)
      PROVE  d.messages[s].ver = lg[s].ver
  BY <1>3 DEF Brings
<1>4. c.lastSeq <= d.lastSeq
  BY <1>1
<1>5. \A s \in DOMAIN ac : ExpectedDelta(c, s) <= ExpectedDelta(d, s)
  BY <1>1
<1> QED BY <1>2, <1>3, <1>4, <1>5 DEF Advances

LEMMA AdvancesUpdated ==
  ASSUME NEW c \in ReducerState, NEW e \in Event, e.type = "updated", NEW lg, NEW ac,
         Meets(c, e, lg, ac), ~ApplyUpdated(c, e).needsCatchup
  PROVE  Advances(c, ApplyUpdated(c, e), e, lg, ac)
<1> DEFINE d == ApplyUpdated(c, e)
<1>1. e.seq \in DOMAIN c.messages
  BY AskAsks DEF ApplyUpdated
<1>2. /\ c.messages[e.seq] \in Row /\ Version(lg, e.seq, c.messages[e.seq])
      /\ Copy(lg, e.seq, c.messages[e.seq]) /\ Version(lg, e.seq, e.row)
      /\ e.row.status = "streaming"
  BY <1>1, ReducerFields DEF Meets, RowTypes, Typed
<1>3. CASE c.messages[e.seq].status # "streaming"
  <2>1. d = c
    BY <1>1, <1>3 DEF ApplyUpdated
  <2>2. ~Brings(lg, e, e.seq)
    <3>1. c.messages[e.seq].status \in Settled
      BY <1>2, <1>3, RowFields
    <3>2. lg[e.seq].status \in Settled
      BY <1>2, <3>1 DEF Copy
    <3> QED BY <1>2, <3>2 DEF Brings, Version, Same, Settled
  <2> HIDE DEF d
  <2>3. ~d.needsCatchup
    BY DEF d
  <2> QED BY <2>1, <2>2, <2>3, AdvancesRow DEF d, RowTypes
<1>4. CASE c.messages[e.seq].status = "streaming"
  <2>1. d = WithRow(c, e.seq, e.row)
    BY <1>1, <1>2, <1>4 DEF ApplyUpdated
  <2>2. /\ d.messages = Put(c.messages, e.seq, e.row) /\ d.lastSeq = c.lastSeq
        /\ d.inFlightDelta = c.inFlightDelta /\ d.quarantined = c.quarantined
        /\ d.needsCatchup = c.needsCatchup
    BY <2>1 DEF WithRow, ReducerState
  <2> HIDE DEF d
  <2>3. DOMAIN d.messages = DOMAIN c.messages /\ d.messages[e.seq] = e.row
    BY <1>1, <2>2 DEF Put
  <2>4. \A s : ExpectedDelta(d, s) = ExpectedDelta(c, s)
    BY <2>2 DEF ExpectedDelta
  <2>5. ~d.needsCatchup /\ (Brings(lg, e, e.seq) => e.row.ver = lg[e.seq].ver)
    BY DEF d, Brings
  <2>6. Advances(c, d, e, lg, ac)
    BY <2>2, <2>3, <2>4, <2>5, AdvancesRow DEF RowTypes
  <2> QED BY <2>6 DEF d
<1> QED BY <1>3, <1>4

LEMMA AdvancesCompleted ==
  ASSUME NEW c \in ReducerState, NEW e \in Event, e.type = "completed", NEW lg, NEW ac,
         Meets(c, e, lg, ac), ~ApplyCompleted(c, e).needsCatchup
  PROVE  Advances(c, ApplyCompleted(c, e), e, lg, ac)
<1> DEFINE d == ApplyCompleted(c, e)
<1>1. e.seq \in DOMAIN c.messages
  BY AskAsks DEF ApplyCompleted
<1>2. d = [WithRow(c, e.seq, e.row) EXCEPT
             !.inFlightDelta = Restrict(@, DOMAIN @ \ {e.seq}), !.quarantined = @ \ {e.seq}]
  BY <1>1 DEF ApplyCompleted
<1>3. /\ d.messages = Put(c.messages, e.seq, e.row) /\ d.lastSeq = c.lastSeq
      /\ d.inFlightDelta = Restrict(c.inFlightDelta, DOMAIN c.inFlightDelta \ {e.seq})
      /\ d.quarantined = c.quarantined \ {e.seq}
      /\ d.needsCatchup = c.needsCatchup
  BY <1>2 DEF WithRow, ReducerState
<1> HIDE DEF d
<1>4. e.seq \notin DOMAIN ac
  <2>1. e.row.status \in Settled /\ Copy(lg, e.seq, e.row) /\ Plain(lg, ac) /\ e.seq \in DOMAIN lg
    BY DEF Meets, Typed, RowTypes, Version
  <2> QED BY <2>1 DEF Copy, Plain, Settled
<1>5. DOMAIN d.messages = DOMAIN c.messages /\ d.messages[e.seq] = e.row
  BY <1>1, <1>3 DEF Put
<1>6. ASSUME NEW s \in DOMAIN ac
      PROVE  /\ ExpectedDelta(d, s) = ExpectedDelta(c, s)
             /\ s \in c.quarantined => s \in d.quarantined
  <2>1. s # e.seq
    BY <1>4
  <2>2. /\ s \in DOMAIN d.inFlightDelta <=> s \in DOMAIN c.inFlightDelta
        /\ s \in DOMAIN d.inFlightDelta => d.inFlightDelta[s] = c.inFlightDelta[s]
    BY <1>3, <2>1 DEF Restrict
  <2> QED BY <1>3, <2>1, <2>2 DEF ExpectedDelta
<1>7. ~d.needsCatchup /\ (Brings(lg, e, e.seq) => e.row.ver = lg[e.seq].ver)
  BY DEF d, Brings
<1>8. Advances(c, d, e, lg, ac)
  BY <1>3, <1>5, <1>6, <1>7, AdvancesRow DEF RowTypes
<1> QED BY <1>8 DEF d

LEMMA AdvancesRevised ==
  ASSUME NEW c \in ReducerState, NEW e \in Event, e.type \in {"edited", "deleted"},
         NEW lg, NEW ac, Meets(c, e, lg, ac), ~ApplyRevised(c, e).needsCatchup
  PROVE  Advances(c, ApplyRevised(c, e), e, lg, ac)
<1> DEFINE d == ApplyRevised(c, e)
<1>1. CASE e.seq \in DOMAIN c.messages
  <2>1. c.messages[e.seq].status # "streaming"
    <3>1. /\ e.row.kind = "human" /\ Version(lg, e.seq, e.row)
          /\ Version(lg, e.seq, c.messages[e.seq]) /\ Copy(lg, e.seq, c.messages[e.seq])
      BY <1>1 DEF Meets, Typed, RowTypes
    <3>2. c.messages[e.seq].kind = "human"
      BY <3>1 DEF Version
    <3> QED BY <3>1, <3>2 DEF Copy, Settled
  <2>2. d = WithRow(c, e.seq, e.row)
    BY <1>1, <2>1 DEF ApplyRevised
  <2>3. /\ d.messages = Put(c.messages, e.seq, e.row) /\ d.lastSeq = c.lastSeq
        /\ d.inFlightDelta = c.inFlightDelta /\ d.quarantined = c.quarantined
        /\ d.needsCatchup = c.needsCatchup
    BY <2>2 DEF WithRow, ReducerState
  <2> HIDE DEF d
  <2>4. DOMAIN d.messages = DOMAIN c.messages /\ d.messages[e.seq] = e.row
    BY <1>1, <2>3 DEF Put
  <2>5. \A s : ExpectedDelta(d, s) = ExpectedDelta(c, s)
    BY <2>3 DEF ExpectedDelta
  <2>6. ~d.needsCatchup /\ (Brings(lg, e, e.seq) => e.row.ver = lg[e.seq].ver)
    BY DEF d, Brings
  <2>7. Advances(c, d, e, lg, ac)
    BY <2>3, <2>4, <2>5, <2>6, AdvancesRow DEF RowTypes
  <2> QED BY <2>7 DEF d
<1>2. CASE e.seq \notin DOMAIN c.messages
  <2>1. d = c
    BY <1>2 DEF ApplyRevised
  <2> HIDE DEF d
  <2>2. ~d.needsCatchup
    BY DEF d
  <2> QED BY <1>2, <2>1, <2>2, AdvancesRow DEF d, RowTypes
<1> QED BY <1>1, <1>2

\* ... and a delta past the cursor of a row that is open is quarantined.
LEMMA AdvancesDelta ==
  ASSUME NEW c \in ReducerState, NEW e \in Event, e.type = "delta", NEW lg, NEW ac,
         Meets(c, e, lg, ac), ~ApplyDelta(c, e).needsCatchup
  PROVE  Advances(c, ApplyDelta(c, e), e, lg, ac)
<1> DEFINE d == ApplyDelta(c, e)
<1>1. e.seq \in DOMAIN c.messages
  BY AskAsks DEF ApplyDelta
<1>2. /\ \A s : ~Brings(lg, e, s)
      /\ c.lastSeq \in Nat /\ e.index \in Int /\ \A s : ExpectedDelta(c, s) \in Nat
  BY EventIs, ReducerFields DEF Brings, RowTypes, Meets
<1>3. CASE c.messages[e.seq].status # "streaming"
  <2>1. d = c
    BY <1>1, <1>3 DEF ApplyDelta
  <2>2. e.seq \notin DOMAIN ac
    <3>1. /\ c.messages[e.seq] \in Row /\ Copy(lg, e.seq, c.messages[e.seq])
          /\ Plain(lg, ac) /\ DOMAIN ac \subseteq DOMAIN lg
      BY <1>1, ReducerFields DEF Meets
    <3>2. c.messages[e.seq].status \in Settled
      BY <1>3, <3>1, RowFields
    <3>3. lg[e.seq].status \in Settled
      BY <3>1, <3>2 DEF Copy
    <3> QED BY <3>1, <3>3 DEF Plain, Settled
  <2>3. ~c.needsCatchup
    BY <2>1
  <2> HIDE DEF d
  <2>4. c.lastSeq <= d.lastSeq /\ \A s : ExpectedDelta(c, s) <= ExpectedDelta(d, s)
    BY <1>2, <2>1
  <2> QED BY <1>2, <2>1, <2>2, <2>3, <2>4 DEF Advances, d
<1>4. CASE c.messages[e.seq].status = "streaming" /\ e.seq \in c.quarantined
  <2>1. d = c
    BY <1>1, <1>4 DEF ApplyDelta
  <2>3. ~c.needsCatchup
    BY <2>1
  <2> HIDE DEF d
  <2>4. c.lastSeq <= d.lastSeq /\ \A s : ExpectedDelta(c, s) <= ExpectedDelta(d, s)
    BY <1>2, <2>1
  <2> QED BY <1>2, <1>4, <2>1, <2>3, <2>4 DEF Advances, d
<1>5. CASE /\ c.messages[e.seq].status = "streaming" /\ e.seq \notin c.quarantined
           /\ e.index # ExpectedDelta(c, e.seq)
  <2>1. d = [c EXCEPT !.quarantined = @ \cup {e.seq}]
    BY <1>1, <1>5 DEF ApplyDelta
  <2>2. /\ d.messages = c.messages /\ d.lastSeq = c.lastSeq /\ d.inFlightDelta = c.inFlightDelta
        /\ d.quarantined = c.quarantined \cup {e.seq} /\ d.needsCatchup = c.needsCatchup
    BY <2>1 DEF ReducerState
  <2>3. ~c.needsCatchup
    BY <2>2
  <2> HIDE DEF d
  <2>4. c.lastSeq <= d.lastSeq /\ \A s : ExpectedDelta(c, s) <= ExpectedDelta(d, s)
    BY <1>2, <2>2 DEF ExpectedDelta
  <2> QED BY <1>2, <2>2, <2>3, <2>4 DEF Advances, d
<1>6. CASE /\ c.messages[e.seq].status = "streaming" /\ e.seq \notin c.quarantined
           /\ e.index = ExpectedDelta(c, e.seq)
  <2>1. d = [c EXCEPT !.messages[e.seq].text = @ \o e.text,
                      !.inFlightDelta = Put(@, e.seq, e.index)]
    BY <1>1, <1>6 DEF ApplyDelta
  <2>2. /\ DOMAIN d.messages = DOMAIN c.messages /\ d.lastSeq = c.lastSeq
        /\ d.inFlightDelta = Put(c.inFlightDelta, e.seq, e.index)
        /\ d.quarantined = c.quarantined /\ d.needsCatchup = c.needsCatchup
    BY <2>1 DEF ReducerState
  <2>3. ~c.needsCatchup
    BY <2>2
  <2> HIDE DEF d
  <2>4. ExpectedDelta(d, e.seq) = e.index + 1
    BY <2>2 DEF ExpectedDelta, Put
  <2>5. ASSUME NEW s, s # e.seq PROVE ExpectedDelta(d, s) = ExpectedDelta(c, s)
    BY <2>2, <2>5 DEF ExpectedDelta, Put
  <2>6. \A s : ExpectedDelta(c, s) <= ExpectedDelta(d, s)
    <3>1. ExpectedDelta(c, e.seq) <= ExpectedDelta(d, e.seq)
      BY <1>2, <1>6, <2>4
    <3>2. ASSUME NEW s, s # e.seq PROVE ExpectedDelta(c, s) <= ExpectedDelta(d, s)
      BY <1>2, <2>5, <3>2
    <3> QED BY <3>1, <3>2
  <2>7. c.lastSeq <= d.lastSeq /\ e.index < ExpectedDelta(d, e.seq)
    BY <1>2, <2>2, <2>4
  <2>8. \A s \in DOMAIN d.messages : s \in DOMAIN c.messages
    BY <2>2
  <2> QED BY <1>2, <2>2, <2>3, <2>6, <2>7, <2>8 DEF Advances, d
<1> QED BY <1>3, <1>4, <1>5, <1>6

\* An event that asks for nothing is taken.
LEMMA AdvancesEvent ==
  ASSUME NEW c \in ReducerState, NEW e \in Event, e.type \notin {"snapshot", "close"}, NEW lg, NEW ac,
         Meets(c, e, lg, ac), ~applyChannelEventV1(c, e).needsCatchup
  PROVE  Advances(c, applyChannelEventV1(c, e), e, lg, ac)
<1>1. CASE e.type = "created"
  <2>1. applyChannelEventV1(c, e) = ApplyCreated(c, e)
    BY <1>1 DEF applyChannelEventV1
  <2> QED BY <1>1, <2>1, AdvancesCreated
<1>2. CASE e.type = "delta"
  <2>1. applyChannelEventV1(c, e) = ApplyDelta(c, e)
    BY <1>2 DEF applyChannelEventV1
  <2> QED BY <1>2, <2>1, AdvancesDelta
<1>3. CASE e.type = "updated"
  <2>1. applyChannelEventV1(c, e) = ApplyUpdated(c, e)
    BY <1>3 DEF applyChannelEventV1
  <2> QED BY <1>3, <2>1, AdvancesUpdated
<1>4. CASE e.type = "completed"
  <2>1. applyChannelEventV1(c, e) = ApplyCompleted(c, e)
    BY <1>4 DEF applyChannelEventV1
  <2> QED BY <1>4, <2>1, AdvancesCompleted
<1>5. CASE e.type \in {"edited", "deleted"}
  <2>1. applyChannelEventV1(c, e) = ApplyRevised(c, e)
    BY <1>5 DEF applyChannelEventV1
  <2> QED BY <1>5, <2>1, AdvancesRevised
<1>6. CASE e.type = "resync"
  <2>1. applyChannelEventV1(c, e) = AskCatchup(c)
    BY <1>6 DEF applyChannelEventV1
  <2> QED BY <2>1, AskAsks
<1> QED BY <1>1, <1>2, <1>3, <1>4, <1>5, <1>6, EventIs DEF RowTypes

-----------------------------------------------------------------------------
(* The browser takes an event.                                             *)

LEMMA CopyReceive ==
  ASSUME SyncInv, SyncInv', ChunkInv, CopyInv, Receive
  PROVE  CopyInv'
<1> DEFINE e == Head(net)
<1>1. /\ net \in Seq(Event) /\ net # <<>> /\ log' = log /\ acc' = acc
      /\ client \in ReducerState /\ log \in Seq(Row)
      /\ Logged(log, Shown(client.messages)) /\ Copies(log, Shown(client.messages))
      /\ Plain(log, acc)
  BY DEF Receive, SyncInv, BrowserTypes, server, CopyInv
<1>2. /\ e = net[1] /\ 1 \in DOMAIN net /\ e \in Event
      /\ \A i \in DOMAIN Tail(net) : Tail(net)[i] = net[i + 1] /\ i + 1 \in DOMAIN net
  BY <1>1
<1>3. CASE e.type = "close"
  <2>1. client' = client /\ net' = <<>>
    BY <1>3 DEF Receive, Connect
  <2> QED BY <1>1, <2>1 DEF CopyInv
<1>4. CASE e.type # "close"
  <2> DEFINE d == applyChannelEventV1(client, e)
  <2>1. client' = d /\ net' = Tail(net)
    BY <1>4 DEF Receive
  <2>2. Stems(client, d, e)
    BY <1>1, <1>2, <1>4, StemsEvent
  <2> HIDE DEF d, e
  <2>3. Copies(log, Carried(e)) /\ (e.type = "delta" => e.seq \in DOMAIN log /\ log[e.seq].kind = "prose")
    BY <1>2 DEF CopyInv, ChunkInv, Sent
  <2>4. Copies(log, Shown(d.messages))
    BY <1>1, <2>2, <2>3, CopiesStem
  <2>5. \A i \in DOMAIN net' : Copies(log, Carried(net'[i])) /\ Typed(net'[i])
    BY <1>2, <2>1 DEF CopyInv
  <2> QED BY <1>1, <2>1, <2>4, <2>5 DEF CopyInv
<1> QED BY <1>3, <1>4

LEMMA ClientMeets ==
  ASSUME SyncInv, WindowInv, ChunkInv, CopyInv, net # <<>>, net[1].type # "snapshot"
  PROVE  Meets(client, net[1], log, acc)
<1> DEFINE e == net[1]
<1>1. /\ net \in Seq(Event) /\ log \in Seq(Row) /\ Logged(log, Shown(client.messages))
      /\ Copies(log, Shown(client.messages)) /\ Plain(log, acc)
      /\ Joined(DOMAIN client.messages, client.lastSeq) /\ client \in ReducerState
      /\ DOMAIN acc \subseteq DOMAIN log
  BY ChunkFacts DEF SyncInv, CopyInv, WindowInv, BrowserTypes
<1>2. 1 \in DOMAIN net
  BY <1>1
<1>3. Typed(e) /\ Copies(log, Carried(e)) /\ Logged(log, Carried(e))
  BY <1>2 DEF CopyInv, SyncInv
<1> HIDE DEF e
<1>4. ASSUME NEW s \in DOMAIN client.messages
      PROVE  Version(log, s, client.messages[s]) /\ Copy(log, s, client.messages[s]) /\ s <= client.lastSeq
  <2>1. [seq |-> s, row |-> client.messages[s]] \in Shown(client.messages)
    BY DEF Shown
  <2>2. Version(log, s, client.messages[s]) /\ Copy(log, s, client.messages[s])
    BY <1>1, <2>1 DEF Logged, Copies
  <2>3. s \in 1..client.lastSeq /\ client.lastSeq \in Nat
    BY <1>1, ReducerFields DEF Joined
  <2> QED BY <2>2, <2>3
<1>5. ASSUME e.type \in RowTypes
      PROVE  Version(log, e.seq, e.row) /\ Copy(log, e.seq, e.row)
  <2>1. [seq |-> e.seq, row |-> e.row] \in Carried(e)
    BY <1>5, CarriedIs
  <2> QED BY <1>3, <2>1 DEF Logged, Copies
<1>6. \A s : ExpectedDelta(client, s) \in Nat
  BY <1>1, ExpectedIs DEF ChunkInv
<1> QED BY <1>1, <1>3, <1>4, <1>5, <1>6 DEF Meets, e

LEMMA QuietReceive ==
  ASSUME SyncInv, SyncInv', SocketInOrder, WindowInv, ChunkInv, ChunkInv', CopyInv, QuietInv, Receive
  PROVE  QuietInv'
<1> SUFFICES ASSUME ~Warned'
             PROVE  Owes(Ahead', log', acc', net')
  BY DEF QuietInv
<1> DEFINE e == Head(net)
<1>1. /\ net \in Seq(Event) /\ net # <<>> /\ log' = log /\ acc' = acc
      /\ client \in ReducerState /\ client' \in ReducerState /\ log \in Seq(Row) /\ net' \in Seq(Event)
      /\ sub' = "live" /\ ~Ahead'.needsCatchup /\ \A i \in DOMAIN net' : net'[i].type # "resync"
  BY DEF Receive, SyncInv, BrowserTypes, server, Warned
<1>2. /\ e = net[1] /\ 1 \in DOMAIN net /\ e \in Event
      /\ \A i \in DOMAIN net : i # 1 => i - 1 \in DOMAIN Tail(net) /\ Tail(net)[i - 1] = net[i]
      /\ \A i \in DOMAIN Tail(net) : Tail(net)[i] = net[i + 1] /\ i + 1 \in DOMAIN net /\ i + 1 # 1
  BY <1>1
<1>3. e.type # "close"
  BY <1>1 DEF Receive, Connect
<1> DEFINE d == applyChannelEventV1(client, e)
<1>4. client' = d /\ net' = Tail(net) /\ sub' = sub
  BY <1>3 DEF Receive
<1> HIDE DEF d, e
<1>5. Ahead' = client'
  <2>1. \A i \in DOMAIN net' : net'[i].type # "snapshot"
    BY <1>2, <1>4 DEF WindowInv
  <2>2. net' # <<>> => 1 \in DOMAIN net'
    BY <1>1, EmptySeq
  <2> QED BY <2>1, <2>2 DEF Ahead
<1>6. /\ d \in ReducerState /\ Logged(log, Shown(d.messages)) /\ ~d.needsCatchup
      /\ \A s : ExpectedDelta(d, s) \in Nat
  <2>1. client' \in ReducerState /\ Logged(log', Shown(client'.messages)) /\ ~client'.needsCatchup
    BY <1>1, <1>5 DEF SyncInv
  <2>2. Held(client', acc')
    BY DEF ChunkInv
  <2>3. \A s : ExpectedDelta(client', s) \in Nat
    <3>1. PICK ac : ac = acc'
      OBVIOUS
    <3> QED BY <1>4, <2>1, <2>2, <3>1, ExpectedIs
  <2> QED BY <1>1, <1>4, <2>1, <2>3
<1>7. /\ \A s : ExpectedDelta(client, s) \in Nat
      /\ \A s \in DOMAIN acc : acc[s].deltaIndex \in Int
  BY <1>1, ExpectedIs, ChunkFacts DEF ChunkInv
<1>8. \A i \in DOMAIN net : i # 1 => net[i].type # "resync"
  BY <1>1, <1>2, <1>4
<1>9. CASE e.type = "snapshot"
  <2>1. Ahead = d
    BY <1>1, <1>2, <1>9 DEF Ahead, d
  <2>2. ~Warned
    BY <1>1, <1>2, <1>4, <1>6, <1>8, <1>9, <2>1 DEF Warned
  <2>3. Owes(d, log, acc, net)
    BY <2>1, <2>2 DEF QuietInv
  <2>4. Advances(d, d, e, log, acc)
    <3>1. d.lastSeq \in Nat /\ d.lastSeq <= d.lastSeq
      BY <1>6, ReducerFields
    <3>2. \A s : ExpectedDelta(d, s) <= ExpectedDelta(d, s) /\ ~Brings(log, e, s)
      BY <1>6, <1>9 DEF Brings, RowTypes
    <3> QED BY <1>6, <1>9, <3>1, <3>2 DEF Advances
  <2>5. NotBack(d.messages, d.messages)
    BY <1>6, ReducerFields, NotBackSelf
  <2>6. Owes(d, log, acc, Tail(net))
    BY <1>1, <1>2, <1>6, <1>7, <2>3, <2>4, <2>5, OwesLess
  <2> QED BY <1>1, <1>4, <1>5, <2>6
<1>10. CASE e.type # "snapshot"
  <2>1. Ahead = client
    BY <1>2, <1>10 DEF Ahead
  <2>2. Meets(client, e, log, acc)
    BY <1>1, <1>2, <1>10, ClientMeets
  <2>3. Advances(client, d, e, log, acc)
    BY <1>1, <1>2, <1>3, <1>6, <1>10, <2>2, AdvancesEvent DEF d
  <2>4. ~Warned
    BY <1>1, <1>2, <1>4, <1>8, <2>1, <2>3 DEF Warned, Advances
  <2>5. Owes(client, log, acc, net)
    BY <2>1, <2>4 DEF QuietInv
  <2>6. NotBack(client.messages, d.messages)
    BY <1>4, SyncReceive
  <2>7. Owes(d, log, acc, Tail(net))
    BY <1>1, <1>2, <1>6, <1>7, <2>3, <2>5, <2>6, OwesLess
  <2> QED BY <1>1, <1>4, <1>5, <2>7
<1> QED BY <1>9, <1>10

-----------------------------------------------------------------------------
(* The browser subscribes.                                                 *)

LEMMA PlainFlushed ==
  ASSUME SyncInv, ChunkInv, CopyInv
  PROVE  Plain(log, Flushed)
<1>1. DOMAIN Flushed = DOMAIN acc /\ \A s \in DOMAIN acc : Flushed[s].text = acc[s].text
  BY ChunkFlushed
<1>2. ASSUME NEW s \in DOMAIN acc
      PROVE  Flushed[s].update = acc[s].update
  <2>1. acc[s] \in Accumulator
    BY OpenRow
  <2>2. Flushed[s] = acc[s] \/ Flushed[s] = [acc[s] EXCEPT !.deltaIndex = @ + 1, !.pending = <<>>]
    BY DEF Flushed
  <2> QED BY <2>1, <2>2 DEF Accumulator
<1>3. Plain(log, acc)
  BY DEF CopyInv
<1> QED BY <1>1, <1>2, <1>3 DEF Plain

\* A snapshot's rows are copies of the log's as it is.
LEMMA MaterializeCopies ==
  ASSUME NEW lg \in Seq(Row), NEW ac, Plain(lg, ac), NEW s \in DOMAIN lg
  PROVE  Copy(lg, s, Materialize(lg, ac, s)) /\ Materialize(lg, ac, s).ver = lg[s].ver
<1> DEFINE v == Materialize(lg, ac, s)
<1>1. lg[s] \in Row
  OBVIOUS
<1>2. CASE s \in DOMAIN ac /\ lg[s].status = "streaming"
  <2>1. v = [lg[s] EXCEPT !.text = ac[s].text]
    BY <1>2 DEF Materialize
  <2> HIDE DEF v
  <2>2. /\ v.kind = lg[s].kind /\ v.status = "streaming" /\ v.ver = lg[s].ver
        /\ v.text = ac[s].text
    BY <1>1, <1>2, <2>1 DEF Row
  <2>3. lg[s].kind \notin {"human", "system"} /\ (lg[s].kind # "prose" => lg[s].text = ac[s].text)
    BY <1>2 DEF Plain, Settled
  <2>4. Copy(lg, s, v)
    BY <1>2, <2>2, <2>3 DEF Copy, Settled, OpenProse
  <2> QED BY <2>2, <2>4 DEF v
<1>3. CASE ~(s \in DOMAIN ac /\ lg[s].status = "streaming")
  <2>1. v = lg[s]
    BY <1>3 DEF Materialize
  <2> HIDE DEF v
  <2> QED BY <2>1, OwnCopy DEF v
<1> QED BY <1>2, <1>3

LEMMA SnapshotCopies ==
  ASSUME NEW lg \in Seq(Row), NEW ac, Plain(lg, ac), NEW from
  PROVE  Copies(lg, Carried(buildSnapshot(lg, ac, from)))
<1> DEFINE e == buildSnapshot(lg, ac, from)
<1> HIDE DEF e
<1> PICK mode, latest, cut : \E R, S \in SUBSET (DOMAIN lg) :
      e = Snapshot(lg, ac, mode, R, S, latest, cut)
  BY BuildIs DEF e
<1>1. PICK R \in SUBSET (DOMAIN lg), S \in SUBSET (DOMAIN lg) :
        e = Snapshot(lg, ac, mode, R, S, latest, cut)
  OBVIOUS
<1>2. /\ e.type = "snapshot" /\ e.messages = Materialized(lg, ac, R)
      /\ e.replacements = Materialized(lg, ac, S)
  BY <1>1 DEF Snapshot
<1>3. Carried(e) = Shown(Materialized(lg, ac, R)) \cup Shown(Materialized(lg, ac, S))
  BY <1>2, CarriedIs
<1>4. ASSUME NEW D \in SUBSET (DOMAIN lg)
      PROVE  Copies(lg, Shown(Materialized(lg, ac, D)))
  <2>1. \A s \in D : Copy(lg, s, Materialize(lg, ac, s))
    BY MaterializeCopies
  <2> QED BY <2>1 DEF Copies, Shown, Materialized
<1>5. Copies(lg, Shown(Materialized(lg, ac, R))) /\ Copies(lg, Shown(Materialized(lg, ac, S)))
  BY <1>4
<1> QED BY <1>3, <1>5 DEF Copies, e

LEMMA CopySubscribe ==
  ASSUME SyncInv, SyncInv', ChunkInv, CopyInv, Subscribe
  PROVE  CopyInv'
<1> DEFINE e == buildSnapshot(log, Flushed, since)
<1>1. acc' = Flushed /\ log' = log /\ client' = client
  BY DEF Subscribe
<1>2. /\ net'[1] = e /\ \A i \in DOMAIN net' : i # 1 => net'[i].type \in {"delta", "close"}
  BY SubscribeSends
<1>3. log \in Seq(Row) /\ since \in Nat /\ Plain(log, Flushed)
  BY PlainFlushed DEF SyncInv, BrowserTypes
<1>4. e.type = "snapshot" /\ Copies(log, Carried(e))
  BY <1>3, FlushedOK, BuildOK, SnapshotCopies
<1> HIDE DEF e
<1>5. \A i \in DOMAIN net' : Copies(log', Carried(net'[i])) /\ Typed(net'[i])
  <2>1. Typed(e)
    BY <1>4 DEF Typed
  <2>2. \A f : f.type \in {"delta", "close"} => Carried(f) = {} /\ Typed(f)
    BY CarriedIs DEF Typed
  <2> QED BY <1>1, <1>2, <1>4, <2>1, <2>2 DEF Copies
<1>6. Copied(log, log') /\ Plain(log', acc')
  BY <1>1, <1>3, CopiedSelf
<1> QED BY <1>1, <1>5, <1>6, CopyAdds

-----------------------------------------------------------------------------
(* A snapshot that is not cut short leaves nothing owed.                   *)

\* The rows at or below the cursor that can have changed in place.
Resyncable(lg, n) ==
  {s \in DOMAIN lg : s <= n /\ (lg[s].kind \in {"prose", "card"} \/ lg[s].mark \in {"edited", "deleted"})}

\* A catch-up that is not cut short, by the budget or by the limit on the rows
\* that are sent again.
CatchupFits ==
  \/ NeedsFull(log, since)
  \/ /\ ~buildSnapshot(log, Flushed, since).truncated
     /\ Cardinality(Resyncable(log, since)) <= CatchupMaxRows

LEMMA NewestAll ==
  ASSUME NEW n \in Nat, NEW S \in SUBSET (1..n), NEW k \in Nat, Cardinality(S) <= k
  PROVE  Newest(S, k) = S
<1>1. IsFiniteSet(S) /\ Cardinality(S) \in Nat
  <2>1. IsFiniteSet(1..n)
    BY FS_Interval
  <2> QED BY <2>1, FS_Subset, FS_CardinalityType
<1>2. ASSUME NEW s \in S
      PROVE  Cardinality({t \in S : t > s}) < k
  <2> DEFINE Above == {t \in S : t > s}
  <2>1. Above \subseteq S \ {s} /\ s \in Int
    OBVIOUS
  <2>2. IsFiniteSet(S \ {s}) /\ Cardinality(S \ {s}) = Cardinality(S) - 1
    BY <1>1, FS_RemoveElement
  <2> HIDE DEF Above
  <2>3. Cardinality(Above) <= Cardinality(S \ {s}) /\ Cardinality(Above) \in Nat
    BY <2>1, <2>2, FS_Subset, FS_CardinalityType
  <2>4. Cardinality(Above) < k
    BY <1>1, <2>2, <2>3
  <2> QED BY <2>4 DEF Above
<1> QED BY <1>2 DEF Newest

\* What the browser holds after a snapshot is current, and the snapshot records
\* its open streams.
Covers(d, e, lg, ac) ==
  /\ Len(lg) <= d.lastSeq
  /\ \A s \in DOMAIN d.messages :
       /\ d.messages[s].ver = lg[s].ver
       /\ s \in DOMAIN ac /\ lg[s].kind = "prose" => Recorded(e, s)

LEMMA MaterializedCovers ==
  ASSUME NEW lg \in Seq(Row), NEW ac, Plain(lg, ac), NEW S \in SUBSET (DOMAIN lg), NEW s \in S
  PROVE  /\ s \in DOMAIN Materialized(lg, ac, S) /\ Materialized(lg, ac, S)[s].ver = lg[s].ver
         /\ s \in DOMAIN ac => s \in DOMAIN InFlightOf(lg, ac, S)
<1>1. /\ DOMAIN Materialized(lg, ac, S) = S /\ Materialized(lg, ac, S)[s] = Materialize(lg, ac, s)
  BY DEF Materialized
<1>2. Materialize(lg, ac, s).ver = lg[s].ver
  BY MaterializeCopies
<1>3. s \in DOMAIN ac => s \in DOMAIN InFlightOf(lg, ac, S)
  BY DEF InFlightOf, Plain
<1> QED BY <1>1, <1>2, <1>3

LEMMA FullCovers ==
  ASSUME NEW lg \in Seq(Row), NEW ac, Plain(lg, ac), NEW from, NeedsFull(lg, from), NEW c
  PROVE  LET e == buildSnapshot(lg, ac, from)
         IN e.mode = "full" /\ Covers(ApplyFull(c, e), e, lg, ac)
<1> DEFINE rows == Newest(Newest(DOMAIN lg, SnapshotFullLimit), SnapshotMaxRows)
           e == buildSnapshot(lg, ac, from)
           d == ApplyFull(c, e)
<1>1. rows \in SUBSET (DOMAIN lg)
  BY DEF Newest
<1>2. e = Snapshot(lg, ac, "full", rows, {}, Len(lg), rows # {} /\ 1 \notin rows)
  BY DEF buildSnapshot, FullSnapshot
<1> HIDE DEF rows, e
<1>3. /\ e.mode = "full" /\ e.messages = Materialized(lg, ac, rows)
      /\ e.inFlight = InFlightOf(lg, ac, rows) /\ e.latestSeq = Len(lg)
  BY <1>2 DEF Snapshot
<1>4. d.messages = e.messages /\ d.lastSeq = Len(lg)
  BY <1>3 DEF ApplyFull
<1> HIDE DEF d
<1>5. DOMAIN d.messages = rows
  BY <1>3, <1>4 DEF Materialized
<1>6. \A s \in DOMAIN d.messages : d.messages[s].ver = lg[s].ver /\ (s \in DOMAIN ac => Recorded(e, s))
  BY <1>1, <1>3, <1>4, <1>5, MaterializedCovers DEF Recorded
<1>7. Len(lg) <= d.lastSeq
  BY <1>4
<1> QED BY <1>3, <1>6, <1>7 DEF Covers, d, e

LEMMA FitsIs ==
  ASSUME NEW lg \in Seq(Row), NEW ac, NEW from, ~NeedsFull(lg, from),
         ~buildSnapshot(lg, ac, from).truncated, Cardinality(Resyncable(lg, from)) <= CatchupMaxRows
  PROVE  \E cut : buildSnapshot(lg, ac, from) =
                    Snapshot(lg, ac, "catchup", {s \in DOMAIN lg : s > from}, Resyncable(lg, from),
                             Len(lg), cut)
<1> DEFINE e == buildSnapshot(lg, ac, from)
           fresh == {s \in DOMAIN lg : s > from}
           rows == Oldest(fresh, SnapshotMaxRows)
           resync == ResyncRows(lg, from)
           replaced == Newest(resync, SnapshotMaxRows - Cardinality(rows))
           latest == IF rows # fresh THEN Max(rows) ELSE Len(lg)
<1>1. e = Snapshot(lg, ac, "catchup", rows, replaced, latest, rows # fresh \/ replaced # resync)
  BY DEF buildSnapshot, CatchupSnapshot
<1>2. resync = Resyncable(lg, from)
  <2>1. Resyncable(lg, from) \in SUBSET (1..Len(lg)) /\ Len(lg) \in Nat /\ CatchupMaxRows \in Nat
    BY HubLimits DEF Resyncable
  <2>2. Newest(Resyncable(lg, from), CatchupMaxRows) = Resyncable(lg, from)
    BY <2>1, NewestAll
  <2> QED BY <2>2 DEF ResyncRows, Resyncable
<1> HIDE DEF fresh, rows, resync, replaced
<1>3. rows = fresh /\ replaced = resync
  <2>1. e.truncated = (rows # fresh \/ replaced # resync)
    BY <1>1 DEF Snapshot
  <2> QED BY <2>1
<1>4. latest = Len(lg)
  BY <1>3
<1> HIDE DEF latest
<1> QED BY <1>1, <1>2, <1>3, <1>4 DEF fresh

LEMMA CatchupCovers ==
  ASSUME NEW lg \in Seq(Row), NEW ac, Plain(lg, ac), NEW from \in Nat, ~NeedsFull(lg, from),
         ~buildSnapshot(lg, ac, from).truncated, Cardinality(Resyncable(lg, from)) <= CatchupMaxRows,
         NEW c \in ReducerState, Logged(lg, Shown(c.messages))
  PROVE  LET e == buildSnapshot(lg, ac, from)
         IN e.mode = "catchup" /\ Covers(ApplyCatchup(c, e), e, lg, ac)
<1> DEFINE e == buildSnapshot(lg, ac, from)
           d == ApplyCatchup(c, e)
           fresh == {s \in DOMAIN lg : s > from}
           again == Resyncable(lg, from)
<1> HIDE DEF e
<1>1. PICK cut : e = Snapshot(lg, ac, "catchup", fresh, again, Len(lg), cut)
  BY FitsIs DEF e
<1>2. fresh \in SUBSET (DOMAIN lg) /\ again \in SUBSET (DOMAIN lg)
  BY DEF Resyncable
<1> HIDE DEF fresh, again
<1>3. /\ e.mode = "catchup" /\ e.latestSeq = Len(lg)
      /\ e.messages = Materialized(lg, ac, fresh) /\ e.inFlight = InFlightOf(lg, ac, fresh)
      /\ e.replacements = Materialized(lg, ac, again)
      /\ e.replacementInFlight = InFlightOf(lg, ac, again)
  BY <1>1 DEF Snapshot
<1>4. DOMAIN e.messages = fresh /\ DOMAIN e.replacements = again
  BY <1>3 DEF Materialized
<1> DEFINE accepted == {s \in DOMAIN e.messages : s \in DOMAIN c.messages \/ s > c.lastSeq}
           replaced == DOMAIN e.replacements \cap DOMAIN c.messages
<1>5. /\ d.messages = Overlay(Overlay(c.messages, Restrict(e.messages, accepted)),
                              Restrict(e.replacements, replaced))
      /\ d.lastSeq = IF e.latestSeq > c.lastSeq THEN e.latestSeq ELSE c.lastSeq
  BY DEF ApplyCatchup
<1> HIDE DEF d
<1>6. Len(lg) <= d.lastSeq
  <2>1. c.lastSeq \in Nat /\ Len(lg) \in Nat
    BY ReducerFields
  <2> QED BY <1>3, <1>5, <2>1
<1>7. ASSUME NEW s \in DOMAIN d.messages
      PROVE  \/ s \in again /\ d.messages[s] = e.replacements[s]
             \/ s \in fresh /\ d.messages[s] = e.messages[s]
             \/ s \in DOMAIN c.messages \ (fresh \cup again) /\ d.messages[s] = c.messages[s]
  <2>1. accepted \subseteq DOMAIN e.messages /\ replaced \subseteq DOMAIN e.replacements
    OBVIOUS
  <2>2. \A t \in DOMAIN c.messages : (t \in fresh => t \in accepted) /\ (t \in again => t \in replaced)
    BY <1>4
  <2> HIDE DEF accepted, replaced
  <2> QED BY <1>4, <1>5, <1>7, <2>1, <2>2 DEF Overlay, Restrict
<1>8. ASSUME NEW s \in DOMAIN c.messages \ (fresh \cup again)
      PROVE  c.messages[s].ver = lg[s].ver /\ lg[s].kind # "prose"
  <2>1. [seq |-> s, row |-> c.messages[s]] \in Shown(c.messages)
    BY DEF Shown
  <2>2. s \in DOMAIN lg /\ c.messages[s].ver <= lg[s].ver
    BY <2>1 DEF Logged, Version
  <2>3. lg[s] \in Row /\ c.messages[s] \in Row /\ s \in Nat
    BY <2>2, ReducerFields
  <2>4. lg[s].kind \notin {"prose", "card"} /\ lg[s].mark \notin {"edited", "deleted"}
    BY <2>2, <2>3 DEF fresh, again, Resyncable
  <2>5. lg[s].kind \in {"human", "system"}
    BY <2>3, <2>4, RowFields DEF Kinds
  <2>6. lg[s].ver = 0
    BY <2>2, <2>4, <2>5 DEF Plain
  <2>7. c.messages[s].ver \in Nat
    BY <2>3, RowFields
  <2> QED BY <2>2, <2>4, <2>6, <2>7
<1>9. ASSUME NEW s \in DOMAIN d.messages
      PROVE  d.messages[s].ver = lg[s].ver /\ (s \in DOMAIN ac /\ lg[s].kind = "prose" => Recorded(e, s))
  <2>1. CASE s \in again /\ d.messages[s] = e.replacements[s]
    BY <1>2, <1>3, <2>1, MaterializedCovers DEF Recorded
  <2>2. CASE s \in fresh /\ d.messages[s] = e.messages[s]
    BY <1>2, <1>3, <2>2, MaterializedCovers DEF Recorded
  <2>3. CASE s \in DOMAIN c.messages \ (fresh \cup again) /\ d.messages[s] = c.messages[s]
    BY <1>8, <2>3
  <2> QED BY <1>7, <2>1, <2>2, <2>3
<1> QED BY <1>3, <1>6, <1>9 DEF Covers, d, e

LEMMA QuietSubscribe ==
  ASSUME SyncInv, SyncInv', WindowInv, ChunkInv, ChunkInv', CopyInv, Subscribe, CatchupFits
  PROVE  QuietInv'
<1> DEFINE e == buildSnapshot(log, Flushed, since)
           d == applyChannelEventV1(client, e)
<1>1. acc' = Flushed /\ log' = log /\ client' = client /\ log \in Seq(Row)
  BY DEF Subscribe, SyncInv
<1>2. /\ net' \in Seq(Event) /\ 1 \in DOMAIN net' /\ net'[1] = e /\ e \in Event
      /\ \A i \in DOMAIN net' : i # 1 => net'[i].type \in {"delta", "close"}
  BY SubscribeSends
<1>3. /\ since \in Nat /\ client \in ReducerState /\ Plain(log, Flushed)
      /\ Logged(log, Shown(client.messages))
  BY PlainFlushed DEF SyncInv, BrowserTypes
<1>4. e.type = "snapshot"
  BY <1>3, FlushedOK, BuildOK DEF SyncInv
<1>5. DOMAIN Flushed = DOMAIN acc /\ Buffers(log, Flushed)
      /\ \A s \in DOMAIN acc : Flushed[s].deltaIndex \in Int
  BY ChunkFlushed
<1>6. Carries(Flushed, e.messages, e.inFlight) /\ Carries(Flushed, e.replacements, e.replacementInFlight)
  BY <1>1, <1>5, SnapshotCarries
<1>7. \/ d = ApplyFull(client, e) /\ Covers(d, e, log, Flushed)
      \/ d = ApplyCatchup(client, e) /\ Covers(d, e, log, Flushed)
  <2>1. CASE NeedsFull(log, since)
    <3>1. e.mode = "full" /\ Covers(ApplyFull(client, e), e, log, Flushed)
      BY <1>1, <1>3, <2>1, FullCovers
    <3> HIDE DEF e
    <3>2. d = ApplyFull(client, e)
      BY <1>4, <3>1 DEF applyChannelEventV1, ApplySnapshot
    <3> QED BY <3>1, <3>2
  <2>2. CASE ~NeedsFull(log, since)
    <3>1. e.mode = "catchup" /\ Covers(ApplyCatchup(client, e), e, log, Flushed)
      BY <1>1, <1>3, <2>2, CatchupCovers DEF CatchupFits
    <3> HIDE DEF e
    <3>2. d = ApplyCatchup(client, e)
      BY <1>4, <3>1 DEF applyChannelEventV1, ApplySnapshot
    <3> QED BY <3>1, <3>2
  <2> QED BY <2>1, <2>2
<1> HIDE DEF e
<1>8. Ahead' = d
  <2>1. net' # <<>>
    BY <1>2
  <2> QED BY <1>1, <1>2, <1>4, <2>1 DEF Ahead
<1> HIDE DEF d
<1>9. Covers(d, e, log, Flushed) /\ Resumes(client, d, e, Flushed)
  <2>1. \A s \in DOMAIN client.messages : Counts(client.messages[s].text, 0)
    BY DEF ChunkInv, Held
  <2>2. Resumes(client, ApplyFull(client, e), e, Flushed)
    BY <1>6, FullResumes
  <2>3. Resumes(client, ApplyCatchup(client, e), e, Flushed)
    BY <1>2, <1>3, <1>4, <1>6, <2>1, CatchupResumes
  <2> QED BY <1>7, <2>2, <2>3
<1>10. d \in ReducerState /\ Logged(log, Shown(d.messages))
  <2>1. Logged(log, Carried(e))
    BY <1>1, <1>2 DEF SyncInv
  <2>2. /\ d \in ReducerState
        /\ From(Shown(client.messages), Shown(d.messages), Carried(e))
    BY <1>2, <1>3, <1>4, ReducerOK DEF d
  <2> QED BY <1>3, <2>1, <2>2, FromLogged
<1>11. d.lastSeq \in Nat /\ Len(log) \in Nat /\ Len(log) <= d.lastSeq /\ DOMAIN log = 1..Len(log)
  BY <1>1, <1>9, <1>10, ReducerFields DEF Covers
<1>12. \A n \in (d.lastSeq + 1)..Len(log) : FALSE
  BY <1>11
<1>13. ASSUME NEW s \in DOMAIN d.messages
       PROVE  Due(log, Flushed, net', s, d.messages[s].ver, 0)
  BY <1>9 DEF Covers, Due
<1>14. \A i \in DOMAIN net' : net'[i].type # "created"
  BY <1>2, <1>4
<1>15. ASSUME NEW s \in DOMAIN Flushed \ d.quarantined, log[s].kind = "prose",
              s \in DOMAIN d.messages \/ s > d.lastSeq,
              NEW k \in ExpectedDelta(d, s)..Flushed[s].deltaIndex
       PROVE  FALSE
  <2>1. s \in DOMAIN log
    BY <1>5, ChunkFacts
  <2>2. s \in DOMAIN d.messages
    BY <1>11, <1>15, <2>1
  <2>3. d.messages[s].ver = log[s].ver /\ Recorded(e, s)
    BY <1>9, <1>15, <2>2 DEF Covers
  <2>4. Same(d.messages[s], log[s])
    <3>1. [seq |-> s, row |-> d.messages[s]] \in Shown(d.messages)
      BY <2>2 DEF Shown
    <3> QED BY <1>10, <2>3, <3>1 DEF Logged, Version
  <2>5. log[s].status = "streaming"
    BY <1>3, <2>1 DEF Plain
  <2>6. Live(d, s)
    BY <1>15, <2>2, <2>4, <2>5 DEF Live, OpenProse, Same
  <2>7. ExpectedDelta(d, s) = Flushed[s].deltaIndex + 1
    BY <1>9, <2>3, <2>6 DEF Resumes, Resumed
  <2>8. Flushed[s].deltaIndex \in Int
    BY <1>5
  <2> QED BY <2>7, <2>8
<1>16. Owes(d, log, Flushed, net')
  BY <1>12, <1>13, <1>14, <1>15 DEF Owes
<1> QED BY <1>1, <1>8, <1>16 DEF QuietInv

-----------------------------------------------------------------------------
(* Every step keeps the copies and what is owed.                           *)

\* A restart settles what was streaming under a new version.
LEMMA CopyCrash ==
  ASSUME SyncInv, SyncInv', CopyInv, CrashRestart
  PROVE  CopyInv'
<1> DEFINE stale == {s \in DOMAIN log : log[s].status = "streaming"}
           Cut(row) == [row EXCEPT !.status = "truncated", !.ver = @ + 1,
                                   !.mark = IF row.kind = "card" THEN "provisional" ELSE "none"]
           swept == [s \in DOMAIN log |-> IF s \in stale THEN Cut(log[s]) ELSE log[s]]
           notice == NewRow("system", "complete", <<>>)
<1>1. /\ log' = IF stale = {} THEN log ELSE Append(swept, notice)
      /\ acc' = Empty /\ net' = net /\ client' = client
  BY DEF CrashRestart
<1>2. log \in Seq(Row) /\ Plain(log, acc) /\ \A s \in DOMAIN log : log[s] \in Row
  BY DEF SyncInv, CopyInv
<1>3. \A row \in Row : /\ Cut(row).kind = row.kind /\ Cut(row).status = "truncated"
                       /\ Cut(row).ver = row.ver + 1 /\ row.ver \in Nat
  BY DEF Row
<1>4. /\ notice.kind = "system" /\ notice.status = "complete" /\ notice.mark = "none"
      /\ notice.ver = 0
  BY DEF NewRow
<1>5. DOMAIN acc' = {}
  BY <1>1 DEF Empty
<1> HIDE DEF Cut, notice
\* What becomes of a row.
<1> DEFINE Swept(s, row) ==
             \/ log[s].status # "streaming" /\ row = log[s]
             \/ log[s].status = "streaming" /\ row = Cut(log[s])
<1>6. DOMAIN swept = DOMAIN log /\ \A s \in DOMAIN log : Swept(s, swept[s])
  OBVIOUS
<1>7. Len(swept) = Len(log) /\ Len(log) \in Nat /\ DOMAIN log = 1..Len(log)
  <2>1. DOMAIN log = 1..Len(log) /\ Len(log) \in Nat
    BY <1>2
  <2>2. swept = [s \in 1..Len(log) |-> swept[s]]
    BY <2>1
  <2> HIDE DEF swept
  <2> QED BY <1>6, <2>1, <2>2
<1>8. CASE stale = {}
  <2>1. log' = log /\ \A s \in DOMAIN log : log[s].status # "streaming"
    BY <1>1, <1>8
  <2>2. Plain(log', acc')
    BY <1>2, <1>5, <2>1 DEF Plain
  <2>3. Copied(log, log')
    BY <1>2, <2>1, CopiedSelf
  <2> QED BY <1>1, <2>2, <2>3, CopyAdds
<1>9. CASE stale # {}
  <2>1. log' = Append(swept, notice)
    BY <1>1, <1>9
  <2> HIDE DEF swept, stale, Swept
  <2>2. /\ DOMAIN log' = 1..(Len(log) + 1)
        /\ \A s \in 1..(Len(log) + 1) : log'[s] = IF s = Len(log) + 1 THEN notice ELSE swept[s]
    BY <1>7, <2>1
  <2>3. \A s \in DOMAIN log : s \in DOMAIN log' /\ Swept(s, log'[s])
    <3>1. \A s \in DOMAIN log : s \in 1..(Len(log) + 1) /\ s # Len(log) + 1
      BY <1>7
    <3> QED BY <1>6, <2>2, <3>1
  <2>4. \A s \in DOMAIN log' : s \in DOMAIN log \/ log'[s] = notice
    <3>1. \A s \in 1..(Len(log) + 1) : s = Len(log) + 1 \/ s \in DOMAIN log
      BY <1>7
    <3> QED BY <2>2, <3>1
  <2>5. ASSUME NEW s \in DOMAIN log
        PROVE  /\ log'[s].kind = log[s].kind /\ log[s].ver <= log'[s].ver
               /\ log'[s].status # "streaming"
               /\ log[s].status # "streaming" => log'[s] = log[s]
               /\ log[s].status = "streaming" => log'[s].ver # log[s].ver /\ log'[s].status = "truncated"
    <3>1. Swept(s, log'[s]) /\ log[s] \in Row
      BY <1>2, <2>3
    <3>2. CASE log[s].status # "streaming"
      <4>1. log'[s] = log[s]
        BY <3>1, <3>2 DEF Swept
      <4> QED BY <3>1, <3>2, <4>1, RowFields
    <3>3. CASE log[s].status = "streaming"
      <4>1. log'[s] = Cut(log[s])
        BY <3>1, <3>3 DEF Swept
      <4>2. Cut(log[s]).kind = log[s].kind /\ Cut(log[s]).status = "truncated"
            /\ Cut(log[s]).ver = log[s].ver + 1 /\ log[s].ver \in Nat
        BY <1>3, <3>1
      <4> QED BY <3>3, <4>1, <4>2
    <3> QED BY <3>2, <3>3
  <2>6. Plain(log', acc')
    <3> SUFFICES ASSUME NEW s \in DOMAIN log'
                 PROVE  /\ log'[s].status # "streaming"
                        /\ log'[s].kind \in {"human", "system"} =>
                             /\ log'[s].status \in Settled
                             /\ \/ log'[s].mark \in {"edited", "deleted"}
                                \/ log'[s].mark = "none" /\ log'[s].ver = 0
      BY <1>5 DEF Plain
    <3>1. CASE log'[s] = notice
      BY <1>4, <3>1 DEF Settled
    <3>2. CASE s \in DOMAIN log
      <4>1. log[s].kind \in {"human", "system"} =>
              /\ log[s].status \in Settled
              /\ log[s].mark \in {"edited", "deleted"} \/ (log[s].mark = "none" /\ log[s].ver = 0)
        BY <1>2, <3>2 DEF Plain
      <4> QED BY <2>5, <3>2, <4>1 DEF Settled
    <3> QED BY <2>4, <3>1, <3>2
  <2>7. Copied(log, log')
    <3> SUFFICES ASSUME NEW s \in DOMAIN log
                 PROVE  /\ s \in DOMAIN log' /\ log'[s].kind = log[s].kind /\ log[s].ver <= log'[s].ver
                        /\ log[s].status \in Settled => log'[s].status \in Settled
                        /\ log[s].ver = log'[s].ver /\ ~OpenProse(log'[s]) =>
                             log'[s].text = log[s].text /\ ~OpenProse(log[s])
      BY DEF Copied
    <3> QED BY <2>3, <2>5 DEF Settled
  <2> QED BY <1>1, <2>6, <2>7, CopyAdds
<1> QED BY <1>8, <1>9

LEMMA CopyLeaves ==
  ASSUME CopyInv, UNCHANGED <<log, acc, client>>, \A i \in DOMAIN net' : i \in DOMAIN net /\ net'[i] = net[i]
  PROVE  CopyInv'
BY DEF CopyInv

\* The steps of the network, and of the browser but for those that change the
\* timeline, lose the socket or leave everything in place.
LEMMA OthersLeave ==
  ASSUME SyncInv, NetworkStep \/ (BrowserStep /\ ~Receive /\ ~MergePage) \/ UNCHANGED vars
  PROVE  /\ UNCHANGED <<log, acc, client>>
         /\ \A i \in DOMAIN net' : i \in DOMAIN net /\ net'[i] = net[i]
         /\ sub' = "none" \/ UNCHANGED <<sub, net>>
<1>1. CASE SilentDrop
  <2>1. PICK k \in 0..Len(net) : net' = SubSeq(net, 1, k)
    BY <1>1 DEF SilentDrop
  <2>2. UNCHANGED <<log, acc, client>> /\ sub' = "none"
    BY <1>1 DEF SilentDrop, server
  <2>3. net \in Seq(Event) /\ Len(net) \in Nat
    BY DEF SyncInv
  <2>4. DOMAIN net' = 1..k /\ \A i \in 1..k : net'[i] = net[i] /\ i \in DOMAIN net
    BY <2>1, <2>3
  <2> QED BY <2>2, <2>4
<1>2. CASE SocketClosed
  <2>1. UNCHANGED <<log, acc, client>> /\ net' = <<>> /\ sub' = "none"
    BY <1>2 DEF SocketClosed, server
  <2> QED BY <2>1
<1>3. CASE Commit \/ ReconnectTimer \/ ForceReconnect \/ Probe \/ LoadOlder \/ ServeHistory
  <2>1. UNCHANGED <<log, acc, client>>
    BY <1>3 DEF Commit, ReconnectTimer, ForceReconnect, Probe, LoadOlder, ServeHistory, server
  <2>2. (net' = <<>> /\ sub' = "none") \/ UNCHANGED <<sub, net>>
    BY <1>3 DEF Commit, ReconnectTimer, ForceReconnect, Probe, LoadOlder, ServeHistory, Connect, wire
  <2> QED BY <2>1, <2>2
<1>4. CASE UNCHANGED vars
  BY <1>4 DEF vars
<1> QED BY <1>1, <1>2, <1>3, <1>4 DEF NetworkStep, BrowserStep

LEMMA CopyStep ==
  ASSUME SyncInv, ChunkInv, CopyInv, [Next]_vars, [~MergePage]_vars
  PROVE  CopyInv'
<1>1. SyncInv'
  BY SyncStep
<1>2. CASE NetworkStep \/ (BrowserStep /\ ~Receive /\ ~MergePage) \/ UNCHANGED vars
  BY <1>2, OthersLeave, CopyLeaves
<1>3. CASE Receive
  BY <1>1, <1>3, CopyReceive
<1>4. CASE Subscribe
  BY <1>1, <1>4, CopySubscribe
<1>5. CASE CrashRestart
  BY <1>1, <1>5, CopyCrash
<1>6. CASE ServerStep /\ ~Subscribe /\ ~CrashRestart
  <2>1. PICK e \in Event : Told(e)
    BY <1>6, ToldServes
  <2> QED BY <1>1, <2>1, CopyTold
<1> QED BY <1>2, <1>3, <1>4, <1>5, <1>6 DEF Next

LEMMA QuietStep ==
  ASSUME SyncInv, SocketInOrder, WindowInv, ChunkInv, CopyInv, QuietInv, [Next]_vars,
         [~MergePage]_vars, [Subscribe => CatchupFits]_vars
  PROVE  QuietInv'
<1>1. SyncInv' /\ ChunkInv'
  BY SyncStep, ChunkStep
<1>2. CASE NetworkStep \/ (BrowserStep /\ ~Receive /\ ~MergePage) \/ UNCHANGED vars
  <2>1. UNCHANGED <<log, acc, client>> /\ (sub' = "none" \/ UNCHANGED <<sub, net>>)
    BY <1>2, OthersLeave
  <2>2. CASE sub' = "none"
    BY <2>2 DEF QuietInv, Warned
  <2>3. CASE UNCHANGED <<sub, net>>
    <3>1. Ahead' = Ahead
      BY <2>1, <2>3 DEF Ahead
    <3> QED BY <2>1, <2>3, <3>1 DEF QuietInv, Warned
  <2> QED BY <2>1, <2>2, <2>3
<1>3. CASE Receive
  BY <1>1, <1>3, QuietReceive
<1>4. CASE Subscribe /\ CatchupFits
  BY <1>1, <1>4, QuietSubscribe
<1>5. CASE CrashRestart
  <2>1. sub' = "none"
    BY <1>5 DEF CrashRestart
  <2> QED BY <2>1 DEF QuietInv, Warned
<1>6. CASE ServerStep /\ ~Subscribe /\ ~CrashRestart
  <2>1. PICK e \in Event : Told(e)
    BY <1>6, ToldServes
  <2> QED BY <1>1, <2>1, QuietTold
<1> QED BY <1>2, <1>3, <1>4, <1>5, <1>6 DEF Next

LEMMA CopyInit ==
  ASSUME Init
  PROVE  CopyInv /\ QuietInv
<1>1. /\ log = <<>> /\ acc = Empty /\ net = <<>> /\ client = initialChannelReducerState
      /\ sub = "none"
  BY DEF Init
<1>2. DOMAIN client.messages = {} /\ DOMAIN acc = {} /\ DOMAIN net = {} /\ DOMAIN log = {}
  BY <1>1 DEF initialChannelReducerState, Empty
<1>3. CopyInv
  BY <1>2 DEF CopyInv, Plain, Copies, Shown
<1>4. QuietInv
  BY <1>1 DEF QuietInv, Warned
<1> QED BY <1>3, <1>4

-----------------------------------------------------------------------------
(* Nothing in the socket and nothing owed: the browser shows the log.      *)

LEMMA Retexted ==
  ASSUME NEW v \in Row, NEW w \in Row, Same(v, w)
  PROVE  v = [w EXCEPT !.text = v.text]
<1>1. \A u \in Row : u = [kind |-> u.kind, status |-> u.status, text |-> u.text,
                          ver |-> u.ver, mark |-> u.mark]
  BY DEF Row
<1>2. [w EXCEPT !.text = v.text] \in Row
  BY RowFields, RetextOK
<1> DEFINE u == [w EXCEPT !.text = v.text]
<1>3. u.kind = w.kind /\ u.status = w.status /\ u.text = v.text /\ u.ver = w.ver /\ u.mark = w.mark
  BY DEF Row
<1>4. u \in Row
  BY <1>2
<1> HIDE DEF u
<1>5. u = v
  BY <1>1, <1>3, <1>4 DEF Same
<1> QED BY <1>5 DEF u

LEMMA QuietCurrent ==
  ASSUME SyncInv, WindowInv, ChunkInv, CopyInv, QuietInv
  PROVE  QuietMeansCurrent
<1> SUFFICES ASSUME Quiet
             PROVE  /\ client.lastSeq = Len(log)
                    /\ \A s \in DOMAIN client.messages :
                         \/ s \in client.quarantined /\ s \in DOMAIN acc
                         \/ client.messages[s] = Materialize(log, acc, s)
  BY DEF QuietMeansCurrent
<1>1. /\ sub = "live" /\ net = <<>> /\ ~client.needsCatchup
      /\ \A s \in DOMAIN acc : acc[s].pending = <<>> /\ acc[s].update = <<>>
  BY DEF Quiet
<1>2. /\ log \in Seq(Row) /\ client \in ReducerState /\ Plain(log, acc) /\ Held(client, acc)
      /\ Logged(log, Shown(client.messages)) /\ Copies(log, Shown(client.messages))
  BY DEF SyncInv, BrowserTypes, CopyInv, ChunkInv
<1>3. DOMAIN net = {} /\ Ahead = client
  BY <1>1 DEF Ahead
<1>4. Owes(client, log, acc, net)
  BY <1>1, <1>3 DEF QuietInv, Warned
<1>5. client.lastSeq = Len(log)
  <2>1. client.lastSeq \in Nat /\ Len(log) \in Nat /\ client.lastSeq <= Len(log)
    BY <1>2, ReducerFields DEF WindowInv
  <2>2. Len(log) \notin (client.lastSeq + 1)..Len(log)
    BY <1>3, <1>4 DEF Owes
  <2> QED BY <2>1, <2>2
<1>6. ASSUME NEW s \in DOMAIN client.messages
      PROVE  \/ s \in client.quarantined /\ s \in DOMAIN acc
             \/ client.messages[s] = Materialize(log, acc, s)
  <2> DEFINE row == client.messages[s]
  <2>1. /\ row \in Row /\ s \in DOMAIN log /\ log[s] \in Row
        /\ Version(log, s, row) /\ Copy(log, s, row)
    <3>1. [seq |-> s, row |-> row] \in Shown(client.messages)
      BY DEF Shown
    <3>2. Version(log, s, row) /\ Copy(log, s, row)
      BY <1>2, <3>1 DEF Logged, Copies
    <3> QED BY <1>2, <3>2, ReducerFields DEF Version
  <2>2. row.ver = log[s].ver /\ Same(row, log[s])
    <3>1. Due(log, acc, net, s, row.ver, 0)
      BY <1>4 DEF Owes
    <3>2. row.ver = log[s].ver
      BY <1>1, <1>3, <3>1 DEF Due, Waits
    <3> QED BY <2>1, <3>2 DEF Version
  <2> HIDE DEF row
  <2>3. CASE s \notin DOMAIN acc
    <3>1. ~OpenProse(log[s])
      BY <1>2, <2>1, <2>3 DEF Plain, OpenProse
    <3>2. row = log[s]
      BY <1>2, <2>1, <2>2, <3>1, CopyIs
    <3> QED BY <2>3, <3>2 DEF Materialize, row
  <2>4. CASE s \in DOMAIN acc
    <3>1. /\ log[s].status = "streaming" /\ log[s].kind \in {"prose", "card"}
          /\ acc[s].text \in Seq(Nat) /\ acc[s].deltaIndex \in Int
          /\ log[s].kind # "prose" => log[s].text = acc[s].text
      BY <1>2, <2>1, <2>4, OpenRow DEF Plain
    <3>2. Materialize(log, acc, s) = [log[s] EXCEPT !.text = acc[s].text]
      BY <2>4, <3>1 DEF Materialize
    <3>3. row = [log[s] EXCEPT !.text = row.text]
      BY <2>1, <2>2, Retexted
    <3>4. CASE log[s].kind = "card"
      <4>1. row.text = log[s].text
        BY <2>1, <2>2, <3>4 DEF Copy, OpenProse
      <4> QED BY <3>1, <3>2, <3>3, <3>4, <4>1 DEF row
    <3>5. CASE log[s].kind = "prose" /\ s \notin client.quarantined
      <4>1. Live(client, s)
        BY <2>2, <3>1, <3>5 DEF Live, OpenProse, Same, row
      <4>2. \A k \in ExpectedDelta(client, s)..acc[s].deltaIndex : FALSE
        BY <1>3, <1>4, <2>4, <3>5 DEF Owes
      <4>3. ExpectedDelta(client, s) \in Nat
        BY <1>2, ExpectedIs
      <4>4. ExpectedDelta(client, s) <= acc[s].deltaIndex + 1
        BY <1>2, <2>4, <4>1 DEF Held
      <4> DEFINE x == ExpectedDelta(client, s)
                 y == acc[s].deltaIndex
      <4>5. x \in Int /\ y \in Int /\ x <= y + 1 /\ y \notin x..y
        BY <3>1, <4>2, <4>3, <4>4
      <4> HIDE DEF x, y
      <4>6. x = y + 1
        BY <4>5
      <4>7. Len(row.text) = Emitted(acc[s])
        BY <1>2, <2>4, <4>1, <4>6 DEF Held, x, y, row
      <4>8. /\ Counts(row.text, 0) /\ row.text \in Seq(Nat) /\ Counts(acc[s].text, 0)
        BY <1>2, <2>1, <2>4, ChunkFacts, RowFields DEF Held, row
      <4>9. Emitted(acc[s]) = Len(acc[s].text)
        <5>1. acc[s].pending = <<>> /\ Len(<<>>) = 0 /\ Len(acc[s].text) \in Nat
          BY <1>1, <2>4, <3>1
        <5>2. Len(acc[s].pending) = 0
          BY <5>1
        <5> QED BY <5>1, <5>2 DEF Emitted
      <4>10. row.text = acc[s].text
        <5> DEFINE t == row.text
                   u == acc[s].text
        <5>1. t \in Seq(Nat) /\ u \in Seq(Nat) /\ Len(t) = Len(u) /\ Counts(t, 0) /\ Counts(u, 0)
          BY <3>1, <4>7, <4>8, <4>9
        <5> HIDE DEF t, u
        <5>2. DOMAIN t = DOMAIN u /\ \A i \in DOMAIN t : t[i] = u[i]
          BY <5>1 DEF Counts
        <5>3. t = u
          BY <5>1, <5>2
        <5> QED BY <5>3 DEF t, u
      <4> QED BY <3>2, <3>3, <4>10 DEF row
    <3>6. CASE s \in client.quarantined
      BY <2>4, <3>6
    <3> QED BY <3>1, <3>4, <3>5, <3>6
  <2> QED BY <2>3, <2>4
<1> QED BY <1>5, <1>6

\* As long as no page of older rows is merged and no catch-up is cut short, a
\* browser whose socket is live and empty, with no delta or update held for its
\* tick, shows the log: it is at the head, and every row it holds is the row as
\* it is now, with all the text of an open stream but for one that it has given
\* up joining. What the hub may leave out, suppressed deltas and lost sockets,
\* never leaves the browser behind without a request to catch up on its way.
THEOREM QuietIsCurrent ==
  Spec /\ [][~MergePage]_vars /\ [][Subscribe => CatchupFits]_vars => []QuietMeansCurrent
<1> DEFINE IInv == SyncInv /\ SocketInOrder /\ WindowInv /\ ChunkInv /\ CopyInv /\ QuietInv
<1>1. Init => IInv
  BY SyncInit, WindowInit, ChunkInit, CopyInit
<1>2. IInv /\ [Next]_vars /\ [~MergePage]_vars /\ [Subscribe => CatchupFits]_vars => IInv'
  <2> SUFFICES ASSUME IInv, [Next]_vars, [~MergePage]_vars, [Subscribe => CatchupFits]_vars
               PROVE  IInv'
    OBVIOUS
  <2>1. SyncInv' /\ WindowInv' /\ ChunkInv' /\ CopyInv' /\ QuietInv'
    BY SyncStep, WindowStep, ChunkStep, CopyStep, QuietStep
  <2>2. CASE ~MergePage
    BY <2>1, <2>2, SyncStep
  <2>3. CASE UNCHANGED vars
    BY <2>1, <2>3, SyncStutters
  <2> QED BY <2>2, <2>3
<1>3. IInv => QuietMeansCurrent
  BY QuietCurrent
<1> QED BY <1>1, <1>2, <1>3, PTL DEF Spec
=============================================================================
