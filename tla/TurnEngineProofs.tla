-------------------------- MODULE TurnEngineProofs --------------------------
(***************************************************************************)
(* The turn engine for any number of messages, any queue and any           *)
(* disturbances.                                                           *)
(*                                                                         *)
(* That the cursor covers only what was shown or counted rests on the      *)
(* packets in flight: the window of each holds all from the cursor of      *)
(* today on up to its trigger, because the cursor only grows after it was  *)
(* built. That no message is lost rests on where one below the cursor can  *)
(* be: marked as enqueued again, or the trigger of a call. What a packet   *)
(* has room to show of its window is left open, and nothing is proved of   *)
(* it.                                                                     *)
(*                                                                         *)
(* That no message is accepted twice rests on where it is until then: in   *)
(* one place of the binding, and every function of the binding moves it,   *)
(* or lets it go, but never copies it.                                     *)
(***************************************************************************)
EXTENDS TurnEngine, TLAPS, SequenceTheorems, FiniteSetTheorems, WellFoundedInduction

Entry(M) == [seq : M, again : BOOLEAN]
SendOf(M) == [seq : M, rows : SUBSET M, own : BOOLEAN, tried : BOOLEAN]
SteerOf(M) == [seq : M, rows : SUBSET M, turn : M, own : BOOLEAN]
ProbeOf(M) == [seq : M, rows : SUBSET M, own : BOOLEAN]
RebindOf(M) == [seq : M, own : BOOLEAN]

\* The bindings that know of no messages but those of M.
Bindings(M) ==
  [cursor : M \cup {0}, captured : SUBSET M, bound : BOOLEAN,
   queue : Seq(Entry(M)), steerQ : Seq(M), busy : BOOLEAN, absorbed : Nat,
   active : M \cup {NoTurn}, rows : SUBSET M, preflight : BOOLEAN,
   waiting : BOOLEAN, approvals : SUBSET M, suppressed : SUBSET M,
   retried : SUBSET M, sends : SUBSET SendOf(M), steers : SUBSET SteerOf(M),
   rebinds : SUBSET RebindOf(M), probes : SUBSET ProbeOf(M),
   work : SUBSET M, told : SUBSET M, failed : SUBSET M]

\* The window of a packet for m leaves no hole between the cursor and m.
Carries(rows, m, cursor) == m \in rows /\ (cursor + 1)..m \subseteq rows

Packets(x) ==
  /\ \A c \in x.sends \cup x.steers \cup x.probes : Carries(c.rows, c.seq, x.cursor)
  /\ x.active # NoTurn => Carries(x.rows, x.active, x.cursor)

\* Each of the messages in keep is reported, above the cursor, marked as
\* enqueued again, or the trigger of a call.
Kept(x, keep) ==
  \A m \in keep \ x.told :
    \/ m > x.cursor
    \/ \E i \in DOMAIN x.queue : x.queue[i].seq = m /\ x.queue[i].again
    \/ \E c \in x.sends \cup x.probes \cup x.rebinds : c.seq = m

Sound(x, n, keep) ==
  /\ x \in Bindings(1..n) /\ Packets(x) /\ Kept(x, keep)
  /\ Len(x.queue) + Len(x.steerQ) <= QueueCap

\* The only turn the provider works on, but for those that were given up.
OnlyActive(x) == x.failed = {} => x.work \ x.suppressed \subseteq {x.active}

-----------------------------------------------------------------------------
(* What a binding becomes.                                                 *)

LEMMA LeastNat ==
  ASSUME NEW T \in SUBSET Nat, T # {}
  PROVE  \E x \in T : \A y \in T : x <= y
<1>1. PICK x \in T : \A y \in T : ~(<<y, x>> \in OpToRel(<, Nat))
  BY NatLessThanWellFounded, WFMin
<1>2. \A y \in T : ~(y < x)
  BY <1>1 DEF OpToRel
<1> QED BY <1>2

\* The next turn takes some of the queue; one that was enqueued again is alone.
LEMMA RunLengthOK ==
  ASSUME NEW M, NEW q \in Seq(Entry(M)), q # <<>>
  PROVE  /\ RunLength(q) \in 1..Len(q)
         /\ \A i \in 1..RunLength(q) : q[i].again => RunLength(q) = 1
<1> DEFINE joins(i) == /\ ~q[1].again /\ ~q[i].again
                       /\ coalescesIntoOneTurn(q[1].seq, q[i].seq)
           P(n) == (\A i \in 2..n : joins(i)) /\ (n = Len(q) \/ ~joins(n + 1))
           T == {n \in 1..Len(q) : n = Len(q) \/ ~joins(n + 1)}
<1>0. Len(q) \in Nat /\ Len(q) # 0
  BY EmptySeq
<1>1. T \in SUBSET Nat /\ T # {}
  <2>1. Len(q) \in T
    BY <1>0
  <2> QED BY <2>1
<1>2. PICK k \in T : \A y \in T : k <= y
  <2> HIDE DEF T
  <2> QED BY <1>1, LeastNat
<1>3. k \in 1..Len(q) /\ P(k)
  <2>1. ASSUME NEW i \in 2..k PROVE joins(i)
    <3>1. i - 1 \in 1..Len(q) /\ ~(k <= i - 1) /\ i - 1 # Len(q) /\ i - 1 + 1 = i
      BY <1>0, <1>2
    <3>2. i - 1 \notin T
      BY <1>2, <3>1
    <3> QED BY <3>1, <3>2
  <2> QED BY <1>2, <2>1
<1>4. RunLength(q) = CHOOSE n \in 1..Len(q) : P(n)
  BY DEF RunLength
<1>5. RunLength(q) \in 1..Len(q) /\ P(RunLength(q))
  <2> HIDE DEF P
  <2> QED BY <1>3, <1>4
<1>6. ASSUME NEW i \in 1..RunLength(q), q[i].again, RunLength(q) # 1 PROVE FALSE
  <2>1. 2 \in 2..RunLength(q) /\ (i = 1 \/ i \in 2..RunLength(q))
    BY <1>0, <1>5, <1>6
  <2>2. ~q[1].again /\ (i = 1 \/ ~q[i].again)
    BY <1>5, <2>1
  <2> QED BY <1>6, <2>2
<1> QED BY <1>5, <1>6

\* A finite set of messages has a newest one.
LEMMA NewestExists ==
  ASSUME NEW n \in Nat, NEW T \in SUBSET (1..n), T # {}
  PROVE  \E s \in T : \A t \in T : t <= s
<1> DEFINE U == {n - t : t \in T}
<1>1. U \in SUBSET Nat /\ U # {}
  <2>1. \A t \in T : n - t \in Nat
    OBVIOUS
  <2> QED BY <2>1
<1>2. PICK u \in U : \A v \in U : u <= v
  <2> HIDE DEF U
  <2> QED BY <1>1, LeastNat
<1>3. PICK s \in T : u = n - s
  BY <1>2
<1>4. \A t \in T : n - s <= n - t
  BY <1>2, <1>3
<1> QED BY <1>4

Took(x, k) == [x EXCEPT !.queue = SubSeq(x.queue, k + 1, Len(x.queue))]
Probed(x, m, rows) ==
  [x EXCEPT !.preflight = TRUE,
            !.probes = @ \cup {[seq |-> m, rows |-> rows, own |-> TRUE]}]

\* pump leaves the binding alone, or takes k entries and probes or starts the
\* turn of one of them.
LEMMA PumpCases ==
  ASSUME NEW n \in Nat, NEW x \in Bindings(1..n), pump(x) # x
  PROVE  /\ x.active = NoTurn /\ ~x.preflight /\ x.bound
         /\ \E k \in 1..Len(x.queue), m \in 1..n :
              /\ \E i \in 1..k : x.queue[i].seq = m
              /\ \A i \in 1..k : x.queue[i].again => k = 1
              /\ \/ pump(x) = Probed(Took(x, k), m, Packet(x, m))
                 \/ pump(x) = startTurn(Took(x, k), m, Packet(x, m))
<1> DEFINE k == RunLength(x.queue)
           batch == {x.queue[i].seq : i \in 1..k}
           m == CHOOSE s \in batch : \A t \in batch : t <= s
<1>1. x.active = NoTurn /\ ~x.preflight /\ x.bound /\ x.queue # <<>>
  BY DEF pump
<1>2. x.queue \in Seq(Entry(1..n)) /\ Len(x.queue) \in Nat
  BY DEF Bindings
<1>3. k \in 1..Len(x.queue) /\ \A i \in 1..k : x.queue[i].again => k = 1
  BY <1>1, <1>2, RunLengthOK
<1>4. \/ pump(x) = Probed(Took(x, k), m, Packet(x, m))
      \/ pump(x) = startTurn(Took(x, k), m, Packet(x, m))
  BY <1>1 DEF pump, Probed, Took
<1> HIDE DEF k
<1>5. batch \in SUBSET (1..n) /\ batch # {}
  <2>1. \A i \in 1..k : x.queue[i].seq \in 1..n
    <3> SUFFICES ASSUME NEW i \in 1..k PROVE x.queue[i].seq \in 1..n
      OBVIOUS
    <3>1. i \in 1..Len(x.queue)
      BY <1>2, <1>3
    <3>2. x.queue[i] \in Entry(1..n)
      BY <1>2, <3>1, ElementOfSeq
    <3> QED BY <3>2 DEF Entry
  <2>2. 1 \in 1..k
    BY <1>2, <1>3
  <2> QED BY <2>1, <2>2
<1>6. m \in batch
  <2>1. \E s \in batch : \A t \in batch : t <= s
    <3> HIDE DEF batch
    <3> QED BY <1>5, NewestExists
  <2> HIDE DEF batch
  <2> QED BY <2>1
<1>7. m \in 1..n /\ \E i \in 1..k : x.queue[i].seq = m
  <2> HIDE DEF m
  <2> QED BY <1>5, <1>6
<1> HIDE DEF m
<1> QED BY <1>1, <1>3, <1>4, <1>7

\* The parts of a binding that a function leaves alone.
SameCalls(x, y) ==
  y.sends = x.sends /\ y.steers = x.steers /\ y.rebinds = x.rebinds /\ y.probes = x.probes
SameTurn(x, y) == y.active = x.active /\ y.rows = x.rows /\ y.work = x.work
SameQueues(x, y) == y.queue = x.queue /\ y.steerQ = x.steerQ
SameMarks(x, y) ==
  /\ y.cursor = x.cursor /\ y.told = x.told /\ y.suppressed = x.suppressed
  /\ y.failed = x.failed /\ y.bound = x.bound

\* The entries that are left.
LEMMA TookOK ==
  ASSUME NEW n \in Nat, NEW x \in Bindings(1..n), NEW k \in 1..Len(x.queue)
  PROVE  LET y == Took(x, k)
         IN /\ y \in Bindings(1..n) /\ Len(x.queue) \in Nat /\ Len(y.queue) = Len(x.queue) - k
            /\ DOMAIN x.queue = 1..Len(x.queue) /\ DOMAIN y.queue = 1..(Len(x.queue) - k)
            /\ \A i \in 1..(Len(x.queue) - k) : y.queue[i] = x.queue[k + i]
            /\ y.steerQ = x.steerQ /\ SameCalls(x, y) /\ SameTurn(x, y) /\ SameMarks(x, y)
<1> DEFINE q == x.queue
           r == SubSeq(q, k + 1, Len(q))
           y == Took(x, k)
<1>1. q \in Seq(Entry(1..n)) /\ Len(q) \in Nat /\ DOMAIN q = 1..Len(q)
  BY DEF Bindings
<1>2. k + 1 \in 1..(Len(q) + 1) /\ Len(q) \in 0..Len(q) /\ k \in Nat /\ k <= Len(q)
  BY <1>1
<1>3. r \in Seq(Entry(1..n)) /\ Len(r) = Len(q) - k /\ DOMAIN r = 1..(Len(q) - k)
      /\ \A i \in 1..(Len(q) - k) : r[i] = q[k + i]
  <2> HIDE DEF q
  <2>1. CASE k = Len(q)
    <3>1. r = <<>> /\ Len(q) - k = 0
      BY <1>1, <1>2, <2>1, SubSeqEmpty
    <3> QED BY <3>1
  <2>2. CASE k # Len(q)
    <3>1. \A i \in (k + 1)..Len(q) : q[i] \in Entry(1..n)
      <4> SUFFICES ASSUME NEW i \in (k + 1)..Len(q) PROVE q[i] \in Entry(1..n)
        OBVIOUS
      <4>1. i \in 1..Len(q)
        BY <1>1, <1>2
      <4> QED BY <1>1, <4>1, ElementOfSeq
    <3>2. k + 1 <= Len(q) /\ Len(q) - (k + 1) + 1 = Len(q) - k
      <4>1. \A a, j \in Nat : j <= a /\ j # a => j + 1 <= a /\ a - (j + 1) + 1 = a - j
        OBVIOUS
      <4> QED BY <1>1, <1>2, <2>2, <4>1
    <3> QED BY <1>1, <1>2, <3>1, <3>2, SubSeqProperties
  <2> QED BY <2>1, <2>2
<1> HIDE DEF q, r
<1>4. y = [x EXCEPT !.queue = r]
  BY DEF Took, r, q
<1>5. y \in Bindings(1..n) /\ y.queue = r
  BY <1>3, <1>4 DEF Bindings
<1>6. y.steerQ = x.steerQ /\ SameCalls(x, y) /\ SameTurn(x, y) /\ SameMarks(x, y)
  BY <1>4 DEF Bindings, SameCalls, SameTurn, SameMarks
<1> HIDE DEF y
<1> QED BY <1>1, <1>3, <1>5, <1>6 DEF q, y

\* startTurn.
LEMMA StartOK ==
  ASSUME NEW n \in Nat, NEW x \in Bindings(1..n), NEW m \in 1..n, NEW rows \in SUBSET (1..n)
  PROVE  LET y == startTurn(x, m, rows)
             c == [seq |-> m, rows |-> rows, own |-> TRUE, tried |-> FALSE]
         IN /\ y \in Bindings(1..n)
            /\ y.active = m /\ y.rows = rows /\ y.sends = x.sends \cup {c} /\ y.work = x.work \cup {m}
            /\ y.steers = x.steers /\ y.rebinds = x.rebinds /\ y.probes = x.probes
            /\ SameQueues(x, y) /\ SameMarks(x, y)
<1> DEFINE c == [seq |-> m, rows |-> rows, own |-> TRUE, tried |-> FALSE]
           z == [x EXCEPT !.active = m, !.rows = rows, !.waiting = FALSE]
           y == startTurn(x, m, rows)
<1>1. c \in SendOf(1..n)
  BY DEF SendOf
<1>2. y = [z EXCEPT !.sends = @ \cup {c}, !.work = @ \cup {m}]
  BY DEF startTurn, deliver
<1> HIDE DEF c, y
<1>3. z \in Bindings(1..n) /\ z.active = m /\ z.rows = rows /\ z.work = x.work
  BY DEF Bindings
<1>4. SameCalls(x, z) /\ SameQueues(x, z) /\ SameMarks(x, z)
  BY DEF Bindings, SameCalls, SameQueues, SameMarks
<1> HIDE DEF z
<1>5. z.sends \cup {c} \in SUBSET SendOf(1..n) /\ z.work \cup {m} \in SUBSET (1..n)
  BY <1>1, <1>3 DEF Bindings
<1>6. y \in Bindings(1..n) /\ y.active = m /\ y.rows = rows
  BY <1>2, <1>3, <1>5 DEF Bindings
<1>7. y.sends = z.sends \cup {c} /\ y.work = z.work \cup {m}
  BY <1>2, <1>3 DEF Bindings
<1>8. /\ y.steers = z.steers /\ y.rebinds = z.rebinds /\ y.probes = z.probes
      /\ SameQueues(z, y) /\ SameMarks(z, y)
  BY <1>2, <1>3 DEF Bindings, SameQueues, SameMarks
<1> QED BY <1>3, <1>4, <1>6, <1>7, <1>8 DEF c, y, SameCalls, SameQueues, SameMarks

LEMMA ProbedOK ==
  ASSUME NEW n \in Nat, NEW x \in Bindings(1..n), NEW m \in 1..n, NEW rows \in SUBSET (1..n)
  PROVE  LET y == Probed(x, m, rows)
             c == [seq |-> m, rows |-> rows, own |-> TRUE]
         IN /\ y \in Bindings(1..n) /\ y.probes = x.probes \cup {c}
            /\ y.sends = x.sends /\ y.steers = x.steers /\ y.rebinds = x.rebinds
            /\ SameTurn(x, y) /\ SameQueues(x, y) /\ SameMarks(x, y)
<1> DEFINE c == [seq |-> m, rows |-> rows, own |-> TRUE]
           y == Probed(x, m, rows)
<1>1. c \in ProbeOf(1..n)
  BY DEF ProbeOf
<1>2. y = [x EXCEPT !.preflight = TRUE, !.probes = @ \cup {c}]
  BY DEF Probed
<1> HIDE DEF c, y
<1>3. x.probes \cup {c} \in SUBSET ProbeOf(1..n)
  BY <1>1 DEF Bindings
<1>4. y \in Bindings(1..n) /\ y.probes = x.probes \cup {c}
  BY <1>2, <1>3 DEF Bindings
<1>5. /\ y.sends = x.sends /\ y.steers = x.steers /\ y.rebinds = x.rebinds
      /\ SameTurn(x, y) /\ SameQueues(x, y) /\ SameMarks(x, y)
  BY <1>2 DEF Bindings, SameTurn, SameQueues, SameMarks
<1> QED BY <1>4, <1>5 DEF c, y

\* buildPacket.
LEMMA PacketCarries ==
  ASSUME NEW n \in Nat, NEW x \in Bindings(1..n), NEW m \in 1..n
  PROVE  Packet(x, m) \in SUBSET (1..n) /\ Carries(Packet(x, m), m, x.cursor)
<1>1. x.cursor \in Nat
  BY DEF Bindings
<1> QED BY <1>1 DEF Packet, Carries

-----------------------------------------------------------------------------
(* The functions of the binding keep Sound.                                *)

\* A turn starts that carries its packet.
LEMMA StartSound ==
  ASSUME NEW n \in Nat, NEW keep, NEW x, Sound(x, n, keep), NEW m \in 1..n,
         NEW rows \in SUBSET (1..n), Carries(rows, m, x.cursor)
  PROVE  Sound(startTurn(x, m, rows), n, keep \cup {m})
<1> DEFINE y == startTurn(x, m, rows)
           c == [seq |-> m, rows |-> rows, own |-> TRUE, tried |-> FALSE]
<1>0. x \in Bindings(1..n) /\ Packets(x) /\ Kept(x, keep) /\ Len(x.queue) + Len(x.steerQ) <= QueueCap
  BY DEF Sound
<1>1. /\ y \in Bindings(1..n)
      /\ y.active = m /\ y.rows = rows /\ y.sends = x.sends \cup {c}
      /\ y.steers = x.steers /\ y.rebinds = x.rebinds /\ y.probes = x.probes
      /\ SameQueues(x, y) /\ SameMarks(x, y)
  BY <1>0, StartOK
<1> HIDE DEF y
<1>2. c.seq = m /\ c.rows = rows
  OBVIOUS
<1> HIDE DEF c
<1>3. /\ y.cursor = x.cursor /\ y.sends = x.sends \cup {c} /\ y.steers = x.steers /\ y.probes = x.probes
      /\ y.rebinds = x.rebinds /\ y.active = m /\ y.rows = rows /\ y.queue = x.queue
      /\ y.steerQ = x.steerQ /\ y.told = x.told
  BY <1>1 DEF SameTurn, SameQueues, SameMarks, SameCalls
<1>4. Packets(y)
  BY <1>0, <1>2, <1>3 DEF Packets
<1>5. Kept(y, keep \cup {m})
  BY <1>0, <1>2, <1>3 DEF Kept
<1> QED BY <1>0, <1>1, <1>3, <1>4, <1>5 DEF Sound, y

LEMMA ProbedSound ==
  ASSUME NEW n \in Nat, NEW keep, NEW x, Sound(x, n, keep), NEW m \in 1..n,
         NEW rows \in SUBSET (1..n), Carries(rows, m, x.cursor)
  PROVE  Sound(Probed(x, m, rows), n, keep \cup {m})
<1> DEFINE y == Probed(x, m, rows)
           c == [seq |-> m, rows |-> rows, own |-> TRUE]
<1>0. x \in Bindings(1..n) /\ Packets(x) /\ Kept(x, keep) /\ Len(x.queue) + Len(x.steerQ) <= QueueCap
  BY DEF Sound
<1>1. /\ y \in Bindings(1..n) /\ y.probes = x.probes \cup {c}
      /\ y.sends = x.sends /\ y.steers = x.steers /\ y.rebinds = x.rebinds
      /\ SameTurn(x, y) /\ SameQueues(x, y) /\ SameMarks(x, y)
  BY <1>0, ProbedOK
<1> HIDE DEF y
<1>2. c.seq = m /\ c.rows = rows
  OBVIOUS
<1> HIDE DEF c
<1>3. /\ y.cursor = x.cursor /\ y.sends = x.sends /\ y.steers = x.steers /\ y.probes = x.probes \cup {c}
      /\ y.rebinds = x.rebinds /\ y.active = x.active /\ y.rows = x.rows /\ y.queue = x.queue
      /\ y.steerQ = x.steerQ /\ y.told = x.told
  BY <1>1 DEF SameTurn, SameQueues, SameMarks, SameCalls
<1>4. Packets(y)
  BY <1>0, <1>2, <1>3 DEF Packets
<1>5. Kept(y, keep \cup {m})
  BY <1>0, <1>2, <1>3 DEF Kept
<1> QED BY <1>0, <1>1, <1>3, <1>4, <1>5 DEF Sound, y

\* The queue loses k entries of which only one may have been enqueued again.
LEMMA TookSound ==
  ASSUME NEW n \in Nat, NEW keep, NEW x, Sound(x, n, keep), NEW k \in 1..Len(x.queue), NEW m,
         \E i \in 1..k : x.queue[i].seq = m,
         \A i \in 1..k : x.queue[i].again => k = 1
  PROVE  Sound(Took(x, k), n, keep \ {m})
<1> DEFINE y == Took(x, k)
<1>0. x \in Bindings(1..n) /\ Packets(x) /\ Kept(x, keep) /\ Len(x.queue) + Len(x.steerQ) <= QueueCap
  BY DEF Sound
<1>1. /\ y \in Bindings(1..n) /\ Len(x.queue) \in Nat /\ Len(y.queue) = Len(x.queue) - k
      /\ DOMAIN x.queue = 1..Len(x.queue) /\ DOMAIN y.queue = 1..(Len(x.queue) - k)
      /\ \A i \in 1..(Len(x.queue) - k) : y.queue[i] = x.queue[k + i]
      /\ y.steerQ = x.steerQ /\ SameCalls(x, y) /\ SameTurn(x, y) /\ SameMarks(x, y)
  BY <1>0, TookOK
<1> HIDE DEF y
<1>2. /\ y.cursor = x.cursor /\ y.sends = x.sends /\ y.steers = x.steers /\ y.probes = x.probes
      /\ y.rebinds = x.rebinds /\ y.active = x.active /\ y.rows = x.rows
      /\ y.steerQ = x.steerQ /\ y.told = x.told
  BY <1>1 DEF SameTurn, SameQueues, SameMarks, SameCalls
<1>3. Packets(y)
  BY <1>0, <1>2 DEF Packets
<1>4. Kept(y, keep \ {m})
  <2> SUFFICES ASSUME NEW s \in keep \ x.told, s # m
               PROVE  \/ s > x.cursor
                      \/ \E i \in DOMAIN y.queue : y.queue[i].seq = s /\ y.queue[i].again
                      \/ \E c \in x.sends \cup x.probes \cup x.rebinds : c.seq = s
    BY <1>2 DEF Kept
  <2>1. ASSUME NEW i \in DOMAIN x.queue, x.queue[i].seq = s, x.queue[i].again
        PROVE  \E j \in DOMAIN y.queue : y.queue[j].seq = s /\ y.queue[j].again
    <3>2. ~(i \in 1..k)
      <4> SUFFICES ASSUME i \in 1..k PROVE FALSE
        OBVIOUS
      <4>1. k = 1 /\ i = 1
        BY <2>1
      <4> QED BY <2>1, <4>1
    <3>3. i - k \in 1..(Len(x.queue) - k) /\ k + (i - k) = i
      BY <1>1, <3>2
    <3>4. i - k \in DOMAIN y.queue /\ y.queue[i - k] = x.queue[i]
      BY <1>1, <3>3
    <3> QED BY <2>1, <3>4
  <2> QED BY <1>0, <2>1 DEF Kept
<1>5. Len(y.queue) + Len(y.steerQ) <= QueueCap
  <2>1. Len(x.steerQ) \in Nat /\ QueueCap \in Nat
    BY <1>0, TurnConstants DEF Bindings
  <2>2. Len(y.queue) = Len(x.queue) - k /\ Len(x.queue) \in Nat /\ y.steerQ = x.steerQ /\ k \in Nat
    BY <1>1
  <2>3. Len(x.queue) + Len(x.steerQ) <= QueueCap
    BY <1>0
  <2>4. \A a, s, c, j \in Nat : a + s <= c => (a - j) + s <= c
    OBVIOUS
  <2> QED BY <2>1, <2>2, <2>3, <2>4
<1> QED BY <1>1, <1>3, <1>4, <1>5 DEF Sound, y

LEMMA PumpSound ==
  ASSUME NEW n \in Nat, NEW keep, NEW x, Sound(x, n, keep)
  PROVE  Sound(pump(x), n, keep)
<1>1. CASE pump(x) = x
  BY <1>1
<1>2. CASE pump(x) # x
  <2>0. x \in Bindings(1..n)
    BY DEF Sound
  <2>1. PICK k \in 1..Len(x.queue), m \in 1..n :
           /\ \E i \in 1..k : x.queue[i].seq = m
           /\ \A i \in 1..k : x.queue[i].again => k = 1
           /\ \/ pump(x) = Probed(Took(x, k), m, Packet(x, m))
              \/ pump(x) = startTurn(Took(x, k), m, Packet(x, m))
    BY <1>2, <2>0, PumpCases
  <2>2. Sound(Took(x, k), n, keep \ {m}) /\ Took(x, k).cursor = x.cursor
    <3>1. Took(x, k).cursor = x.cursor
      BY <2>0 DEF Took, Bindings
    <3> QED BY <2>1, <3>1, TookSound
  <2>3. Packet(x, m) \in SUBSET (1..n) /\ Carries(Packet(x, m), m, Took(x, k).cursor)
    BY <2>0, <2>2, PacketCarries
  <2>4. Sound(pump(x), n, (keep \ {m}) \cup {m})
    BY <2>1, <2>2, <2>3, StartSound, ProbedSound
  <2> QED BY <2>4 DEF Sound, Kept
<1> QED BY <1>1, <1>2

\* drainSteering.
LEMMA DrainOK ==
  ASSUME NEW n \in Nat, NEW x \in Bindings(1..n), drainSteering(x) # x
  PROVE  LET y == drainSteering(x)
             m == Head(x.steerQ)
             c == [seq |-> m, rows |-> Packet(x, m), turn |-> x.active, own |-> TRUE]
         IN /\ x.steerQ # <<>> /\ m \in 1..n /\ y \in Bindings(1..n)
            /\ y.steerQ = Tail(x.steerQ) /\ y.steers = x.steers \cup {c}
            /\ y.sends = x.sends /\ y.rebinds = x.rebinds /\ y.probes = x.probes
            /\ y.queue = x.queue /\ SameTurn(x, y) /\ SameMarks(x, y)
<1> DEFINE m == Head(x.steerQ)
           c == [seq |-> m, rows |-> Packet(x, m), turn |-> x.active, own |-> TRUE]
           y == drainSteering(x)
<1>1. /\ x.active # NoTurn /\ x.steerQ # <<>>
      /\ y = [x EXCEPT !.steerQ = Tail(@), !.busy = TRUE, !.steers = @ \cup {c}]
  BY DEF drainSteering
<1>2. x.steerQ \in Seq(1..n) /\ x.active \in 1..n
  BY <1>1 DEF Bindings
<1>3. m \in 1..n /\ Tail(x.steerQ) \in Seq(1..n)
  BY <1>1, <1>2, HeadTailProperties
<1>4. Packet(x, m) \in SUBSET (1..n)
  <2> HIDE DEF m
  <2> QED BY <1>3, PacketCarries
<1>5. c \in SteerOf(1..n)
  BY <1>2, <1>3, <1>4 DEF SteerOf
<1> HIDE DEF c, y
<1>6. x.steers \cup {c} \in SUBSET SteerOf(1..n)
  BY <1>5 DEF Bindings
<1>7. y \in Bindings(1..n)
  BY <1>1, <1>3, <1>6 DEF Bindings
<1>8. /\ y.steerQ = Tail(x.steerQ) /\ y.steers = x.steers \cup {c}
      /\ y.sends = x.sends /\ y.rebinds = x.rebinds /\ y.probes = x.probes /\ y.queue = x.queue
  BY <1>1 DEF Bindings
<1>9. SameTurn(x, y) /\ SameMarks(x, y)
  BY <1>1 DEF Bindings, SameTurn, SameMarks
<1> QED BY <1>1, <1>3, <1>7, <1>8, <1>9 DEF c, y

LEMMA DrainSound ==
  ASSUME NEW n \in Nat, NEW keep, NEW x, Sound(x, n, keep)
  PROVE  Sound(drainSteering(x), n, keep)
<1>1. CASE drainSteering(x) = x
  BY <1>1
<1>2. CASE drainSteering(x) # x
  <2> DEFINE m == Head(x.steerQ)
             c == [seq |-> m, rows |-> Packet(x, m), turn |-> x.active, own |-> TRUE]
             y == drainSteering(x)
  <2>0. x \in Bindings(1..n) /\ Packets(x) /\ Kept(x, keep) /\ Len(x.queue) + Len(x.steerQ) <= QueueCap
    BY DEF Sound
  <2>1. /\ x.steerQ # <<>> /\ m \in 1..n /\ y \in Bindings(1..n)
        /\ y.steerQ = Tail(x.steerQ) /\ y.steers = x.steers \cup {c}
        /\ y.sends = x.sends /\ y.rebinds = x.rebinds /\ y.probes = x.probes
        /\ y.queue = x.queue /\ SameTurn(x, y) /\ SameMarks(x, y)
    BY <1>2, <2>0, DrainOK
  <2>2. c.seq = m /\ c.rows = Packet(x, m)
    OBVIOUS
  <2> HIDE DEF c, m, y
  <2>3. y.cursor = x.cursor /\ y.active = x.active /\ y.rows = x.rows /\ y.told = x.told
    BY <2>1 DEF SameTurn, SameMarks
  <2>4. Carries(c.rows, c.seq, y.cursor)
    BY <2>0, <2>1, <2>2, <2>3, PacketCarries
  <2>5. Packets(y)
    BY <2>0, <2>1, <2>3, <2>4 DEF Packets
  <2>6. Kept(y, keep)
    BY <2>0, <2>1, <2>3 DEF Kept
  <2>7. Len(y.queue) + Len(y.steerQ) <= QueueCap
    <3>1. x.queue \in Seq(Entry(1..n)) /\ x.steerQ \in Seq(1..n)
      BY <2>0 DEF Bindings
    <3>2. Len(x.queue) \in Nat /\ Len(x.steerQ) \in Nat /\ Len(y.steerQ) = Len(x.steerQ) - 1 /\ QueueCap \in Nat
      BY <2>1, <3>1, HeadTailProperties, TurnConstants
    <3>3. \A a, s, d \in Nat : a + s <= d => a + (s - 1) <= d
      OBVIOUS
    <3>4. Len(x.queue) + Len(x.steerQ) <= QueueCap
      BY <2>0
    <3> QED BY <2>1, <3>2, <3>3, <3>4
  <2> QED BY <2>1, <2>5, <2>6, <2>7 DEF Sound, y
<1> QED BY <1>1, <1>2

\* The queue may change in every way that keeps what was enqueued again.
LEMMA QueueSound ==
  ASSUME NEW n \in Nat, NEW keep, NEW kept, NEW x, Sound(x, n, kept),
         NEW y \in Bindings(1..n), SameCalls(x, y), y.cursor = x.cursor, x.told \subseteq y.told,
         y.active = NoTurn \/ (y.active = x.active /\ y.rows = x.rows),
         \A m \in keep \ (y.told \cup kept) :
            \E i \in DOMAIN y.queue : y.queue[i].seq = m /\ y.queue[i].again,
         \A i \in DOMAIN x.queue : x.queue[i].again =>
            \/ x.queue[i].seq \in y.told
            \/ \E j \in DOMAIN y.queue : y.queue[j] = x.queue[i],
         Len(y.queue) + Len(y.steerQ) <= QueueCap
  PROVE  Sound(y, n, keep)
<1>0. Packets(x) /\ Kept(x, kept)
  BY DEF Sound
<1>1. Packets(y)
  BY <1>0 DEF Packets, SameCalls
<1>2. Kept(y, keep)
  <2> SUFFICES ASSUME NEW m \in keep \ y.told
               PROVE  \/ m > y.cursor
                      \/ \E i \in DOMAIN y.queue : y.queue[i].seq = m /\ y.queue[i].again
                      \/ \E c \in y.sends \cup y.probes \cup y.rebinds : c.seq = m
    BY DEF Kept
  <2>1. CASE m \notin kept
    BY <2>1
  <2>2. CASE m \in kept
    <3>1. m \in kept \ x.told
      BY <2>2
    <3>2. CASE \E i \in DOMAIN x.queue : x.queue[i].seq = m /\ x.queue[i].again
      BY <3>2
    <3>3. CASE m > x.cursor \/ \E c \in x.sends \cup x.probes \cup x.rebinds : c.seq = m
      BY <3>3 DEF SameCalls
    <3> QED BY <1>0, <3>1, <3>2, <3>3 DEF Kept
  <2> QED BY <2>1, <2>2
<1> QED BY <1>1, <1>2 DEF Sound

Told(x, m) == [x EXCEPT !.told = @ \cup {m}]
Steered(x, m) == [x EXCEPT !.steerQ = Append(@, m)]
Queued(x, m, again) == [x EXCEPT !.queue = Append(@, [seq |-> m, again |-> again])]
Merged(x, m) == [x EXCEPT !.queue = Append(Front(@), [seq |-> m, again |-> FALSE])]

\* enqueueTurn reports the message, steers it, queues it or merges the last
\* entry into it.
LEMMA EnqueueCases ==
  ASSUME NEW x, NEW m, NEW interrupt, NEW again \in BOOLEAN
  PROVE  LET y == enqueueTurn(x, m, interrupt, again)
         IN \/ y = Told(x, m)
            \/ ~again /\ occupiedTurnSlots(x) < QueueCap /\ y = drainSteering(Steered(x, m))
            \/ ~again /\ ~(occupiedTurnSlots(x) >= QueueCap) /\ y = drainSteering(Steered(x, m))
            \/ occupiedTurnSlots(x) < QueueCap /\ y = pump(Queued(x, m, again))
            \/ ~again /\ x.queue # <<>> /\ ~Last(x.queue).again /\ y = pump(Merged(x, m))
BY DEF enqueueTurn, Told, Steered, Queued, Merged

\* A free slot is one more message that may wait.
LEMMA SlotFree ==
  ASSUME NEW n \in Nat, NEW x \in Bindings(1..n),
         occupiedTurnSlots(x) < QueueCap \/ ~(occupiedTurnSlots(x) >= QueueCap)
  PROVE  Len(x.queue) + 1 + Len(x.steerQ) <= QueueCap
<1> DEFINE p == Len(x.queue)
           q == Len(x.steerQ)
           a == x.absorbed
           f == IF x.busy THEN 1 ELSE 0
<1>1. p \in Nat /\ q \in Nat /\ a \in Nat /\ f \in Nat /\ QueueCap \in Nat
  BY TurnConstants DEF Bindings
<1>2. p + q + a + f < QueueCap \/ ~(p + q + a + f >= QueueCap)
  BY DEF occupiedTurnSlots
<1> HIDE DEF p, q, a, f
<1>3. p + 1 + q <= QueueCap
  BY <1>1, <1>2
<1> QED BY <1>3 DEF p, q

LEMMA ToldSound ==
  ASSUME NEW n \in Nat, NEW keep, NEW m \in 1..n, NEW x, Sound(x, n, keep \ {m})
  PROVE  Sound(Told(x, m), n, keep)
<1> DEFINE y == Told(x, m)
<1>0. x \in Bindings(1..n) /\ Len(x.queue) + Len(x.steerQ) <= QueueCap
  BY DEF Sound
<1>1. y \in Bindings(1..n)
  BY <1>0 DEF Told, Bindings
<1>2. SameCalls(x, y) /\ SameTurn(x, y) /\ SameQueues(x, y) /\ y.cursor = x.cursor /\ y.told = x.told \cup {m}
  BY <1>0 DEF Told, Bindings, SameCalls, SameTurn, SameQueues
<1> HIDE DEF y
<1>3. /\ y.active = x.active /\ y.rows = x.rows /\ x.told \subseteq y.told
      /\ y.queue = x.queue /\ y.steerQ = x.steerQ
  BY <1>2 DEF SameTurn, SameQueues
<1>4. keep \ (y.told \cup (keep \ {m})) = {}
  BY <1>2
<1>5. Sound(y, n, keep)
  BY <1>0, <1>1, <1>2, <1>3, <1>4, QueueSound
<1> QED BY <1>5 DEF y

LEMMA SteeredSound ==
  ASSUME NEW n \in Nat, NEW keep, NEW m \in 1..n, NEW x, Sound(x, n, keep),
         Len(x.queue) + 1 + Len(x.steerQ) <= QueueCap
  PROVE  Sound(Steered(x, m), n, keep)
<1> DEFINE y == Steered(x, m)
<1>0. x \in Bindings(1..n) /\ x.steerQ \in Seq(1..n) /\ Len(x.steerQ) \in Nat /\ Len(x.queue) \in Nat
  BY DEF Sound, Bindings
<1>1. Append(x.steerQ, m) \in Seq(1..n) /\ Len(Append(x.steerQ, m)) = Len(x.steerQ) + 1
  BY <1>0, AppendProperties
<1>2. y \in Bindings(1..n)
  BY <1>0, <1>1 DEF Steered, Bindings
<1>3. /\ SameCalls(x, y) /\ SameTurn(x, y) /\ y.queue = x.queue
      /\ y.steerQ = Append(x.steerQ, m) /\ y.cursor = x.cursor /\ y.told = x.told
  BY <1>0 DEF Steered, Bindings, SameCalls, SameTurn
<1> HIDE DEF y
<1>4. y.active = x.active /\ y.rows = x.rows /\ keep \ (y.told \cup keep) = {}
  BY <1>3 DEF SameTurn
<1>5. Len(y.queue) + Len(y.steerQ) <= QueueCap
  <2>1. Len(x.queue) + (Len(x.steerQ) + 1) = Len(x.queue) + 1 + Len(x.steerQ)
    <3>1. \A a, s \in Nat : a + (s + 1) = a + 1 + s
      OBVIOUS
    <3> QED BY <1>0, <3>1
  <2>2. Len(y.steerQ) = Len(x.steerQ) + 1 /\ Len(y.queue) = Len(x.queue)
    BY <1>1, <1>3
  <2> QED BY <2>1, <2>2
<1>6. Sound(y, n, keep)
  BY <1>2, <1>3, <1>4, <1>5, QueueSound
<1> QED BY <1>6 DEF y

LEMMA QueuedSound ==
  ASSUME NEW n \in Nat, NEW keep, NEW m \in 1..n, NEW again \in BOOLEAN, NEW x,
         Sound(x, n, IF again THEN keep \ {m} ELSE keep),
         Len(x.queue) + 1 + Len(x.steerQ) <= QueueCap
  PROVE  Sound(Queued(x, m, again), n, keep)
<1> DEFINE y == Queued(x, m, again)
           e == [seq |-> m, again |-> again]
           q == x.queue
           r == Append(q, e)
<1>0. x \in Bindings(1..n) /\ q \in Seq(Entry(1..n)) /\ Len(q) \in Nat /\ DOMAIN q = 1..Len(q)
  <2>1. x \in Bindings(1..n)
    BY DEF Sound
  <2> QED BY <2>1 DEF Bindings
<1>1. e \in Entry(1..n) /\ e.seq = m /\ e.again = again
  BY DEF Entry
<1>2. y = [x EXCEPT !.queue = r]
  BY DEF Queued
<1> HIDE DEF e, q, y
<1>3. /\ r \in Seq(Entry(1..n)) /\ Len(r) = Len(q) + 1 /\ r[Len(q) + 1] = e
      /\ \A i \in 1..Len(q) : r[i] = q[i]
  BY <1>0, <1>1, AppendProperties
<1> HIDE DEF r
<1>4. DOMAIN r = 1..(Len(q) + 1)
  BY <1>3
<1>5. y \in Bindings(1..n) /\ y.queue = r
  BY <1>0, <1>2, <1>3 DEF Bindings
<1>6. /\ SameCalls(x, y) /\ SameTurn(x, y) /\ y.steerQ = x.steerQ
      /\ y.cursor = x.cursor /\ y.told = x.told
  BY <1>0, <1>2 DEF Bindings, SameCalls, SameTurn
<1>7. y.active = x.active /\ y.rows = x.rows
  BY <1>6 DEF SameTurn
<1>8. \A s \in keep \ (y.told \cup (IF again THEN keep \ {m} ELSE keep)) :
         \E i \in DOMAIN y.queue : y.queue[i].seq = s /\ y.queue[i].again
  <2> SUFFICES ASSUME NEW s \in keep, s \notin (IF again THEN keep \ {m} ELSE keep)
               PROVE  \E i \in DOMAIN r : r[i].seq = s /\ r[i].again
    BY <1>5
  <2>1. s = m /\ again
    OBVIOUS
  <2>2. Len(q) + 1 \in DOMAIN r
    BY <1>0, <1>4
  <2> QED BY <1>1, <1>3, <2>1, <2>2
<1>9. \A i \in DOMAIN x.queue : \E j \in DOMAIN y.queue : y.queue[j] = x.queue[i]
  <2> SUFFICES ASSUME NEW i \in DOMAIN q PROVE i \in DOMAIN r /\ r[i] = q[i]
    BY <1>5 DEF q
  <2> QED BY <1>0, <1>3, <1>4
<1>10. Len(y.queue) + Len(y.steerQ) <= QueueCap
  BY <1>3, <1>5, <1>6 DEF q
<1>11. Sound(y, n, keep)
  BY <1>5, <1>6, <1>7, <1>8, <1>9, <1>10, QueueSound
<1> QED BY <1>11 DEF y

\* The last entry gives way to the new one.
LEMMA MergedOK ==
  ASSUME NEW n \in Nat, NEW m \in 1..n, NEW x \in Bindings(1..n), x.queue # <<>>
  PROVE  LET y == Merged(x, m)
         IN /\ y \in Bindings(1..n) /\ SameCalls(x, y) /\ SameTurn(x, y) /\ SameMarks(x, y)
            /\ y.steerQ = x.steerQ /\ Len(x.queue) \in Nat /\ Len(y.queue) = Len(x.queue)
            /\ DOMAIN x.queue = 1..Len(x.queue) /\ DOMAIN y.queue = DOMAIN x.queue
            /\ \A i \in 1..(Len(x.queue) - 1) : y.queue[i] = x.queue[i]
            /\ y.queue[Len(x.queue)] = [seq |-> m, again |-> FALSE]
<1> DEFINE y == Merged(x, m)
           e == [seq |-> m, again |-> FALSE]
           q == x.queue
           f == SubSeq(q, 1, Len(q) - 1)
           r == Append(f, e)
<1>0. q \in Seq(Entry(1..n)) /\ Len(q) \in Nat /\ DOMAIN q = 1..Len(q)
  BY DEF Bindings
<1>1. e \in Entry(1..n) /\ Len(q) # 0
  BY <1>0, EmptySeq DEF Entry
<1>2. y = [x EXCEPT !.queue = r]
  BY DEF Merged, Front
<1> HIDE DEF e, q, y
<1>3. f \in Seq(Entry(1..n)) /\ Len(f) = Len(q) - 1 /\ \A i \in 1..(Len(q) - 1) : f[i] = q[i]
  <2>0. Len(q) - 1 \in Nat /\ Len(q) - 1 <= Len(q)
    BY <1>0, <1>1
  <2>1. \A i \in 1..(Len(q) - 1) : q[i] \in Entry(1..n)
    BY <1>0, <2>0, ElementOfSeq
  <2> DEFINE l == Len(q) - 1
  <2>2. f = [i \in 1..l |-> q[i]]
    BY <2>0
  <2> HIDE DEF l
  <2>3. f \in [1..l -> Entry(1..n)] /\ l \in Nat
    BY <2>0, <2>1, <2>2 DEF l
  <2> HIDE DEF f
  <2> QED BY <2>2, <2>3 DEF l
<1> HIDE DEF f
<1>4. /\ r \in Seq(Entry(1..n)) /\ Len(r) = Len(f) + 1 /\ r[Len(f) + 1] = e
      /\ \A i \in 1..Len(f) : r[i] = f[i]
  BY <1>1, <1>3, AppendProperties
<1> HIDE DEF r
<1>5. y \in Bindings(1..n) /\ y.queue = r
  BY <1>2, <1>4 DEF Bindings
<1>6. SameCalls(x, y) /\ SameTurn(x, y) /\ SameMarks(x, y) /\ y.steerQ = x.steerQ
  BY <1>2 DEF Bindings, SameCalls, SameTurn, SameMarks
<1>7. Len(r) = Len(q) /\ Len(f) + 1 = Len(q)
  <2>1. (Len(q) - 1) + 1 = Len(q)
    BY <1>0
  <2>2. Len(r) = Len(f) + 1 /\ Len(f) = Len(q) - 1
    BY <1>3, <1>4
  <2> QED BY <2>1, <2>2
<1>8. DOMAIN r = DOMAIN q
  <2>1. DOMAIN r = 1..Len(r)
    BY <1>4
  <2> QED BY <1>0, <1>7, <2>1
<1>9. \A i \in 1..(Len(q) - 1) : r[i] = q[i]
  BY <1>3, <1>4
<1>10. r[Len(q)] = e
  BY <1>4, <1>7
<1> QED BY <1>0, <1>1, <1>5, <1>6, <1>7, <1>8, <1>9, <1>10 DEF q, y, e

LEMMA MergedSound ==
  ASSUME NEW n \in Nat, NEW keep, NEW m \in 1..n, NEW x, Sound(x, n, keep),
         x.queue # <<>>, ~Last(x.queue).again
  PROVE  Sound(Merged(x, m), n, keep)
<1> DEFINE y == Merged(x, m)
<1>0. x \in Bindings(1..n) /\ ~x.queue[Len(x.queue)].again /\ Len(x.queue) + Len(x.steerQ) <= QueueCap
  BY DEF Sound, Last
<1>1. /\ y \in Bindings(1..n) /\ SameCalls(x, y) /\ SameTurn(x, y) /\ SameMarks(x, y)
      /\ y.steerQ = x.steerQ /\ Len(x.queue) \in Nat /\ Len(y.queue) = Len(x.queue)
      /\ DOMAIN x.queue = 1..Len(x.queue) /\ DOMAIN y.queue = DOMAIN x.queue
      /\ \A i \in 1..(Len(x.queue) - 1) : y.queue[i] = x.queue[i]
  <2>1. x \in Bindings(1..n)
    BY <1>0
  <2> QED BY <2>1, MergedOK
<1> HIDE DEF y
<1>2. /\ y.active = x.active /\ y.rows = x.rows /\ y.cursor = x.cursor /\ y.told = x.told
      /\ keep \ (y.told \cup keep) = {}
  BY <1>1 DEF SameTurn, SameMarks
<1>3. ASSUME NEW i \in DOMAIN x.queue, x.queue[i].again
      PROVE  i \in DOMAIN y.queue /\ y.queue[i] = x.queue[i]
  <2>1. i \in 1..(Len(x.queue) - 1)
    BY <1>0, <1>1, <1>3
  <2> QED BY <1>1, <2>1
<1>4. Len(y.queue) + Len(y.steerQ) <= QueueCap
  BY <1>0, <1>1
<1>5. Sound(y, n, keep)
  BY <1>1, <1>2, <1>3, <1>4, QueueSound
<1> QED BY <1>5 DEF y

\* enqueueTurn. A message that is enqueued again may be below the cursor.
LEMMA EnqueueSound ==
  ASSUME NEW n \in Nat, NEW keep, NEW m \in 1..n, NEW interrupt, NEW again \in BOOLEAN, NEW x,
         Sound(x, n, IF again THEN keep \ {m} ELSE keep)
  PROVE  Sound(enqueueTurn(x, m, interrupt, again), n, keep)
<1> DEFINE y == enqueueTurn(x, m, interrupt, again)
<1>0. x \in Bindings(1..n)
  BY DEF Sound
<1>1. CASE y = Told(x, m)
  <2>1. Sound(x, n, keep \ {m})
    BY DEF Sound, Kept
  <2> QED BY <1>1, <2>1, ToldSound
<1>2. CASE /\ ~again /\ y = drainSteering(Steered(x, m))
           /\ occupiedTurnSlots(x) < QueueCap \/ ~(occupiedTurnSlots(x) >= QueueCap)
  BY <1>0, <1>2, SlotFree, SteeredSound, DrainSound
<1>3. CASE occupiedTurnSlots(x) < QueueCap /\ y = pump(Queued(x, m, again))
  <2>1. Sound(Queued(x, m, again), n, keep)
    BY <1>0, <1>3, SlotFree, QueuedSound
  <2> QED BY <1>3, <2>1, PumpSound
<1>4. CASE ~again /\ x.queue # <<>> /\ ~Last(x.queue).again /\ y = pump(Merged(x, m))
  BY <1>4, MergedSound, PumpSound
<1> HIDE DEF y
<1> QED BY <1>1, <1>2, <1>3, <1>4, EnqueueCases DEF y

\* What was kept is kept in part.
LEMMA SoundOfFewer ==
  ASSUME NEW n, NEW kept, NEW keep, NEW x, Sound(x, n, kept), keep \subseteq kept
  PROVE  Sound(x, n, keep)
BY DEF Sound, Kept

\* Fields that none of this is about may change.
LEMMA AsideSound ==
  ASSUME NEW n \in Nat, NEW keep, NEW x, Sound(x, n, keep), NEW y \in Bindings(1..n),
         SameCalls(x, y), SameQueues(x, y), y.cursor = x.cursor, x.told \subseteq y.told,
         y.active = x.active, y.rows = x.rows
  PROVE  Sound(y, n, keep)
<1>1. y.queue = x.queue /\ y.steerQ = x.steerQ /\ Len(x.queue) + Len(x.steerQ) <= QueueCap
  BY DEF Sound, SameQueues
<1>2. keep \ (y.told \cup keep) = {}
  OBVIOUS
<1> QED BY <1>1, <1>2, QueueSound

\* A binding whose calls have the packets of x, and whose calls cover the
\* messages of keep that calls of x covered.
LEMMA CallsSound ==
  ASSUME NEW n \in Nat, NEW keep, NEW kept, NEW x, Sound(x, n, kept), NEW y \in Bindings(1..n),
         y.cursor = x.cursor, x.told \subseteq y.told, SameQueues(x, y),
         y.active = NoTurn \/ (y.active = x.active /\ y.rows = x.rows),
         \A c \in y.sends \cup y.steers \cup y.probes :
            \E d \in x.sends \cup x.steers \cup x.probes : c.seq = d.seq /\ c.rows = d.rows,
         \A d \in x.sends \cup x.probes \cup x.rebinds :
            \/ d.seq \notin keep \/ d.seq \in y.told
            \/ \E c \in y.sends \cup y.probes \cup y.rebinds : c.seq = d.seq,
         \A m \in keep \ (y.told \cup kept) :
            \E c \in y.sends \cup y.probes \cup y.rebinds : c.seq = m
  PROVE  Sound(y, n, keep)
<1>0. Packets(x) /\ Kept(x, kept) /\ Len(x.queue) + Len(x.steerQ) <= QueueCap
  BY DEF Sound
<1>1. Packets(y)
  <2>1. \A c \in y.sends \cup y.steers \cup y.probes : Carries(c.rows, c.seq, y.cursor)
    BY <1>0 DEF Packets
  <2>2. y.active # NoTurn => Carries(y.rows, y.active, y.cursor)
    BY <1>0 DEF Packets
  <2> QED BY <2>1, <2>2 DEF Packets
<1>2. Kept(y, keep)
  <2> SUFFICES ASSUME NEW m \in keep \ y.told
               PROVE  \/ m > y.cursor
                      \/ \E i \in DOMAIN y.queue : y.queue[i].seq = m /\ y.queue[i].again
                      \/ \E c \in y.sends \cup y.probes \cup y.rebinds : c.seq = m
    BY DEF Kept
  <2>1. CASE m \notin kept
    BY <2>1
  <2>2. CASE m \in kept
    <3>1. m \in kept \ x.told
      BY <2>2
    <3>2. CASE m > x.cursor \/ \E i \in DOMAIN x.queue : x.queue[i].seq = m /\ x.queue[i].again
      BY <3>2 DEF SameQueues
    <3>3. CASE \E c \in x.sends \cup x.probes \cup x.rebinds : c.seq = m
      BY <3>3
    <3> QED BY <1>0, <3>1, <3>2, <3>3 DEF Kept
  <2> QED BY <2>1, <2>2
<1> QED BY <1>0, <1>1, <1>2 DEF Sound, SameQueues

\* finishTurn before it pumps.
Finished(x) ==
  [x EXCEPT !.active = NoTurn, !.rows = {}, !.waiting = FALSE,
            !.absorbed = 0, !.steerQ = <<>>,
            !.queue = @ \o [i \in 1..Len(x.steerQ) |-> [seq |-> x.steerQ[i], again |-> FALSE]]]

LEMMA FinishedOK ==
  ASSUME NEW n \in Nat, NEW x \in Bindings(1..n)
  PROVE  LET y == Finished(x)
         IN /\ y \in Bindings(1..n) /\ SameCalls(x, y) /\ SameMarks(x, y)
            /\ y.active = NoTurn /\ y.work = x.work /\ y.steerQ = <<>>
            /\ Len(x.queue) \in Nat /\ Len(x.steerQ) \in Nat
            /\ Len(y.queue) = Len(x.queue) + Len(x.steerQ)
            /\ \A i \in 1..Len(x.queue) : y.queue[i] = x.queue[i]
            /\ \A i \in 1..Len(x.steerQ) : y.queue[Len(x.queue) + i] = [seq |-> x.steerQ[i], again |-> FALSE]
<1> DEFINE q == x.queue
           s == x.steerQ
           t == [i \in 1..Len(s) |-> [seq |-> s[i], again |-> FALSE]]
           r == q \o t
           y == Finished(x)
           z == [x EXCEPT !.active = NoTurn, !.rows = {}, !.waiting = FALSE]
<1>1. q \in Seq(Entry(1..n)) /\ s \in Seq(1..n) /\ Len(q) \in Nat /\ Len(s) \in Nat
  BY DEF Bindings
<1>2. y = [z EXCEPT !.absorbed = 0, !.steerQ = <<>>, !.queue = r]
  BY DEF Finished, Bindings
<1> HIDE DEF q, s, y
<1>3. t \in Seq(Entry(1..n)) /\ Len(t) = Len(s)
  <2>1. \A i \in 1..Len(s) : [seq |-> s[i], again |-> FALSE] \in Entry(1..n)
    <3> SUFFICES ASSUME NEW i \in 1..Len(s) PROVE [seq |-> s[i], again |-> FALSE] \in Entry(1..n)
      OBVIOUS
    <3>1. s[i] \in 1..n
      BY <1>1, ElementOfSeq
    <3> QED BY <3>1 DEF Entry
  <2>2. t \in [1..Len(s) -> Entry(1..n)]
    BY <2>1
  <2> HIDE DEF t
  <2> QED BY <1>1, <2>2
<1>4. \A i \in 1..Len(s) : t[i] = [seq |-> s[i], again |-> FALSE]
  OBVIOUS
<1> HIDE DEF t
<1>5. /\ r \in Seq(Entry(1..n)) /\ Len(r) = Len(q) + Len(t)
      /\ \A i \in 1..(Len(q) + Len(t)) : r[i] = IF i <= Len(q) THEN q[i] ELSE t[i - Len(q)]
  BY <1>1, <1>3, ConcatProperties
<1> HIDE DEF r
<1>6. \A i \in 1..Len(q) : r[i] = q[i]
  <2> SUFFICES ASSUME NEW i \in 1..Len(q) PROVE r[i] = q[i]
    OBVIOUS
  <2>1. i \in 1..(Len(q) + Len(t)) /\ i <= Len(q)
    BY <1>1, <1>3
  <2> QED BY <1>5, <2>1
<1>7. \A i \in 1..Len(s) : r[Len(q) + i] = [seq |-> s[i], again |-> FALSE]
  <2> SUFFICES ASSUME NEW i \in 1..Len(s) PROVE r[Len(q) + i] = [seq |-> s[i], again |-> FALSE]
    OBVIOUS
  <2>1. Len(q) + i \in 1..(Len(q) + Len(t)) /\ ~(Len(q) + i <= Len(q)) /\ Len(q) + i - Len(q) = i
    BY <1>1, <1>3
  <2>2. r[Len(q) + i] = t[i]
    BY <1>5, <2>1
  <2> QED BY <1>4, <2>2
<1>8. z \in Bindings(1..n) /\ z.active = NoTurn /\ z.work = x.work /\ SameCalls(x, z) /\ SameMarks(x, z)
  BY DEF Bindings, SameCalls, SameMarks
<1> HIDE DEF z
<1>9. <<>> \in Seq(1..n)
  OBVIOUS
<1>10. y \in Bindings(1..n) /\ y.steerQ = <<>> /\ y.queue = r
  BY <1>2, <1>5, <1>8, <1>9 DEF Bindings
<1>11. y.active = NoTurn /\ y.work = x.work /\ SameCalls(x, y) /\ SameMarks(x, y)
  BY <1>2, <1>8 DEF Bindings, SameCalls, SameMarks
<1> QED BY <1>1, <1>3, <1>5, <1>6, <1>7, <1>10, <1>11 DEF q, s, y

LEMMA FinishSound ==
  ASSUME NEW n \in Nat, NEW keep, NEW x, Sound(x, n, keep)
  PROVE  Sound(finishTurn(x), n, keep)
<1> DEFINE y == Finished(x)
<1>0. x \in Bindings(1..n) /\ Len(x.queue) + Len(x.steerQ) <= QueueCap
  BY DEF Sound
<1>1. /\ y \in Bindings(1..n) /\ SameCalls(x, y) /\ SameMarks(x, y)
      /\ y.active = NoTurn /\ y.steerQ = <<>>
      /\ Len(x.queue) \in Nat /\ Len(x.steerQ) \in Nat
      /\ Len(y.queue) = Len(x.queue) + Len(x.steerQ)
      /\ \A i \in 1..Len(x.queue) : y.queue[i] = x.queue[i]
  BY <1>0, FinishedOK
<1>2. finishTurn(x) = x \/ finishTurn(x) = pump(y)
  BY DEF finishTurn, Finished
<1> HIDE DEF y
<1>3. y.cursor = x.cursor /\ y.told = x.told /\ keep \ (y.told \cup keep) = {}
  BY <1>1 DEF SameMarks
<1>4. DOMAIN x.queue = 1..Len(x.queue) /\ DOMAIN y.queue = 1..Len(y.queue)
  BY <1>0, <1>1 DEF Bindings
<1>5. \A i \in DOMAIN x.queue : \E j \in DOMAIN y.queue : y.queue[j] = x.queue[i]
  <2> SUFFICES ASSUME NEW i \in 1..Len(x.queue) PROVE i \in DOMAIN y.queue /\ y.queue[i] = x.queue[i]
    BY <1>4
  <2>1. \A a, c \in Nat : \A j \in 1..a : j \in 1..(a + c)
    OBVIOUS
  <2>2. i \in DOMAIN y.queue
    BY <1>1, <1>4, <2>1
  <2> QED BY <1>1, <2>2
<1>6. Len(y.queue) + Len(y.steerQ) <= QueueCap
  <2>1. Len(y.steerQ) = 0
    BY <1>1
  <2>2. Len(y.queue) + 0 = Len(x.queue) + Len(x.steerQ)
    BY <1>1
  <2> QED BY <1>0, <2>1, <2>2
<1>7. Sound(y, n, keep)
  BY <1>1, <1>3, <1>5, <1>6, QueueSound
<1> QED BY <1>2, <1>7, PumpSound

\* markDeadRuntimeIdle.
LEMMA MarkDeadOK ==
  ASSUME NEW n \in Nat, NEW x \in Bindings(1..n)
  PROVE  LET y == markDead(x)
         IN /\ y \in Bindings(1..n) /\ SameCalls(x, y) /\ y.cursor = x.cursor
            /\ y.suppressed = x.suppressed /\ y.failed = x.failed /\ y.retried = x.retried
            /\ y.told = x.told \cup {x.queue[i].seq : i \in DOMAIN x.queue} \cup Range(x.steerQ)
            /\ y.queue = <<>> /\ y.steerQ = <<>> /\ y.active = NoTurn /\ y.work = {}
<1> DEFINE T == x.told \cup {x.queue[i].seq : i \in DOMAIN x.queue} \cup Range(x.steerQ)
           z == [x EXCEPT !.told = T, !.queue = <<>>, !.steerQ = <<>>]
           w == [z EXCEPT !.busy = FALSE, !.absorbed = 0, !.active = NoTurn]
           y == markDead(x)
<1>1. T \in SUBSET (1..n)
  <2>1. x.queue \in Seq(Entry(1..n)) /\ x.steerQ \in Seq(1..n) /\ x.told \in SUBSET (1..n)
    BY DEF Bindings
  <2>2. \A i \in DOMAIN x.queue : x.queue[i].seq \in 1..n
    <3> SUFFICES ASSUME NEW i \in DOMAIN x.queue PROVE x.queue[i].seq \in 1..n
      OBVIOUS
    <3>1. x.queue[i] \in Entry(1..n)
      BY <2>1
    <3> QED BY <3>1 DEF Entry
  <2>3. Range(x.steerQ) \in SUBSET (1..n)
    BY <2>1 DEF Range
  <2> QED BY <2>1, <2>2, <2>3
<1>2. y = [w EXCEPT !.rows = {}, !.waiting = FALSE, !.approvals = {}, !.work = {}]
  BY DEF markDead, Bindings
<1> HIDE DEF T, y
<1>3. <<>> \in Seq(1..n) /\ <<>> \in Seq(Entry(1..n))
  OBVIOUS
<1>4. z \in Bindings(1..n) /\ z.told = T /\ z.queue = <<>> /\ z.steerQ = <<>>
  BY <1>1, <1>3 DEF Bindings
<1>5. /\ SameCalls(x, z) /\ z.cursor = x.cursor /\ z.suppressed = x.suppressed
      /\ z.failed = x.failed /\ z.retried = x.retried
  BY DEF Bindings, SameCalls
<1> HIDE DEF z
<1>6. w \in Bindings(1..n) /\ w.told = T /\ w.queue = <<>> /\ w.steerQ = <<>> /\ w.active = NoTurn
  BY <1>4 DEF Bindings
<1>7. /\ SameCalls(x, w) /\ w.cursor = x.cursor /\ w.suppressed = x.suppressed
      /\ w.failed = x.failed /\ w.retried = x.retried
  BY <1>4, <1>5 DEF Bindings, SameCalls
<1> HIDE DEF w
<1>8. y \in Bindings(1..n) /\ y.told = T /\ y.queue = <<>> /\ y.steerQ = <<>> /\ y.active = NoTurn
  BY <1>2, <1>6 DEF Bindings
<1>9. /\ SameCalls(x, y) /\ y.cursor = x.cursor /\ y.suppressed = x.suppressed
      /\ y.failed = x.failed /\ y.retried = x.retried /\ y.work = {}
  BY <1>2, <1>6, <1>7 DEF Bindings, SameCalls
<1> QED BY <1>8, <1>9 DEF T, y

LEMMA MarkDeadSound ==
  ASSUME NEW n \in Nat, NEW keep, NEW x, Sound(x, n, keep)
  PROVE  Sound(markDead(x), n, keep)
<1> DEFINE y == markDead(x)
<1>0. x \in Bindings(1..n)
  BY DEF Sound
<1>1. /\ y \in Bindings(1..n) /\ SameCalls(x, y) /\ y.cursor = x.cursor
      /\ y.told = x.told \cup {x.queue[i].seq : i \in DOMAIN x.queue} \cup Range(x.steerQ)
      /\ y.queue = <<>> /\ y.steerQ = <<>> /\ y.active = NoTurn
  BY <1>0, MarkDeadOK
<1> HIDE DEF y
<1>2. x.told \subseteq y.told /\ keep \ (y.told \cup keep) = {} /\ \A i \in DOMAIN x.queue : x.queue[i].seq \in y.told
  BY <1>1
<1>3. Len(y.queue) + Len(y.steerQ) <= QueueCap
  BY <1>1, TurnConstants
<1>4. Sound(y, n, keep)
  BY <1>1, <1>2, <1>3, QueueSound
<1> QED BY <1>4 DEF y

\* releaseBinding: the calls keep their triggers and their packets.
LEMMA ReleaseOK ==
  ASSUME NEW n \in Nat, NEW x \in Bindings(1..n)
  PROVE  LET y == releaseBinding(x)
             d == markDead(x)
         IN /\ y \in Bindings(1..n) /\ y.cursor = d.cursor /\ y.told = d.told /\ y.failed = d.failed
            /\ y.queue = <<>> /\ y.steerQ = <<>> /\ y.active = NoTurn /\ y.work = {}
            /\ \/ SameCalls(x, y)
               \/ /\ y.sends = {IF c.own THEN [c EXCEPT !.own = FALSE, !.tried = c.seq \in x.retried]
                                ELSE c : c \in x.sends}
                  /\ y.steers = {[c EXCEPT !.own = FALSE] : c \in x.steers}
                  /\ y.rebinds = {[c EXCEPT !.own = FALSE] : c \in x.rebinds}
                  /\ y.probes = {[c EXCEPT !.own = FALSE] : c \in x.probes}
<1> DEFINE d == markDead(x)
           e == [d EXCEPT !.bound = FALSE]
           S == {IF c.own THEN [c EXCEPT !.own = FALSE, !.tried = c.seq \in x.retried]
                 ELSE c : c \in x.sends}
           T == {[c EXCEPT !.own = FALSE] : c \in x.steers}
           R == {[c EXCEPT !.own = FALSE] : c \in x.rebinds}
           P == {[c EXCEPT !.own = FALSE] : c \in x.probes}
           y == releaseBinding(x)
<1>1. /\ d \in Bindings(1..n) /\ SameCalls(x, d)
      /\ d.queue = <<>> /\ d.steerQ = <<>> /\ d.active = NoTurn /\ d.work = {}
  BY MarkDeadOK
<1>2. /\ x.preflight => y = [e EXCEPT !.preflight = FALSE]
      /\ ~x.preflight => y = [e EXCEPT !.suppressed = {}, !.retried = {},
                                       !.sends = {IF c.own THEN [c EXCEPT !.own = FALSE, !.tried = c.seq \in x.retried]
                                                  ELSE c : c \in @},
                                       !.steers = {[c EXCEPT !.own = FALSE] : c \in @},
                                       !.rebinds = {[c EXCEPT !.own = FALSE] : c \in @},
                                       !.probes = {[c EXCEPT !.own = FALSE] : c \in @}]
  BY DEF releaseBinding
<1> HIDE DEF d, y, S, T, R, P
<1>3. e \in Bindings(1..n) /\ SameCalls(x, e) /\ e.cursor = d.cursor /\ e.told = d.told /\ e.failed = d.failed
  <2>1. e \in Bindings(1..n) /\ e.cursor = d.cursor /\ e.told = d.told /\ e.failed = d.failed
    BY <1>1 DEF Bindings
  <2>2. SameCalls(d, e)
    BY <1>1 DEF Bindings, SameCalls
  <2> QED BY <1>1, <2>1, <2>2 DEF SameCalls
<1>4. e.queue = <<>> /\ e.steerQ = <<>> /\ e.active = NoTurn /\ e.work = {}
  BY <1>1 DEF Bindings
<1> HIDE DEF e
<1>5. CASE x.preflight
  <2>0. y = [e EXCEPT !.preflight = FALSE]
    BY <1>2, <1>5
  <2>1. y \in Bindings(1..n) /\ SameCalls(x, y) /\ y.cursor = d.cursor /\ y.told = d.told /\ y.failed = d.failed
    <3>1. y \in Bindings(1..n) /\ y.cursor = e.cursor /\ y.told = e.told /\ y.failed = e.failed
      BY <1>3, <2>0 DEF Bindings
    <3>2. SameCalls(e, y)
      BY <1>3, <2>0 DEF Bindings, SameCalls
    <3> QED BY <1>3, <3>1, <3>2 DEF SameCalls
  <2>2. y.queue = <<>> /\ y.steerQ = <<>> /\ y.active = NoTurn /\ y.work = {}
    BY <1>3, <1>4, <2>0 DEF Bindings
  <2> QED BY <2>1, <2>2 DEF d, y
<1>6. CASE ~x.preflight
  <2>1. /\ x.sends \in SUBSET SendOf(1..n) /\ x.steers \in SUBSET SteerOf(1..n)
        /\ x.rebinds \in SUBSET RebindOf(1..n) /\ x.probes \in SUBSET ProbeOf(1..n)
    BY DEF Bindings
  <2>2. S \in SUBSET SendOf(1..n)
    <3> SUFFICES ASSUME NEW c \in SendOf(1..n)
                 PROVE  (IF c.own THEN [c EXCEPT !.own = FALSE, !.tried = c.seq \in x.retried] ELSE c)
                           \in SendOf(1..n)
      BY <2>1 DEF S
    <3> DEFINE t == c.seq \in x.retried
    <3>1. t \in BOOLEAN
      OBVIOUS
    <3> HIDE DEF t
    <3>2. [c EXCEPT !.own = FALSE, !.tried = t] \in SendOf(1..n)
      BY <3>1 DEF SendOf
    <3> QED BY <3>2 DEF t
  <2>3. T \in SUBSET SteerOf(1..n)
    BY <2>1 DEF SteerOf, T
  <2>4. R \in SUBSET RebindOf(1..n)
    BY <2>1 DEF RebindOf, R
  <2>5. P \in SUBSET ProbeOf(1..n)
    BY <2>1 DEF ProbeOf, P
  <2> DEFINE v == [e EXCEPT !.suppressed = {}, !.retried = {}, !.sends = S]
  <2>6. y = [v EXCEPT !.steers = T, !.rebinds = R, !.probes = P]
    BY <1>2, <1>3, <1>6 DEF SameCalls, S, T, R, P
  <2>7. v \in Bindings(1..n) /\ v.sends = S
    BY <1>3, <2>2 DEF Bindings
  <2>8. /\ v.cursor = d.cursor /\ v.told = d.told /\ v.failed = d.failed
        /\ v.queue = <<>> /\ v.steerQ = <<>> /\ v.active = NoTurn /\ v.work = {}
    BY <1>3, <1>4 DEF Bindings
  <2> HIDE DEF v
  <2>9. y \in Bindings(1..n) /\ y.steers = T /\ y.rebinds = R /\ y.probes = P /\ y.sends = S
    BY <2>3, <2>4, <2>5, <2>6, <2>7 DEF Bindings
  <2>10. /\ y.cursor = d.cursor /\ y.told = d.told /\ y.failed = d.failed
         /\ y.queue = <<>> /\ y.steerQ = <<>> /\ y.active = NoTurn /\ y.work = {}
    BY <2>6, <2>7, <2>8 DEF Bindings
  <2> QED BY <2>9, <2>10 DEF d, y, S, T, R, P
<1> QED BY <1>5, <1>6

LEMMA ReleaseSound ==
  ASSUME NEW n \in Nat, NEW keep, NEW x, Sound(x, n, keep)
  PROVE  Sound(releaseBinding(x), n, keep)
<1> DEFINE y == releaseBinding(x)
           d == markDead(x)
<1>0. x \in Bindings(1..n)
  BY DEF Sound
<1>1. Sound(d, n, keep)
  BY MarkDeadSound
<1>2. SameCalls(x, d) /\ d.queue = <<>> /\ d.steerQ = <<>>
  BY <1>0, MarkDeadOK
<1>3. /\ y \in Bindings(1..n) /\ y.cursor = d.cursor /\ y.told = d.told
      /\ y.queue = <<>> /\ y.steerQ = <<>> /\ y.active = NoTurn
      /\ \/ SameCalls(x, y)
         \/ /\ y.sends = {IF c.own THEN [c EXCEPT !.own = FALSE, !.tried = c.seq \in x.retried]
                          ELSE c : c \in x.sends}
            /\ y.steers = {[c EXCEPT !.own = FALSE] : c \in x.steers}
            /\ y.rebinds = {[c EXCEPT !.own = FALSE] : c \in x.rebinds}
            /\ y.probes = {[c EXCEPT !.own = FALSE] : c \in x.probes}
  BY <1>0, ReleaseOK
<1> HIDE DEF y, d
<1>4. SameQueues(d, y) /\ d.told \subseteq y.told /\ keep \ (y.told \cup keep) = {}
  BY <1>2, <1>3 DEF SameQueues
<1>5. CASE SameCalls(x, y)
  <2>1. y.sends = d.sends /\ y.steers = d.steers /\ y.probes = d.probes /\ y.rebinds = d.rebinds
    BY <1>2, <1>5 DEF SameCalls
  <2>2. Sound(y, n, keep)
    BY <1>1, <1>3, <1>4, <2>1, CallsSound
  <2> QED BY <2>2 DEF y
<1>6. CASE /\ y.sends = {IF c.own THEN [c EXCEPT !.own = FALSE, !.tried = c.seq \in x.retried]
                         ELSE c : c \in x.sends}
           /\ y.steers = {[c EXCEPT !.own = FALSE] : c \in x.steers}
           /\ y.rebinds = {[c EXCEPT !.own = FALSE] : c \in x.rebinds}
           /\ y.probes = {[c EXCEPT !.own = FALSE] : c \in x.probes}
  <2> DEFINE kept(c) == IF c.own THEN [c EXCEPT !.own = FALSE, !.tried = c.seq \in x.retried] ELSE c
             lost(c) == [c EXCEPT !.own = FALSE]
  <2>0. /\ x.sends \subseteq SendOf(1..n) /\ x.steers \subseteq SteerOf(1..n)
        /\ x.rebinds \subseteq RebindOf(1..n) /\ x.probes \subseteq ProbeOf(1..n)
    BY <1>0 DEF Bindings
  <2>1. \A c \in SendOf(1..n) : kept(c).seq = c.seq /\ kept(c).rows = c.rows
    BY DEF SendOf
  <2>2. \A c \in SteerOf(1..n) \cup ProbeOf(1..n) : lost(c).seq = c.seq /\ lost(c).rows = c.rows
    BY DEF SteerOf, ProbeOf
  <2>3. \A c \in RebindOf(1..n) : lost(c).seq = c.seq
    BY DEF RebindOf
  <2>4. /\ y.sends = {kept(c) : c \in d.sends} /\ y.steers = {lost(c) : c \in d.steers}
        /\ y.rebinds = {lost(c) : c \in d.rebinds} /\ y.probes = {lost(c) : c \in d.probes}
        /\ d.sends = x.sends /\ d.steers = x.steers /\ d.rebinds = x.rebinds /\ d.probes = x.probes
    BY <1>2, <1>6 DEF SameCalls
  <2> HIDE DEF kept, lost
  <2>5. \A c \in y.sends \cup y.steers \cup y.probes :
           \E e \in d.sends \cup d.steers \cup d.probes : c.seq = e.seq /\ c.rows = e.rows
    BY <2>0, <2>1, <2>2, <2>4
  <2>6. \A e \in d.sends \cup d.probes \cup d.rebinds :
           \E c \in y.sends \cup y.probes \cup y.rebinds : c.seq = e.seq
    BY <2>0, <2>1, <2>2, <2>3, <2>4
  <2>7. Sound(y, n, keep)
    BY <1>1, <1>3, <1>4, <2>5, <2>6, CallsSound
  <2> QED BY <2>7 DEF y
<1> QED BY <1>3, <1>5, <1>6

\* The calls for m end.
LEMMA DroppedSound ==
  ASSUME NEW n \in Nat, NEW keep, NEW x, Sound(x, n, keep), NEW y \in Bindings(1..n), NEW m,
         y.cursor = x.cursor, y.told = x.told, SameQueues(x, y), y.active = x.active, y.rows = x.rows,
         y.sends \subseteq x.sends, y.steers \subseteq x.steers, y.probes \subseteq x.probes,
         \A d \in (x.sends \ y.sends) \cup (x.probes \ y.probes) \cup (x.rebinds \ y.rebinds) : d.seq = m
  PROVE  Sound(y, n, keep \ {m})
<1>1. \A c \in y.sends \cup y.steers \cup y.probes :
         \E d \in x.sends \cup x.steers \cup x.probes : c.seq = d.seq /\ c.rows = d.rows
  OBVIOUS
<1>2. \A d \in x.sends \cup x.probes \cup x.rebinds :
         \/ d.seq \notin keep \ {m} \/ d.seq \in y.told
         \/ \E c \in y.sends \cup y.probes \cup y.rebinds : c.seq = d.seq
  OBVIOUS
<1>3. x.told \subseteq y.told /\ (keep \ {m}) \ (y.told \cup keep) = {}
  OBVIOUS
<1> QED BY <1>1, <1>2, <1>3, CallsSound

\* A steer ends.
LEMMA SteerDroppedSound ==
  ASSUME NEW n \in Nat, NEW keep, NEW x, Sound(x, n, keep), NEW y \in Bindings(1..n),
         y.cursor = x.cursor, y.told = x.told, SameQueues(x, y), y.active = x.active, y.rows = x.rows,
         y.sends = x.sends, y.steers \subseteq x.steers, y.probes = x.probes, y.rebinds = x.rebinds
  PROVE  Sound(y, n, keep)
<1>1. \A c \in y.sends \cup y.steers \cup y.probes :
         \E d \in x.sends \cup x.steers \cup x.probes : c.seq = d.seq /\ c.rows = d.rows
  OBVIOUS
<1>2. \A d \in x.sends \cup x.probes \cup x.rebinds :
         \/ d.seq \notin keep \/ d.seq \in y.told
         \/ \E c \in y.sends \cup y.probes \cup y.rebinds : c.seq = d.seq
  OBVIOUS
<1>3. x.told \subseteq y.told /\ keep \ (y.told \cup keep) = {}
  OBVIOUS
<1> QED BY <1>1, <1>2, <1>3, CallsSound

\* advanceCursor: a packet that left no hole stays one, and what the cursor
\* passes was in the accepted packet.
LEMMA AdvanceOK ==
  ASSUME NEW n \in Nat, NEW x \in Bindings(1..n), NEW m \in 1..n
  PROVE  LET y == advanceCursor(x, m)
         IN /\ y \in Bindings(1..n) /\ x.cursor \in Nat
            /\ y.cursor = (IF m > x.cursor THEN m ELSE x.cursor)
            /\ y.told = x.told /\ y.suppressed = x.suppressed /\ y.failed = x.failed
            /\ SameCalls(x, y) /\ SameTurn(x, y) /\ SameQueues(x, y)
<1> DEFINE k == IF m > x.cursor THEN m ELSE x.cursor
           y == advanceCursor(x, m)
<1>1. k \in (1..n) \cup {0} /\ x.cursor \in Nat
  BY DEF Bindings
<1>2. y = [x EXCEPT !.cursor = k]
  BY DEF advanceCursor
<1> HIDE DEF k, y
<1>3. y \in Bindings(1..n) /\ y.cursor = k
  BY <1>1, <1>2 DEF Bindings
<1>4. /\ y.told = x.told /\ y.suppressed = x.suppressed /\ y.failed = x.failed
      /\ SameCalls(x, y) /\ SameTurn(x, y) /\ SameQueues(x, y)
  BY <1>2 DEF Bindings, SameCalls, SameTurn, SameQueues
<1> QED BY <1>1, <1>3, <1>4 DEF k, y

LEMMA AdvanceSound ==
  ASSUME NEW n \in Nat, NEW keep, NEW x, Sound(x, n, keep), NEW m \in 1..n, NEW rows,
         Carries(rows, m, x.cursor), keep \subseteq Nat, keep \cap rows = {}
  PROVE  Sound(advanceCursor(x, m), n, keep)
<1> DEFINE y == advanceCursor(x, m)
<1>0. x \in Bindings(1..n) /\ Packets(x) /\ Kept(x, keep) /\ Len(x.queue) + Len(x.steerQ) <= QueueCap
  BY DEF Sound
<1>1. /\ y \in Bindings(1..n) /\ x.cursor \in Nat
      /\ y.cursor = (IF m > x.cursor THEN m ELSE x.cursor)
      /\ y.told = x.told /\ SameCalls(x, y) /\ SameTurn(x, y) /\ SameQueues(x, y)
  BY <1>0, AdvanceOK
<1> HIDE DEF y
<1>2. y.cursor \in Nat /\ x.cursor <= y.cursor
  BY <1>1
<1>3. /\ y.sends = x.sends /\ y.steers = x.steers /\ y.probes = x.probes /\ y.rebinds = x.rebinds
      /\ y.active = x.active /\ y.rows = x.rows /\ y.queue = x.queue /\ y.steerQ = x.steerQ
  BY <1>1 DEF SameCalls, SameTurn, SameQueues
<1>4. \A r, s : Carries(r, s, x.cursor) => Carries(r, s, y.cursor)
  <2> SUFFICES ASSUME NEW r, NEW s, Carries(r, s, x.cursor) PROVE Carries(r, s, y.cursor)
    OBVIOUS
  <2>1. (y.cursor + 1)..s \subseteq (x.cursor + 1)..s
    BY <1>1, <1>2
  <2> QED BY <2>1 DEF Carries
<1>5. Packets(y)
  BY <1>0, <1>3, <1>4 DEF Packets
<1>6. ASSUME NEW s \in keep, s > x.cursor PROVE s > y.cursor
  <2>1. s \in Nat /\ s \notin (x.cursor + 1)..m
    BY DEF Carries
  <2> QED BY <1>1, <1>6, <2>1
<1>7. Kept(y, keep)
  BY <1>0, <1>1, <1>3, <1>6 DEF Kept
<1> QED BY <1>0, <1>1, <1>3, <1>5, <1>7 DEF Sound, y

\* deliver: the same packet again.
LEMMA DeliverOK ==
  ASSUME NEW n \in Nat, NEW x \in Bindings(1..n), NEW m \in 1..n, NEW rows \in SUBSET (1..n)
  PROVE  LET y == deliver(x, m, rows)
             c == [seq |-> m, rows |-> rows, own |-> TRUE, tried |-> FALSE]
         IN /\ y \in Bindings(1..n) /\ y.sends = x.sends \cup {c} /\ y.work = x.work \cup {m}
            /\ y.steers = x.steers /\ y.rebinds = x.rebinds /\ y.probes = x.probes
            /\ y.active = x.active /\ y.rows = x.rows /\ SameQueues(x, y) /\ SameMarks(x, y)
<1> DEFINE c == [seq |-> m, rows |-> rows, own |-> TRUE, tried |-> FALSE]
           y == deliver(x, m, rows)
<1>1. c \in SendOf(1..n)
  BY DEF SendOf
<1>2. y = [x EXCEPT !.sends = @ \cup {c}, !.work = @ \cup {m}]
  BY DEF deliver
<1> HIDE DEF c, y
<1>3. x.sends \cup {c} \in SUBSET SendOf(1..n) /\ x.work \cup {m} \in SUBSET (1..n)
  BY <1>1 DEF Bindings
<1>4. y \in Bindings(1..n) /\ y.sends = x.sends \cup {c} /\ y.work = x.work \cup {m}
  BY <1>2, <1>3 DEF Bindings
<1>5. /\ y.steers = x.steers /\ y.rebinds = x.rebinds /\ y.probes = x.probes
      /\ y.active = x.active /\ y.rows = x.rows
  BY <1>2 DEF Bindings
<1>6. SameQueues(x, y) /\ SameMarks(x, y)
  BY <1>2 DEF Bindings, SameQueues, SameMarks
<1> QED BY <1>4, <1>5, <1>6 DEF c, y

LEMMA DeliverSound ==
  ASSUME NEW n \in Nat, NEW keep, NEW x, Sound(x, n, keep), NEW m \in 1..n,
         x.active = m
  PROVE  Sound(deliver(x, m, x.rows), n, keep \cup {m})
<1> DEFINE y == deliver(x, m, x.rows)
           c == [seq |-> m, rows |-> x.rows, own |-> TRUE, tried |-> FALSE]
<1>0. x \in Bindings(1..n) /\ Packets(x) /\ Kept(x, keep) /\ Len(x.queue) + Len(x.steerQ) <= QueueCap
  BY DEF Sound
<1>1. x.rows \in SUBSET (1..n) /\ Carries(x.rows, m, x.cursor)
  BY <1>0 DEF Bindings, Packets, NoTurn
<1>2. /\ y \in Bindings(1..n) /\ y.sends = x.sends \cup {c}
      /\ y.steers = x.steers /\ y.rebinds = x.rebinds /\ y.probes = x.probes
      /\ y.active = x.active /\ y.rows = x.rows /\ SameQueues(x, y) /\ SameMarks(x, y)
  BY <1>0, <1>1, DeliverOK
<1> HIDE DEF y
<1>3. c.seq = m /\ c.rows = x.rows
  OBVIOUS
<1> HIDE DEF c
<1>4. y.cursor = x.cursor /\ y.told = x.told /\ y.queue = x.queue /\ y.steerQ = x.steerQ
  BY <1>2 DEF SameQueues, SameMarks
<1>5. Packets(y)
  BY <1>0, <1>1, <1>2, <1>3, <1>4 DEF Packets
<1>6. Kept(y, keep \cup {m})
  BY <1>0, <1>2, <1>3, <1>4 DEF Kept
<1> QED BY <1>0, <1>2, <1>4, <1>5, <1>6 DEF Sound, y

-----------------------------------------------------------------------------
(* The functions of the binding keep OnlyActive.                           *)

\* pump starts a turn when none runs.
LEMMA PumpOnly ==
  ASSUME NEW n \in Nat, NEW x \in Bindings(1..n), OnlyActive(x)
  PROVE  pump(x) \in Bindings(1..n) /\ OnlyActive(pump(x)) /\ pump(x).failed = x.failed
<1>1. CASE pump(x) = x
  BY <1>1
<1>2. CASE pump(x) # x
  <2>1. PICK k \in 1..Len(x.queue), m \in 1..n :
           \/ pump(x) = Probed(Took(x, k), m, Packet(x, m))
           \/ pump(x) = startTurn(Took(x, k), m, Packet(x, m))
    BY <1>2, PumpCases
  <2>2. x.active = NoTurn
    BY <1>2, PumpCases
  <2> DEFINE y == Took(x, k)
             rows == Packet(x, m)
  <2>3. y \in Bindings(1..n) /\ SameTurn(x, y) /\ SameMarks(x, y)
    BY TookOK
  <2>4. rows \in SUBSET (1..n)
    BY PacketCarries
  <2> HIDE DEF y, rows
  <2>5. CASE pump(x) = Probed(y, m, rows)
    <3>1. pump(x) \in Bindings(1..n) /\ SameTurn(y, pump(x)) /\ SameMarks(y, pump(x))
      BY <2>3, <2>4, <2>5, ProbedOK
    <3> QED BY <2>3, <3>1 DEF OnlyActive, SameTurn, SameMarks
  <2>6. CASE pump(x) = startTurn(y, m, rows)
    <3>1. /\ pump(x) \in Bindings(1..n) /\ pump(x).active = m /\ pump(x).work = y.work \cup {m}
          /\ SameMarks(y, pump(x))
      BY <2>3, <2>4, <2>6, StartOK
    <3>2. NoTurn \notin x.work
      BY DEF Bindings, NoTurn
    <3>3. /\ pump(x).work = x.work \cup {m} /\ pump(x).suppressed = x.suppressed
          /\ pump(x).failed = x.failed
      BY <2>3, <3>1 DEF SameTurn, SameMarks
    <3> QED BY <2>2, <3>1, <3>2, <3>3 DEF OnlyActive
  <2> QED BY <2>1, <2>5, <2>6 DEF y, rows
<1> QED BY <1>1, <1>2

LEMMA DrainOnly ==
  ASSUME NEW n \in Nat, NEW x \in Bindings(1..n), OnlyActive(x)
  PROVE  /\ drainSteering(x) \in Bindings(1..n) /\ OnlyActive(drainSteering(x))
<1>1. CASE drainSteering(x) = x
  BY <1>1
<1>2. CASE drainSteering(x) # x
  <2>1. /\ drainSteering(x) \in Bindings(1..n)
        /\ SameTurn(x, drainSteering(x)) /\ SameMarks(x, drainSteering(x))
    BY <1>2, DrainOK
  <2> QED BY <2>1 DEF OnlyActive, SameTurn, SameMarks
<1> QED BY <1>1, <1>2

\* The message in one of the queues.
LEMMA EnqueuedOK ==
  ASSUME NEW n \in Nat, NEW x \in Bindings(1..n), NEW m \in 1..n, NEW again \in BOOLEAN
  PROVE  Steered(x, m) \in Bindings(1..n) /\ Queued(x, m, again) \in Bindings(1..n)
<1>1. x.queue \in Seq(Entry(1..n)) /\ x.steerQ \in Seq(1..n)
  BY DEF Bindings
<1>2. Steered(x, m) \in Bindings(1..n)
  <2>1. Append(x.steerQ, m) \in Seq(1..n)
    BY <1>1, AppendProperties
  <2> QED BY <2>1 DEF Bindings, Steered
<1>3. Queued(x, m, again) \in Bindings(1..n)
  <2>1. Append(x.queue, [seq |-> m, again |-> again]) \in Seq(Entry(1..n))
    <3>1. [seq |-> m, again |-> again] \in Entry(1..n)
      BY DEF Entry
    <3> QED BY <1>1, <3>1, AppendProperties
  <2> QED BY <2>1 DEF Bindings, Queued
<1> QED BY <1>2, <1>3

LEMMA EnqueueOnly ==
  ASSUME NEW n \in Nat, NEW x \in Bindings(1..n), OnlyActive(x), NEW m \in 1..n,
         NEW interrupt, NEW again \in BOOLEAN
  PROVE  OnlyActive(enqueueTurn(x, m, interrupt, again))
<1> DEFINE y == enqueueTurn(x, m, interrupt, again)
           same(z) == z.work = x.work /\ z.active = x.active
                      /\ z.suppressed = x.suppressed /\ z.failed = x.failed
<1>1. ASSUME NEW z, same(z) PROVE OnlyActive(z)
  BY <1>1 DEF OnlyActive
<1>2. same(Told(x, m)) /\ same(Steered(x, m)) /\ same(Queued(x, m, again)) /\ same(Merged(x, m))
  BY DEF Told, Steered, Queued, Merged, Bindings
<1> HIDE DEF same
<1>3. OnlyActive(Told(x, m)) /\ OnlyActive(Steered(x, m)) /\ OnlyActive(Queued(x, m, again))
      /\ OnlyActive(Merged(x, m))
  BY <1>1, <1>2
<1>4. Steered(x, m) \in Bindings(1..n) /\ Queued(x, m, again) \in Bindings(1..n)
  BY EnqueuedOK
<1>5. x.queue # <<>> => Merged(x, m) \in Bindings(1..n)
  BY MergedOK
<1> HIDE DEF y
<1> QED BY <1>3, <1>4, <1>5, EnqueueCases, PumpOnly, DrainOnly DEF y

\* finishTurn, when the provider works on no turn that counts.
LEMMA FinishOnly ==
  ASSUME NEW n \in Nat, NEW x \in Bindings(1..n), x.failed = {} => x.work \ x.suppressed = {}
  PROVE  OnlyActive(finishTurn(x)) /\ finishTurn(x) \in Bindings(1..n) /\ finishTurn(x).failed = x.failed
<1> DEFINE y == Finished(x)
<1>1. y \in Bindings(1..n) /\ SameMarks(x, y) /\ y.work = x.work
  BY FinishedOK
<1>2. finishTurn(x) = x \/ finishTurn(x) = pump(y)
  BY DEF finishTurn, Finished
<1> HIDE DEF y
<1>3. OnlyActive(x) /\ OnlyActive(y) /\ y.failed = x.failed
  BY <1>1 DEF OnlyActive, SameMarks
<1> QED BY <1>1, <1>2, <1>3, PumpOnly

-----------------------------------------------------------------------------
(* Only the answers of a runtime move the cursor.                          *)

LEMMA PumpCursor ==
  ASSUME NEW n \in Nat, NEW x \in Bindings(1..n)
  PROVE  pump(x).cursor = x.cursor /\ pump(x) \in Bindings(1..n)
<1>1. CASE pump(x) # x
  <2>1. PICK k \in 1..Len(x.queue), m \in 1..n :
           \/ pump(x) = Probed(Took(x, k), m, Packet(x, m))
           \/ pump(x) = startTurn(Took(x, k), m, Packet(x, m))
    BY <1>1, PumpCases
  <2>2. Took(x, k) \in Bindings(1..n) /\ SameMarks(x, Took(x, k)) /\ Packet(x, m) \in SUBSET (1..n)
    BY TookOK, PacketCarries
  <2>3. pump(x) \in Bindings(1..n) /\ SameMarks(Took(x, k), pump(x))
    BY <2>1, <2>2, StartOK, ProbedOK
  <2> QED BY <2>2, <2>3 DEF SameMarks
<1> QED BY <1>1

LEMMA DrainCursor ==
  ASSUME NEW n \in Nat, NEW x \in Bindings(1..n)
  PROVE  drainSteering(x).cursor = x.cursor
<1>1. CASE drainSteering(x) # x
  BY <1>1, DrainOK DEF SameMarks
<1> QED BY <1>1

LEMMA EnqueueCursor ==
  ASSUME NEW n \in Nat, NEW x \in Bindings(1..n), NEW m \in 1..n, NEW interrupt, NEW again \in BOOLEAN
  PROVE  enqueueTurn(x, m, interrupt, again).cursor = x.cursor
<1> DEFINE y == enqueueTurn(x, m, interrupt, again)
<1>1. /\ Told(x, m).cursor = x.cursor /\ Steered(x, m).cursor = x.cursor
      /\ Queued(x, m, again).cursor = x.cursor /\ Merged(x, m).cursor = x.cursor
  BY DEF Told, Steered, Queued, Merged, Bindings
<1>2. Steered(x, m) \in Bindings(1..n) /\ Queued(x, m, again) \in Bindings(1..n)
  BY EnqueuedOK
<1>3. x.queue # <<>> => Merged(x, m) \in Bindings(1..n)
  BY MergedOK
<1> HIDE DEF y
<1> QED BY <1>1, <1>2, <1>3, EnqueueCases, PumpCursor, DrainCursor DEF y

LEMMA FinishCursor ==
  ASSUME NEW n \in Nat, NEW x \in Bindings(1..n)
  PROVE  finishTurn(x).cursor = x.cursor
<1>1. Finished(x) \in Bindings(1..n) /\ SameMarks(x, Finished(x))
  BY FinishedOK
<1>2. finishTurn(x) = x \/ finishTurn(x) = pump(Finished(x))
  BY DEF finishTurn, Finished
<1> QED BY <1>1, <1>2, PumpCursor DEF SameMarks

-----------------------------------------------------------------------------
(* The actions.                                                            *)

\* A binding that knows fewer messages knows no others.
LEMMA BindingsGrow ==
  ASSUME NEW M, NEW N, M \subseteq N, NEW x \in Bindings(M)
  PROVE  x \in Bindings(N)
<1>1. /\ Entry(M) \subseteq Entry(N) /\ SendOf(M) \subseteq SendOf(N) /\ SteerOf(M) \subseteq SteerOf(N)
      /\ RebindOf(M) \subseteq RebindOf(N) /\ ProbeOf(M) \subseteq ProbeOf(N)
  BY DEF Entry, SendOf, SteerOf, RebindOf, ProbeOf
<1>2. x.queue \in Seq(Entry(N)) /\ x.steerQ \in Seq(N)
  <2>1. x.queue \in Seq(Entry(M)) /\ x.steerQ \in Seq(M)
    BY DEF Bindings
  <2>2. \A S, T : S \subseteq T => Seq(S) \subseteq Seq(T)
    BY SeqMonotonic
  <2> QED BY <1>1, <2>1, <2>2
<1>3. /\ x.sends \in SUBSET SendOf(N) /\ x.steers \in SUBSET SteerOf(N)
      /\ x.rebinds \in SUBSET RebindOf(N) /\ x.probes \in SUBSET ProbeOf(N)
  BY <1>1 DEF Bindings
<1> HIDE DEF Entry, SendOf, SteerOf, RebindOf, ProbeOf
<1>4. /\ x.cursor \in N \cup {0} /\ x.captured \in SUBSET N /\ x.active \in N \cup {NoTurn}
      /\ x.rows \in SUBSET N /\ x.approvals \in SUBSET N /\ x.suppressed \in SUBSET N
      /\ x.retried \in SUBSET N /\ x.work \in SUBSET N /\ x.told \in SUBSET N /\ x.failed \in SUBSET N
  BY DEF Bindings
<1> QED BY <1>2, <1>3, <1>4 DEF Bindings

TurnInv ==
  /\ log \in Seq(Kinds) /\ Len(log) <= MaxPosts
  /\ arriving \subseteq 1..Len(log) /\ owed \subseteq 1..Len(log)
  /\ seen \subseteq 1..Len(log) /\ cut \subseteq 1..Len(log)
  /\ taken \in [Seqs -> Nat]
  /\ Sound(b, Len(log), owed \ redone)
  /\ 1..b.cursor \subseteq seen \cup cut

\* What a step that leaves the log alone has to show of the binding.
Step(x, keep) == Sound(x, Len(log), keep) /\ x.cursor = b.cursor

LEMMA QuietStep ==
  ASSUME TurnInv, Step(b', owed' \ redone'), UNCHANGED <<log, seen, cut, taken>>,
         arriving' \subseteq 1..Len(log), owed' \subseteq 1..Len(log)
  PROVE  TurnInv'
BY DEF TurnInv, Step

LEMMA TurnInvInit ==
  ASSUME TurnInit
  PROVE  TurnInv
<1>1. log = <<>> /\ b = NewBinding /\ arriving = {} /\ owed = {} /\ seen = {} /\ cut = {}
      /\ taken = [m \in Seqs |-> 0]
  BY DEF TurnInit
<1>2. Len(log) = 0 /\ log \in Seq(Kinds) /\ taken \in [Seqs -> Nat] /\ 0 <= MaxPosts
  BY <1>1, TurnConstants
<1>3. NewBinding \in Bindings(1..0)
  BY DEF NewBinding, Bindings, NoTurn
<1>4. Packets(NewBinding) /\ NewBinding.cursor = 0 /\ NewBinding.queue = <<>> /\ NewBinding.steerQ = <<>>
  BY DEF NewBinding, Packets
<1>5. Len(NewBinding.queue) + Len(NewBinding.steerQ) <= QueueCap
  BY <1>4, TurnConstants
<1>6. Sound(NewBinding, 0, {})
  BY <1>3, <1>4, <1>5 DEF Sound, Kept
<1>7. owed \ redone = {} /\ 1..b.cursor = {}
  BY <1>1, <1>4
<1> QED BY <1>1, <1>2, <1>6, <1>7 DEF TurnInv

LEMMA PostStep ==
  ASSUME TurnInv, NEW k \in Kinds, Post(k)
  PROVE  TurnInv'
<1> DEFINE n == Len(log)
<1>1. /\ log \in Seq(Kinds) /\ n \in Nat /\ n < MaxPosts /\ log' = Append(log, k)
      /\ arriving' = arriving \cup {n + 1} /\ owed' = owed \cup {n + 1}
      /\ b' = b /\ seen' = seen /\ cut' = cut /\ taken' = taken /\ redone' = redone
  BY DEF TurnInv, Post
<1>2. log' \in Seq(Kinds) /\ Len(log') = n + 1 /\ n + 1 <= MaxPosts
  BY <1>1, TurnConstants
<1>3. b \in Bindings(1..n) /\ Packets(b) /\ Kept(b, owed \ redone) /\ Len(b.queue) + Len(b.steerQ) <= QueueCap
  BY DEF TurnInv, Sound
<1> HIDE DEF n
<1>4. 1..n \subseteq 1..(n + 1)
  BY <1>1
<1>5. b \in Bindings(1..(n + 1)) /\ b.cursor \in 0..n
  <2>1. b.cursor \in (1..n) \cup {0}
    BY <1>3 DEF Bindings
  <2> QED BY <1>1, <1>3, <1>4, <2>1, BindingsGrow
<1>6. Kept(b, owed' \ redone)
  <2>1. n + 1 > b.cursor
    BY <1>1, <1>5
  <2> QED BY <1>1, <1>3, <2>1 DEF Kept
<1>7. Sound(b, n + 1, owed' \ redone)
  BY <1>3, <1>5, <1>6 DEF Sound
<1>8. /\ arriving \subseteq 1..n /\ owed \subseteq 1..n /\ seen \subseteq 1..n /\ cut \subseteq 1..n
      /\ taken \in [Seqs -> Nat] /\ 1..b.cursor \subseteq seen \cup cut
  BY DEF TurnInv, n
<1>9. /\ arriving' \subseteq 1..(n + 1) /\ owed' \subseteq 1..(n + 1)
      /\ seen' \subseteq 1..(n + 1) /\ cut' \subseteq 1..(n + 1)
  BY <1>1, <1>4, <1>8
<1> QED BY <1>1, <1>2, <1>7, <1>8, <1>9 DEF TurnInv

\* The binding of a state, with the messages it must keep.
LEMMA BindingOK ==
  ASSUME TurnInv
  PROVE  /\ Len(log) \in Nat /\ b \in Bindings(1..Len(log)) /\ Sound(b, Len(log), owed \ redone)
         /\ Packets(b) /\ owed \subseteq 1..Len(log) /\ arriving \subseteq 1..Len(log)
<1>1. log \in Seq(Kinds) /\ Sound(b, Len(log), owed \ redone)
      /\ owed \subseteq 1..Len(log) /\ arriving \subseteq 1..Len(log)
  BY DEF TurnInv
<1>2. Len(log) \in Nat
  BY <1>1
<1>3. b \in Bindings(1..Len(log)) /\ Packets(b)
  BY <1>1 DEF Sound
<1> QED BY <1>1, <1>2, <1>3

LEMMA RouteStep ==
  ASSUME TurnInv, NEW m \in Seqs, NEW interrupt \in BOOLEAN, Route(m, interrupt)
  PROVE  TurnInv'
<1> DEFINE n == Len(log)
           keep == owed \ redone
           x == [b EXCEPT !.bound = TRUE]
<1>0. n \in Nat /\ b \in Bindings(1..n) /\ Sound(b, n, keep) /\ owed \subseteq 1..n /\ arriving \subseteq 1..n
  BY BindingOK
<1>1. /\ m \in 1..n /\ arriving' \subseteq 1..n /\ b' = enqueueTurn(x, m, interrupt, FALSE)
      /\ UNCHANGED <<log, owed, seen, cut, taken, redone>>
  BY <1>0 DEF Route
<1> HIDE DEF n, keep
<1>2. x \in Bindings(1..n)
  BY <1>0 DEF Bindings
<1>3. /\ SameCalls(b, x) /\ SameQueues(b, x) /\ x.cursor = b.cursor /\ x.told = b.told
      /\ x.active = b.active /\ x.rows = b.rows
  BY <1>0 DEF Bindings, SameCalls, SameQueues
<1> HIDE DEF x
<1>4. Sound(x, n, keep)
  BY <1>0, <1>2, <1>3, AsideSound
<1>5. Sound(b', n, keep)
  BY <1>0, <1>1, <1>4, EnqueueSound
<1>6. b'.cursor = b.cursor
  BY <1>0, <1>1, <1>2, <1>3, EnqueueCursor
<1>7. Step(b', owed' \ redone')
  BY <1>1, <1>5, <1>6 DEF Step, n, keep
<1> QED BY <1>0, <1>1, <1>7, QuietStep DEF n

LEMMA ToldStep ==
  ASSUME TurnInv, NEW m \in Seqs, RouteFails(m)
  PROVE  TurnInv'
<1> DEFINE n == Len(log)
           keep == owed \ redone
<1>0. n \in Nat /\ b \in Bindings(1..n) /\ Sound(b, n, keep) /\ owed \subseteq 1..n /\ arriving \subseteq 1..n
  BY BindingOK
<1>1. m \in 1..n /\ arriving' \subseteq 1..n /\ b' = Told(b, m) /\ UNCHANGED <<log, owed, seen, cut, taken, redone>>
  BY <1>0 DEF RouteFails, Told
<1> HIDE DEF n, keep
<1>2. Sound(b, n, keep \ {m})
  BY <1>0, SoundOfFewer
<1>3. Sound(b', n, keep)
  BY <1>0, <1>1, <1>2, ToldSound
<1>4. b'.cursor = b.cursor
  BY <1>0, <1>1 DEF Told, Bindings
<1>5. Step(b', owed' \ redone')
  BY <1>1, <1>3, <1>4 DEF Step, n, keep
<1> QED BY <1>0, <1>1, <1>5, QuietStep DEF n

LEMMA RetryStep ==
  ASSUME TurnInv, NEW m \in Seqs, RetryMessage(m)
  PROVE  TurnInv'
<1> DEFINE n == Len(log)
           keep == owed \ redone
<1>0. /\ n \in Nat /\ b \in Bindings(1..n) /\ Sound(b, n, keep) /\ owed \subseteq 1..n /\ arriving \subseteq 1..n
      /\ seen \subseteq 1..n /\ cut \subseteq 1..n
  BY BindingOK DEF TurnInv
<1>1. /\ m \in 1..n /\ arriving' \subseteq 1..n /\ owed' \subseteq 1..n
      /\ b' = [b EXCEPT !.told = @ \ {m}] /\ UNCHANGED <<log, seen, cut, taken>>
      /\ owed' = owed \cup {m} /\ redone' = redone \cup {m}
  BY <1>0 DEF RetryMessage
<1>2. owed' \ redone' = keep \ {m}
  BY <1>1
<1> HIDE DEF n, keep
<1>3. b' \in Bindings(1..n) /\ b'.told = b.told \ {m}
  BY <1>0, <1>1 DEF Bindings
<1>4. /\ SameCalls(b, b') /\ SameQueues(b, b') /\ b'.cursor = b.cursor
      /\ b'.active = b.active /\ b'.rows = b.rows
  BY <1>0, <1>1 DEF Bindings, SameCalls, SameQueues
<1>5. Packets(b) /\ Kept(b, keep) /\ Len(b.queue) + Len(b.steerQ) <= QueueCap
  BY <1>0 DEF Sound
<1>6. Packets(b')
  BY <1>4, <1>5 DEF Packets, SameCalls
<1>7. Kept(b', keep \ {m})
  BY <1>3, <1>4, <1>5 DEF Kept, SameCalls, SameQueues
<1>8. Sound(b', n, keep \ {m})
  BY <1>3, <1>4, <1>5, <1>6, <1>7 DEF Sound, SameQueues
<1>9. Step(b', owed' \ redone')
  BY <1>2, <1>4, <1>8 DEF Step, n
<1> QED BY <1>1, <1>9, QuietStep DEF n

\* Whatever a packet has room for, its whole window is shown or counted.
LEMMA AcceptedWindow ==
  ASSUME NEW c, c.seq \in c.rows, Accepted(c)
  PROVE  /\ seen' \cup cut' = seen \cup cut \cup c.rows
         /\ seen' \subseteq seen \cup c.rows /\ cut' \subseteq cut \cup c.rows
<1>1. PICK room \in 0..PacketRows : /\ seen' = seen \cup Shown(c, room)
                                   /\ cut' = (cut \cup c.rows) \ seen'
  BY DEF Accepted
<1>2. Shown(c, room) \subseteq c.rows
  BY DEF Shown
<1> QED BY <1>1, <1>2

\* A runtime has accepted the packet of c, and the cursor has reached c or was
\* left alone.
LEMMA AcceptedStep ==
  ASSUME TurnInv, NEW c, c.seq \in 1..Len(log), c.rows \in SUBSET (1..Len(log)),
         Carries(c.rows, c.seq, b.cursor), Accepted(c), UNCHANGED <<log, arriving, redone>>,
         Sound(b', Len(log), (owed \ redone) \ c.rows),
         b'.cursor = b.cursor \/ b'.cursor = IF c.seq > b.cursor THEN c.seq ELSE b.cursor
  PROVE  TurnInv'
<1> DEFINE n == Len(log)
<1>0. /\ n \in Nat /\ n <= MaxPosts /\ owed \subseteq 1..n /\ seen \subseteq 1..n /\ cut \subseteq 1..n
      /\ taken \in [Seqs -> Nat] /\ 1..b.cursor \subseteq seen \cup cut /\ b.cursor \in Nat
  BY BindingOK DEF TurnInv, Bindings
<1>1. owed' = owed \ c.rows /\ taken' = [taken EXCEPT ![c.seq] = @ + 1]
  BY DEF Accepted
<1>2. /\ seen' \cup cut' = seen \cup cut \cup c.rows
      /\ seen' \subseteq seen \cup c.rows /\ cut' \subseteq cut \cup c.rows
  BY AcceptedWindow DEF Carries
<1>3. taken' \in [Seqs -> Nat]
  <2>1. c.seq \in Seqs
    BY <1>0, TurnConstants DEF Seqs
  <2>2. taken[c.seq] + 1 \in Nat
    BY <1>0, <2>1
  <2> QED BY <1>0, <1>1, <2>2
<1>4. /\ owed' \ redone' = (owed \ redone) \ c.rows /\ owed' \subseteq 1..n
      /\ seen' \subseteq 1..n /\ cut' \subseteq 1..n
  BY <1>0, <1>1, <1>2
<1>5. 1..b'.cursor \subseteq seen' \cup cut'
  <2> SUFFICES ASSUME NEW i \in 1..b'.cursor PROVE i \in seen' \cup cut'
    OBVIOUS
  <2>1. CASE i \in 1..b.cursor
    BY <1>0, <1>2, <2>1
  <2>2. CASE ~(i \in 1..b.cursor)
    <3>1. b'.cursor = c.seq
      BY <1>0, <2>2
    <3>2. i \in (b.cursor + 1)..c.seq
      BY <1>0, <2>2, <3>1
    <3> QED BY <1>2, <3>2 DEF Carries
  <2> QED BY <2>1, <2>2
<1>6. Sound(b', n, owed' \ redone')
  BY <1>4
<1> HIDE DEF n
<1>7. /\ log' = log /\ arriving' = arriving /\ log \in Seq(Kinds) /\ arriving \subseteq 1..n
  BY DEF TurnInv, n
<1> QED BY <1>0, <1>3, <1>4, <1>5, <1>6, <1>7 DEF TurnInv, n

LEMMA SendAcceptedStep ==
  ASSUME TurnInv, NEW c \in b.sends, SendAccepted(c)
  PROVE  TurnInv'
<1> DEFINE n == Len(log)
           keep == owed \ redone
           x == [b EXCEPT !.sends = @ \ {c}]
<1>0. /\ n \in Nat /\ b \in Bindings(1..n) /\ Sound(b, n, keep) /\ Packets(b) /\ owed \subseteq 1..n
  BY BindingOK
<1>1. b' = advanceCursor(x, c.seq) /\ Accepted(c) /\ UNCHANGED <<log, arriving, redone>>
  BY DEF SendAccepted
<1>2. keep \subseteq 1..n
  BY <1>0
<1> HIDE DEF n, keep
<1>3. c \in SendOf(1..n)
  BY <1>0 DEF Bindings
<1>4. c.seq \in 1..n /\ c.rows \in SUBSET (1..n) /\ Carries(c.rows, c.seq, b.cursor)
  BY <1>0, <1>3 DEF SendOf, Packets
<1>5. x \in Bindings(1..n) /\ x.sends = b.sends \ {c} /\ x.cursor = b.cursor /\ x.told = b.told
  BY <1>0 DEF Bindings
<1>6. /\ x.active = b.active /\ x.rows = b.rows /\ SameQueues(b, x)
      /\ x.steers = b.steers /\ x.probes = b.probes /\ x.rebinds = b.rebinds
  BY <1>0 DEF Bindings, SameQueues
<1> HIDE DEF x
<1>7. Sound(x, n, keep \ {c.seq})
  <2>1. \A d \in (b.sends \ x.sends) \cup (b.probes \ x.probes) \cup (b.rebinds \ x.rebinds) : d.seq = c.seq
    BY <1>5, <1>6
  <2> QED BY <1>0, <1>5, <1>6, <2>1, DroppedSound
<1>8. Sound(x, n, keep \ c.rows)
  BY <1>4, <1>7, SoundOfFewer DEF Carries
<1>9. Sound(b', n, keep \ c.rows)
  <2>0. 1..n \subseteq Nat
    BY <1>0
  <2>1. keep \ c.rows \subseteq Nat /\ (keep \ c.rows) \cap c.rows = {}
    BY <1>2, <2>0
  <2>2. Carries(c.rows, c.seq, x.cursor)
    BY <1>4, <1>5
  <2> QED BY <1>0, <1>1, <1>4, <1>8, <2>1, <2>2, AdvanceSound
<1>10. b'.cursor = IF c.seq > b.cursor THEN c.seq ELSE b.cursor
  BY <1>0, <1>1, <1>4, <1>5, AdvanceOK
<1> QED BY <1>1, <1>4, <1>9, <1>10, AcceptedStep DEF n, keep

\* The end of handleSendFailure.
LEMMA GivenUpSound ==
  ASSUME NEW n \in Nat, NEW keep, NEW c, c.seq \in 1..n, NEW x, Sound(x, n, keep \ {c.seq})
  PROVE  Sound(SendGivenUp(x, c), n, keep) /\ SendGivenUp(x, c).cursor = x.cursor
<1> DEFINE y == [x EXCEPT !.told = @ \cup {c.seq}, !.failed = @ \cup {c.seq}]
           t == Told(x, c.seq)
<1>0. x \in Bindings(1..n)
  BY DEF Sound
<1>1. Sound(t, n, keep)
  BY ToldSound
<1>2. t \in Bindings(1..n)
  BY <1>1 DEF Sound
<1>3. t = [x EXCEPT !.told = @ \cup {c.seq}] /\ y = [t EXCEPT !.failed = @ \cup {c.seq}]
  BY <1>0 DEF Told, Bindings
<1>4. SendGivenUp(x, c) = y \/ SendGivenUp(x, c) = finishTurn(y)
  BY DEF SendGivenUp
<1>5. t.cursor = x.cursor
  BY <1>0, <1>3 DEF Bindings
<1> HIDE DEF y, t
<1>6. y \in Bindings(1..n)
  BY <1>2, <1>3 DEF Bindings
<1>7. /\ SameCalls(t, y) /\ SameQueues(t, y) /\ y.cursor = t.cursor /\ y.told = t.told
      /\ y.active = t.active /\ y.rows = t.rows
  BY <1>2, <1>3 DEF Bindings, SameCalls, SameQueues
<1>8. Sound(y, n, keep)
  BY <1>1, <1>6, <1>7, AsideSound
<1>9. Sound(finishTurn(y), n, keep) /\ finishTurn(y).cursor = x.cursor
  BY <1>5, <1>6, <1>7, <1>8, FinishSound, FinishCursor
<1> QED BY <1>4, <1>5, <1>7, <1>8, <1>9

LEMMA SendRejectedStep ==
  ASSUME TurnInv, NEW c \in b.sends, SendRejected(c)
  PROVE  TurnInv'
<1> DEFINE n == Len(log)
           keep == owed \ redone
           R == IF c.own THEN b.retried \cup {c.seq} ELSE b.retried
           x == [b EXCEPT !.sends = @ \ {c}, !.work = @ \ {c.seq}, !.retried = R]
           r == [seq |-> c.seq, own |-> c.own]
           z == [x EXCEPT !.rebinds = @ \cup {r}]
<1>0. /\ n \in Nat /\ b \in Bindings(1..n) /\ Sound(b, n, keep) /\ owed \subseteq 1..n /\ arriving \subseteq 1..n
  BY BindingOK
<1>1. /\ b' = SendGivenUp(x, c) \/ b' = z
      /\ owed' = owed \cup {c.seq} /\ UNCHANGED <<log, arriving, seen, cut, taken, redone>>
  BY DEF SendRejected
<1>2. owed' \ redone' \subseteq keep \cup {c.seq}
  BY <1>1
<1> HIDE DEF n, keep
<1>3. c \in SendOf(1..n)
  BY <1>0 DEF Bindings
<1>4. c.seq \in 1..n /\ r \in RebindOf(1..n) /\ r.seq = c.seq
  BY <1>3 DEF SendOf, RebindOf
<1>5. R \in SUBSET (1..n)
  BY <1>0, <1>4 DEF Bindings
<1> HIDE DEF R, r
<1>6. x \in Bindings(1..n) /\ x.sends = b.sends \ {c} /\ x.cursor = b.cursor /\ x.told = b.told
  BY <1>0, <1>5 DEF Bindings
<1>7. /\ x.active = b.active /\ x.rows = b.rows /\ SameQueues(b, x)
      /\ x.steers = b.steers /\ x.probes = b.probes /\ x.rebinds = b.rebinds
  BY <1>0 DEF Bindings, SameQueues
<1> HIDE DEF x
<1>8. Sound(x, n, keep \ {c.seq})
  <2>1. \A d \in (b.sends \ x.sends) \cup (b.probes \ x.probes) \cup (b.rebinds \ x.rebinds) : d.seq = c.seq
    BY <1>6, <1>7
  <2> QED BY <1>0, <1>6, <1>7, <2>1, DroppedSound
<1>9. ASSUME b' = z
       PROVE  Sound(b', n, keep \cup {c.seq}) /\ b'.cursor = b.cursor
  <2>1. x.rebinds \cup {r} \in SUBSET RebindOf(1..n)
    BY <1>4, <1>6 DEF Bindings
  <2>2. z \in Bindings(1..n) /\ z.rebinds = x.rebinds \cup {r}
    BY <1>6, <2>1 DEF Bindings
  <2>3. /\ z.sends = x.sends /\ z.steers = x.steers /\ z.probes = x.probes /\ SameQueues(x, z)
        /\ z.cursor = x.cursor /\ z.told = x.told /\ z.active = x.active /\ z.rows = x.rows
    BY <1>6 DEF Bindings, SameQueues
  <2> HIDE DEF z
  <2>4. \A d \in x.sends \cup x.probes \cup x.rebinds : \E e \in z.sends \cup z.probes \cup z.rebinds : e.seq = d.seq
    BY <2>2, <2>3
  <2>5. \A m \in (keep \cup {c.seq}) \ (z.told \cup (keep \ {c.seq})) :
           \E e \in z.sends \cup z.probes \cup z.rebinds : e.seq = m
    BY <1>4, <2>2
  <2>6. \A d \in z.sends \cup z.steers \cup z.probes :
           \E e \in x.sends \cup x.steers \cup x.probes : d.seq = e.seq /\ d.rows = e.rows
    BY <2>3
  <2> DEFINE more == keep \cup {c.seq}
             less == keep \ {c.seq}
  <2> HIDE DEF more, less
  <2>7. Sound(z, n, more)
    <3>1. \A m \in more \ (z.told \cup less) : \E e \in z.sends \cup z.probes \cup z.rebinds : e.seq = m
      BY <2>5 DEF more, less
    <3>2. Sound(x, n, less) /\ x.told \subseteq z.told
      BY <1>8, <2>3 DEF less
    <3> QED BY <1>0, <2>2, <2>3, <2>4, <2>6, <3>1, <3>2, CallsSound
  <2> QED BY <1>6, <1>9, <2>3, <2>7 DEF more
<1>10. Sound(b', n, keep \cup {c.seq}) /\ b'.cursor = b.cursor
  <2>1. CASE b' = SendGivenUp(x, c)
    <3>1. (keep \cup {c.seq}) \ {c.seq} = keep \ {c.seq}
      OBVIOUS
    <3> DEFINE more == keep \cup {c.seq}
    <3>2. Sound(x, n, more \ {c.seq})
      BY <1>8, <3>1
    <3> HIDE DEF more
    <3>3. Sound(b', n, more) /\ b'.cursor = x.cursor
      BY <1>0, <1>4, <2>1, <3>2, GivenUpSound
    <3> QED BY <1>6, <3>3 DEF more
  <2> QED BY <1>1, <1>9, <2>1
<1>11. Sound(b', n, owed' \ redone')
  BY <1>2, <1>10, SoundOfFewer
<1>12. Step(b', owed' \ redone') /\ owed' \subseteq 1..n
  BY <1>0, <1>1, <1>4, <1>10, <1>11 DEF Step, n
<1> QED BY <1>0, <1>1, <1>12, QuietStep DEF n

LEMMA ReboundStep ==
  ASSUME TurnInv, NEW r \in b.rebinds, Rebound(r) \/ ReboundFails(r)
  PROVE  TurnInv'
<1> DEFINE n == Len(log)
           keep == owed \ redone
           w == [b EXCEPT !.rebinds = @ \ {r}]
           x == [b EXCEPT !.rebinds = @ \ {r}, !.bound = TRUE]
<1>0. /\ n \in Nat /\ b \in Bindings(1..n) /\ Sound(b, n, keep) /\ owed \subseteq 1..n /\ arriving \subseteq 1..n
  BY BindingOK
<1>1. /\ \/ x.active = r.seq /\ b' = deliver(x, r.seq, x.rows)
         \/ b' = enqueueTurn(x, r.seq, FALSE, TRUE)
         \/ b' = SendGivenUp(w, r)
      /\ UNCHANGED <<log, arriving, owed, seen, cut, taken, redone>>
  BY DEF Rebound, ReboundFails
<1> HIDE DEF n, keep
<1>2. r \in RebindOf(1..n)
  BY <1>0 DEF Bindings
<1>3. r.seq \in 1..n
  BY <1>2 DEF RebindOf
<1>4. w \in Bindings(1..n) /\ w.rebinds = b.rebinds \ {r} /\ w.cursor = b.cursor /\ w.told = b.told
  BY <1>0 DEF Bindings
<1>5. /\ w.active = b.active /\ w.rows = b.rows /\ SameQueues(b, w)
      /\ w.steers = b.steers /\ w.probes = b.probes /\ w.sends = b.sends
  BY <1>0 DEF Bindings, SameQueues
<1>6. x \in Bindings(1..n) /\ x.cursor = w.cursor /\ x.told = w.told /\ x.active = w.active /\ x.rows = w.rows
  BY <1>0 DEF Bindings
<1>7. SameCalls(w, x) /\ SameQueues(w, x)
  BY <1>0 DEF Bindings, SameCalls, SameQueues
<1> HIDE DEF w, x
<1>8. Sound(w, n, keep \ {r.seq})
  <2>1. \A d \in (b.sends \ w.sends) \cup (b.probes \ w.probes) \cup (b.rebinds \ w.rebinds) : d.seq = r.seq
    BY <1>4, <1>5
  <2> QED BY <1>0, <1>4, <1>5, <2>1, DroppedSound
<1>9. Sound(x, n, keep \ {r.seq})
  BY <1>0, <1>6, <1>7, <1>8, AsideSound
<1>10. Sound(b', n, keep) /\ b'.cursor = b.cursor
  <2>1. CASE b' = SendGivenUp(w, r)
    BY <1>0, <1>3, <1>4, <1>8, <2>1, GivenUpSound
  <2>2. CASE b' = enqueueTurn(x, r.seq, FALSE, TRUE)
    <3>1. Sound(b', n, keep)
      BY <1>0, <1>3, <1>9, <2>2, EnqueueSound
    <3>2. b'.cursor = x.cursor
      BY <1>0, <1>3, <1>6, <2>2, EnqueueCursor
    <3> QED BY <1>4, <1>6, <3>1, <3>2
  <2>3. CASE x.active = r.seq /\ b' = deliver(x, r.seq, x.rows)
    <3>1. Sound(b', n, (keep \ {r.seq}) \cup {r.seq})
      BY <1>0, <1>3, <1>9, <2>3, DeliverSound
    <3>2. Sound(b', n, keep)
      BY <3>1, SoundOfFewer
    <3>3. x.rows \in SUBSET (1..n)
      BY <1>6 DEF Bindings
    <3>4. SameMarks(x, b')
      BY <1>0, <1>3, <1>6, <2>3, <3>3, DeliverOK
    <3> QED BY <1>4, <1>6, <3>2, <3>4 DEF SameMarks
  <2> QED BY <1>1, <2>1, <2>2, <2>3
<1>11. Step(b', owed' \ redone')
  BY <1>1, <1>10 DEF Step, n, keep
<1> QED BY <1>0, <1>1, <1>11, QuietStep DEF n

\* A steer that is answered, and the marks of the binding that made it.
SteerEnded(x, c) == [x EXCEPT !.steers = @ \ {c}]
SteerNoted(x, c, k) == [SteerEnded(x, c) EXCEPT !.busy = FALSE, !.absorbed = k]

LEMMA SteerDropped ==
  ASSUME TurnInv, NEW c \in b.steers, NEW k \in Nat
  PROVE  LET x == SteerEnded(b, c)
             y == SteerNoted(b, c, k)
         IN /\ Sound(x, Len(log), owed \ redone) /\ x.cursor = b.cursor
            /\ Sound(y, Len(log), owed \ redone) /\ y.cursor = b.cursor
            /\ c.seq \in 1..Len(log) /\ c.rows \in SUBSET (1..Len(log))
            /\ Carries(c.rows, c.seq, b.cursor)
<1> DEFINE n == Len(log)
           keep == owed \ redone
           x == SteerEnded(b, c)
           y == SteerNoted(b, c, k)
<1>0. n \in Nat /\ b \in Bindings(1..n) /\ Sound(b, n, keep) /\ Packets(b)
  BY BindingOK
<1> HIDE DEF n, keep
<1>1. c \in SteerOf(1..n)
  BY <1>0 DEF Bindings
<1>2. c.seq \in 1..n /\ c.rows \in SUBSET (1..n) /\ Carries(c.rows, c.seq, b.cursor)
  BY <1>0, <1>1 DEF SteerOf, Packets
<1>3. x \in Bindings(1..n) /\ x.steers = b.steers \ {c} /\ x.cursor = b.cursor /\ x.told = b.told
  BY <1>0 DEF Bindings, SteerEnded
<1>4. /\ x.active = b.active /\ x.rows = b.rows /\ SameQueues(b, x)
      /\ x.sends = b.sends /\ x.probes = b.probes /\ x.rebinds = b.rebinds
  BY <1>0 DEF Bindings, SameQueues, SteerEnded
<1> HIDE DEF x
<1>5. Sound(x, n, keep)
  BY <1>0, <1>3, <1>4, SteerDroppedSound
<1>6. y = [x EXCEPT !.busy = FALSE, !.absorbed = k]
  BY DEF SteerNoted, x
<1> HIDE DEF y
<1>7. y \in Bindings(1..n) /\ y.cursor = x.cursor /\ y.told = x.told /\ y.active = x.active /\ y.rows = x.rows
  BY <1>3, <1>6 DEF Bindings
<1>8. SameCalls(x, y) /\ SameQueues(x, y)
  BY <1>3, <1>6 DEF Bindings, SameCalls, SameQueues
<1>9. Sound(y, n, keep)
  BY <1>0, <1>5, <1>7, <1>8, AsideSound
<1> QED BY <1>2, <1>3, <1>5, <1>7, <1>9 DEF n, keep, x, y

LEMMA SteerAcceptedStep ==
  ASSUME TurnInv, NEW c \in b.steers, SteerAccepted(c)
  PROVE  TurnInv'
<1> DEFINE n == Len(log)
           keep == owed \ redone
           x == SteerEnded(b, c)
           k == IF x.active = c.turn THEN b.absorbed + 1 ELSE b.absorbed
           y == SteerNoted(b, c, k)
           z == advanceCursor(y, c.seq)
<1>0. n \in Nat /\ b \in Bindings(1..n) /\ owed \subseteq 1..n
  BY BindingOK
<1>1. /\ b' = x \/ b' = drainSteering(z)
      /\ Accepted(c) /\ UNCHANGED <<log, arriving, redone>>
  <2>1. x.absorbed = b.absorbed
    BY <1>0 DEF Bindings, SteerEnded
  <2> QED BY <2>1 DEF SteerAccepted, SteerEnded, SteerNoted
<1>2. k \in Nat
  BY <1>0 DEF Bindings
<1> HIDE DEF k
<1>3. /\ Sound(x, n, keep) /\ x.cursor = b.cursor /\ Sound(y, n, keep) /\ y.cursor = b.cursor
      /\ c.seq \in 1..n /\ c.rows \in SUBSET (1..n) /\ Carries(c.rows, c.seq, b.cursor)
  BY <1>2, SteerDropped
<1>4. keep \ c.rows \subseteq Nat /\ (keep \ c.rows) \cap c.rows = {}
  <2>1. keep \subseteq 1..n
    BY <1>0
  <2>2. 1..n \subseteq Nat
    <3> HIDE DEF n
    <3> QED BY <1>0
  <2> HIDE DEF keep
  <2> QED BY <2>1, <2>2
<1> HIDE DEF n, x, y
<1> DEFINE less == keep \ c.rows
<1>5. Sound(x, n, less) /\ Sound(y, n, less)
  BY <1>3, SoundOfFewer
<1> HIDE DEF less, keep
<1>6. Sound(z, n, less)
  <2>1. less \subseteq Nat /\ less \cap c.rows = {} /\ Carries(c.rows, c.seq, y.cursor)
    BY <1>3, <1>4 DEF less
  <2> QED BY <1>0, <1>3, <1>5, <2>1, AdvanceSound
<1>7. z \in Bindings(1..n) /\ y \in Bindings(1..n)
  BY <1>3, <1>6 DEF Sound
<1>8. z.cursor = IF c.seq > b.cursor THEN c.seq ELSE b.cursor
  BY <1>0, <1>3, <1>7, AdvanceOK
<1> HIDE DEF z
<1>9. /\ Sound(b', n, less)
      /\ b'.cursor = b.cursor \/ b'.cursor = IF c.seq > b.cursor THEN c.seq ELSE b.cursor
  <2>1. Sound(drainSteering(z), n, less) /\ drainSteering(z).cursor = z.cursor
    BY <1>0, <1>6, <1>7, DrainSound, DrainCursor
  <2> QED BY <1>1, <1>3, <1>5, <1>8, <2>1
<1> QED BY <1>1, <1>3, <1>9, AcceptedStep DEF n, keep, less

LEMMA SteerRejectedStep ==
  ASSUME TurnInv, NEW c \in b.steers, SteerRejected(c)
  PROVE  TurnInv'
<1> DEFINE n == Len(log)
           keep == owed \ redone
           x == SteerEnded(b, c)
           y == SteerNoted(b, c, b.absorbed)
           z == enqueueTurn(y, c.seq, FALSE, TRUE)
<1>0. n \in Nat /\ b \in Bindings(1..n) /\ owed \subseteq 1..n /\ arriving \subseteq 1..n /\ b.absorbed \in Nat
  BY BindingOK DEF Bindings
<1>1. y = [x EXCEPT !.busy = FALSE]
  BY <1>0 DEF Bindings, SteerEnded, SteerNoted
<1>2. /\ \/ b' = x /\ owed' = owed
         \/ b' = drainSteering(z) /\ owed' = owed \cup {c.seq}
      /\ UNCHANGED <<log, arriving, seen, cut, taken, redone>>
  BY <1>1 DEF SteerRejected, SteerEnded
<1>3. /\ Sound(x, n, keep) /\ x.cursor = b.cursor /\ Sound(y, n, keep) /\ y.cursor = b.cursor
      /\ c.seq \in 1..n
  BY <1>0, SteerDropped
<1> DEFINE more == keep \cup {c.seq}
<1>4. Sound(y, n, more \ {c.seq}) /\ y \in Bindings(1..n)
  <2>1. Sound(y, n, more \ {c.seq})
    BY <1>3, SoundOfFewer
  <2> QED BY <1>3, <2>1 DEF Sound
<1>5. owed' \subseteq 1..n
  BY <1>0, <1>2, <1>3
<1>6. owed' = owed \cup {c.seq} => owed' \ redone' \subseteq more
  BY <1>2
<1>7. owed' = owed => owed' \ redone' = keep
  BY <1>2
<1> HIDE DEF n, keep, x, y, more
<1>8. Sound(z, n, more) /\ z.cursor = b.cursor
  BY <1>0, <1>3, <1>4, EnqueueSound, EnqueueCursor
<1>9. z \in Bindings(1..n)
  BY <1>8 DEF Sound
<1> HIDE DEF z
<1>10. Sound(drainSteering(z), n, more) /\ drainSteering(z).cursor = b.cursor
  BY <1>0, <1>8, <1>9, DrainSound, DrainCursor
<1>11. Sound(b', n, owed' \ redone') /\ b'.cursor = b.cursor
  BY <1>2, <1>3, <1>6, <1>7, <1>10, SoundOfFewer
<1>12. Step(b', owed' \ redone')
  BY <1>11 DEF Step, n
<1> QED BY <1>0, <1>2, <1>5, <1>12, QuietStep DEF n

LEMMA SteerFailsStep ==
  ASSUME TurnInv, NEW c \in b.steers, NEW heard \in BOOLEAN, SteerFails(c, heard)
  PROVE  TurnInv'
<1> DEFINE n == Len(log)
           keep == owed \ redone
           x == SteerEnded(b, c)
           y == SteerNoted(b, c, b.absorbed)
           z == Told(y, c.seq)
<1>0. n \in Nat /\ b \in Bindings(1..n) /\ owed \subseteq 1..n /\ arriving \subseteq 1..n /\ b.absorbed \in Nat
  BY BindingOK DEF Bindings
<1>1. z = [x EXCEPT !.busy = FALSE, !.told = @ \cup {c.seq}]
  BY <1>0 DEF Told, Bindings, SteerEnded, SteerNoted
<1>2. /\ b' = x \/ b' = drainSteering(z)
      /\ Accepted(c) \/ UNCHANGED <<owed, seen, cut, taken>>
      /\ UNCHANGED <<log, arriving, redone>>
  BY <1>1 DEF SteerFails, SteerEnded
<1>3. /\ Sound(x, n, keep) /\ x.cursor = b.cursor /\ Sound(y, n, keep) /\ y.cursor = b.cursor
      /\ c.seq \in 1..n /\ c.rows \in SUBSET (1..n) /\ Carries(c.rows, c.seq, b.cursor)
  BY <1>0, SteerDropped
<1>4. y \in Bindings(1..n) /\ Sound(y, n, keep \ {c.seq})
  <2>1. Sound(y, n, keep \ {c.seq})
    BY <1>3, SoundOfFewer
  <2> QED BY <1>3, <2>1 DEF Sound
<1> HIDE DEF n, keep, x, y
<1>5. Sound(z, n, keep) /\ z.cursor = b.cursor
  <2>1. Sound(z, n, keep)
    BY <1>0, <1>3, <1>4, ToldSound
  <2>2. z.cursor = y.cursor
    BY <1>4 DEF Told, Bindings
  <2> QED BY <1>3, <2>1, <2>2
<1>6. z \in Bindings(1..n)
  BY <1>5 DEF Sound
<1> HIDE DEF z
<1>7. Sound(b', n, keep) /\ b'.cursor = b.cursor
  BY <1>0, <1>2, <1>3, <1>5, <1>6, DrainSound, DrainCursor
<1>8. CASE Accepted(c)
  <2>1. Sound(b', n, keep \ c.rows)
    BY <1>7, SoundOfFewer
  <2> QED BY <1>2, <1>3, <1>7, <1>8, <2>1, AcceptedStep DEF n, keep
<1>9. CASE UNCHANGED <<owed, seen, cut, taken>>
  <2>1. Step(b', owed' \ redone')
    BY <1>2, <1>7, <1>9 DEF Step, n, keep
  <2> QED BY <1>0, <1>2, <1>9, <2>1, QuietStep DEF n
<1> QED BY <1>2, <1>8, <1>9

LEMMA ProbeStep ==
  ASSUME TurnInv, NEW p \in b.probes, ProbeReturns(p)
  PROVE  TurnInv'
<1> DEFINE n == Len(log)
           keep == owed \ redone
           f == b.preflight /\ ~p.own
           x == [b EXCEPT !.probes = @ \ {p}, !.captured = @ \cup {p.seq}, !.preflight = f]
<1>0. /\ n \in Nat /\ b \in Bindings(1..n) /\ Sound(b, n, keep) /\ Packets(b)
      /\ owed \subseteq 1..n /\ arriving \subseteq 1..n
  BY BindingOK
<1>1. /\ \/ b' = enqueueTurn(x, p.seq, FALSE, TRUE)
         \/ b' = startTurn(x, p.seq, p.rows)
         \/ b' = Told(x, p.seq)
      /\ UNCHANGED <<log, arriving, owed, seen, cut, taken, redone>>
  BY DEF ProbeReturns, Told
<1> HIDE DEF n, keep
<1>2. p \in ProbeOf(1..n)
  BY <1>0 DEF Bindings
<1>3. p.seq \in 1..n /\ p.rows \in SUBSET (1..n) /\ Carries(p.rows, p.seq, b.cursor)
  BY <1>0, <1>2 DEF ProbeOf, Packets
<1>4. f \in BOOLEAN
  BY <1>0
<1> HIDE DEF f
<1>5. x \in Bindings(1..n) /\ x.probes = b.probes \ {p} /\ x.cursor = b.cursor /\ x.told = b.told
  BY <1>0, <1>3, <1>4 DEF Bindings
<1>6. /\ x.active = b.active /\ x.rows = b.rows /\ SameQueues(b, x)
      /\ x.steers = b.steers /\ x.sends = b.sends /\ x.rebinds = b.rebinds
  BY <1>0 DEF Bindings, SameQueues
<1> HIDE DEF x
<1>7. Sound(x, n, keep \ {p.seq})
  <2>1. \A d \in (b.sends \ x.sends) \cup (b.probes \ x.probes) \cup (b.rebinds \ x.rebinds) : d.seq = p.seq
    BY <1>5, <1>6
  <2> QED BY <1>0, <1>5, <1>6, <2>1, DroppedSound
<1>8. Sound(b', n, keep) /\ b'.cursor = b.cursor
  <2>1. CASE b' = enqueueTurn(x, p.seq, FALSE, TRUE)
    <3>1. Sound(b', n, keep)
      BY <1>0, <1>3, <1>7, <2>1, EnqueueSound
    <3>2. b'.cursor = x.cursor
      BY <1>0, <1>3, <1>5, <2>1, EnqueueCursor
    <3> QED BY <1>5, <3>1, <3>2
  <2>2. CASE b' = startTurn(x, p.seq, p.rows)
    <3>1. Sound(b', n, (keep \ {p.seq}) \cup {p.seq})
      BY <1>0, <1>3, <1>5, <1>7, <2>2, StartSound
    <3>2. SameMarks(x, b')
      BY <1>0, <1>3, <1>5, <2>2, StartOK
    <3> QED BY <1>5, <3>1, <3>2, SoundOfFewer DEF SameMarks
  <2>3. CASE b' = Told(x, p.seq)
    <3>1. Sound(b', n, keep)
      BY <1>0, <1>3, <1>7, <2>3, ToldSound
    <3>2. b'.cursor = x.cursor
      BY <1>5, <2>3 DEF Told, Bindings
    <3> QED BY <1>5, <3>1, <3>2
  <2> QED BY <1>1, <2>1, <2>2, <2>3
<1>9. Step(b', owed' \ redone')
  BY <1>1, <1>8 DEF Step, n, keep
<1> QED BY <1>0, <1>1, <1>9, QuietStep DEF n

\* What the provider says and what the timers do: marks, and turns that end.
LEMMA ProviderStep ==
  ASSUME TurnInv, NEW x, x \in Bindings(1..Len(log)),
         SameCalls(b, x), SameQueues(b, x), x.cursor = b.cursor, x.told = b.told,
         x.active = b.active, x.rows = b.rows,
         b' = x \/ b' = finishTurn(x) \/ b' = finishTurn(finishTurn(x)),
         UNCHANGED <<log, arriving, owed, seen, cut, taken, redone>>
  PROVE  TurnInv'
<1> DEFINE n == Len(log)
           keep == owed \ redone
           y == finishTurn(x)
           z == finishTurn(y)
<1>0. n \in Nat /\ b \in Bindings(1..n) /\ Sound(b, n, keep) /\ owed \subseteq 1..n /\ arriving \subseteq 1..n
  BY BindingOK
<1> HIDE DEF n, keep
<1>1. Sound(x, n, keep) /\ x \in Bindings(1..n)
  BY <1>0, AsideSound DEF n
<1>2. Sound(y, n, keep) /\ y.cursor = b.cursor
  BY <1>0, <1>1, FinishSound, FinishCursor
<1>3. y \in Bindings(1..n)
  BY <1>2 DEF Sound
<1> HIDE DEF y
<1>4. Sound(z, n, keep) /\ z.cursor = b.cursor
  BY <1>0, <1>2, <1>3, FinishSound, FinishCursor
<1> HIDE DEF z
<1>5. b' = x \/ b' = y \/ b' = z
  BY DEF y, z
<1>6. Sound(b', n, keep) /\ b'.cursor = b.cursor
  BY <1>1, <1>2, <1>4, <1>5
<1>7. Step(b', owed' \ redone')
  BY <1>6 DEF Step, n, keep
<1> QED BY <1>0, <1>7, QuietStep DEF n

LEMMA WorkStep ==
  ASSUME TurnInv, NEW m \in Seqs, TurnCompleted(m) \/ BareIdle(m)
  PROVE  TurnInv'
<1> DEFINE x == [b EXCEPT !.work = b.work \ {m}]
           w == [b EXCEPT !.work = {}]
<1>0. b \in Bindings(1..Len(log))
  BY BindingOK
<1>1. /\ \/ b' = x \/ b' = finishTurn(x) \/ b' = finishTurn(finishTurn(x))
         \/ b' = w \/ b' = finishTurn(w)
      /\ UNCHANGED <<log, arriving, owed, seen, cut, taken, redone>>
  BY DEF TurnCompleted, BareIdle, completed, idle
<1>2. x \in Bindings(1..Len(log)) /\ w \in Bindings(1..Len(log))
  BY <1>0 DEF Bindings
<1>3. /\ SameCalls(b, x) /\ SameQueues(b, x) /\ x.cursor = b.cursor /\ x.told = b.told
      /\ x.active = b.active /\ x.rows = b.rows
  BY <1>0 DEF Bindings, SameCalls, SameQueues
<1>4. /\ SameCalls(b, w) /\ SameQueues(b, w) /\ w.cursor = b.cursor /\ w.told = b.told
      /\ w.active = b.active /\ w.rows = b.rows
  BY <1>0 DEF Bindings, SameCalls, SameQueues
<1> HIDE DEF x, w
<1> QED BY <1>1, <1>2, <1>3, <1>4, ProviderStep

LEMMA ApprovalStep ==
  ASSUME TurnInv, NEW m \in Seqs, ApprovalAsked(m) \/ ApprovalAnswered(m)
  PROVE  TurnInv'
<1>0. b \in Bindings(1..Len(log))
  BY BindingOK
<1>1. UNCHANGED <<log, arriving, owed, seen, cut, taken, redone>>
  BY DEF ApprovalAsked, ApprovalAnswered
<1>2. m \in b.work
  BY DEF ApprovalAsked, ApprovalAnswered
<1>3. \/ b' = b
      \/ b' = [b EXCEPT !.approvals = @ \cup {m}, !.waiting = TRUE]
      \/ b' = [b EXCEPT !.approvals = @ \ {m}, !.waiting = FALSE]
  BY DEF ApprovalAsked, ApprovalAnswered
<1>4. b' \in Bindings(1..Len(log))
  <2>1. b.approvals \cup {m} \in SUBSET (1..Len(log)) /\ b.approvals \ {m} \in SUBSET (1..Len(log))
    BY <1>0, <1>2 DEF Bindings
  <2>2. [b EXCEPT !.approvals = @ \cup {m}, !.waiting = TRUE] \in Bindings(1..Len(log))
    BY <1>0, <2>1 DEF Bindings
  <2>3. [b EXCEPT !.approvals = @ \ {m}, !.waiting = FALSE] \in Bindings(1..Len(log))
    BY <1>0, <2>1 DEF Bindings
  <2> QED BY <1>0, <1>3, <2>2, <2>3
<1>5. /\ SameCalls(b, b') /\ SameQueues(b, b') /\ b'.cursor = b.cursor /\ b'.told = b.told
      /\ b'.active = b.active /\ b'.rows = b.rows
  BY <1>0, <1>3 DEF Bindings, SameCalls, SameQueues
<1> QED BY <1>1, <1>4, <1>5, ProviderStep

LEMMA TimerStep ==
  ASSUME TurnInv, Watchdog \/ TurnCeiling
  PROVE  TurnInv'
<1> DEFINE x == [b EXCEPT !.suppressed = @ \cup {b.active}]
<1>0. b \in Bindings(1..Len(log))
  BY BindingOK
<1>1. /\ b' = finishTurn(x) /\ b.active # NoTurn
      /\ UNCHANGED <<log, arriving, owed, seen, cut, taken, redone>>
  BY DEF Watchdog, TurnCeiling, drainBoundedTurn
<1>2. x \in Bindings(1..Len(log))
  BY <1>0, <1>1 DEF Bindings
<1>3. /\ SameCalls(b, x) /\ SameQueues(b, x) /\ x.cursor = b.cursor /\ x.told = b.told
      /\ x.active = b.active /\ x.rows = b.rows
  BY <1>0 DEF Bindings, SameCalls, SameQueues
<1> HIDE DEF x
<1> QED BY <1>1, <1>2, <1>3, ProviderStep

LEMMA DeathStep ==
  ASSUME TurnInv, Disconnected \/ RuntimeEnds \/ Sweep
  PROVE  TurnInv'
<1> DEFINE n == Len(log)
           keep == owed \ redone
<1>0. n \in Nat /\ b \in Bindings(1..n) /\ Sound(b, n, keep) /\ owed \subseteq 1..n /\ arriving \subseteq 1..n
  BY BindingOK
<1>1. /\ b' = markDead(b) \/ b' = releaseBinding(b)
      /\ UNCHANGED <<log, arriving, owed, seen, cut, taken, redone>>
  BY DEF Disconnected, RuntimeEnds, Sweep
<1> HIDE DEF n, keep
<1>2. markDead(b).cursor = b.cursor /\ releaseBinding(b).cursor = b.cursor
  BY <1>0, MarkDeadOK, ReleaseOK
<1>3. Sound(b', n, keep) /\ b'.cursor = b.cursor
  BY <1>0, <1>1, <1>2, MarkDeadSound, ReleaseSound
<1>4. Step(b', owed' \ redone')
  BY <1>1, <1>3 DEF Step, n, keep
<1> QED BY <1>0, <1>1, <1>4, QuietStep DEF n

LEMMA TurnInvNext ==
  ASSUME TurnInv, [TurnNext]_turnVars
  PROVE  TurnInv'
<1>1. CASE UNCHANGED turnVars
  <2>1. /\ log' = log /\ b' = b /\ arriving' = arriving /\ owed' = owed /\ seen' = seen
        /\ cut' = cut /\ taken' = taken /\ redone' = redone
    BY <1>1 DEF turnVars
  <2> QED BY <2>1 DEF TurnInv
<1>2. ASSUME NEW k \in Kinds, Post(k) PROVE TurnInv'
  BY <1>2, PostStep
<1>3. ASSUME NEW m \in Seqs, NEW interrupt \in BOOLEAN, Route(m, interrupt) PROVE TurnInv'
  BY <1>3, RouteStep
<1>4. ASSUME NEW m \in Seqs, \/ RouteFails(m) \/ RetryMessage(m) \/ TurnCompleted(m)
                             \/ BareIdle(m) \/ ApprovalAsked(m) \/ ApprovalAnswered(m)
      PROVE  TurnInv'
  BY <1>4, ToldStep, RetryStep, WorkStep, ApprovalStep
<1>5. ASSUME NEW c \in b.sends, SendAccepted(c) \/ SendRejected(c) PROVE TurnInv'
  BY <1>5, SendAcceptedStep, SendRejectedStep
<1>6. ASSUME NEW r \in b.rebinds, Rebound(r) \/ ReboundFails(r) PROVE TurnInv'
  BY <1>6, ReboundStep
<1>7. ASSUME NEW c \in b.steers, \/ SteerAccepted(c) \/ SteerRejected(c)
                                 \/ \E heard \in BOOLEAN : SteerFails(c, heard)
      PROVE  TurnInv'
  BY <1>7, SteerAcceptedStep, SteerRejectedStep, SteerFailsStep
<1>8. ASSUME NEW p \in b.probes, ProbeReturns(p) PROVE TurnInv'
  BY <1>8, ProbeStep
<1>9. CASE Watchdog \/ TurnCeiling
  BY <1>9, TimerStep
<1>10. CASE Disconnected \/ RuntimeEnds \/ Sweep
  BY <1>10, DeathStep
<1> QED BY <1>1, <1>2, <1>3, <1>4, <1>5, <1>6, <1>7, <1>8, <1>9, <1>10 DEF TurnNext

LEMMA TurnInvHolds == TurnSpec => []TurnInv
<1>1. TurnInit => TurnInv
  BY TurnInvInit
<1>2. TurnInv /\ [TurnNext]_turnVars => TurnInv'
  BY TurnInvNext
<1> QED BY <1>1, <1>2, PTL DEF TurnSpec

\* The binding and its calls keep their shape, and no more messages wait than
\* there are slots: every way into the queues asks for one, and a turn that ends
\* only moves its steers from the one to the other.
THEOREM TurnsWellFormed == TurnSpec => []TurnTypeOK
<1>1. TurnInv => TurnTypeOK
  <2> SUFFICES ASSUME TurnInv PROVE TurnTypeOK
    OBVIOUS
  <2>1. /\ log \in Seq(Kinds) /\ Len(log) <= MaxPosts /\ taken \in [Seqs -> Nat]
        /\ {arriving, owed, seen, cut} \subseteq SUBSET (1..Len(log))
        /\ Sound(b, Len(log), owed \ redone)
    BY DEF TurnInv
  <2>2. Len(log) \in Nat /\ MaxPosts \in Nat
    BY <2>1, TurnConstants
  <2>3. 1..Len(log) \subseteq Seqs
    BY <2>1, <2>2 DEF Seqs
  <2>4. b \in Bindings(1..Len(log)) /\ Len(b.queue) + Len(b.steerQ) <= QueueCap
    BY <2>1 DEF Sound
  <2>5. b.cursor \in 0..Len(log) /\ b.active \in 0..Len(log)
    <3>1. b.cursor \in (1..Len(log)) \cup {0} /\ b.active \in (1..Len(log)) \cup {0}
      BY <2>4 DEF Bindings, NoTurn
    <3> QED BY <2>2, <3>1
  <2>6. /\ SendOf(1..Len(log)) \subseteq Send /\ SteerOf(1..Len(log)) \subseteq Steer
        /\ ProbeOf(1..Len(log)) \subseteq Probe
    BY <2>3 DEF SendOf, SteerOf, ProbeOf, Send, Steer, Probe
  <2>7. b.sends \subseteq Send /\ b.steers \subseteq Steer /\ b.probes \subseteq Probe
    BY <2>4, <2>6 DEF Bindings
  <2> QED BY <2>1, <2>4, <2>5, <2>7 DEF TurnTypeOK
<1> QED BY <1>1, TurnInvHolds, PTL

\* The cursor never passes a message that was not in the window of a packet some
\* runtime has accepted: whatever the packets have room for, each message below
\* the cursor was shown, or counted among the rows that were left out.
THEOREM CursorNeverSkips == TurnSpec => []CursorCovered
<1>1. TurnInv => CursorCovered
  BY DEF TurnInv, CursorCovered
<1> QED BY <1>1, TurnInvHolds, PTL

\* No message vanishes: it was in the window of an accepted packet, which showed
\* or counted it, or was reported, or is where a later window will find it.
THEOREM NothingVanishes == TurnSpec => []Accounted
<1>1. TurnInv => Accounted
  <2> SUFFICES ASSUME TurnInv, NEW m \in owed \ (b.told \cup redone) PROVE NotLost(m)
    BY DEF Accounted
  <2>1. Packets(b) /\ Kept(b, owed \ redone)
    BY DEF TurnInv, Sound
  <2>2. \/ m > b.cursor
        \/ \E i \in DOMAIN b.queue : b.queue[i].seq = m
        \/ \E c \in b.sends \cup b.probes \cup b.rebinds : c.seq = m
    BY <2>1 DEF Kept
  <2>3. \A c \in b.sends \cup b.probes : c.seq = m => m \in c.rows
    BY <2>1 DEF Packets, Carries
  <2> QED BY <2>2, <2>3 DEF NotLost
<1> QED BY <1>1, TurnInvHolds, PTL

-----------------------------------------------------------------------------
(* One turn at a time, for a provider that does not go idle on its own after *)
(* every turn.                                                               *)

\* The end of handleSendFailure: a send was given up for good.
LEMMA GivenUpOnly ==
  ASSUME NEW n \in Nat, NEW c, c.seq \in 1..n, NEW x \in Bindings(1..n)
  PROVE  OnlyActive(SendGivenUp(x, c))
<1> DEFINE y == [x EXCEPT !.told = @ \cup {c.seq}, !.failed = @ \cup {c.seq}]
<1>1. y \in Bindings(1..n) /\ y.failed = x.failed \cup {c.seq}
  BY DEF Bindings
<1>2. SendGivenUp(x, c) = y \/ SendGivenUp(x, c) = finishTurn(y)
  BY DEF SendGivenUp
<1> HIDE DEF y
<1>3. y.failed # {}
  BY <1>1
<1>4. OnlyActive(y) /\ OnlyActive(finishTurn(y))
  BY <1>1, <1>3, FinishOnly DEF OnlyActive
<1> QED BY <1>2, <1>4

LEMMA CallsOnly ==
  ASSUME TurnInv, OnlyActive(b),
         \/ \E c \in b.sends : SendAccepted(c) \/ SendRejected(c)
         \/ \E r \in b.rebinds : Rebound(r) \/ ReboundFails(r)
  PROVE  OnlyActive(b')
<1> DEFINE n == Len(log)
<1>0. n \in Nat /\ b \in Bindings(1..n)
  BY BindingOK
<1>1. ASSUME NEW c \in b.sends, SendAccepted(c) PROVE OnlyActive(b')
  <2> DEFINE x == [b EXCEPT !.sends = @ \ {c}]
  <2>1. b' = advanceCursor(x, c.seq)
    BY <1>1 DEF SendAccepted
  <2>2. c \in SendOf(1..n)
    BY <1>0 DEF Bindings
  <2>3. c.seq \in 1..n
    BY <2>2 DEF SendOf
  <2> HIDE DEF n
  <2>4. x \in Bindings(1..n)
    BY <1>0 DEF Bindings
  <2>5. x.work = b.work /\ x.active = b.active /\ x.suppressed = b.suppressed /\ x.failed = b.failed
    BY <1>0 DEF Bindings
  <2> HIDE DEF x
  <2>6. SameTurn(x, b') /\ b'.suppressed = x.suppressed /\ b'.failed = x.failed
    BY <1>0, <2>1, <2>3, <2>4, AdvanceOK
  <2> QED BY <2>5, <2>6 DEF OnlyActive, SameTurn
<1>2. ASSUME NEW c \in b.sends, SendRejected(c) PROVE OnlyActive(b')
  <2> DEFINE R == IF c.own THEN b.retried \cup {c.seq} ELSE b.retried
             x == [b EXCEPT !.sends = @ \ {c}, !.work = @ \ {c.seq}, !.retried = R]
             z == [x EXCEPT !.rebinds = @ \cup {[seq |-> c.seq, own |-> c.own]}]
  <2>1. b' = SendGivenUp(x, c) \/ b' = z
    BY <1>2 DEF SendRejected
  <2>2. c \in SendOf(1..n)
    BY <1>0 DEF Bindings
  <2>3. c.seq \in 1..n
    BY <2>2 DEF SendOf
  <2>4. R \in SUBSET (1..n)
    BY <1>0, <2>3 DEF Bindings
  <2> HIDE DEF n, R
  <2>5. x \in Bindings(1..n)
    BY <1>0, <2>4 DEF Bindings
  <2>6. z.work = b.work \ {c.seq} /\ z.active = b.active /\ z.suppressed = b.suppressed /\ z.failed = b.failed
    BY <1>0 DEF Bindings
  <2> HIDE DEF x, z
  <2>7. OnlyActive(z)
    BY <2>6 DEF OnlyActive
  <2> QED BY <1>0, <2>1, <2>3, <2>5, <2>7, GivenUpOnly
<1>3. ASSUME NEW r \in b.rebinds, Rebound(r) \/ ReboundFails(r) PROVE OnlyActive(b')
  <2> DEFINE w == [b EXCEPT !.rebinds = @ \ {r}]
             x == [b EXCEPT !.rebinds = @ \ {r}, !.bound = TRUE]
  <2>1. \/ x.active = r.seq /\ b' = deliver(x, r.seq, x.rows)
        \/ b' = enqueueTurn(x, r.seq, FALSE, TRUE)
        \/ b' = SendGivenUp(w, r)
    BY <1>3 DEF Rebound, ReboundFails
  <2>2. r \in RebindOf(1..n)
    BY <1>0 DEF Bindings
  <2>3. r.seq \in 1..n
    BY <2>2 DEF RebindOf
  <2> HIDE DEF n
  <2>4. w \in Bindings(1..n) /\ x \in Bindings(1..n)
    BY <1>0 DEF Bindings
  <2>5. x.work = b.work /\ x.active = b.active /\ x.suppressed = b.suppressed /\ x.failed = b.failed
    BY <1>0 DEF Bindings
  <2>6. x.rows \in SUBSET (1..n)
    BY <2>4 DEF Bindings
  <2> HIDE DEF w, x
  <2>7. OnlyActive(x)
    BY <2>5 DEF OnlyActive
  <2>8. CASE x.active = r.seq /\ b' = deliver(x, r.seq, x.rows)
    <3>1. b'.work = x.work \cup {r.seq} /\ b'.active = x.active /\ SameMarks(x, b')
      BY <1>0, <2>3, <2>4, <2>6, <2>8, DeliverOK
    <3> QED BY <2>7, <2>8, <3>1 DEF OnlyActive, SameMarks
  <2> QED BY <1>0, <2>1, <2>3, <2>4, <2>7, <2>8, EnqueueOnly, GivenUpOnly
<1> QED BY <1>1, <1>2, <1>3

LEMMA SteersOnly ==
  ASSUME TurnInv, OnlyActive(b), NEW c \in b.steers,
         SteerAccepted(c) \/ SteerRejected(c) \/ \E heard \in BOOLEAN : SteerFails(c, heard)
  PROVE  OnlyActive(b')
<1> DEFINE n == Len(log)
           x == SteerEnded(b, c)
           k == IF x.active = c.turn THEN b.absorbed + 1 ELSE b.absorbed
           y == SteerNoted(b, c, k)
           w == SteerNoted(b, c, b.absorbed)
<1>0. n \in Nat /\ b \in Bindings(1..n) /\ b.absorbed \in Nat
  BY BindingOK DEF Bindings
<1>1. \/ b' = x
      \/ b' = drainSteering(advanceCursor(y, c.seq))
      \/ b' = drainSteering(enqueueTurn(w, c.seq, FALSE, TRUE))
      \/ b' = drainSteering(Told(w, c.seq))
  <2>1. x.absorbed = b.absorbed /\ w = [x EXCEPT !.busy = FALSE]
        /\ Told(w, c.seq) = [x EXCEPT !.busy = FALSE, !.told = @ \cup {c.seq}]
    BY <1>0 DEF Bindings, SteerEnded, SteerNoted, Told
  <2>2. CASE SteerAccepted(c)
    BY <2>1, <2>2 DEF SteerAccepted, SteerEnded, SteerNoted
  <2>3. CASE SteerRejected(c)
    BY <2>1, <2>3 DEF SteerRejected, SteerEnded
  <2>4. CASE \E heard \in BOOLEAN : SteerFails(c, heard)
    BY <2>1, <2>4 DEF SteerFails, SteerEnded
  <2> QED BY <2>2, <2>3, <2>4
<1>2. k \in Nat
  BY <1>0
<1> HIDE DEF k
<1>3. Sound(y, n, owed \ redone) /\ Sound(w, n, owed \ redone) /\ c.seq \in 1..n
  BY <1>0, <1>2, SteerDropped
<1>4. y \in Bindings(1..n) /\ w \in Bindings(1..n)
  BY <1>3 DEF Sound
<1>5. x.work = b.work /\ x.active = b.active /\ x.suppressed = b.suppressed /\ x.failed = b.failed
  BY <1>0 DEF Bindings, SteerEnded
<1>6. y.work = b.work /\ y.active = b.active /\ y.suppressed = b.suppressed /\ y.failed = b.failed
  BY <1>0 DEF Bindings, SteerEnded, SteerNoted
<1>7. w.work = b.work /\ w.active = b.active /\ w.suppressed = b.suppressed /\ w.failed = b.failed
  BY <1>0 DEF Bindings, SteerEnded, SteerNoted
<1> HIDE DEF n, x, y, w
<1>8. OnlyActive(x) /\ OnlyActive(y) /\ OnlyActive(w)
  BY <1>5, <1>6, <1>7 DEF OnlyActive
<1>9. CASE b' = drainSteering(advanceCursor(y, c.seq))
  <2>1. LET z == advanceCursor(y, c.seq)
        IN z \in Bindings(1..n) /\ SameTurn(y, z) /\ z.suppressed = y.suppressed /\ z.failed = y.failed
    BY <1>0, <1>3, <1>4, AdvanceOK
  <2>2. OnlyActive(advanceCursor(y, c.seq))
    BY <1>8, <2>1 DEF OnlyActive, SameTurn
  <2> QED BY <1>0, <1>9, <2>1, <2>2, DrainOnly
<1>10. CASE b' = drainSteering(enqueueTurn(w, c.seq, FALSE, TRUE))
  <2>1. enqueueTurn(w, c.seq, FALSE, TRUE) \in Bindings(1..n)
    <3>1. Sound(w, n, (owed \ redone) \ {c.seq})
      BY <1>3, SoundOfFewer
    <3>2. Sound(enqueueTurn(w, c.seq, FALSE, TRUE), n, owed \ redone)
      BY <1>0, <1>3, <3>1, EnqueueSound
    <3> QED BY <3>2 DEF Sound
  <2>2. OnlyActive(enqueueTurn(w, c.seq, FALSE, TRUE))
    BY <1>0, <1>3, <1>4, <1>8, EnqueueOnly
  <2> QED BY <1>0, <1>10, <2>1, <2>2, DrainOnly
<1>11. CASE b' = drainSteering(Told(w, c.seq))
  <2>1. Told(w, c.seq) \in Bindings(1..n)
    BY <1>3, <1>4 DEF Told, Bindings
  <2>2. LET z == Told(w, c.seq)
        IN z.work = w.work /\ z.active = w.active /\ z.suppressed = w.suppressed /\ z.failed = w.failed
    BY <1>4 DEF Told, Bindings
  <2>3. OnlyActive(Told(w, c.seq))
    BY <1>8, <2>2 DEF OnlyActive
  <2> QED BY <1>0, <1>11, <2>1, <2>3, DrainOnly
<1> QED BY <1>1, <1>8, <1>9, <1>10, <1>11

LEMMA ProbesOnly ==
  ASSUME TurnInv, OnlyActive(b), NEW p \in b.probes, ProbeReturns(p)
  PROVE  OnlyActive(b')
<1> DEFINE n == Len(log)
           f == b.preflight /\ ~p.own
           x == [b EXCEPT !.probes = @ \ {p}, !.captured = @ \cup {p.seq}, !.preflight = f]
<1>0. n \in Nat /\ b \in Bindings(1..n)
  BY BindingOK
<1>1. \/ b' = enqueueTurn(x, p.seq, FALSE, TRUE)
      \/ x.active = NoTurn /\ b' = startTurn(x, p.seq, p.rows)
      \/ b' = Told(x, p.seq)
  BY DEF ProbeReturns, Told
<1> HIDE DEF n
<1>2. p \in ProbeOf(1..n)
  BY <1>0 DEF Bindings
<1>3. p.seq \in 1..n /\ p.rows \in SUBSET (1..n)
  BY <1>2 DEF ProbeOf
<1>4. f \in BOOLEAN
  BY <1>0
<1> HIDE DEF f
<1>5. x \in Bindings(1..n)
  BY <1>0, <1>3, <1>4 DEF Bindings
<1>6. x.work = b.work /\ x.active = b.active /\ x.suppressed = b.suppressed /\ x.failed = b.failed
  BY <1>0 DEF Bindings
<1> HIDE DEF x
<1>7. OnlyActive(x)
  BY <1>6 DEF OnlyActive
<1>8. CASE x.active = NoTurn /\ b' = startTurn(x, p.seq, p.rows)
  <2>1. b'.active = p.seq /\ b'.work = x.work \cup {p.seq} /\ SameMarks(x, b')
    BY <1>0, <1>3, <1>5, <1>8, StartOK
  <2>2. NoTurn \notin x.work
    BY <1>5 DEF Bindings, NoTurn
  <2> QED BY <1>7, <1>8, <2>1, <2>2 DEF OnlyActive, SameMarks
<1>9. CASE b' = Told(x, p.seq)
  <2>1. b'.work = x.work /\ b'.active = x.active /\ b'.suppressed = x.suppressed /\ b'.failed = x.failed
    BY <1>5, <1>9 DEF Told, Bindings
  <2> QED BY <1>7, <2>1 DEF OnlyActive
<1> QED BY <1>0, <1>1, <1>3, <1>5, <1>7, <1>8, <1>9, EnqueueOnly

LEMMA RoutesOnly ==
  ASSUME TurnInv, OnlyActive(b), NEW m \in Seqs,
         (\E interrupt \in BOOLEAN : Route(m, interrupt)) \/ RouteFails(m) \/ RetryMessage(m)
  PROVE  OnlyActive(b')
<1> DEFINE n == Len(log)
           x == [b EXCEPT !.bound = TRUE]
<1>0. n \in Nat /\ b \in Bindings(1..n) /\ arriving \subseteq 1..n
  BY BindingOK
<1>1. \/ m \in 1..n /\ \E interrupt \in BOOLEAN : b' = enqueueTurn(x, m, interrupt, FALSE)
      \/ b' = [b EXCEPT !.told = @ \cup {m}]
      \/ b' = [b EXCEPT !.told = @ \ {m}]
  BY <1>0 DEF Route, RouteFails, RetryMessage
<1> HIDE DEF n
<1>2. x \in Bindings(1..n)
  BY <1>0 DEF Bindings
<1>3. x.work = b.work /\ x.active = b.active /\ x.suppressed = b.suppressed /\ x.failed = b.failed
  BY <1>0 DEF Bindings
<1> HIDE DEF x
<1>4. OnlyActive(x)
  BY <1>3 DEF OnlyActive
<1>5. ASSUME NEW T, b' = [b EXCEPT !.told = T] PROVE OnlyActive(b')
  <2>1. b'.work = b.work /\ b'.active = b.active /\ b'.suppressed = b.suppressed /\ b'.failed = b.failed
    BY <1>0, <1>5 DEF Bindings
  <2> QED BY <2>1 DEF OnlyActive
<1> QED BY <1>0, <1>1, <1>2, <1>4, <1>5, EnqueueOnly

\* A turn ends when its provider is done with it, or has been told to be.
LEMMA EndsOnly ==
  ASSUME ~TrailingIdle, TurnInv, OnlyActive(b),
         \/ \E m \in Seqs : TurnCompleted(m) \/ BareIdle(m) \/ ApprovalAsked(m) \/ ApprovalAnswered(m)
         \/ Watchdog \/ TurnCeiling \/ Disconnected \/ RuntimeEnds \/ Sweep
  PROVE  OnlyActive(b')
<1> DEFINE n == Len(log)
<1>0. n \in Nat /\ b \in Bindings(1..n)
  BY BindingOK
<1> HIDE DEF n
<1>1. ASSUME NEW m \in Seqs, TurnCompleted(m) PROVE OnlyActive(b')
  <2> DEFINE x == [b EXCEPT !.work = @ \ {m}]
  <2>1. \/ b' = x
        \/ b' = finishTurn(x) /\ x.active = m
    BY <1>1 DEF TurnCompleted, completed
  <2>2. x \in Bindings(1..n)
    BY <1>0 DEF Bindings
  <2>3. x.work = b.work \ {m} /\ x.active = b.active /\ x.suppressed = b.suppressed /\ x.failed = b.failed
    BY <1>0 DEF Bindings
  <2> HIDE DEF x
  <2>4. OnlyActive(x)
    BY <2>3 DEF OnlyActive
  <2>5. x.active = m => (x.failed = {} => x.work \ x.suppressed = {})
    BY <2>3 DEF OnlyActive
  <2> QED BY <1>0, <2>1, <2>2, <2>4, <2>5, FinishOnly
<1>2. ASSUME NEW m \in Seqs, BareIdle(m) PROVE OnlyActive(b')
  <2> DEFINE x == [b EXCEPT !.work = {}]
  <2>1. b' = x \/ b' = finishTurn(x)
    BY <1>2 DEF BareIdle, idle
  <2>2. x \in Bindings(1..n) /\ x.work = {}
    BY <1>0 DEF Bindings
  <2> HIDE DEF x
  <2>3. OnlyActive(x) /\ x.work \ x.suppressed = {}
    BY <2>2 DEF OnlyActive
  <2> QED BY <1>0, <2>1, <2>2, <2>3, FinishOnly
<1>3. ASSUME NEW m \in Seqs, ApprovalAsked(m) \/ ApprovalAnswered(m) PROVE OnlyActive(b')
  <2>1. \/ b' = b
        \/ b' = [b EXCEPT !.approvals = @ \cup {m}, !.waiting = TRUE]
        \/ b' = [b EXCEPT !.approvals = @ \ {m}, !.waiting = FALSE]
    BY <1>3 DEF ApprovalAsked, ApprovalAnswered
  <2>2. b'.work = b.work /\ b'.active = b.active /\ b'.suppressed = b.suppressed /\ b'.failed = b.failed
    BY <1>0, <2>1 DEF Bindings
  <2> QED BY <2>2 DEF OnlyActive
<1>4. CASE Watchdog \/ TurnCeiling
  <2> DEFINE x == [b EXCEPT !.suppressed = @ \cup {b.active}]
  <2>1. b' = finishTurn(x) /\ b.active # NoTurn
    BY <1>4 DEF Watchdog, TurnCeiling, drainBoundedTurn
  <2>2. x \in Bindings(1..n)
    BY <1>0, <2>1 DEF Bindings
  <2>3. x.work = b.work /\ x.suppressed = b.suppressed \cup {b.active} /\ x.failed = b.failed
    BY <1>0 DEF Bindings
  <2> HIDE DEF x
  <2>4. x.failed = {} => x.work \ x.suppressed = {}
    BY <2>3 DEF OnlyActive
  <2> QED BY <1>0, <2>1, <2>2, <2>4, FinishOnly
<1>5. CASE Disconnected \/ RuntimeEnds \/ Sweep
  <2>1. b' = markDead(b) \/ b' = releaseBinding(b)
    BY <1>5 DEF Disconnected, RuntimeEnds, Sweep
  <2>2. b'.work = {}
    BY <1>0, <2>1, MarkDeadOK, ReleaseOK
  <2> QED BY <2>2 DEF OnlyActive
<1> QED BY <1>1, <1>2, <1>3, <1>4, <1>5

\* A provider that reports no idle of its own works on one turn at most, but
\* for turns that a timer has given up, as long as no send has failed for good.
THEOREM TurnsAreSerial == ~TrailingIdle => (TurnSpec => []OneTurnAtATime)
<1> SUFFICES ASSUME ~TrailingIdle PROVE TurnSpec => []OneTurnAtATime
  OBVIOUS
<1> DEFINE I == OnlyActive(b)
<1>1. TurnInit => I
  BY DEF TurnInit, NewBinding, OnlyActive
<1>2. TurnInv /\ I /\ [TurnNext]_turnVars => I'
  <2> SUFFICES ASSUME TurnInv, OnlyActive(b), [TurnNext]_turnVars PROVE OnlyActive(b')
    BY DEF OnlyActive
  <2>1. ASSUME b' = b PROVE OnlyActive(b')
    BY <2>1
  <2>2. UNCHANGED turnVars => b' = b
    BY DEF turnVars
  <2>3. \A k \in Kinds : Post(k) => b' = b
    BY DEF Post
  <2> QED BY <2>1, <2>2, <2>3, CallsOnly, SteersOnly, ProbesOnly, RoutesOnly, EndsOnly DEF TurnNext
<1>3. I => OneTurnAtATime
  <2> SUFFICES ASSUME OnlyActive(b), b.failed = {} PROVE Cardinality(b.work \ b.suppressed) <= 1
    BY DEF OneTurnAtATime
  <2>1. b.work \ b.suppressed \subseteq {b.active}
    BY DEF OnlyActive
  <2>2. IsFiniteSet({b.active}) /\ Cardinality({b.active}) = 1
    BY FS_Singleton
  <2> QED BY <2>1, <2>2, FS_Subset
<1> HIDE DEF I
<1> QED BY <1>1, <1>2, <1>3, TurnInvHolds, PTL DEF TurnSpec

-----------------------------------------------------------------------------
(* A message is in one place until it is accepted.                         *)

\* The places of a message: the two queues and the four kinds of calls.
InQueue(x, m) == \E i \in DOMAIN x.queue : x.queue[i].seq = m
InSteerQ(x, m) == \E i \in DOMAIN x.steerQ : x.steerQ[i] = m
In(S, m) == \E c \in S : c.seq = m

OnceInQueue(x, m) ==
  \A i, j \in DOMAIN x.queue : x.queue[i].seq = m /\ x.queue[j].seq = m => i = j
OnceInSteerQ(x, m) ==
  \A i, j \in DOMAIN x.steerQ : x.steerQ[i] = m /\ x.steerQ[j] = m => i = j
OnceIn(S, m) == \A c, d \in S : c.seq = m /\ d.seq = m => c = d

Absent(x, m) ==
  /\ ~InQueue(x, m) /\ ~InSteerQ(x, m)
  /\ ~In(x.sends, m) /\ ~In(x.steers, m) /\ ~In(x.rebinds, m) /\ ~In(x.probes, m)

Alone(x, m) ==
  /\ OnceInQueue(x, m) /\ OnceInSteerQ(x, m)
  /\ OnceIn(x.sends, m) /\ OnceIn(x.steers, m) /\ OnceIn(x.rebinds, m) /\ OnceIn(x.probes, m)
  /\ InQueue(x, m) => ~InSteerQ(x, m)
  /\ InQueue(x, m) \/ InSteerQ(x, m) =>
       ~In(x.sends, m) /\ ~In(x.steers, m) /\ ~In(x.rebinds, m) /\ ~In(x.probes, m)
  /\ In(x.sends, m) => ~In(x.steers, m) /\ ~In(x.rebinds, m) /\ ~In(x.probes, m)
  /\ In(x.steers, m) => ~In(x.rebinds, m) /\ ~In(x.probes, m)
  /\ In(x.rebinds, m) => ~In(x.probes, m)

\* From x to y, m is not copied.
Keeps(x, y, m) == (Absent(x, m) => Absent(y, m)) /\ (Alone(x, m) => Alone(y, m))

-----------------------------------------------------------------------------
(* The functions of the binding copy no message.                           *)

LEMMA AbsentIsAlone ==
  ASSUME NEW x, NEW m, Absent(x, m)
  PROVE  Alone(x, m)
<1>1. \A S : ~In(S, m) => OnceIn(S, m)
  BY DEF In, OnceIn
<1>2. OnceInQueue(x, m) /\ OnceInSteerQ(x, m)
  BY DEF Absent, InQueue, InSteerQ, OnceInQueue, OnceInSteerQ
<1> QED BY <1>1, <1>2 DEF Absent, Alone

\* Fewer calls and the same queues.
LEMMA FewerKeeps ==
  ASSUME NEW x, NEW y, NEW m, y.queue = x.queue, y.steerQ = x.steerQ,
         y.sends \subseteq x.sends, y.steers \subseteq x.steers,
         y.rebinds \subseteq x.rebinds, y.probes \subseteq x.probes
  PROVE  Keeps(x, y, m)
<1>1. \A S, T : S \subseteq T => (In(S, m) => In(T, m)) /\ (OnceIn(T, m) => OnceIn(S, m))
  BY DEF In, OnceIn
<1>2. (InQueue(y, m) <=> InQueue(x, m)) /\ (OnceInQueue(y, m) <=> OnceInQueue(x, m))
  BY DEF InQueue, OnceInQueue
<1>3. (InSteerQ(y, m) <=> InSteerQ(x, m)) /\ (OnceInSteerQ(y, m) <=> OnceInSteerQ(x, m))
  BY DEF InSteerQ, OnceInSteerQ
<1>4. /\ In(y.sends, m) => In(x.sends, m)
      /\ In(y.steers, m) => In(x.steers, m)
      /\ In(y.rebinds, m) => In(x.rebinds, m)
      /\ In(y.probes, m) => In(x.probes, m)
  BY <1>1
<1>5. /\ OnceIn(x.sends, m) => OnceIn(y.sends, m)
      /\ OnceIn(x.steers, m) => OnceIn(y.steers, m)
      /\ OnceIn(x.rebinds, m) => OnceIn(y.rebinds, m)
      /\ OnceIn(x.probes, m) => OnceIn(y.probes, m)
  BY <1>1
<1> QED BY <1>2, <1>3, <1>4, <1>5 DEF Keeps, Absent, Alone

\* The same calls and shorter queues.
LEMMA ShorterKeeps ==
  ASSUME NEW x, NEW y, NEW m, SameCalls(x, y),
         InQueue(y, m) => InQueue(x, m), OnceInQueue(x, m) => OnceInQueue(y, m),
         InSteerQ(y, m) => InSteerQ(x, m), OnceInSteerQ(x, m) => OnceInSteerQ(y, m)
  PROVE  Keeps(x, y, m)
<1>1. y.sends = x.sends /\ y.steers = x.steers /\ y.rebinds = x.rebinds /\ y.probes = x.probes
  BY DEF SameCalls
<1> QED BY <1>1 DEF Keeps, Absent, Alone

\* One call more for c.seq.
LEMMA AddedCall ==
  ASSUME NEW S, NEW c, NEW m
  PROVE  /\ c.seq # m => (In(S \cup {c}, m) <=> In(S, m)) /\ (OnceIn(S \cup {c}, m) <=> OnceIn(S, m))
         /\ ~In(S, c.seq) => OnceIn(S \cup {c}, c.seq)
BY DEF In, OnceIn

LEMMA TookKeeps ==
  ASSUME NEW n \in Nat, NEW x \in Bindings(1..n), NEW k \in 1..Len(x.queue), NEW m
  PROVE  /\ Keeps(x, Took(x, k), m)
         /\ Alone(x, m) /\ (\E i \in 1..k : x.queue[i].seq = m) => Absent(Took(x, k), m)
<1> DEFINE y == Took(x, k)
           l == Len(x.queue)
<1>1. /\ l \in Nat /\ DOMAIN x.queue = 1..l /\ DOMAIN y.queue = 1..(l - k)
      /\ \A i \in 1..(l - k) : y.queue[i] = x.queue[k + i]
      /\ y.steerQ = x.steerQ /\ SameCalls(x, y)
  BY TookOK
<1>2. k \in 1..l
  OBVIOUS
<1> HIDE DEF y, l
<1>3. \A i \in 1..(l - k) : k + i \in 1..l /\ ~(k + i \in 1..k)
  BY <1>1, <1>2
<1>4. \A i, j \in 1..(l - k) : k + i = k + j => i = j
  BY <1>1, <1>2
<1>5. InQueue(y, m) => InQueue(x, m)
  BY <1>1, <1>3 DEF InQueue
<1>6. OnceInQueue(x, m) => OnceInQueue(y, m)
  <2> SUFFICES ASSUME OnceInQueue(x, m), NEW i \in 1..(l - k), NEW j \in 1..(l - k),
                      y.queue[i].seq = m, y.queue[j].seq = m
               PROVE  i = j
    BY <1>1 DEF OnceInQueue
  <2>1. x.queue[k + i].seq = m /\ x.queue[k + j].seq = m
    BY <1>1
  <2>2. k + i \in DOMAIN x.queue /\ k + j \in DOMAIN x.queue
    BY <1>1, <1>3
  <2>3. k + i = k + j
    BY <2>1, <2>2 DEF OnceInQueue
  <2> QED BY <1>4, <2>3
<1>7. (InSteerQ(y, m) <=> InSteerQ(x, m)) /\ (OnceInSteerQ(y, m) <=> OnceInSteerQ(x, m))
  BY <1>1 DEF InSteerQ, OnceInSteerQ
<1>8. Keeps(x, y, m)
  BY <1>1, <1>5, <1>6, <1>7, ShorterKeeps
<1>9. ASSUME Alone(x, m), NEW i \in 1..k, x.queue[i].seq = m PROVE Absent(y, m)
  <2>1. i \in DOMAIN x.queue
    BY <1>1, <1>2
  <2>2. InQueue(x, m) /\ OnceInQueue(x, m)
    BY <1>9, <2>1 DEF InQueue, Alone
  <2>3. ~InQueue(y, m)
    <3> SUFFICES ASSUME NEW j \in 1..(l - k), x.queue[k + j].seq = m PROVE FALSE
      BY <1>1 DEF InQueue
    <3>1. k + j \in DOMAIN x.queue /\ k + j # i
      BY <1>1, <1>3
    <3> QED BY <1>9, <2>1, <2>2, <3>1 DEF OnceInQueue
  <2>4. y.sends = x.sends /\ y.steers = x.steers /\ y.rebinds = x.rebinds /\ y.probes = x.probes
    BY <1>1 DEF SameCalls
  <2> QED BY <1>7, <1>9, <2>2, <2>3, <2>4 DEF Alone, Absent
<1> QED BY <1>8, <1>9 DEF y

\* A call for m that was nowhere.
LEMMA CallAdded ==
  ASSUME NEW x, NEW y, NEW c, NEW m, SameQueues(x, y),
         \/ /\ y.sends = x.sends \cup {c}
            /\ y.steers = x.steers /\ y.rebinds = x.rebinds /\ y.probes = x.probes
         \/ /\ y.steers = x.steers \cup {c}
            /\ y.sends = x.sends /\ y.rebinds = x.rebinds /\ y.probes = x.probes
         \/ /\ y.rebinds = x.rebinds \cup {c}
            /\ y.sends = x.sends /\ y.steers = x.steers /\ y.probes = x.probes
         \/ /\ y.probes = x.probes \cup {c}
            /\ y.sends = x.sends /\ y.steers = x.steers /\ y.rebinds = x.rebinds
  PROVE  /\ c.seq # m => Keeps(x, y, m)
         /\ Absent(x, c.seq) => Alone(y, c.seq)
<1>1. \A s : (InQueue(y, s) <=> InQueue(x, s)) /\ (OnceInQueue(y, s) <=> OnceInQueue(x, s))
  BY DEF InQueue, OnceInQueue, SameQueues
<1>2. \A s : (InSteerQ(y, s) <=> InSteerQ(x, s)) /\ (OnceInSteerQ(y, s) <=> OnceInSteerQ(x, s))
  BY DEF InSteerQ, OnceInSteerQ, SameQueues
<1>3. ASSUME c.seq # m PROVE Keeps(x, y, m)
  <2>1. \A S : (In(S \cup {c}, m) <=> In(S, m)) /\ (OnceIn(S \cup {c}, m) <=> OnceIn(S, m))
    BY <1>3, AddedCall
  <2> QED BY <1>1, <1>2, <2>1 DEF Keeps, Absent, Alone
<1>4. ASSUME Absent(x, c.seq) PROVE Alone(y, c.seq)
  <2>1. \A S : ~In(S, c.seq) => OnceIn(S \cup {c}, c.seq)
    BY AddedCall
  <2>2. Alone(x, c.seq)
    BY <1>4, AbsentIsAlone
  <2> QED BY <1>1, <1>2, <1>4, <2>1, <2>2 DEF Absent, Alone
<1> QED BY <1>3, <1>4

LEMMA KeepsChain ==
  ASSUME NEW x, NEW y, NEW z, NEW m, Keeps(x, y, m), Keeps(y, z, m)
  PROVE  Keeps(x, z, m)
BY DEF Keeps

\* pump: the trigger moves from the queue to its call.
LEMMA PumpKeeps ==
  ASSUME NEW n \in Nat, NEW x \in Bindings(1..n), NEW m
  PROVE  Keeps(x, pump(x), m)
<1>1. CASE pump(x) = x
  BY <1>1 DEF Keeps
<1>2. CASE pump(x) # x
  <2>1. PICK k \in 1..Len(x.queue), t \in 1..n :
           /\ \E i \in 1..k : x.queue[i].seq = t
           /\ \/ pump(x) = Probed(Took(x, k), t, Packet(x, t))
              \/ pump(x) = startTurn(Took(x, k), t, Packet(x, t))
    BY <1>2, PumpCases
  <2> DEFINE y == Took(x, k)
             z == pump(x)
             rows == Packet(x, t)
             c == [seq |-> t, rows |-> rows, own |-> TRUE, tried |-> FALSE]
             p == [seq |-> t, rows |-> rows, own |-> TRUE]
  <2>2. y \in Bindings(1..n) /\ rows \in SUBSET (1..n)
    BY TookOK, PacketCarries
  <2>3. c.seq = t /\ p.seq = t
    OBVIOUS
  <2>4. Keeps(x, y, m) /\ (Alone(x, t) => Absent(y, t))
    BY <2>1, TookKeeps
  <2>5. ~Absent(x, t)
    <3>1. PICK i \in 1..k : x.queue[i].seq = t
      BY <2>1
    <3>2. i \in DOMAIN x.queue
      BY TookOK
    <3> QED BY <3>1, <3>2 DEF Absent, InQueue
  <2>6. /\ \/ z.sends = y.sends \cup {c} /\ z.probes = y.probes
           \/ z.sends = y.sends /\ z.probes = y.probes \cup {p}
        /\ z.steers = y.steers /\ z.rebinds = y.rebinds /\ SameQueues(y, z)
    <3>1. CASE z = startTurn(y, t, rows)
      <4> HIDE DEF y, rows, z
      <4>1. z.sends = y.sends \cup {c} /\ z.probes = y.probes
        BY <2>2, <3>1, StartOK
      <4>2. z.steers = y.steers /\ z.rebinds = y.rebinds /\ SameQueues(y, z)
        BY <2>2, <3>1, StartOK
      <4> QED BY <4>1, <4>2
    <3>2. CASE z = Probed(y, t, rows)
      <4> HIDE DEF y, rows, z
      <4> QED BY <2>2, <3>2, ProbedOK
    <3> QED BY <2>1, <3>1, <3>2
  <2> HIDE DEF y, z, rows, c, p
  <2>7. (t # m => Keeps(y, z, m)) /\ (Absent(y, t) => Alone(z, t))
    BY <2>3, <2>6, CallAdded
  <2>8. Keeps(x, z, m)
    BY <2>4, <2>5, <2>7 DEF Keeps
  <2> QED BY <2>8 DEF z
<1> QED BY <1>1, <1>2

\* drainSteering: the head of the steers moves to its call.
LEMMA DrainKeeps ==
  ASSUME NEW n \in Nat, NEW x \in Bindings(1..n), NEW m
  PROVE  Keeps(x, drainSteering(x), m)
<1>1. CASE drainSteering(x) = x
  BY <1>1 DEF Keeps
<1>2. CASE drainSteering(x) # x
  <2> DEFINE z == drainSteering(x)
             t == Head(x.steerQ)
             c == [seq |-> t, rows |-> Packet(x, t), turn |-> x.active, own |-> TRUE]
             y == [x EXCEPT !.steerQ = Tail(@)]
             l == Len(x.steerQ)
  <2>1. /\ x.steerQ # <<>> /\ t \in 1..n
        /\ z.steerQ = Tail(x.steerQ) /\ z.steers = x.steers \cup {c}
        /\ z.sends = x.sends /\ z.rebinds = x.rebinds /\ z.probes = x.probes /\ z.queue = x.queue
    BY <1>2, DrainOK
  <2>2. c.seq = t
    OBVIOUS
  <2>3. x.steerQ \in Seq(1..n) /\ l \in Nat /\ DOMAIN x.steerQ = 1..l
    BY DEF Bindings
  <2>4. /\ Tail(x.steerQ) \in Seq(1..n) /\ Len(Tail(x.steerQ)) = l - 1 /\ t = x.steerQ[1]
        /\ \A i \in 1..(l - 1) : Tail(x.steerQ)[i] = x.steerQ[i + 1]
    <3>1. /\ Tail(x.steerQ) \in Seq(1..n) /\ Len(Tail(x.steerQ)) = l - 1
          /\ \A i \in 1..Len(Tail(x.steerQ)) : Tail(x.steerQ)[i] = x.steerQ[i + 1]
      <4>1. x.steerQ \in Seq(1..n) /\ x.steerQ # <<>>
        BY <2>1, <2>3
      <4> QED BY <4>1, HeadTailProperties
    <3>2. t = x.steerQ[1]
      BY <2>1, <2>3
    <3> QED BY <3>1, <3>2
  <2>5. l # 0
    BY <2>1, <2>3, EmptySeq
  <2>6. y.steerQ = Tail(x.steerQ) /\ SameCalls(x, y) /\ y.queue = x.queue
    BY DEF Bindings, SameCalls
  <2> HIDE DEF y, z, t, c, l
  <2>7. DOMAIN y.steerQ = 1..(l - 1) /\ \A i \in 1..(l - 1) : y.steerQ[i] = x.steerQ[i + 1]
    <3>1. DOMAIN Tail(x.steerQ) = 1..Len(Tail(x.steerQ))
      BY <2>4
    <3> QED BY <2>4, <2>6, <3>1
  <2>8. \A i \in 1..(l - 1) : i + 1 \in DOMAIN x.steerQ /\ i + 1 # 1
    BY <2>3
  <2>9. 1 \in DOMAIN x.steerQ
    BY <2>3, <2>5
  <2>10. InSteerQ(y, m) => InSteerQ(x, m)
    BY <2>7, <2>8 DEF InSteerQ
  <2>11. OnceInSteerQ(x, m) => OnceInSteerQ(y, m)
    <3> SUFFICES ASSUME OnceInSteerQ(x, m), NEW i \in 1..(l - 1), NEW j \in 1..(l - 1),
                        x.steerQ[i + 1] = m, x.steerQ[j + 1] = m
                 PROVE  i = j
      BY <2>7 DEF OnceInSteerQ
    <3>1. i + 1 = j + 1
      BY <2>8 DEF OnceInSteerQ
    <3> QED BY <3>1
  <2>12. (InQueue(y, m) <=> InQueue(x, m)) /\ (OnceInQueue(y, m) <=> OnceInQueue(x, m))
    BY <2>6 DEF InQueue, OnceInQueue
  <2>13. Keeps(x, y, m)
    BY <2>6, <2>10, <2>11, <2>12, ShorterKeeps
  <2>14. SameQueues(y, z) /\ z.steers = y.steers \cup {c}
         /\ z.sends = y.sends /\ z.rebinds = y.rebinds /\ z.probes = y.probes
    BY <2>1, <2>6 DEF SameQueues, SameCalls
  <2>15. (t # m => Keeps(y, z, m)) /\ (Absent(y, t) => Alone(z, t))
    BY <2>2, <2>14, CallAdded
  <2>16. InSteerQ(x, t)
    BY <2>4, <2>9 DEF InSteerQ
  <2>17. ASSUME Alone(x, t) PROVE Absent(y, t)
    <3>1. ~InSteerQ(y, t)
      <4> SUFFICES ASSUME NEW i \in 1..(l - 1), x.steerQ[i + 1] = t PROVE FALSE
        BY <2>7 DEF InSteerQ
      <4> QED BY <2>4, <2>8, <2>9, <2>17 DEF Alone, OnceInSteerQ
    <3>2. InQueue(y, t) <=> InQueue(x, t)
      BY <2>6 DEF InQueue
    <3>3. y.sends = x.sends /\ y.steers = x.steers /\ y.rebinds = x.rebinds /\ y.probes = x.probes
      BY <2>6 DEF SameCalls
    <3> QED BY <2>16, <2>17, <3>1, <3>2, <3>3 DEF Alone, Absent
  <2>18. Keeps(x, z, m)
    BY <2>13, <2>15, <2>16, <2>17 DEF Keeps, Absent
  <2> QED BY <2>18 DEF z
<1> QED BY <1>1, <1>2

\* A queue that ends in an entry for m, and has its other entries from x.
LEMMA EndKeeps ==
  ASSUME NEW x, NEW y, NEW k \in Nat \ {0}, NEW m, NEW s,
         SameCalls(x, y), y.steerQ = x.steerQ, DOMAIN y.queue = 1..k, y.queue[k].seq = m,
         \A i \in 1..(k - 1) : i \in DOMAIN x.queue /\ y.queue[i] = x.queue[i]
  PROVE  /\ s # m => Keeps(x, y, s)
         /\ Absent(x, m) => Alone(y, m)
<1>1. \A i \in 1..k : i = k \/ i \in 1..(k - 1)
  OBVIOUS
<1>2. \A t : (InSteerQ(y, t) <=> InSteerQ(x, t)) /\ (OnceInSteerQ(y, t) <=> OnceInSteerQ(x, t))
  BY DEF InSteerQ, OnceInSteerQ
<1>3. ASSUME s # m PROVE Keeps(x, y, s)
  <2>1. InQueue(y, s) => InQueue(x, s)
    BY <1>1, <1>3 DEF InQueue
  <2>2. OnceInQueue(x, s) => OnceInQueue(y, s)
    <3> SUFFICES ASSUME OnceInQueue(x, s), NEW i \in 1..k, NEW j \in 1..k,
                        y.queue[i].seq = s, y.queue[j].seq = s
                 PROVE  i = j
      BY DEF OnceInQueue
    <3>1. i \in 1..(k - 1) /\ j \in 1..(k - 1)
      BY <1>1, <1>3
    <3>2. /\ i \in DOMAIN x.queue /\ j \in DOMAIN x.queue
          /\ x.queue[i].seq = s /\ x.queue[j].seq = s
      BY <3>1
    <3> QED BY <3>2 DEF OnceInQueue
  <2> QED BY <1>2, <2>1, <2>2, ShorterKeeps
<1>4. ASSUME Absent(x, m) PROVE Alone(y, m)
  <2>1. OnceInQueue(y, m)
    <3> SUFFICES ASSUME NEW i \in 1..k, y.queue[i].seq = m PROVE i = k
      BY DEF OnceInQueue
    <3>1. ~(i \in 1..(k - 1))
      BY <1>4 DEF Absent, InQueue
    <3> QED BY <1>1, <3>1
  <2>2. Alone(x, m)
    BY <1>4, AbsentIsAlone
  <2>3. y.sends = x.sends /\ y.steers = x.steers /\ y.rebinds = x.rebinds /\ y.probes = x.probes
    BY DEF SameCalls
  <2> QED BY <1>2, <1>4, <2>1, <2>2, <2>3 DEF Absent, Alone
<1> QED BY <1>3, <1>4

LEMMA SteeredKeeps ==
  ASSUME NEW n \in Nat, NEW x \in Bindings(1..n), NEW m \in 1..n, NEW s
  PROVE  /\ s # m => Keeps(x, Steered(x, m), s)
         /\ Absent(x, m) => Alone(Steered(x, m), m)
<1> DEFINE y == Steered(x, m)
           q == x.steerQ
           r == Append(q, m)
           l == Len(q)
<1>1. q \in Seq(1..n) /\ l \in Nat /\ DOMAIN q = 1..l
  BY DEF Bindings
<1>2. y.steerQ = r /\ y.queue = x.queue /\ SameCalls(x, y)
  BY DEF Steered, Bindings, SameCalls
<1> HIDE DEF y, q
<1>3. r \in Seq(1..n) /\ Len(r) = l + 1 /\ r[l + 1] = m /\ \A i \in 1..l : r[i] = q[i]
  BY <1>1, AppendProperties
<1> HIDE DEF r
<1>4. DOMAIN r = 1..(l + 1)
  BY <1>1, <1>3
<1> HIDE DEF l
<1>5. \A i \in 1..(l + 1) : i = l + 1 \/ i \in 1..l
  BY <1>1
<1>6. \A t : (InQueue(y, t) <=> InQueue(x, t)) /\ (OnceInQueue(y, t) <=> OnceInQueue(x, t))
  BY <1>2 DEF InQueue, OnceInQueue
<1>7. ASSUME s # m PROVE Keeps(x, y, s)
  <2>1. InSteerQ(y, s) => InSteerQ(x, s)
    <3> SUFFICES ASSUME NEW i \in 1..(l + 1), r[i] = s PROVE InSteerQ(x, s)
      BY <1>2, <1>4 DEF InSteerQ
    <3>1. i \in 1..l
      BY <1>3, <1>5, <1>7
    <3> QED BY <1>1, <1>3, <3>1 DEF InSteerQ, q
  <2>2. OnceInSteerQ(x, s) => OnceInSteerQ(y, s)
    <3> SUFFICES ASSUME OnceInSteerQ(x, s), NEW i \in 1..(l + 1), NEW j \in 1..(l + 1), r[i] = s, r[j] = s
                 PROVE  i = j
      BY <1>2, <1>4 DEF OnceInSteerQ
    <3>1. i \in 1..l /\ j \in 1..l
      BY <1>3, <1>5, <1>7
    <3>2. q[i] = s /\ q[j] = s
      BY <1>3, <3>1
    <3> QED BY <1>1, <3>1, <3>2 DEF OnceInSteerQ, q
  <2> QED BY <1>2, <1>6, <2>1, <2>2, ShorterKeeps
<1>8. ASSUME Absent(x, m) PROVE Alone(y, m)
  <2>1. OnceInSteerQ(y, m)
    <3> SUFFICES ASSUME NEW i \in 1..(l + 1), r[i] = m PROVE i = l + 1
      BY <1>2, <1>4 DEF OnceInSteerQ
    <3>1. ~(i \in 1..l)
      BY <1>1, <1>3, <1>8 DEF Absent, InSteerQ, q
    <3> QED BY <1>5, <3>1
  <2>2. Alone(x, m)
    BY <1>8, AbsentIsAlone
  <2>3. y.sends = x.sends /\ y.steers = x.steers /\ y.rebinds = x.rebinds /\ y.probes = x.probes
    BY <1>2 DEF SameCalls
  <2> QED BY <1>6, <1>8, <2>1, <2>2, <2>3 DEF Absent, Alone
<1> QED BY <1>7, <1>8 DEF y

LEMMA QueuedKeeps ==
  ASSUME NEW n \in Nat, NEW x \in Bindings(1..n), NEW m \in 1..n, NEW again \in BOOLEAN, NEW s
  PROVE  /\ s # m => Keeps(x, Queued(x, m, again), s)
         /\ Absent(x, m) => Alone(Queued(x, m, again), m)
<1> DEFINE y == Queued(x, m, again)
           e == [seq |-> m, again |-> again]
           q == x.queue
           r == Append(q, e)
           l == Len(q)
<1>1. q \in Seq(Entry(1..n)) /\ l \in Nat /\ DOMAIN q = 1..l
  BY DEF Bindings
<1>2. y.queue = r /\ y.steerQ = x.steerQ /\ SameCalls(x, y)
  BY DEF Queued, Bindings, SameCalls
<1>3. e \in Entry(1..n) /\ e.seq = m
  BY DEF Entry
<1> HIDE DEF y, q, e
<1>4. r \in Seq(Entry(1..n)) /\ Len(r) = l + 1 /\ r[l + 1] = e /\ \A i \in 1..l : r[i] = q[i]
  BY <1>1, <1>3, AppendProperties
<1> HIDE DEF r
<1>5. DOMAIN r = 1..(l + 1)
  BY <1>1, <1>4
<1> HIDE DEF l
<1>6. l + 1 \in Nat \ {0} /\ (l + 1) - 1 = l
  BY <1>1
<1>7. \A i \in 1..((l + 1) - 1) : i \in DOMAIN x.queue /\ y.queue[i] = x.queue[i]
  BY <1>1, <1>2, <1>4, <1>6 DEF q
<1>8. DOMAIN y.queue = 1..(l + 1) /\ y.queue[l + 1].seq = m
  BY <1>2, <1>3, <1>4, <1>5
<1> DEFINE k == l + 1
<1> HIDE DEF k
<1>9. (s # m => Keeps(x, y, s)) /\ (Absent(x, m) => Alone(y, m))
  <2>1. k \in Nat \ {0} /\ DOMAIN y.queue = 1..k /\ y.queue[k].seq = m
        /\ \A i \in 1..(k - 1) : i \in DOMAIN x.queue /\ y.queue[i] = x.queue[i]
    BY <1>6, <1>7, <1>8 DEF k
  <2> QED BY <1>2, <2>1, EndKeeps
<1> QED BY <1>9 DEF y

LEMMA MergedKeeps ==
  ASSUME NEW n \in Nat, NEW x \in Bindings(1..n), NEW m \in 1..n, NEW s, x.queue # <<>>
  PROVE  /\ s # m => Keeps(x, Merged(x, m), s)
         /\ Absent(x, m) => Alone(Merged(x, m), m)
<1>0. LET z == Merged(x, m)
      IN /\ z \in Bindings(1..n) /\ SameCalls(x, z) /\ SameTurn(x, z) /\ SameMarks(x, z)
         /\ z.steerQ = x.steerQ /\ Len(x.queue) \in Nat /\ Len(z.queue) = Len(x.queue)
         /\ DOMAIN x.queue = 1..Len(x.queue) /\ DOMAIN z.queue = DOMAIN x.queue
         /\ \A i \in 1..(Len(x.queue) - 1) : z.queue[i] = x.queue[i]
         /\ z.queue[Len(x.queue)] = [seq |-> m, again |-> FALSE]
  BY MergedOK
<1> DEFINE y == Merged(x, m)
           k == Len(x.queue)
<1>1. /\ SameCalls(x, y) /\ y.steerQ = x.steerQ /\ k \in Nat
      /\ DOMAIN x.queue = 1..k /\ DOMAIN y.queue = DOMAIN x.queue
      /\ \A i \in 1..(k - 1) : y.queue[i] = x.queue[i]
  BY <1>0
<1>2. y.queue[k] = [seq |-> m, again |-> FALSE]
  BY <1>0
<1>3. k # 0
  <2>1. x.queue \in Seq(Entry(1..n))
    BY DEF Bindings
  <2> QED BY <2>1, EmptySeq
<1> HIDE DEF y, k
<1>4. k \in Nat \ {0} /\ y.queue[k].seq = m /\ DOMAIN y.queue = 1..k
  BY <1>1, <1>2, <1>3
<1>5. \A i \in 1..(k - 1) : i \in DOMAIN x.queue /\ y.queue[i] = x.queue[i]
  BY <1>1
<1>6. (s # m => Keeps(x, y, s)) /\ (Absent(x, m) => Alone(y, m))
  BY <1>1, <1>4, <1>5, EndKeeps
<1> QED BY <1>6 DEF y

\* enqueueTurn: a message that was nowhere is in one place.
LEMMA EnqueueKeeps ==
  ASSUME NEW n \in Nat, NEW x \in Bindings(1..n), NEW m \in 1..n, NEW interrupt,
         NEW again \in BOOLEAN, NEW s
  PROVE  LET y == enqueueTurn(x, m, interrupt, again)
         IN (s # m => Keeps(x, y, s)) /\ (Absent(x, m) => Alone(y, m))
<1> DEFINE y == enqueueTurn(x, m, interrupt, again)
<1>1. CASE y = Told(x, m)
  <2>1. y.queue = x.queue /\ y.steerQ = x.steerQ /\ y.sends = x.sends /\ y.steers = x.steers
        /\ y.rebinds = x.rebinds /\ y.probes = x.probes
    BY <1>1 DEF Told, Bindings
  <2> HIDE DEF y
  <2>2. \A t : Keeps(x, y, t)
    BY <2>1, FewerKeeps
  <2> QED BY <2>2, AbsentIsAlone DEF Keeps, y
<1>2. CASE y = drainSteering(Steered(x, m))
  <2>1. Steered(x, m) \in Bindings(1..n)
    BY EnqueuedOK
  <2>2. \A t : Keeps(Steered(x, m), y, t)
    BY <1>2, <2>1, DrainKeeps
  <2>3. (s # m => Keeps(x, Steered(x, m), s)) /\ (Absent(x, m) => Alone(Steered(x, m), m))
    BY SteeredKeeps
  <2> HIDE DEF y
  <2> QED BY <2>2, <2>3 DEF Keeps, y
<1>3. CASE y = pump(Queued(x, m, again))
  <2>1. Queued(x, m, again) \in Bindings(1..n)
    BY EnqueuedOK
  <2>2. \A t : Keeps(Queued(x, m, again), y, t)
    BY <1>3, <2>1, PumpKeeps
  <2>3. (s # m => Keeps(x, Queued(x, m, again), s)) /\ (Absent(x, m) => Alone(Queued(x, m, again), m))
    BY QueuedKeeps
  <2> HIDE DEF y
  <2> QED BY <2>2, <2>3 DEF Keeps, y
<1>4. CASE x.queue # <<>> /\ y = pump(Merged(x, m))
  <2>1. Merged(x, m) \in Bindings(1..n)
    BY <1>4, MergedOK
  <2>2. \A t : Keeps(Merged(x, m), y, t)
    BY <1>4, <2>1, PumpKeeps
  <2>3. (s # m => Keeps(x, Merged(x, m), s)) /\ (Absent(x, m) => Alone(Merged(x, m), m))
    BY <1>4, MergedKeeps
  <2> HIDE DEF y
  <2> QED BY <2>2, <2>3 DEF Keeps, y
<1>5. \/ y = Told(x, m) \/ y = drainSteering(Steered(x, m)) \/ y = pump(Queued(x, m, again))
      \/ x.queue # <<>> /\ y = pump(Merged(x, m))
  BY EnqueueCases
<1> QED BY <1>1, <1>2, <1>3, <1>4, <1>5

\* finishTurn: the steers move to the queue.
LEMMA FinishedKeeps ==
  ASSUME NEW n \in Nat, NEW x \in Bindings(1..n), NEW m
  PROVE  Keeps(x, Finished(x), m)
<1> DEFINE y == Finished(x)
           l == Len(x.queue)
           w == Len(x.steerQ)
<1>1. /\ y \in Bindings(1..n) /\ SameCalls(x, y) /\ y.steerQ = <<>> /\ l \in Nat /\ w \in Nat
      /\ Len(y.queue) = l + w /\ \A i \in 1..l : y.queue[i] = x.queue[i]
  BY FinishedOK
<1>2. \A i \in 1..w : y.queue[l + i] = [seq |-> x.steerQ[i], again |-> FALSE]
  BY FinishedOK
<1> HIDE DEF y
<1>3. DOMAIN x.queue = 1..l /\ DOMAIN x.steerQ = 1..w /\ DOMAIN y.queue = 1..(l + w)
  <2>1. x.queue \in Seq(Entry(1..n)) /\ x.steerQ \in Seq(1..n) /\ y.queue \in Seq(Entry(1..n))
    BY <1>1 DEF Bindings
  <2>2. DOMAIN x.queue = 1..l /\ DOMAIN x.steerQ = 1..w
    BY <2>1
  <2>3. DOMAIN y.queue = 1..Len(y.queue)
    BY <2>1
  <2> HIDE DEF l, w
  <2> QED BY <1>1, <2>2, <2>3
<1> HIDE DEF l, w
<1>4. \A i \in 1..w : y.queue[l + i].seq = x.steerQ[i]
  <2> SUFFICES ASSUME NEW i \in 1..w PROVE y.queue[l + i].seq = x.steerQ[i]
    OBVIOUS
  <2>1. y.queue[l + i] = [seq |-> x.steerQ[i], again |-> FALSE]
    BY <1>2
  <2> QED BY <2>1
<1>5. \A i \in 1..(l + w) : i \in 1..l \/ (i - l \in 1..w /\ l + (i - l) = i)
  BY <1>1
<1>6. ASSUME NEW i \in 1..(l + w), y.queue[i].seq = m
      PROVE  \/ i \in 1..l /\ x.queue[i].seq = m /\ InQueue(x, m)
             \/ i - l \in 1..w /\ l + (i - l) = i /\ x.steerQ[i - l] = m /\ InSteerQ(x, m)
  <2>1. CASE i \in 1..l
    BY <1>1, <1>3, <1>6, <2>1 DEF InQueue
  <2>2. CASE i - l \in 1..w /\ l + (i - l) = i
    <3>1. y.queue[l + (i - l)].seq = x.steerQ[i - l]
      BY <1>4, <2>2
    <3>2. x.steerQ[i - l] = m
      BY <1>6, <2>2, <3>1
    <3> QED BY <1>3, <2>2, <3>2 DEF InSteerQ
  <2> QED BY <1>5, <2>1, <2>2
<1>7. InQueue(y, m) => InQueue(x, m) \/ InSteerQ(x, m)
  BY <1>3, <1>6 DEF InQueue
<1>8. ~InSteerQ(y, m) /\ OnceInSteerQ(y, m)
  BY <1>1 DEF InSteerQ, OnceInSteerQ
<1>9. ASSUME Alone(x, m) PROVE OnceInQueue(y, m)
  <2> SUFFICES ASSUME NEW i \in 1..(l + w), NEW j \in 1..(l + w), y.queue[i].seq = m, y.queue[j].seq = m
               PROVE  i = j
    BY <1>3 DEF OnceInQueue
  <2>1. ~(InQueue(x, m) /\ InSteerQ(x, m)) /\ OnceInQueue(x, m) /\ OnceInSteerQ(x, m)
    BY <1>9 DEF Alone
  <2>2. CASE InQueue(x, m)
    <3>1. i \in 1..l /\ x.queue[i].seq = m /\ j \in 1..l /\ x.queue[j].seq = m
      BY <1>6, <2>1, <2>2
    <3> QED BY <1>3, <2>1, <3>1 DEF OnceInQueue
  <2>3. CASE ~InQueue(x, m)
    <3>1. /\ i - l \in 1..w /\ l + (i - l) = i /\ x.steerQ[i - l] = m
          /\ j - l \in 1..w /\ l + (j - l) = j /\ x.steerQ[j - l] = m
      BY <1>6, <2>3
    <3>2. i - l = j - l
      BY <1>3, <2>1, <3>1 DEF OnceInSteerQ
    <3> QED BY <3>1, <3>2
  <2> QED BY <2>2, <2>3
<1>10. y.sends = x.sends /\ y.steers = x.steers /\ y.rebinds = x.rebinds /\ y.probes = x.probes
  BY <1>1 DEF SameCalls
<1>11. Keeps(x, y, m)
  BY <1>7, <1>8, <1>9, <1>10 DEF Keeps, Absent, Alone
<1> QED BY <1>11 DEF y

LEMMA FinishKeeps ==
  ASSUME NEW n \in Nat, NEW x \in Bindings(1..n), NEW m
  PROVE  Keeps(x, finishTurn(x), m)
<1>1. Finished(x) \in Bindings(1..n)
  BY FinishedOK
<1>2. finishTurn(x) = x \/ finishTurn(x) = pump(Finished(x))
  BY DEF finishTurn, Finished
<1>3. Keeps(x, Finished(x), m) /\ Keeps(Finished(x), pump(Finished(x)), m)
  BY <1>1, FinishedKeeps, PumpKeeps
<1> QED BY <1>2, <1>3, KeepsChain DEF Keeps

\* markDeadRuntimeIdle and releaseBinding: the queues are emptied, the calls
\* are still to be answered.
LEMMA DeadKeeps ==
  ASSUME NEW n \in Nat, NEW x \in Bindings(1..n), NEW m
  PROVE  Keeps(x, markDead(x), m) /\ Keeps(x, releaseBinding(x), m)
<1> DEFINE Less(S, T) == (In(T, m) => In(S, m)) /\ (OnceIn(S, m) => OnceIn(T, m))
<1>1. ASSUME NEW y, y.queue = <<>>, y.steerQ = <<>>, Less(x.sends, y.sends), Less(x.steers, y.steers),
             Less(x.rebinds, y.rebinds), Less(x.probes, y.probes)
      PROVE  Keeps(x, y, m)
  <2>1. ~InQueue(y, m) /\ ~InSteerQ(y, m) /\ OnceInQueue(y, m) /\ OnceInSteerQ(y, m)
    BY <1>1 DEF InQueue, InSteerQ, OnceInQueue, OnceInSteerQ
  <2> QED BY <1>1, <2>1 DEF Keeps, Absent, Alone
<1>2. \A S : Less(S, S)
  OBVIOUS
<1>3. /\ x.sends \subseteq SendOf(1..n) /\ x.steers \subseteq SteerOf(1..n)
      /\ x.rebinds \subseteq RebindOf(1..n) /\ x.probes \subseteq ProbeOf(1..n)
  BY DEF Bindings
<1> DEFINE kept(c) == IF c.own THEN [c EXCEPT !.own = FALSE, !.tried = c.seq \in x.retried] ELSE c
           lost(c) == [c EXCEPT !.own = FALSE]
<1>4. \A c \in SendOf(1..n) : kept(c).seq = c.seq
  BY DEF SendOf
<1>5. \A c \in SteerOf(1..n) \cup RebindOf(1..n) \cup ProbeOf(1..n) : lost(c).seq = c.seq
  BY DEF SteerOf, RebindOf, ProbeOf
<1> HIDE DEF kept, lost
<1>6. \A S \in SUBSET SendOf(1..n) : Less(S, {kept(c) : c \in S})
  BY <1>4 DEF In, OnceIn
<1>7. \A S \in SUBSET (SteerOf(1..n) \cup RebindOf(1..n) \cup ProbeOf(1..n)) : Less(S, {lost(c) : c \in S})
  BY <1>5 DEF In, OnceIn
<1>8. Keeps(x, markDead(x), m)
  <2> DEFINE y == markDead(x)
  <2>1. SameCalls(x, y) /\ y.queue = <<>> /\ y.steerQ = <<>>
    BY MarkDeadOK
  <2> HIDE DEF y, Less
  <2>2. /\ Less(x.sends, y.sends) /\ Less(x.steers, y.steers)
        /\ Less(x.rebinds, y.rebinds) /\ Less(x.probes, y.probes)
    BY <1>2, <2>1 DEF SameCalls
  <2>3. Keeps(x, y, m)
    BY <1>1, <2>1, <2>2
  <2> QED BY <2>3 DEF y
<1>9. Keeps(x, releaseBinding(x), m)
  <2> DEFINE y == releaseBinding(x)
  <2>1. /\ y.queue = <<>> /\ y.steerQ = <<>>
        /\ \/ SameCalls(x, y)
           \/ /\ y.sends = {kept(c) : c \in x.sends} /\ y.steers = {lost(c) : c \in x.steers}
              /\ y.rebinds = {lost(c) : c \in x.rebinds} /\ y.probes = {lost(c) : c \in x.probes}
    BY ReleaseOK DEF kept, lost
  <2> HIDE DEF y, Less
  <2>2. /\ Less(x.sends, y.sends) /\ Less(x.steers, y.steers)
        /\ Less(x.rebinds, y.rebinds) /\ Less(x.probes, y.probes)
    <3>1. CASE SameCalls(x, y)
      BY <1>2, <3>1 DEF SameCalls
    <3>2. CASE ~SameCalls(x, y)
      BY <1>3, <1>6, <1>7, <2>1, <3>2
    <3> QED BY <3>1, <3>2
  <2>3. Keeps(x, y, m)
    BY <1>1, <2>1, <2>2
  <2> QED BY <2>3 DEF y
<1> QED BY <1>8, <1>9

\* A call that ends.
LEMMA CallEnded ==
  ASSUME NEW x, NEW y, NEW c, NEW m, SameQueues(x, y),
         \/ /\ c \in x.sends /\ y.sends = x.sends \ {c}
            /\ y.steers = x.steers /\ y.rebinds = x.rebinds /\ y.probes = x.probes
         \/ /\ c \in x.steers /\ y.steers = x.steers \ {c}
            /\ y.sends = x.sends /\ y.rebinds = x.rebinds /\ y.probes = x.probes
         \/ /\ c \in x.rebinds /\ y.rebinds = x.rebinds \ {c}
            /\ y.sends = x.sends /\ y.steers = x.steers /\ y.probes = x.probes
         \/ /\ c \in x.probes /\ y.probes = x.probes \ {c}
            /\ y.sends = x.sends /\ y.steers = x.steers /\ y.rebinds = x.rebinds
  PROVE  /\ Keeps(x, y, m)
         /\ Alone(x, c.seq) => Absent(y, c.seq)
<1>1. Keeps(x, y, m)
  BY FewerKeeps DEF SameQueues
<1>2. \A S : c \in S => In(S, c.seq) /\ (OnceIn(S, c.seq) => ~In(S \ {c}, c.seq))
  BY DEF In, OnceIn
<1>3. (InQueue(y, c.seq) <=> InQueue(x, c.seq)) /\ (InSteerQ(y, c.seq) <=> InSteerQ(x, c.seq))
  BY DEF InQueue, InSteerQ, SameQueues
<1>4. ASSUME Alone(x, c.seq) PROVE Absent(y, c.seq)
  BY <1>2, <1>3, <1>4 DEF Alone, Absent
<1> QED BY <1>1, <1>4

-----------------------------------------------------------------------------
(* The actions.                                                            *)

\* A message that has not come to the binding yet.
Fresh(m) == m \in arriving \/ m > Len(log)

OnceInv ==
  \A m \in Seqs \ redone :
    /\ Alone(b, m) /\ taken[m] \in {0, 1}
    /\ Fresh(m) => taken[m] = 0
    /\ Fresh(m) \/ taken[m] = 1 => Absent(b, m)

\* A step that concerns the message t, or none.
LEMMA OnceStep ==
  ASSUME TurnInv, OnceInv, NEW t, log' = log, arriving' \ {t} \subseteq arriving,
         redone \subseteq redone',
         \A s \in Seqs \ redone' : s # t => Keeps(b, b', s) /\ taken'[s] = taken[s],
         t \in Seqs \ redone' =>
           /\ t \in 1..Len(log) /\ t \notin arriving' /\ Alone(b', t) /\ taken'[t] \in {0, 1}
           /\ taken'[t] = 1 => Absent(b', t)
  PROVE  OnceInv'
<1> SUFFICES ASSUME NEW m \in Seqs \ redone'
             PROVE  /\ Alone(b', m) /\ taken'[m] \in {0, 1}
                    /\ Fresh(m)' => taken'[m] = 0
                    /\ Fresh(m)' \/ taken'[m] = 1 => Absent(b', m)
  BY DEF OnceInv, Alone, Absent, InQueue, InSteerQ, In, OnceInQueue, OnceInSteerQ, OnceIn
<1>1. Fresh(m)' <=> m \in arriving' \/ m > Len(log)
  BY DEF Fresh
<1>2. Len(log) \in Nat
  BY BindingOK
<1>3. CASE m = t
  <2>1. ~(m > Len(log)) /\ m \notin arriving'
    BY <1>2, <1>3
  <2> QED BY <1>1, <1>3, <2>1
<1>4. CASE m # t
  <2>1. m \in Seqs \ redone /\ Keeps(b, b', m) /\ taken'[m] = taken[m]
    BY <1>4
  <2>2. /\ Alone(b, m) /\ taken[m] \in {0, 1} /\ (Fresh(m) => taken[m] = 0)
        /\ (Fresh(m) \/ taken[m] = 1 => Absent(b, m))
    BY <2>1 DEF OnceInv
  <2>3. Fresh(m)' => Fresh(m)
    BY <1>1, <1>4 DEF Fresh
  <2> QED BY <2>1, <2>2, <2>3 DEF Keeps
<1> QED BY <1>3, <1>4

\* A message of a call was not accepted, and is nowhere else.
LEMMA CallHeld ==
  ASSUME TurnInv, OnceInv, NEW c \in b.sends \cup b.steers \cup b.rebinds \cup b.probes
  PROVE  /\ c.seq \in 1..Len(log) /\ c.seq \in Seqs
         /\ c.seq \notin redone => Alone(b, c.seq) /\ taken[c.seq] = 0 /\ c.seq \notin arriving
<1>0. Len(log) \in Nat /\ Len(log) <= MaxPosts /\ b \in Bindings(1..Len(log))
  BY BindingOK DEF TurnInv
<1>1. c \in SendOf(1..Len(log)) \cup SteerOf(1..Len(log)) \cup RebindOf(1..Len(log)) \cup ProbeOf(1..Len(log))
  BY <1>0 DEF Bindings
<1>2. c.seq \in 1..Len(log)
  BY <1>1 DEF SendOf, SteerOf, RebindOf, ProbeOf
<1>3. c.seq \in Seqs
  BY <1>0, <1>2, TurnConstants DEF Seqs
<1>4. ~Absent(b, c.seq)
  BY DEF Absent, In
<1> QED BY <1>2, <1>3, <1>4 DEF OnceInv, Fresh

LEMMA OnceInit ==
  ASSUME TurnInit
  PROVE  OnceInv
<1>1. b = NewBinding /\ \A m \in Seqs : taken[m] = 0
  BY DEF TurnInit
<1>2. /\ b.queue = <<>> /\ b.steerQ = <<>> /\ b.sends = {} /\ b.steers = {}
      /\ b.rebinds = {} /\ b.probes = {}
  BY <1>1 DEF NewBinding
<1>3. \A m : Absent(b, m)
  BY <1>2 DEF Absent, InQueue, InSteerQ, In
<1> QED BY <1>1, <1>3, AbsentIsAlone DEF OnceInv

LEMMA OncePost ==
  ASSUME TurnInv, OnceInv, NEW k \in Kinds, Post(k)
  PROVE  OnceInv'
<1>1. /\ log \in Seq(Kinds) /\ log' = Append(log, k) /\ arriving' = arriving \cup {Len(log) + 1}
      /\ b' = b /\ taken' = taken /\ redone' = redone
  BY DEF Post, TurnInv
<1>2. Len(log) \in Nat /\ Len(log') = Len(log) + 1
  BY <1>1
<1>3. MaxPosts \in Nat
  BY TurnConstants
<1>4. \A m \in Seqs : Fresh(m)' => Fresh(m)
  BY <1>1, <1>2, <1>3 DEF Fresh, Seqs
<1>5. \A m : (Alone(b, m) => Alone(b', m)) /\ (Absent(b, m) => Absent(b', m))
  BY <1>1
<1> SUFFICES ASSUME NEW m \in Seqs \ redone'
             PROVE  /\ Alone(b', m) /\ taken'[m] \in {0, 1}
                    /\ Fresh(m)' => taken'[m] = 0
                    /\ Fresh(m)' \/ taken'[m] = 1 => Absent(b', m)
  BY DEF OnceInv, Alone, Absent, InQueue, InSteerQ, In, OnceInQueue, OnceInSteerQ, OnceIn
<1>6. m \in Seqs \ redone /\ taken'[m] = taken[m] /\ (Fresh(m)' => Fresh(m))
  BY <1>1, <1>4
<1> QED BY <1>5, <1>6 DEF OnceInv

LEMMA OnceArrives ==
  ASSUME TurnInv, OnceInv, NEW m \in Seqs,
         (\E interrupt \in BOOLEAN : Route(m, interrupt)) \/ RouteFails(m) \/ RetryMessage(m)
  PROVE  OnceInv'
<1> DEFINE n == Len(log)
           x == [b EXCEPT !.bound = TRUE]
<1>0. n \in Nat /\ b \in Bindings(1..n) /\ arriving \subseteq 1..n
  BY BindingOK
<1>1. ASSUME NEW interrupt \in BOOLEAN, Route(m, interrupt) PROVE OnceInv'
  <2>1. /\ m \in 1..n /\ m \in arriving /\ arriving' = arriving \ {m}
        /\ b' = enqueueTurn(x, m, interrupt, FALSE)
        /\ log' = log /\ taken' = taken /\ redone' = redone
    BY <1>0, <1>1 DEF Route
  <2>2. x \in Bindings(1..n) /\ x.queue = b.queue /\ x.steerQ = b.steerQ
        /\ x.sends = b.sends /\ x.steers = b.steers /\ x.rebinds = b.rebinds /\ x.probes = b.probes
    BY <1>0 DEF Bindings
  <2> HIDE DEF x, n
  <2>3. \A s : Keeps(b, x, s)
    BY <2>2, FewerKeeps
  <2>4. \A s : (s # m => Keeps(x, b', s)) /\ (Absent(x, m) => Alone(b', m))
    BY <1>0, <2>1, <2>2, EnqueueKeeps
  <2>5. \A s : s # m => Keeps(b, b', s)
    BY <2>3, <2>4, KeepsChain
  <2>6. m \notin redone => Absent(b, m) /\ taken[m] = 0
    BY <2>1 DEF OnceInv, Fresh
  <2>7. m \notin redone => Alone(b', m) /\ taken'[m] = 0
    BY <2>1, <2>3, <2>4, <2>6 DEF Keeps
  <2>8. log' = log /\ arriving' \ {m} \subseteq arriving /\ redone \subseteq redone'
    BY <2>1
  <2>9. \A s \in Seqs \ redone' : s # m => Keeps(b, b', s) /\ taken'[s] = taken[s]
    BY <2>1, <2>5
  <2>10. m \in Seqs \ redone' =>
           /\ m \in 1..Len(log) /\ m \notin arriving' /\ Alone(b', m) /\ taken'[m] \in {0, 1}
           /\ taken'[m] = 1 => Absent(b', m)
    <3>1. m \in 1..Len(log) /\ m \notin arriving'
      BY <2>1 DEF n
    <3>2. redone' = redone
      BY <2>1
    <3>3. m \notin redone' => Alone(b', m)
      BY <2>7, <3>2
    <3>4. m \notin redone' => taken'[m] \in {0, 1} /\ ~(taken'[m] = 1)
      BY <2>7, <3>2
    <3> QED BY <3>1, <3>3, <3>4
  <2> QED BY <2>8, <2>9, <2>10, OnceStep
<1>2. ASSUME NEW T, b' = [b EXCEPT !.told = T], log' = log, taken' = taken,
             arriving' \ {m} \subseteq arriving, redone \subseteq redone',
             m \in redone' \/ (m \in arriving /\ m \notin arriving')
      PROVE  OnceInv'
  <2>1. /\ b'.queue = b.queue /\ b'.steerQ = b.steerQ /\ b'.sends = b.sends
        /\ b'.steers = b.steers /\ b'.rebinds = b.rebinds /\ b'.probes = b.probes
    BY <1>0, <1>2 DEF Bindings
  <2>2. \A s : Keeps(b, b', s)
    BY <2>1, FewerKeeps
  <2>3. m \notin redone' => Absent(b, m) /\ taken[m] = 0
    BY <1>2 DEF OnceInv, Fresh
  <2>4. m \in arriving => m \in 1..n
    BY <1>0
  <2>5. m \notin redone' => m \in 1..n /\ m \notin arriving' /\ Alone(b', m) /\ taken'[m] = 0
    BY <1>2, <2>2, <2>3, <2>4, AbsentIsAlone DEF Keeps
  <2> HIDE DEF n
  <2> QED BY <1>2, <2>2, <2>5, OnceStep DEF n
<1>3. ASSUME RouteFails(m) PROVE OnceInv'
  <2>1. /\ b' = [b EXCEPT !.told = b.told \cup {m}] /\ arriving' = arriving \ {m} /\ m \in arriving
        /\ log' = log /\ taken' = taken /\ redone' = redone
    BY <1>3 DEF RouteFails
  <2> QED BY <1>2, <2>1
<1>4. ASSUME RetryMessage(m) PROVE OnceInv'
  <2>1. /\ b' = [b EXCEPT !.told = b.told \ {m}] /\ arriving' = arriving \cup {m}
        /\ log' = log /\ taken' = taken /\ redone' = redone \cup {m}
    BY <1>4 DEF RetryMessage
  <2> QED BY <1>2, <2>1
<1> QED BY <1>1, <1>3, <1>4

\* The call c ends, and then its message is at most in one place again.
LEMMA OnceCall ==
  ASSUME TurnInv, OnceInv, NEW c \in b.sends \cup b.steers \cup b.rebinds \cup b.probes,
         UNCHANGED <<log, arriving, redone>>,
         \A s : s # c.seq => Keeps(b, b', s),
         Alone(b, c.seq) => Alone(b', c.seq),
         \/ taken' = taken
         \/ Accepted(c) /\ (Alone(b, c.seq) => Absent(b', c.seq))
  PROVE  OnceInv'
<1> DEFINE t == c.seq
<1>1. t \in 1..Len(log) /\ t \in Seqs /\ (t \notin redone => Alone(b, t) /\ taken[t] = 0 /\ t \notin arriving)
  BY CallHeld
<1>2. taken \in [Seqs -> Nat]
  BY DEF TurnInv
<1>3. \A s \in Seqs : s # t => taken'[s] = taken[s]
  BY <1>2 DEF Accepted
<1>4. t \notin redone => taken'[t] \in {0, 1} /\ (taken'[t] = 1 => Absent(b', t))
  <2>1. CASE taken' = taken
    BY <1>1, <2>1
  <2>2. CASE Accepted(c) /\ (Alone(b, t) => Absent(b', t))
    <3>1. taken'[t] = taken[t] + 1
      BY <1>1, <1>2, <2>2 DEF Accepted
    <3> QED BY <1>1, <2>2, <3>1
  <2> QED BY <2>1, <2>2
<1> HIDE DEF t
<1>5. \A s : s # t => Keeps(b, b', s)
  BY DEF t
<1>6. t \notin redone => Alone(b', t)
  BY <1>1 DEF t
<1>7. log' = log /\ arriving' \ {t} \subseteq arriving /\ redone \subseteq redone'
  OBVIOUS
<1>8. \A s \in Seqs \ redone' : s # t => Keeps(b, b', s) /\ taken'[s] = taken[s]
  BY <1>3, <1>5
<1>9. t \in Seqs \ redone' =>
        /\ t \in 1..Len(log) /\ t \notin arriving' /\ Alone(b', t) /\ taken'[t] \in {0, 1}
        /\ taken'[t] = 1 => Absent(b', t)
  BY <1>1, <1>4, <1>6
<1> QED BY <1>7, <1>8, <1>9, OnceStep

LEMMA OnceSends ==
  ASSUME TurnInv, OnceInv, NEW c \in b.sends, SendAccepted(c) \/ SendRejected(c)
  PROVE  OnceInv'
<1> DEFINE n == Len(log)
           R == IF c.own THEN b.retried \cup {c.seq} ELSE b.retried
           r == [seq |-> c.seq, own |-> c.own]
<1>0. n \in Nat /\ b \in Bindings(1..n) /\ c.seq \in 1..n
  BY BindingOK, CallHeld
<1>1. c.seq \in Nat
  BY <1>0
<1>2. ASSUME SendAccepted(c) PROVE OnceInv'
  <2> DEFINE x == [b EXCEPT !.sends = @ \ {c}]
  <2>1. b' = advanceCursor(x, c.seq) /\ Accepted(c) /\ UNCHANGED <<log, arriving, redone>>
    BY <1>2 DEF SendAccepted
  <2> HIDE DEF n
  <2>2. x \in Bindings(1..n) /\ x.sends = b.sends \ {c} /\ x.steers = b.steers
        /\ x.rebinds = b.rebinds /\ x.probes = b.probes /\ SameQueues(b, x)
    BY <1>0 DEF Bindings, SameQueues
  <2> HIDE DEF x
  <2>3. \A s : Keeps(b, x, s) /\ (Alone(b, c.seq) => Absent(x, c.seq))
    BY <2>2, CallEnded
  <2>4. SameCalls(x, b') /\ SameQueues(x, b')
    BY <1>0, <2>1, <2>2, AdvanceOK
  <2>5. \A s : Keeps(x, b', s)
    BY <2>4, FewerKeeps DEF SameCalls, SameQueues
  <2>6. \A s : Keeps(b, b', s)
    BY <2>3, <2>5, KeepsChain
  <2>7. Alone(b, c.seq) => Alone(b', c.seq) /\ Absent(b', c.seq)
    BY <2>3, <2>5, <2>6 DEF Keeps
  <2> QED BY <2>1, <2>6, <2>7, OnceCall
<1>3. ASSUME SendRejected(c) PROVE OnceInv'
  <2> DEFINE x == [b EXCEPT !.sends = @ \ {c}, !.work = @ \ {c.seq}, !.retried = R]
             y == [x EXCEPT !.told = @ \cup {c.seq}, !.failed = @ \cup {c.seq}]
             z == [x EXCEPT !.rebinds = @ \cup {r}]
  <2>1. /\ b' = y \/ b' = finishTurn(y) \/ b' = z
        /\ taken' = taken /\ UNCHANGED <<log, arriving, redone>>
    BY <1>3 DEF SendRejected, SendGivenUp
  <2>2. R \in SUBSET (1..n)
    BY <1>0 DEF Bindings
  <2>3. r.seq = c.seq
    OBVIOUS
  <2> HIDE DEF n, R, r
  <2>4. x \in Bindings(1..n) /\ x.sends = b.sends \ {c} /\ x.steers = b.steers
        /\ x.rebinds = b.rebinds /\ x.probes = b.probes /\ SameQueues(b, x)
    BY <1>0, <2>2 DEF Bindings, SameQueues
  <2> HIDE DEF x
  <2>5. \A s : Keeps(b, x, s) /\ (Alone(b, c.seq) => Absent(x, c.seq))
    BY <2>4, CallEnded
  <2>6. y \in Bindings(1..n) /\ y.queue = x.queue /\ y.steerQ = x.steerQ /\ y.sends = x.sends
        /\ y.steers = x.steers /\ y.rebinds = x.rebinds /\ y.probes = x.probes
    BY <1>0, <2>4 DEF Bindings
  <2>7. /\ z.rebinds = x.rebinds \cup {r} /\ z.sends = x.sends /\ z.steers = x.steers
        /\ z.probes = x.probes /\ SameQueues(x, z)
    BY <2>4 DEF Bindings, SameQueues
  <2> HIDE DEF y, z
  <2>8. \A s : Keeps(x, y, s) /\ Keeps(y, finishTurn(y), s)
    BY <1>0, <2>6, FewerKeeps, FinishKeeps
  <2>9. \A s : (s # c.seq => Keeps(x, z, s)) /\ (Absent(x, c.seq) => Alone(z, c.seq))
    BY <2>3, <2>7, CallAdded
  <2>10. \A s : s # c.seq => Keeps(b, b', s)
    BY <2>1, <2>5, <2>8, <2>9, KeepsChain
  <2>11. Alone(b, c.seq) => Alone(b', c.seq)
    BY <2>1, <2>5, <2>8, <2>9 DEF Keeps
  <2> QED BY <2>1, <2>10, <2>11, OnceCall
<1> QED BY <1>2, <1>3

LEMMA OnceRebinds ==
  ASSUME TurnInv, OnceInv, NEW r \in b.rebinds, Rebound(r) \/ ReboundFails(r)
  PROVE  OnceInv'
<1> DEFINE n == Len(log)
           w == [b EXCEPT !.rebinds = @ \ {r}]
           x == [b EXCEPT !.rebinds = @ \ {r}, !.bound = TRUE]
           y == [w EXCEPT !.told = @ \cup {r.seq}, !.failed = @ \cup {r.seq}]
<1>0. n \in Nat /\ b \in Bindings(1..n) /\ r.seq \in 1..n
  BY BindingOK, CallHeld
<1>1. /\ \/ b' = deliver(x, r.seq, x.rows)
         \/ b' = enqueueTurn(x, r.seq, FALSE, TRUE)
         \/ b' = y \/ b' = finishTurn(y)
      /\ taken' = taken /\ UNCHANGED <<log, arriving, redone>>
  BY DEF Rebound, ReboundFails, SendGivenUp
<1> HIDE DEF n
<1>2. w \in Bindings(1..n) /\ w.rebinds = b.rebinds \ {r} /\ w.steers = b.steers
      /\ w.sends = b.sends /\ w.probes = b.probes /\ SameQueues(b, w)
  BY <1>0 DEF Bindings, SameQueues
<1>3. x \in Bindings(1..n) /\ x.rebinds = b.rebinds \ {r} /\ x.steers = b.steers
      /\ x.sends = b.sends /\ x.probes = b.probes /\ SameQueues(b, x)
  BY <1>0 DEF Bindings, SameQueues
<1>4. x.rows \in SUBSET (1..n)
  BY <1>3 DEF Bindings
<1> HIDE DEF w, x
<1>5. y \in Bindings(1..n) /\ y.queue = w.queue /\ y.steerQ = w.steerQ /\ y.sends = w.sends
      /\ y.steers = w.steers /\ y.rebinds = w.rebinds /\ y.probes = w.probes
  BY <1>0, <1>2 DEF Bindings
<1> HIDE DEF y
<1>6. \A s : Keeps(b, w, s) /\ (Alone(b, r.seq) => Absent(w, r.seq))
  BY <1>2, CallEnded
<1>7. \A s : Keeps(b, x, s) /\ (Alone(b, r.seq) => Absent(x, r.seq))
  BY <1>3, CallEnded
<1>8. \A s : Keeps(w, y, s) /\ Keeps(y, finishTurn(y), s)
  BY <1>0, <1>5, FewerKeeps, FinishKeeps
<1>9. \A s : LET z == enqueueTurn(x, r.seq, FALSE, TRUE)
             IN (s # r.seq => Keeps(x, z, s)) /\ (Absent(x, r.seq) => Alone(z, r.seq))
  BY <1>0, <1>3, EnqueueKeeps
<1>10. \A s : LET z == deliver(x, r.seq, x.rows)
              IN (s # r.seq => Keeps(x, z, s)) /\ (Absent(x, r.seq) => Alone(z, r.seq))
  <2> DEFINE z == deliver(x, r.seq, x.rows)
             c == [seq |-> r.seq, rows |-> x.rows, own |-> TRUE, tried |-> FALSE]
  <2>1. /\ z.sends = x.sends \cup {c} /\ z.steers = x.steers /\ z.rebinds = x.rebinds
        /\ z.probes = x.probes /\ SameQueues(x, z)
    BY <1>0, <1>3, <1>4, DeliverOK
  <2>2. c.seq = r.seq
    OBVIOUS
  <2> HIDE DEF z, c
  <2>3. \A s : (s # r.seq => Keeps(x, z, s)) /\ (Absent(x, r.seq) => Alone(z, r.seq))
    BY <2>1, <2>2, CallAdded
  <2> QED BY <2>3 DEF z
<1>11. ASSUME NEW s, s # r.seq PROVE Keeps(b, b', s)
  <2>1. Keeps(x, enqueueTurn(x, r.seq, FALSE, TRUE), s) /\ Keeps(x, deliver(x, r.seq, x.rows), s)
    BY <1>9, <1>10, <1>11
  <2> QED BY <1>1, <1>6, <1>7, <1>8, <2>1 DEF Keeps
<1>12. Alone(b, r.seq) => Alone(b', r.seq)
  BY <1>1, <1>6, <1>7, <1>8, <1>9, <1>10 DEF Keeps
<1> QED BY <1>1, <1>11, <1>12, OnceCall

LEMMA OnceSteers ==
  ASSUME TurnInv, OnceInv, NEW c \in b.steers,
         SteerAccepted(c) \/ SteerRejected(c) \/ \E heard \in BOOLEAN : SteerFails(c, heard)
  PROVE  OnceInv'
<1> DEFINE n == Len(log)
           x == SteerEnded(b, c)
           k == IF x.active = c.turn THEN b.absorbed + 1 ELSE b.absorbed
           y == SteerNoted(b, c, k)
           w == SteerNoted(b, c, b.absorbed)
           a == advanceCursor(y, c.seq)
           e == enqueueTurn(w, c.seq, FALSE, TRUE)
           t == Told(w, c.seq)
<1>0. n \in Nat /\ b \in Bindings(1..n) /\ b.absorbed \in Nat
  BY BindingOK DEF Bindings
<1>1. /\ \/ b' = x /\ (Accepted(c) \/ taken' = taken)
         \/ b' = drainSteering(a) /\ Accepted(c)
         \/ b' = drainSteering(e) /\ taken' = taken
         \/ b' = drainSteering(t) /\ (Accepted(c) \/ taken' = taken)
      /\ UNCHANGED <<log, arriving, redone>>
  <2>1. x.absorbed = b.absorbed /\ w = [x EXCEPT !.busy = FALSE]
        /\ t = [x EXCEPT !.busy = FALSE, !.told = @ \cup {c.seq}]
    BY <1>0 DEF Bindings, SteerEnded, SteerNoted, Told
  <2>2. CASE SteerAccepted(c)
    BY <2>1, <2>2 DEF SteerAccepted, SteerEnded, SteerNoted
  <2>3. CASE SteerRejected(c)
    BY <2>1, <2>3 DEF SteerRejected, SteerEnded
  <2>4. CASE \E heard \in BOOLEAN : SteerFails(c, heard)
    BY <2>1, <2>4 DEF SteerFails, SteerEnded
  <2> QED BY <2>2, <2>3, <2>4
<1>2. k \in Nat
  BY <1>0
<1> HIDE DEF k
<1>3. Sound(y, n, owed \ redone) /\ Sound(w, n, owed \ redone) /\ c.seq \in 1..n
  BY <1>0, <1>2, SteerDropped
<1>4. y \in Bindings(1..n) /\ w \in Bindings(1..n)
  BY <1>3 DEF Sound
<1>5. /\ x.steers = b.steers \ {c} /\ x.sends = b.sends /\ x.rebinds = b.rebinds
      /\ x.probes = b.probes /\ SameQueues(b, x)
  BY <1>0 DEF Bindings, SteerEnded, SameQueues
<1>6. /\ y.steers = b.steers \ {c} /\ y.sends = b.sends /\ y.rebinds = b.rebinds
      /\ y.probes = b.probes /\ SameQueues(b, y)
  BY <1>0 DEF Bindings, SteerEnded, SteerNoted, SameQueues
<1>7. /\ w.steers = b.steers \ {c} /\ w.sends = b.sends /\ w.rebinds = b.rebinds
      /\ w.probes = b.probes /\ SameQueues(b, w)
  BY <1>0 DEF Bindings, SteerEnded, SteerNoted, SameQueues
<1> HIDE DEF n, x, y, w
<1>8. \A s : Keeps(b, x, s) /\ (Alone(b, c.seq) => Absent(x, c.seq))
  BY <1>5, CallEnded
<1>9. \A s : Keeps(b, y, s) /\ (Alone(b, c.seq) => Absent(y, c.seq))
  BY <1>6, CallEnded
<1>10. \A s : Keeps(b, w, s) /\ (Alone(b, c.seq) => Absent(w, c.seq))
  BY <1>7, CallEnded
<1>11. a \in Bindings(1..n) /\ \A s : Keeps(y, a, s)
  <2>1. a \in Bindings(1..n) /\ SameCalls(y, a) /\ SameQueues(y, a)
    BY <1>0, <1>3, <1>4, AdvanceOK
  <2> HIDE DEF a
  <2> QED BY <2>1, FewerKeeps DEF SameCalls, SameQueues
<1>12. e \in Bindings(1..n)
       /\ \A s : (s # c.seq => Keeps(w, e, s)) /\ (Absent(w, c.seq) => Alone(e, c.seq))
  <2>1. Sound(w, n, (owed \ redone) \ {c.seq})
    BY <1>3, SoundOfFewer
  <2>2. Sound(e, n, owed \ redone)
    BY <1>0, <1>3, <2>1, EnqueueSound
  <2> QED BY <1>0, <1>3, <1>4, <2>2, EnqueueKeeps DEF Sound
<1>13. t \in Bindings(1..n) /\ \A s : Keeps(w, t, s)
  <2>1. t \in Bindings(1..n)
    BY <1>3, <1>4 DEF Told, Bindings
  <2>2. /\ t.queue = w.queue /\ t.steerQ = w.steerQ /\ t.sends = w.sends /\ t.steers = w.steers
        /\ t.rebinds = w.rebinds /\ t.probes = w.probes
    BY <1>4 DEF Told, Bindings
  <2> HIDE DEF t
  <2> QED BY <2>1, <2>2, FewerKeeps
<1> HIDE DEF a, e, t
<1>14. \A s : Keeps(a, drainSteering(a), s) /\ Keeps(e, drainSteering(e), s) /\ Keeps(t, drainSteering(t), s)
  BY <1>0, <1>11, <1>12, <1>13, DrainKeeps
<1>15. ASSUME NEW s, s # c.seq PROVE Keeps(b, b', s)
  BY <1>1, <1>8, <1>9, <1>10, <1>11, <1>12, <1>13, <1>14, <1>15 DEF Keeps
<1>16. Alone(b, c.seq) => /\ Absent(x, c.seq) /\ Absent(drainSteering(a), c.seq)
                          /\ Alone(drainSteering(e), c.seq) /\ Absent(drainSteering(t), c.seq)
  BY <1>8, <1>9, <1>10, <1>11, <1>12, <1>13, <1>14 DEF Keeps
<1>17. Alone(b, c.seq) => Alone(b', c.seq)
  BY <1>1, <1>16, AbsentIsAlone
<1>18. taken' = taken \/ (Accepted(c) /\ (Alone(b, c.seq) => Absent(b', c.seq)))
  BY <1>1, <1>16
<1>19. UNCHANGED <<log, arriving, redone>>
  BY <1>1
<1> QED BY <1>15, <1>17, <1>18, <1>19, OnceCall

LEMMA OnceProbes ==
  ASSUME TurnInv, OnceInv, NEW p \in b.probes, ProbeReturns(p)
  PROVE  OnceInv'
<1> DEFINE n == Len(log)
           f == b.preflight /\ ~p.own
           x == [b EXCEPT !.probes = @ \ {p}, !.captured = @ \cup {p.seq}, !.preflight = f]
           e == enqueueTurn(x, p.seq, FALSE, TRUE)
           y == startTurn(x, p.seq, p.rows)
           t == Told(x, p.seq)
           c == [seq |-> p.seq, rows |-> p.rows, own |-> TRUE, tried |-> FALSE]
<1>0. n \in Nat /\ b \in Bindings(1..n)
  BY BindingOK
<1>1. (b' = e \/ b' = y \/ b' = t) /\ taken' = taken /\ UNCHANGED <<log, arriving, redone>>
  BY DEF ProbeReturns, Told
<1> HIDE DEF n
<1>2. p \in ProbeOf(1..n)
  BY <1>0 DEF Bindings
<1>3. p.seq \in 1..n /\ p.rows \in SUBSET (1..n)
  BY <1>2 DEF ProbeOf
<1>4. f \in BOOLEAN
  BY <1>0
<1> HIDE DEF f
<1>5. x \in Bindings(1..n)
  BY <1>0, <1>3, <1>4 DEF Bindings
<1>6. /\ x.probes = b.probes \ {p} /\ x.steers = b.steers /\ x.sends = b.sends
      /\ x.rebinds = b.rebinds /\ SameQueues(b, x)
  BY <1>0 DEF Bindings, SameQueues
<1> HIDE DEF x
<1>7. \A s : Keeps(b, x, s) /\ (Alone(b, p.seq) => Absent(x, p.seq))
  BY <1>6, CallEnded
<1>8. \A s : (s # p.seq => Keeps(x, e, s)) /\ (Absent(x, p.seq) => Alone(e, p.seq))
  BY <1>0, <1>3, <1>5, EnqueueKeeps
<1>9. \A s : (s # p.seq => Keeps(x, y, s)) /\ (Absent(x, p.seq) => Alone(y, p.seq))
  <2>1. /\ y.sends = x.sends \cup {c} /\ y.steers = x.steers /\ y.rebinds = x.rebinds
        /\ y.probes = x.probes /\ SameQueues(x, y)
    BY <1>0, <1>3, <1>5, StartOK
  <2>2. c.seq = p.seq
    OBVIOUS
  <2> HIDE DEF y, c
  <2> QED BY <2>1, <2>2, CallAdded
<1>10. \A s : Keeps(x, t, s)
  <2>1. /\ t.queue = x.queue /\ t.steerQ = x.steerQ /\ t.sends = x.sends /\ t.steers = x.steers
        /\ t.rebinds = x.rebinds /\ t.probes = x.probes
    BY <1>5 DEF Told, Bindings
  <2> HIDE DEF t
  <2> QED BY <2>1, FewerKeeps
<1> HIDE DEF e, y, t
<1>11. ASSUME NEW s, s # p.seq PROVE Keeps(b, b', s)
  BY <1>1, <1>7, <1>8, <1>9, <1>10, <1>11 DEF Keeps
<1>12. Alone(b, p.seq) => Alone(b', p.seq)
  BY <1>1, <1>7, <1>8, <1>9, <1>10, AbsentIsAlone DEF Keeps
<1> QED BY <1>1, <1>11, <1>12, OnceCall

\* A step that moves no message out of a call.
LEMMA OnceQuiet ==
  ASSUME TurnInv, OnceInv, UNCHANGED <<log, arriving, taken, redone>>, \A s : Keeps(b, b', s)
  PROVE  OnceInv'
<1>1. 0 \notin Seqs
  BY DEF Seqs
<1>2. log' = log /\ arriving' \ {0} \subseteq arriving /\ redone \subseteq redone'
  OBVIOUS
<1>3. \A s \in Seqs \ redone' : s # 0 => Keeps(b, b', s) /\ taken'[s] = taken[s]
  OBVIOUS
<1>4. 0 \in Seqs \ redone' =>
        /\ 0 \in 1..Len(log) /\ 0 \notin arriving' /\ Alone(b', 0) /\ taken'[0] \in {0, 1}
        /\ taken'[0] = 1 => Absent(b', 0)
  BY <1>1
<1> QED BY <1>2, <1>3, <1>4, OnceStep

\* Turns that end, and runtimes that do.
LEMMA OnceEnds ==
  ASSUME TurnInv, OnceInv,
         \/ \E m \in Seqs : TurnCompleted(m) \/ BareIdle(m) \/ ApprovalAsked(m) \/ ApprovalAnswered(m)
         \/ Watchdog \/ TurnCeiling \/ Disconnected \/ RuntimeEnds \/ Sweep
  PROVE  OnceInv'
<1> DEFINE n == Len(log)
<1>0. n \in Nat /\ b \in Bindings(1..n)
  BY BindingOK
<1> HIDE DEF n
<1>1. UNCHANGED <<log, arriving, taken, redone>>
  BY DEF TurnCompleted, BareIdle, ApprovalAsked, ApprovalAnswered, Watchdog, TurnCeiling,
         Disconnected, RuntimeEnds, Sweep
<1>2. ASSUME NEW x \in Bindings(1..n), SameCalls(b, x), SameQueues(b, x),
             b' = x \/ b' = finishTurn(x) \/ b' = finishTurn(finishTurn(x))
      PROVE  OnceInv'
  <2>1. \A s : Keeps(b, x, s)
    BY <1>2, FewerKeeps DEF SameCalls, SameQueues
  <2> DEFINE y == finishTurn(x)
  <2>2. y \in Bindings(1..n)
    BY <1>0, <1>2, FinishCursor, FinishedOK, PumpCursor DEF finishTurn, Finished
  <2>3. \A s : Keeps(x, y, s)
    BY <1>0, FinishKeeps
  <2> HIDE DEF y
  <2>4. \A s : Keeps(y, finishTurn(y), s)
    BY <1>0, <2>2, FinishKeeps
  <2>5. b' = x \/ b' = y \/ b' = finishTurn(y)
    BY <1>2 DEF y
  <2>6. \A s : Keeps(b, b', s)
    BY <2>1, <2>3, <2>4, <2>5 DEF Keeps
  <2> QED BY <1>1, <2>6, OnceQuiet
<1>3. ASSUME NEW m \in Seqs, TurnCompleted(m) \/ BareIdle(m) PROVE OnceInv'
  <2> DEFINE x == [b EXCEPT !.work = b.work \ {m}]
             w == [b EXCEPT !.work = {}]
  <2>1. \/ b' = x \/ b' = finishTurn(x) \/ b' = finishTurn(finishTurn(x))
        \/ b' = w \/ b' = finishTurn(w)
    BY <1>3 DEF TurnCompleted, BareIdle, completed, idle
  <2>2. x \in Bindings(1..n) /\ w \in Bindings(1..n)
    BY <1>0 DEF Bindings
  <2>3. SameCalls(b, x) /\ SameQueues(b, x) /\ SameCalls(b, w) /\ SameQueues(b, w)
    BY <1>0 DEF Bindings, SameCalls, SameQueues
  <2> HIDE DEF x, w
  <2> QED BY <1>2, <2>1, <2>2, <2>3
<1>4. ASSUME NEW m \in Seqs, ApprovalAsked(m) \/ ApprovalAnswered(m) PROVE OnceInv'
  <2>1. \/ b' = b
        \/ b' = [b EXCEPT !.approvals = @ \cup {m}, !.waiting = TRUE]
        \/ b' = [b EXCEPT !.approvals = @ \ {m}, !.waiting = FALSE]
    BY <1>4 DEF ApprovalAsked, ApprovalAnswered
  <2>2. SameCalls(b, b') /\ SameQueues(b, b')
    BY <1>0, <2>1 DEF Bindings, SameCalls, SameQueues
  <2>3. \A s : Keeps(b, b', s)
    BY <2>2, FewerKeeps DEF SameCalls, SameQueues
  <2> QED BY <1>1, <2>3, OnceQuiet
<1>5. CASE Watchdog \/ TurnCeiling
  <2> DEFINE x == [b EXCEPT !.suppressed = @ \cup {b.active}]
  <2>1. b' = finishTurn(x) /\ b.active # NoTurn
    BY <1>5 DEF Watchdog, TurnCeiling, drainBoundedTurn
  <2>2. x \in Bindings(1..n)
    BY <1>0, <2>1 DEF Bindings
  <2>3. SameCalls(b, x) /\ SameQueues(b, x)
    BY <1>0 DEF Bindings, SameCalls, SameQueues
  <2> HIDE DEF x
  <2> QED BY <1>2, <2>1, <2>2, <2>3
<1>6. CASE Disconnected \/ RuntimeEnds \/ Sweep
  <2>1. b' = markDead(b) \/ b' = releaseBinding(b)
    BY <1>6 DEF Disconnected, RuntimeEnds, Sweep
  <2>2. \A s : Keeps(b, b', s)
    BY <1>0, <2>1, DeadKeeps
  <2> QED BY <1>1, <2>2, OnceQuiet
<1> QED BY <1>3, <1>4, <1>5, <1>6

\* A message triggers or steers a turn that a runtime accepts at most once,
\* across resends, fallbacks from steering and replaced bindings, unless the
\* operator asks for it again: a send that was rejected, a rebind and a steer
\* that came back all carry the message alone.
THEOREM AcceptedAtMostOnce == TurnSpec => []AtMostOnce
<1>1. TurnInit => OnceInv
  BY OnceInit
<1>2. TurnInv /\ OnceInv /\ [TurnNext]_turnVars => OnceInv'
  <2> SUFFICES ASSUME TurnInv, OnceInv, [TurnNext]_turnVars PROVE OnceInv'
    OBVIOUS
  <2>1. CASE UNCHANGED turnVars
    <3>1. UNCHANGED <<log, arriving, taken, redone>> /\ b' = b
      BY <2>1 DEF turnVars
    <3>2. \A s : Keeps(b, b', s)
      BY <3>1 DEF Keeps
    <3> QED BY <3>1, <3>2, OnceQuiet
  <2>2. CASE \E k \in Kinds : Post(k)
    BY <2>2, OncePost
  <2>3. ASSUME NEW m \in Seqs,
               (\E interrupt \in BOOLEAN : Route(m, interrupt)) \/ RouteFails(m) \/ RetryMessage(m)
        PROVE  OnceInv'
    BY <2>3, OnceArrives
  <2>4. ASSUME NEW c \in b.sends, SendAccepted(c) \/ SendRejected(c) PROVE OnceInv'
    BY <2>4, OnceSends
  <2>5. ASSUME NEW r \in b.rebinds, Rebound(r) \/ ReboundFails(r) PROVE OnceInv'
    BY <2>5, OnceRebinds
  <2>6. ASSUME NEW c \in b.steers, \/ SteerAccepted(c) \/ SteerRejected(c)
                                   \/ \E heard \in BOOLEAN : SteerFails(c, heard)
        PROVE  OnceInv'
    BY <2>6, OnceSteers
  <2>7. ASSUME NEW p \in b.probes, ProbeReturns(p) PROVE OnceInv'
    BY <2>7, OnceProbes
  <2> QED BY <2>1, <2>2, <2>3, <2>4, <2>5, <2>6, <2>7, OnceEnds DEF TurnNext
<1>3. OnceInv => AtMostOnce
  BY DEF OnceInv, AtMostOnce
<1> QED BY <1>1, <1>2, <1>3, TurnInvHolds, PTL DEF TurnSpec
=============================================================================
