--------------------------- MODULE NodeLinkProofs ---------------------------
(***************************************************************************)
(* The rotation of a node's credential for any number of rotations, links  *)
(* and faults.                                                             *)
(*                                                                         *)
(* That the node is never locked out is not inductive. Whether the hub may *)
(* replace the active credential depends on who has the next one: Rotation *)
(* says that until the node's file has it nobody can present it, whether   *)
(* it is on its way in a message or carried by hand, and that once it may  *)
(* be presented the file has it or one that was cleared. The lemmas on the *)
(* steps of a rotation speak of the registry's record, the node's          *)
(* credentials and its queue of messages alone; each action is then one of *)
(* those steps.                                                            *)
(***************************************************************************)
EXTENDS NodeLink, TLAPS, SequenceTheorems

Record ==
  [active : Nat, next : Nat, state : {"none", "issuing", "delivered", "failed", "stable"},
   revoked : BOOLEAN, lost : BOOLEAN]

Message == [kind : {"hello", "ok", "error", "close", "rotate", "revoked"}, cred : Nat]

Socket ==
  [cred : Nat, hub : {"open", "closing", "closed"}, broken : BOOLEAN, greeted : BOOLEAN,
   up : Seq(Message), down : Seq(Message)]

NodeState == [stored : Nat, mem : Nat, alive : BOOLEAN, ws : Nat, stopping : BOOLEAN]

NodeLinkTypeOK ==
  /\ sockets \in Seq(Socket) /\ node \in NodeState
  /\ {link, node.ws} \subseteq {NoLink} \cup DOMAIN sockets

\* A rotation in progress is of the newest credential.
Shape(r, n) ==
  /\ r \in Record /\ r.active \in 1..n
  /\ Provable(r) => r.next = n /\ r.active < n

\* The file is behind by nothing but a proof.
Behind(f, r) ==
  /\ f.revoked = r.revoked
  /\ \/ f.active = r.active /\ f.next = r.next /\ f.state = r.state
     \/ Provable(f) /\ r.state = "stable" /\ r.active = f.next /\ r.next = f.next

\* Nobody can present c: its rotation was cleared, or goes on, and it is not
\* among the credentials in use at the node.
Unused(r, c, used, n, cl) ==
  c \in 1..n /\ (c \in cl \/ (Provable(r) /\ c = r.next /\ c \notin used))

\* The credentials in the messages to the node: newer ones follow older ones.
Queued(r, q, used, car, n, cl) ==
  \A i \in DOMAIN q : q[i].kind = "rotate" =>
    /\ Unused(r, q[i].cred, used, n, cl)
    /\ q[i].cred \in cl \/ q[i].cred # car
    /\ \A j \in DOMAIN q : i < j /\ q[j].kind = "rotate" => q[i].cred < q[j].cred

\* The registry r, its file f, the credential st in the node's file and used
\* anywhere at the node, the messages q to the node, the credential car
\* carried by hand, n issued and cl cleared.
Rotation(r, f, st, used, q, car, n, cl) ==
  /\ n \in Nat /\ Shape(r, n) /\ Shape(f, n) /\ Behind(f, r)
  /\ st \in used /\ used \subseteq 1..n /\ q \in Seq(Message)
  /\ cl \subseteq 1..n /\ \A c \in cl : c # f.active /\ c # r.active /\ (Provable(r) => c # r.next)
  /\ st \in cl \/ st = r.active \/ (Provable(r) /\ st = r.next)
  /\ Provable(r) /\ r.next \in used => st = r.next \/ st \in cl
  /\ car = NoCred \/ Unused(r, car, used, n, cl)
  /\ Queued(r, q, used, car, n, cl)

InUse == {node.stored, node.mem} \cup {sockets[s].cred : s \in DOMAIN sockets}
ToNode == IF node.ws = NoLink THEN <<>> ELSE sockets[node.ws].down

RevokedIsClosed == registry.revoked => \A s \in DOMAIN sockets : sockets[s].hub # "open"

NodeLinkInv ==
  /\ NodeLinkTypeOK
  /\ Rotation(registry, file, node.stored, InUse, ToNode, carried, issued, cleared)
  /\ RevokedIsClosed
  /\ LinkedIsOnline

-----------------------------------------------------------------------------
(* The steps of a rotation.                                                *)

\* Written with a record that has the same credentials, and maybe another
\* state of the same rotation, or is revoked, or online or offline.
LEMMA SameCredentials ==
  ASSUME NEW r, NEW f, NEW st, NEW used, NEW q, NEW car, NEW n, NEW cl,
         Rotation(r, f, st, used, q, car, n, cl),
         NEW r2 \in Record, r2.active = r.active, r2.next = r.next, Provable(r2) <=> Provable(r)
  PROVE  Rotation(r2, r2, st, used, q, car, n, cl)
<1>1. Shape(r2, n) /\ Behind(r2, r2)
  BY DEF Rotation, Shape, Behind
<1>2. \A c : Unused(r, c, used, n, cl) <=> Unused(r2, c, used, n, cl)
  BY DEF Unused
<1>3. Queued(r2, q, used, car, n, cl)
  BY <1>2 DEF Rotation, Queued
<1> QED BY <1>1, <1>2, <1>3 DEF Rotation

\* recordHeartbeat: who presents the next credential proves it.
LEMMA Heartbeat ==
  ASSUME NEW r, NEW f, NEW st, NEW used, NEW q, NEW car, NEW n, NEW cl,
         Rotation(r, f, st, used, q, car, n, cl), NEW c \in used
  PROVE  Rotation(recordHeartbeat(r, c), f, st, used, q, car, n, cl)
<1> DEFINE r2 == recordHeartbeat(r, c)
<1>0. r \in Record /\ r.active \in Nat /\ r.next \in Nat /\ n \in Nat
  BY DEF Rotation, Shape, Record
<1>1. CASE Provable(r) /\ c = r.next
  <2>1. r2 = [r EXCEPT !.active = c, !.state = "stable", !.lost = FALSE]
    BY <1>0, <1>1 DEF recordHeartbeat, proveCredentialRotation, Record
  <2>2. /\ r2 \in Record /\ r2.active = c /\ r2.next = c /\ r2.state = "stable"
        /\ r2.revoked = r.revoked /\ ~Provable(r2)
    BY <1>0, <1>1, <2>1 DEF Record, Provable
  <2> HIDE DEF r2
  <2>3. Shape(r2, n) /\ Behind(f, r2)
    BY <1>1, <2>2 DEF Rotation, Shape, Behind, Provable
  <2>4. /\ car = NoCred \/ Unused(r2, car, used, n, cl)
        /\ Queued(r2, q, used, car, n, cl)
    BY <1>1, <2>2 DEF Rotation, Queued, Unused
  <2> QED BY <1>1, <2>2, <2>3, <2>4 DEF Rotation, r2
<1>2. CASE ~(Provable(r) /\ c = r.next)
  <2>1. r2 = [r EXCEPT !.lost = FALSE]
    BY <1>2 DEF recordHeartbeat, proveCredentialRotation
  <2>2. /\ r2 \in Record /\ r2.active = r.active /\ r2.next = r.next /\ r2.state = r.state
        /\ r2.revoked = r.revoked /\ (Provable(r2) <=> Provable(r))
    BY <1>0, <2>1 DEF Record, Provable
  <2> HIDE DEF r2
  <2>3. Shape(r2, n) /\ Behind(f, r2)
    BY <2>2 DEF Rotation, Shape, Behind
  <2>4. \A x : Unused(r, x, used, n, cl) <=> Unused(r2, x, used, n, cl)
    BY <2>2 DEF Unused
  <2>5. Queued(r2, q, used, car, n, cl)
    BY <2>4 DEF Rotation, Queued
  <2> QED BY <2>2, <2>3, <2>4, <2>5 DEF Rotation, r2
<1> QED BY <1>1, <1>2

\* The hub starts again with what is in its file.
LEMMA ReadBack ==
  ASSUME NEW r, NEW f, NEW st, NEW used, NEW q, NEW car, NEW n, NEW cl,
         Rotation(r, f, st, used, q, car, n, cl)
  PROVE  Rotation(f, f, st, used, q, car, n, cl)
<1>1. CASE f.active = r.active /\ f.next = r.next /\ f.state = r.state
  <2>1. f \in Record /\ (Provable(f) <=> Provable(r))
    BY <1>1 DEF Rotation, Shape, Provable
  <2> QED BY <1>1, <2>1, SameCredentials
<1>2. CASE Provable(f) /\ r.state = "stable" /\ r.active = f.next /\ r.next = f.next
  <2>1. ~Provable(r) /\ Behind(f, f)
    BY <1>2 DEF Provable, Behind
  <2>2. \A x : Unused(r, x, used, n, cl) => Unused(f, x, used, n, cl)
    BY <2>1 DEF Unused
  <2>3. Queued(f, q, used, car, n, cl)
    BY <2>2 DEF Rotation, Queued
  <2> QED BY <1>2, <2>1, <2>2, <2>3 DEF Rotation
<1> QED BY <1>1, <1>2 DEF Rotation, Behind

\* A rotation begins, with a message to the node, or carried by hand, or
\* failed at once.
LEMMA Begins ==
  ASSUME NEW r, NEW f, NEW st, NEW used, NEW q, NEW car, NEW n, NEW cl,
         Rotation(r, f, st, used, q, car, n, cl), MayBegin(r),
         NEW state \in {"issuing", "failed"}, NEW q2, NEW car2,
         \/ q2 = Append(q, Msg("rotate", n + 1)) /\ car2 = car
         \/ q2 = q /\ car2 \in {car, n + 1}
  PROVE  LET r2 == [r EXCEPT !.next = n + 1, !.state = state]
         IN  Rotation(r2, r2, st, used, q2, car2, n + 1, cl)
<1> DEFINE r2 == [r EXCEPT !.next = n + 1, !.state = state]
<1>0. r \in Record /\ n \in Nat /\ r.active \in 1..n /\ ~Provable(r) /\ q \in Seq(Message)
  BY DEF Rotation, Shape, MayBegin
<1>1. r2 \in Record /\ r2.active = r.active /\ r2.next = n + 1 /\ Provable(r2)
  <2>1. r2 \in Record /\ r2.active = r.active /\ r2.next = n + 1 /\ r2.state = state
    <3>1. n + 1 \in Nat
      BY <1>0
    <3>2. CASE state = "issuing"
      BY <1>0, <3>1, <3>2 DEF Record
    <3>3. CASE state = "failed"
      BY <1>0, <3>1, <3>3 DEF Record
    <3> QED BY <3>2, <3>3
  <2> QED BY <2>1 DEF Provable
<1> HIDE DEF r2
<1>2. Shape(r2, n + 1) /\ Behind(r2, r2)
  BY <1>0, <1>1 DEF Shape, Behind
<1>3. \A c : Unused(r, c, used, n, cl) => c \in cl /\ c \in 1..n /\ Unused(r2, c, used, n + 1, cl)
  BY <1>0 DEF Unused
<1>4. n + 1 \notin used /\ n + 1 \notin cl /\ Unused(r2, n + 1, used, n + 1, cl)
  BY <1>0, <1>1 DEF Unused, Rotation
<1>5. car2 = NoCred \/ Unused(r2, car2, used, n + 1, cl)
  BY <1>3, <1>4 DEF Rotation
<1>6. Msg("rotate", n + 1) \in Message /\ Msg("rotate", n + 1).cred = n + 1
  BY <1>0 DEF Msg, Message
<1>7. /\ q2 \in Seq(Message)
      /\ \A i \in DOMAIN q2 : i \in DOMAIN q \/ (i = Len(q) + 1 /\ q2[i].cred = n + 1 /\ car2 = car)
      /\ DOMAIN q = 1..Len(q) /\ Len(q) \in Nat
      /\ \A i \in DOMAIN q : i \in DOMAIN q2 /\ q2[i] = q[i]
  <2>1. CASE q2 = q
    BY <1>0, <2>1
  <2>2. CASE q2 = Append(q, Msg("rotate", n + 1)) /\ car2 = car
    <3>1. /\ q2 \in Seq(Message) /\ Len(q2) = Len(q) + 1 /\ q2[Len(q) + 1] = Msg("rotate", n + 1)
          /\ \A i \in 1..Len(q) : q2[i] = q[i]
      BY <1>0, <1>6, <2>2, AppendProperties
    <3> QED BY <1>0, <1>6, <2>2, <3>1
  <2> QED BY <2>1, <2>2
<1>8. Queued(r2, q2, used, car2, n + 1, cl)
  <2>1. \A i \in DOMAIN q : q[i].kind = "rotate" =>
          /\ q[i].cred \in cl /\ q[i].cred \in 1..n /\ Unused(r2, q[i].cred, used, n + 1, cl)
          /\ \A j \in DOMAIN q : i < j /\ q[j].kind = "rotate" => q[i].cred < q[j].cred
    BY <1>3 DEF Rotation, Queued
  <2>2. car \in 0..n
    BY <1>0 DEF Rotation, Unused, NoCred
  <2> SUFFICES ASSUME NEW i \in DOMAIN q2, q2[i].kind = "rotate"
               PROVE  /\ Unused(r2, q2[i].cred, used, n + 1, cl)
                      /\ q2[i].cred \in cl \/ q2[i].cred # car2
                      /\ \A j \in DOMAIN q2 : i < j /\ q2[j].kind = "rotate" => q2[i].cred < q2[j].cred
    BY DEF Queued
  <2>3. CASE i \in DOMAIN q
    BY <1>0, <1>7, <2>1, <2>3
  <2>4. CASE i = Len(q) + 1 /\ q2[i].cred = n + 1 /\ car2 = car
    BY <1>0, <1>4, <1>7, <2>2, <2>4
  <2> QED BY <1>7, <2>3, <2>4
<1>9. used \subseteq 1..(n + 1) /\ cl \subseteq 1..(n + 1) /\ n + 1 \in Nat
  BY <1>0 DEF Rotation
<1> QED BY <1>0, <1>1, <1>2, <1>4, <1>5, <1>7, <1>8, <1>9 DEF Rotation, r2

\* clearCredentialRotationFailure.
LEMMA Clears ==
  ASSUME NEW r, NEW f, NEW st, NEW used, NEW q, NEW car, NEW n, NEW cl,
         Rotation(r, f, st, used, q, car, n, cl), Provable(r)
  PROVE  LET r2 == [r EXCEPT !.next = NoCred, !.state = "none"]
         IN  Rotation(r2, r2, st, used, q, car, n, cl \cup {r.next})
<1> DEFINE r2 == [r EXCEPT !.next = NoCred, !.state = "none"]
<1>0. r \in Record /\ n \in Nat /\ r.active \in 1..n /\ r.next = n /\ r.active < n
  BY DEF Rotation, Shape
<1>1. r2 \in Record /\ r2.active = r.active /\ ~Provable(r2)
  BY <1>0 DEF Record, Provable, NoCred
<1> HIDE DEF r2
<1>2. Shape(r2, n) /\ Behind(r2, r2)
  BY <1>0, <1>1 DEF Shape, Behind
<1>3. \A c : Unused(r, c, used, n, cl) =>
              c \in cl \cup {r.next} /\ Unused(r2, c, used, n, cl \cup {r.next})
  BY DEF Unused
<1>4. Queued(r2, q, used, car, n, cl \cup {r.next})
  BY <1>3 DEF Rotation, Queued
<1> QED
  <2>1. cl \cup {r.next} \subseteq 1..n
    BY <1>0 DEF Rotation
  <2>2. \A c \in cl \cup {r.next} : c # r2.active
    BY <1>0, <1>1 DEF Rotation
  <2>3. st \in cl \cup {r.next} \/ st = r2.active
    BY <1>1 DEF Rotation
  <2>4. car = NoCred \/ Unused(r2, car, used, n, cl \cup {r.next})
    BY <1>3 DEF Rotation
  <2>5. st \in used /\ used \subseteq 1..n /\ q \in Seq(Message)
    BY DEF Rotation
  <2> QED BY <1>0, <1>1, <1>2, <1>4, <2>1, <2>2, <2>3, <2>4, <2>5 DEF Rotation, r2

\* A queue that has lost its first message or all of them, or got another one
\* that is not a credential.
Shorter(q, q2) ==
  \/ q2 = <<>> \/ q2 = q
  \/ q # <<>> /\ q2 = Tail(q)
  \/ \E m \in Message : m.kind # "rotate" /\ q2 = Append(q, m)

LEMMA ShorterQueue ==
  ASSUME NEW r, NEW q \in Seq(Message), NEW used, NEW car, NEW n, NEW cl,
         Queued(r, q, used, car, n, cl), NEW q2, Shorter(q, q2)
  PROVE  q2 \in Seq(Message) /\ Queued(r, q2, used, car, n, cl)
<1>0. CASE q2 = <<>>
  <2>1. q2 \in Seq(Message) /\ DOMAIN q2 = {}
    BY <1>0
  <2> QED BY <2>1 DEF Queued
<1>1. CASE q2 = q
  BY <1>1
<1>2. CASE q # <<>> /\ q2 = Tail(q)
  <2>1. /\ q2 \in Seq(Message) /\ Len(q) \in Nat /\ DOMAIN q = 1..Len(q)
        /\ DOMAIN q2 = 1..(Len(q) - 1) /\ \A i \in 1..(Len(q) - 1) : q2[i] = q[i + 1]
    BY <1>2
  <2>2. \A i \in DOMAIN q2 : i \in Nat /\ i + 1 \in DOMAIN q /\ q2[i] = q[i + 1]
    BY <2>1
  <2> QED BY <2>1, <2>2 DEF Queued
<1>3. CASE \E m \in Message : m.kind # "rotate" /\ q2 = Append(q, m)
  <2>1. PICK m \in Message : m.kind # "rotate" /\ q2 = Append(q, m)
    BY <1>3
  <2>2. /\ q2 \in Seq(Message)
        /\ \A i \in DOMAIN q2 : q2[i].kind = "rotate" => i \in DOMAIN q /\ q2[i] = q[i]
    BY <2>1
  <2> QED BY <2>2 DEF Queued
<1> QED BY <1>0, <1>1, <1>2, <1>3 DEF Shorter

\* Fewer credentials in use and fewer messages.
LEMMA Less ==
  ASSUME NEW r, NEW f, NEW st, NEW used, NEW q, NEW car, NEW n, NEW cl,
         Rotation(r, f, st, used, q, car, n, cl),
         NEW used2 \in SUBSET used, st \in used2, NEW q2, Shorter(q, q2)
  PROVE  Rotation(r, f, st, used2, q2, car, n, cl)
<1>1. q2 \in Seq(Message) /\ Queued(r, q2, used, car, n, cl)
  BY ShorterQueue DEF Rotation
<1>2. \A c : Unused(r, c, used, n, cl) => Unused(r, c, used2, n, cl)
  BY DEF Unused
<1>3. Queued(r, q2, used2, car, n, cl)
  BY <1>1, <1>2 DEF Queued
<1> QED BY <1>1, <1>2, <1>3 DEF Rotation

\* A credential reaches the node's file. No other one on its way to the node,
\* unless it was cleared, is the same.
LEMMA Stores ==
  ASSUME NEW r, NEW f, NEW st, NEW used, NEW q, NEW car, NEW n, NEW cl,
         Rotation(r, f, st, used, q, car, n, cl),
         NEW c, Unused(r, c, used, n, cl),
         NEW used2 \in SUBSET (used \cup {c}), c \in used2,
         NEW q2, Shorter(q, q2), NEW car2 \in {car, NoCred},
         car2 \in cl \/ car2 # c,
         \A i \in DOMAIN q2 : q2[i].kind = "rotate" => q2[i].cred \in cl \/ q2[i].cred # c
  PROVE  Rotation(r, f, c, used2, q2, car2, n, cl)
<1>1. q2 \in Seq(Message) /\ Queued(r, q2, used, car, n, cl)
  BY ShorterQueue DEF Rotation
<1>2. \A x : Unused(r, x, used, n, cl) /\ (x \in cl \/ x # c) => Unused(r, x, used2, n, cl)
  BY DEF Unused
<1>3. Queued(r, q2, used2, car2, n, cl)
  <2> SUFFICES ASSUME NEW i \in DOMAIN q2, q2[i].kind = "rotate"
               PROVE  /\ Unused(r, q2[i].cred, used2, n, cl)
                      /\ q2[i].cred \in cl \/ q2[i].cred # car2
                      /\ \A j \in DOMAIN q2 : i < j /\ q2[j].kind = "rotate" => q2[i].cred < q2[j].cred
    BY DEF Queued
  <2>1. /\ Unused(r, q2[i].cred, used, n, cl)
        /\ q2[i].cred \in cl \/ q2[i].cred # car
        /\ \A j \in DOMAIN q2 : i < j /\ q2[j].kind = "rotate" => q2[i].cred < q2[j].cred
    BY <1>1 DEF Queued
  <2>2. q2[i].cred # NoCred
    BY <2>1 DEF Unused, NoCred, Rotation
  <2> QED BY <1>2, <2>1, <2>2
<1>4. car2 = NoCred \/ Unused(r, car2, used2, n, cl)
  BY <1>2 DEF Rotation
<1>5. used2 \subseteq 1..n /\ (c \in cl \/ (Provable(r) /\ c = r.next))
  BY DEF Unused, Rotation
<1> QED BY <1>1, <1>3, <1>4, <1>5 DEF Rotation

-----------------------------------------------------------------------------
(* What the registry's operations and the sockets' leave alone.            *)

\* The record r2 has r's credentials.
Alike(r, r2) ==
  /\ r2 \in Record /\ r2.active = r.active /\ r2.next = r.next /\ (Provable(r2) <=> Provable(r))
  /\ r2.revoked = r.revoked /\ r2.lost = r.lost

\* A rotation that has failed, or whose call was answered, goes on.
LEMMA StillProvable ==
  ASSUME NEW r \in Record
  PROVE  /\ Alike(r, r)
         /\ \A cs : Alike(r, failCredentialRotation(r, cs))
         /\ \A c : Alike(r, markCredentialRotationDelivered(r, c))
<1>1. Alike(r, r)
  BY DEF Alike
<1>2. ASSUME NEW cs PROVE Alike(r, failCredentialRotation(r, cs))
  <2>1. CASE Provable(r) /\ r.next \in cs
    <3>1. failCredentialRotation(r, cs) = [r EXCEPT !.state = "failed"]
      BY <2>1 DEF failCredentialRotation
    <3> QED BY <2>1, <3>1 DEF Alike, Record, Provable
  <2> QED BY <1>1, <2>1 DEF failCredentialRotation
<1>3. ASSUME NEW c PROVE Alike(r, markCredentialRotationDelivered(r, c))
  <2>1. CASE r.state = "issuing" /\ r.next = c
    <3>1. markCredentialRotationDelivered(r, c) = [r EXCEPT !.state = "delivered"]
      BY <2>1 DEF markCredentialRotationDelivered
    <3> QED BY <2>1, <3>1 DEF Alike, Record, Provable
  <2> QED BY <1>1, <2>1 DEF markCredentialRotationDelivered
<1> QED BY <1>1, <1>2, <1>3

\* No socket opens, and none gets a credential to deliver.
Calmer(ss, tt) ==
  /\ tt \in Seq(Socket) /\ DOMAIN tt = DOMAIN ss
  /\ \A s \in DOMAIN ss : /\ tt[s].cred = ss[s].cred
                          /\ tt[s].hub = "open" => ss[s].hub = "open"
                          /\ Shorter(ss[s].down, tt[s].down)

NoneGreeted(ss, tt) == \A s \in DOMAIN ss : tt[s].greeted => ss[s].greeted

\* One socket is replaced.
LEMMA OneSocket ==
  ASSUME NEW ss \in Seq(Socket), NEW s \in DOMAIN ss, NEW x \in Socket,
         NEW tt, tt = [ss EXCEPT ![s] = x]
  PROVE  /\ tt \in Seq(Socket) /\ DOMAIN tt = DOMAIN ss /\ tt[s] = x
         /\ \A u \in DOMAIN ss : u # s => tt[u] = ss[u]
         /\ \A u \in DOMAIN ss : tt[u] \in Socket /\ ss[u] \in Socket
<1>1. Len(ss) \in Nat /\ DOMAIN ss = 1..Len(ss) /\ \A u \in DOMAIN ss : ss[u] \in Socket
  BY ElementOfSeq
<1>2. tt \in [1..Len(ss) -> Socket]
  BY <1>1
<1>3. tt \in Seq(Socket)
  BY <1>1, <1>2
<1> QED BY <1>1, <1>2, <1>3

LEMMA CalmSocket ==
  ASSUME NEW ss \in Seq(Socket), NEW s \in DOMAIN ss, NEW x \in Socket,
         x.cred = ss[s].cred, x.hub = "open" => ss[s].hub = "open", Shorter(ss[s].down, x.down)
  PROVE  Calmer(ss, [ss EXCEPT ![s] = x])
<1>1. \A u \in DOMAIN ss : Shorter(ss[u].down, ss[u].down)
  BY DEF Shorter
<1> QED BY <1>1, OneSocket DEF Calmer

\* close, from the hub's end.
LEMMA CalmClose ==
  ASSUME NEW ss \in Seq(Socket), NEW s \in {NoLink} \cup DOMAIN ss, NEW kind \in {"close", "revoked"}
  PROVE  /\ Calmer(ss, HubCloses(ss, s, kind))
         /\ s # NoLink => HubCloses(ss, s, kind)[s].hub # "open"
         /\ NoneGreeted(ss, HubCloses(ss, s, kind))
<1>1. Calmer(ss, ss) /\ NoneGreeted(ss, ss)
  BY DEF Calmer, Shorter, NoneGreeted
<1>2. CASE ~(s # NoLink /\ ss[s].hub = "open")
  BY <1>1, <1>2 DEF HubCloses
<1>3. CASE s # NoLink /\ ss[s].hub = "open"
  <2> DEFINE x == [ss[s] EXCEPT !.hub = "closing",
                                !.down = IF ss[s].broken THEN @ ELSE Append(@, Msg(kind, NoCred))]
             tt == [ss EXCEPT ![s] = x]
  <2>1. HubCloses(ss, s, kind) = tt
    BY <1>3 DEF HubCloses
  <2>2. s \in DOMAIN ss /\ ss[s] \in Socket
    BY <1>3, ElementOfSeq
  <2>3. Msg(kind, NoCred) \in Message /\ Msg(kind, NoCred).kind # "rotate"
    BY DEF Msg, Message, NoCred
  <2>4. Append(ss[s].down, Msg(kind, NoCred)) \in Seq(Message)
    BY <2>2, <2>3, AppendProperties DEF Socket
  <2>5. /\ x \in Socket /\ x.cred = ss[s].cred /\ x.hub = "closing" /\ x.greeted = ss[s].greeted
        /\ x.down = ss[s].down \/ x.down = Append(ss[s].down, Msg(kind, NoCred))
    BY <2>2, <2>4 DEF Socket
  <2>6. Shorter(ss[s].down, x.down)
    BY <2>3, <2>5 DEF Shorter
  <2> HIDE DEF x
  <2>7. Calmer(ss, tt)
    BY <2>2, <2>5, <2>6, CalmSocket
  <2>8. tt[s] = x /\ \A u \in DOMAIN ss : u # s => tt[u] = ss[u]
    BY <2>2, <2>5, OneSocket
  <2> QED BY <2>1, <2>5, <2>7, <2>8 DEF NoneGreeted
<1> QED BY <1>2, <1>3

\* What the hub receives on a socket or the node sends, with or without a
\* greeting.
LEMMA CalmUp ==
  ASSUME NEW ss \in Seq(Socket), NEW s \in DOMAIN ss, NEW q \in Seq(Message),
         NEW tt, tt = [ss EXCEPT ![s].up = q]
  PROVE  /\ Calmer(ss, tt) /\ NoneGreeted(ss, tt)
         /\ \A u \in DOMAIN ss : tt[u].down = ss[u].down
         /\ Calmer(ss, [tt EXCEPT ![s].greeted = TRUE])
<1> DEFINE x == [ss[s] EXCEPT !.up = q]
           y == [x EXCEPT !.greeted = TRUE]
<1>1. ss[s] \in Socket
  BY ElementOfSeq
<1>2. /\ x \in Socket /\ x.cred = ss[s].cred /\ x.hub = ss[s].hub /\ x.down = ss[s].down
      /\ y \in Socket /\ y.cred = ss[s].cred /\ y.hub = ss[s].hub /\ y.down = ss[s].down
      /\ x.greeted = ss[s].greeted
  BY <1>1 DEF Socket
<1>3. tt = [ss EXCEPT ![s] = x] /\ [tt EXCEPT ![s].greeted = TRUE] = [ss EXCEPT ![s] = y]
  OBVIOUS
<1> HIDE DEF x, y
<1>4. Shorter(ss[s].down, x.down) /\ Shorter(ss[s].down, y.down)
  BY <1>2 DEF Shorter
<1>5. Calmer(ss, tt) /\ Calmer(ss, [tt EXCEPT ![s].greeted = TRUE])
  <2>1. Calmer(ss, [ss EXCEPT ![s] = x])
    BY <1>2, <1>4, CalmSocket
  <2>2. Calmer(ss, [ss EXCEPT ![s] = y])
    BY <1>2, <1>4, CalmSocket
  <2> QED BY <1>3, <2>1, <2>2
<1>6. tt[s] = x /\ \A u \in DOMAIN ss : u # s => tt[u] = ss[u]
  BY <1>2, <1>3, OneSocket
<1> QED BY <1>2, <1>5, <1>6 DEF NoneGreeted

\* A message arrives at the node.
LEMMA CalmDown ==
  ASSUME NEW ss \in Seq(Socket), NEW s \in DOMAIN ss, ss[s].down # <<>>,
         NEW tt, tt = [ss EXCEPT ![s].down = Tail(@)]
  PROVE  /\ Calmer(ss, tt) /\ NoneGreeted(ss, tt) /\ tt[s].down = Tail(ss[s].down)
<1> DEFINE x == [ss[s] EXCEPT !.down = Tail(@)]
<1>1. ss[s] \in Socket
  BY ElementOfSeq
<1>2. ss[s].down \in Seq(Message) /\ Tail(ss[s].down) \in Seq(Message)
  BY <1>1, HeadTailProperties DEF Socket
<1>3. /\ x \in Socket /\ x.cred = ss[s].cred /\ x.hub = ss[s].hub
      /\ x.greeted = ss[s].greeted /\ x.down = Tail(ss[s].down)
  BY <1>1, <1>2 DEF Socket
<1>4. tt = [ss EXCEPT ![s] = x]
  OBVIOUS
<1> HIDE DEF x
<1>5. Shorter(ss[s].down, x.down)
  BY <1>3 DEF Shorter
<1>6. tt[s] = x /\ \A u \in DOMAIN ss : u # s => tt[u] = ss[u]
  BY <1>3, <1>4, OneSocket
<1>7. Calmer(ss, [ss EXCEPT ![s] = x])
  BY <1>3, <1>5, CalmSocket
<1> QED BY <1>3, <1>4, <1>6, <1>7 DEF NoneGreeted

\* The connection is lost, or the hub notices that it is.
LEMMA CalmLoss ==
  ASSUME NEW ss \in Seq(Socket), NEW s \in DOMAIN ss, NEW tt,
         \/ tt = BreakSocket(ss, s)
         \/ tt = [ss EXCEPT ![s].hub = "closed"]
  PROVE  /\ Calmer(ss, tt) /\ NoneGreeted(ss, tt)
         /\ \A u \in DOMAIN ss : u # s => tt[u] = ss[u]
<1>1. ss[s] \in Socket /\ <<>> \in Seq(Message)
  BY ElementOfSeq
<1>2. PICK x : /\ x \in {[ss[s] EXCEPT !.broken = TRUE, !.up = <<>>, !.down = <<>>],
                         [ss[s] EXCEPT !.hub = "closed"]}
               /\ tt = [ss EXCEPT ![s] = x]
  BY DEF BreakSocket
<1>3. /\ x \in Socket /\ x.cred = ss[s].cred /\ x.greeted = ss[s].greeted
      /\ x.hub = ss[s].hub \/ x.hub = "closed"
      /\ x.down = <<>> \/ x.down = ss[s].down
  BY <1>1, <1>2 DEF Socket
<1>4. Shorter(ss[s].down, x.down)
  BY <1>3 DEF Shorter
<1>5. tt[s] = x /\ \A u \in DOMAIN ss : u # s => tt[u] = ss[u]
  BY <1>2, <1>3, OneSocket
<1>6. Calmer(ss, tt)
  BY <1>2, <1>3, <1>4, CalmSocket
<1> QED BY <1>3, <1>5, <1>6 DEF NoneGreeted

-----------------------------------------------------------------------------
(* The actions.                                                            *)

\* When no socket opens and the credential file stays as it is, what the step
\* does to the registry is all that matters to the rotation.
LEMMA CalmStep ==
  ASSUME NodeLinkInv, Calmer(sockets, sockets'),
         Rotation(registry', file', node.stored, InUse, ToNode, carried', issued', cleared'),
         node' \in NodeState, node'.stored = node.stored, node'.mem \in {node.mem, node.stored},
         node'.ws \in {node.ws, NoLink}, link' \in {link, NoLink}
  PROVE  /\ NodeLinkTypeOK'
         /\ Rotation(registry, file, node.stored, InUse, ToNode, carried, issued, cleared)'
         /\ (registry'.revoked => registry.revoked) => RevokedIsClosed'
<1>0. NodeLinkTypeOK /\ RevokedIsClosed
  BY DEF NodeLinkInv
<1>1. NodeLinkTypeOK'
  BY <1>0 DEF NodeLinkTypeOK, Calmer
<1>2. InUse' \in SUBSET InUse /\ node'.stored \in InUse'
  BY DEF Calmer, InUse
<1>3. Shorter(ToNode, ToNode')
  <2>1. CASE node'.ws = NoLink
    BY <2>1 DEF ToNode, Shorter
  <2>2. CASE node'.ws # NoLink
    <3>1. node.ws \in DOMAIN sockets /\ node'.ws = node.ws
      BY <1>0, <2>2 DEF NodeLinkTypeOK
    <3> QED BY <2>2, <3>1 DEF ToNode, Calmer
  <2> QED BY <2>1, <2>2
<1>4. Rotation(registry, file, node.stored, InUse, ToNode, carried, issued, cleared)'
  <2>1. Rotation(registry', file', node.stored, InUse', ToNode', carried', issued', cleared')
    BY <1>2, <1>3, Less
  <2> QED BY <2>1
<1>5. (registry'.revoked => registry.revoked) => RevokedIsClosed'
  BY <1>0 DEF RevokedIsClosed, Calmer
<1> QED BY <1>1, <1>4, <1>5

\* The registered link stays greeted and the node online.
LEMMA StaysOnline ==
  ASSUME NodeLinkInv, Calmer(sockets, sockets'),
         \/ link' = NoLink
         \/ ~registry'.lost
         \/ /\ link' = link /\ (registry'.lost => registry.lost)
            /\ NoneGreeted(sockets, sockets')
  PROVE  LinkedIsOnline'
<1>1. link = NoLink \/ link \in DOMAIN sockets
  BY DEF NodeLinkInv, NodeLinkTypeOK
<1> QED BY <1>1 DEF NodeLinkInv, LinkedIsOnline, Usable, Calmer, NoneGreeted

\* Nothing happens to the sockets.
LEMMA CalmSame == \A ss \in Seq(Socket) : Calmer(ss, ss) /\ NoneGreeted(ss, ss)
  BY DEF Calmer, NoneGreeted, Shorter

\* What the node sends.
LEMMA CalmUpward ==
  ASSUME NEW ss \in Seq(Socket), node.ws \in {NoLink} \cup DOMAIN ss, NEW m \in Message
  PROVE  /\ Calmer(ss, Upward(ss, m)) /\ NoneGreeted(ss, Upward(ss, m))
         /\ \A u \in DOMAIN ss : Upward(ss, m)[u].down = ss[u].down
<1>1. CASE node.ws = NoLink \/ ss[node.ws].broken
  BY <1>1, CalmSame DEF Upward
<1>2. CASE ~(node.ws = NoLink \/ ss[node.ws].broken)
  <2> DEFINE sent == Append(ss[node.ws].up, m)
  <2>1. Upward(ss, m) = [ss EXCEPT ![node.ws].up = sent]
    BY <1>2 DEF Upward
  <2>2. sent \in Seq(Message)
    <3>1. node.ws \in DOMAIN ss /\ ss[node.ws] \in Socket
      BY <1>2, ElementOfSeq
    <3>2. ss[node.ws].up \in Seq(Message)
      BY <3>1 DEF Socket
    <3> QED BY <3>2, AppendProperties
  <2>3. node.ws \in DOMAIN ss
    BY <1>2
  <2> HIDE DEF sent
  <2>4. Calmer(ss, [ss EXCEPT ![node.ws].up = sent]) /\ NoneGreeted(ss, [ss EXCEPT ![node.ws].up = sent])
    BY <2>2, <2>3, CalmUp
  <2> QED BY <2>1, <2>4
<1> QED BY <1>1, <1>2

\* What the registry's operations do, put together.
LEMMA RegistrySteps ==
  ASSUME NodeLinkInv
  PROVE  /\ registry \in Record /\ file \in Record
         /\ \A r \in Record :
              r.active = registry.active /\ r.next = registry.next /\ (Provable(r) <=> Provable(registry))
              => Rotation(r, r, node.stored, InUse, ToNode, carried, issued, cleared)
         /\ \A c \in InUse :
              /\ Rotation(recordHeartbeat(registry, c), file, node.stored, InUse, ToNode, carried, issued, cleared)
              /\ Rotation(recordHeartbeat(registry, c), registry, node.stored, InUse, ToNode, carried, issued, cleared)
              /\ ~recordHeartbeat(registry, c).lost
              /\ recordHeartbeat(registry, c).revoked = registry.revoked
<1>1. Rotation(registry, file, node.stored, InUse, ToNode, carried, issued, cleared)
  BY DEF NodeLinkInv
<1>2. registry \in Record /\ file \in Record
  BY <1>1 DEF Rotation, Shape
<1>3. ASSUME NEW r \in Record, r.active = registry.active, r.next = registry.next,
             Provable(r) <=> Provable(registry)
      PROVE  Rotation(r, r, node.stored, InUse, ToNode, carried, issued, cleared)
  BY <1>1, <1>3, SameCredentials
<1>4. Rotation(registry, registry, node.stored, InUse, ToNode, carried, issued, cleared)
  BY <1>2, <1>3
<1>5. ASSUME NEW c \in InUse
      PROVE  /\ Rotation(recordHeartbeat(registry, c), file, node.stored, InUse, ToNode, carried, issued, cleared)
             /\ Rotation(recordHeartbeat(registry, c), registry, node.stored, InUse, ToNode, carried, issued, cleared)
  <2>1. Rotation(recordHeartbeat(registry, c), file, node.stored, InUse, ToNode, carried, issued, cleared)
    BY <1>1, Heartbeat
  <2>2. Rotation(recordHeartbeat(registry, c), registry, node.stored, InUse, ToNode, carried, issued, cleared)
    BY <1>4, Heartbeat
  <2> QED BY <2>1, <2>2
<1>6. ASSUME NEW c
      PROVE  ~recordHeartbeat(registry, c).lost /\ recordHeartbeat(registry, c).revoked = registry.revoked
  BY <1>2 DEF recordHeartbeat, proveCredentialRotation, Record
<1> QED BY <1>2, <1>3, <1>5, <1>6

\* FlushHeartbeat, HttpHeartbeat, RpcTimesOut, ClearRotation: the registry and
\* its file only.
LEMMA RegistryActions ==
  ASSUME NodeLinkInv,
         FlushHeartbeat \/ HttpHeartbeat \/ (\E p \in pending : RpcTimesOut(p)) \/ ClearRotation
  PROVE  NodeLinkInv'
<1>0. NodeLinkTypeOK /\ registry \in Record /\ UNCHANGED <<sockets, link, node, issued, carried>>
  BY RegistrySteps DEF NodeLinkInv, FlushHeartbeat, HttpHeartbeat, RpcTimesOut, ClearRotation
<1>1. /\ Rotation(registry', file', node.stored, InUse, ToNode, carried', issued', cleared')
      /\ registry'.revoked = registry.revoked /\ (registry'.lost => registry.lost)
  <2>1. CASE FlushHeartbeat
    BY <1>0, <2>1, RegistrySteps DEF FlushHeartbeat
  <2>2. CASE HttpHeartbeat
    BY <1>0, <2>2, RegistrySteps DEF HttpHeartbeat, InUse
  <2>3. CASE \E p \in pending : RpcTimesOut(p)
    <3>1. Alike(registry, registry') /\ file' = registry' /\ cleared' = cleared
      BY <1>0, <2>3, StillProvable DEF RpcTimesOut, Persist
    <3> QED BY <1>0, <3>1, RegistrySteps DEF Alike
  <2>4. CASE ClearRotation
    <3>1. /\ registry' = [registry EXCEPT !.next = NoCred, !.state = "none"] /\ file' = registry'
          /\ cleared' = cleared \cup {registry.next} /\ Provable(registry)
      BY <2>4 DEF ClearRotation, Persist
    <3>2. Rotation(registry, file, node.stored, InUse, ToNode, carried, issued, cleared)
      BY DEF NodeLinkInv
    <3>3. Rotation(registry', registry', node.stored, InUse, ToNode, carried, issued, cleared')
      BY <3>1, <3>2, Clears
    <3> QED BY <1>0, <3>1, <3>3 DEF Record
  <2> QED BY <2>1, <2>2, <2>3, <2>4
<1>2. Calmer(sockets, sockets') /\ NoneGreeted(sockets, sockets')
  BY <1>0, CalmSame DEF NodeLinkTypeOK
<1>3. node' \in NodeState
  BY <1>0 DEF NodeLinkTypeOK
<1>4. LinkedIsOnline'
  BY <1>0, <1>1, <1>2, StaysOnline
<1> QED BY <1>0, <1>1, <1>2, <1>3, <1>4, CalmStep DEF NodeLinkInv

\* HubReceives: a greeting proves the socket's credential, and an answer
\* changes no more than the state of a rotation.
LEMMA HubReceivesKeeps ==
  ASSUME NodeLinkInv, NEW s \in DOMAIN sockets, HubReceives(s)
  PROVE  NodeLinkInv'
<1> DEFINE m == Head(sockets[s].up)
           taken == [sockets EXCEPT ![s].up = Tail(@)]
<1>0. /\ NodeLinkTypeOK /\ registry \in Record /\ sockets[s].up # <<>>
      /\ UNCHANGED <<link, node, issued, carried, cleared>>
  BY RegistrySteps DEF NodeLinkInv, HubReceives
<1>1. sockets[s] \in Socket /\ sockets[s].up \in Seq(Message) /\ Tail(sockets[s].up) \in Seq(Message)
  <2>1. sockets[s] \in Socket
    BY <1>0, ElementOfSeq DEF NodeLinkTypeOK
  <2>2. sockets[s].up \in Seq(Message)
    BY <2>1 DEF Socket
  <2> QED BY <1>0, <2>1, <2>2, HeadTailProperties
<1>2. /\ Calmer(sockets, taken) /\ NoneGreeted(sockets, taken)
      /\ Calmer(sockets, [taken EXCEPT ![s].greeted = TRUE])
  BY <1>0, <1>1, CalmUp DEF NodeLinkTypeOK
<1>3. /\ Calmer(sockets, sockets')
      /\ Rotation(registry', file', node.stored, InUse, ToNode, carried, issued, cleared)
      /\ registry'.revoked = registry.revoked
      /\ ~registry'.lost \/ (registry'.lost = registry.lost /\ NoneGreeted(sockets, sockets'))
  <2>0. Rotation(registry, file, node.stored, InUse, ToNode, carried, issued, cleared)
    BY DEF NodeLinkInv
  <2>1. CASE m.kind = "hello" /\ registry.revoked
    <3>1. UNCHANGED <<registry, file>> /\ sockets' = taken
      BY <2>1 DEF HubReceives
    <3> QED BY <1>2, <2>0, <3>1
  <2>2. CASE m.kind = "hello" /\ ~registry.revoked
    <3>1. /\ registry' = recordHeartbeat(registry, sockets[s].cred) /\ file' = file
          /\ sockets' = [taken EXCEPT ![s].greeted = TRUE]
      BY <2>2 DEF HubReceives
    <3>2. sockets[s].cred \in InUse
      BY DEF InUse
    <3> QED BY <1>2, <3>1, <3>2, RegistrySteps
  <2>3. CASE m.kind # "hello"
    <3>1. sockets' = taken /\ Answered(m)
      BY <2>3 DEF HubReceives
    <3>2. \/ UNCHANGED <<registry, file>>
          \/ Alike(registry, registry') /\ file' = registry'
      BY <1>0, <3>1, StillProvable DEF Answered, Persist
    <3> HIDE DEF m, taken
    <3> QED BY <1>2, <2>0, <3>1, <3>2, RegistrySteps DEF Alike
  <2> QED BY <2>1, <2>2, <2>3
<1>4. LinkedIsOnline'
  BY <1>0, <1>3, StaysOnline
<1> QED BY <1>0, <1>3, <1>4, CalmStep DEF NodeLinkInv, NodeLinkTypeOK

\* HubNoticesClose: the node is marked offline unless it has another open link.
LEMMA HubNoticesCloseKeeps ==
  ASSUME NodeLinkInv, NEW s \in DOMAIN sockets, HubNoticesClose(s)
  PROVE  NodeLinkInv'
<1> DEFINE ss == [sockets EXCEPT ![s].hub = "closed"]
           failed == failCredentialRotation(registry, CredsOf(PendingOn(s)))
<1>0. /\ NodeLinkTypeOK /\ registry \in Record /\ sockets' = ss
      /\ link' = IF link = s THEN NoLink ELSE link
      /\ UNCHANGED <<node, issued, carried, cleared>>
  BY RegistrySteps DEF NodeLinkInv, HubNoticesClose
<1>1. /\ Calmer(sockets, ss) /\ NoneGreeted(sockets, ss)
      /\ \A u \in DOMAIN sockets : u # s => ss[u] = sockets[u]
  BY <1>0, CalmLoss DEF NodeLinkTypeOK
<1>2. Alike(registry, failed)
  BY <1>0, StillProvable
<1>3. \/ MarksOffline(s, ss) /\ registry' = [failed EXCEPT !.lost = TRUE] /\ file' = registry'
      \/ registry' = failed /\ file' = registry'
      \/ UNCHANGED <<registry, file>>
  BY DEF HubNoticesClose, Persist
<1> HIDE DEF ss, failed
<1>4. /\ Rotation(registry', file', node.stored, InUse, ToNode, carried, issued, cleared)
      /\ registry'.revoked = registry.revoked
  <2>0. Rotation(registry, file, node.stored, InUse, ToNode, carried, issued, cleared)
    BY DEF NodeLinkInv
  <2>1. CASE registry' = [failed EXCEPT !.lost = TRUE] /\ file' = registry'
    <3>1. /\ registry' \in Record /\ registry'.active = registry.active /\ registry'.next = registry.next
          /\ Provable(registry') <=> Provable(registry)
          /\ registry'.revoked = registry.revoked
      BY <1>2, <2>1 DEF Alike, Record, Provable
    <3> QED BY <2>1, <3>1, RegistrySteps
  <2>2. CASE registry' = failed /\ file' = registry'
    BY <1>2, <2>2, RegistrySteps DEF Alike
  <2> QED BY <1>3, <2>0, <2>1, <2>2
<1>5. LinkedIsOnline'
  <2>1. CASE link' = NoLink
    BY <1>0, <1>1, <2>1, StaysOnline
  <2>2. CASE registry'.lost => registry.lost
    BY <1>0, <1>1, <2>1, <2>2, StaysOnline
  <2>3. CASE link' # NoLink /\ MarksOffline(s, ss)
    <3>1. link \notin {NoLink, s} /\ link' = link /\ ss[link].hub # "open"
      BY <1>0, <2>3 DEF MarksOffline, NoLink
    <3> QED BY <1>0, <3>1 DEF LinkedIsOnline, Usable
  <2>4. MarksOffline(s, ss) \/ (registry'.lost => registry.lost)
    BY <1>2, <1>3 DEF Alike
  <2> QED BY <2>1, <2>2, <2>3, <2>4
<1> QED BY <1>0, <1>1, <1>4, <1>5, CalmStep DEF NodeLinkInv, NodeLinkTypeOK

\* SocketBreaks and what the node does without touching its file.
LEMMA NodeActions ==
  ASSUME NodeLinkInv,
         \/ \E s \in DOMAIN sockets : SocketBreaks(s)
         \/ NodeStarts \/ NodeGreets \/ StopTimer \/ NodeNoticesClose
  PROVE  NodeLinkInv'
<1>0. /\ NodeLinkTypeOK
      /\ Rotation(registry, file, node.stored, InUse, ToNode, carried, issued, cleared)
      /\ UNCHANGED <<registry, file, link, issued, carried, cleared>>
  BY DEF NodeLinkInv, SocketBreaks, NodeStarts, NodeGreets, StopTimer, NodeNoticesClose
<1>1. Calmer(sockets, sockets') /\ NoneGreeted(sockets, sockets')
  <2>1. CASE \E s \in DOMAIN sockets : SocketBreaks(s)
    BY <1>0, <2>1, CalmLoss DEF SocketBreaks, NodeLinkTypeOK
  <2>2. CASE NodeStarts \/ NodeNoticesClose
    BY <1>0, <2>2, CalmSame DEF NodeStarts, NodeNoticesClose, NodeLinkTypeOK
  <2>3. CASE NodeGreets \/ StopTimer
    <3>1. PICK m \in Message : sockets' = Upward(sockets, m)
      <4>1. Msg("hello", NoCred) \in Message /\ Msg("close", NoCred) \in Message
        BY DEF Msg, Message, NoCred
      <4> QED BY <2>3, <4>1 DEF NodeGreets, StopTimer, NodeStops
    <3>2. sockets \in Seq(Socket) /\ node.ws \in {NoLink} \cup DOMAIN sockets
      BY <1>0 DEF NodeLinkTypeOK
    <3> QED BY <3>1, <3>2, CalmUpward
  <2> QED BY <2>1, <2>2, <2>3
<1>2. /\ node' \in NodeState /\ node'.stored = node.stored /\ node'.mem \in {node.mem, node.stored}
      /\ node'.ws \in {node.ws, NoLink}
  <2>0. node \in NodeState
    BY <1>0 DEF NodeLinkTypeOK
  <2>1. CASE NodeStarts
    BY <2>0, <2>1 DEF NodeStarts, NodeState, NoLink
  <2>2. CASE StopTimer \/ NodeNoticesClose
    <3>1. \/ node' = [node EXCEPT !.alive = FALSE, !.ws = NoLink]
          \/ node' = [node EXCEPT !.ws = NoLink]
      BY <2>2 DEF StopTimer, NodeStops, NodeNoticesClose
    <3>2. CASE node' = [node EXCEPT !.alive = FALSE, !.ws = NoLink]
      BY <2>0, <3>2 DEF NodeState, NoLink
    <3>3. CASE node' = [node EXCEPT !.ws = NoLink]
      BY <2>0, <3>3 DEF NodeState, NoLink
    <3> QED BY <3>1, <3>2, <3>3
  <2>3. CASE NodeGreets \/ \E s \in DOMAIN sockets : SocketBreaks(s)
    BY <2>0, <2>3 DEF NodeGreets, SocketBreaks
  <2> QED BY <2>1, <2>2, <2>3
<1>3. LinkedIsOnline'
  BY <1>0, <1>1, StaysOnline
<1> QED BY <1>0, <1>1, <1>2, <1>3, CalmStep DEF NodeLinkInv

\* NodeReceives: a credential is written to the file when its message arrives,
\* or the call fails; any other message ends the connection.
LEMMA NodeReceivesKeeps ==
  ASSUME NodeLinkInv, NEW written \in BOOLEAN, NodeReceives(written)
  PROVE  NodeLinkInv'
<1> DEFINE q == sockets[node.ws].down
           m == Head(q)
           ss == [sockets EXCEPT ![node.ws].down = Tail(@)]
<1>0. /\ NodeLinkTypeOK /\ node \in NodeState /\ node.ws # NoLink /\ q # <<>>
      /\ Rotation(registry, file, node.stored, InUse, ToNode, carried, issued, cleared)
      /\ UNCHANGED <<registry, file, link, issued, carried, cleared>>
  BY DEF NodeLinkInv, NodeReceives, NodeLinkTypeOK
<1>1. /\ sockets \in Seq(Socket) /\ node.ws \in DOMAIN sockets /\ sockets[node.ws] \in Socket
      /\ q \in Seq(Message) /\ ToNode = q
  <2>1. sockets \in Seq(Socket) /\ node.ws \in DOMAIN sockets
    BY <1>0 DEF NodeLinkTypeOK
  <2>2. sockets[node.ws] \in Socket
    BY <2>1, ElementOfSeq
  <2> QED BY <1>0, <2>1, <2>2 DEF Socket, ToNode
<1>2. /\ m \in Message /\ 1 \in DOMAIN q /\ m = q[1] /\ Tail(q) \in Seq(Message) /\ Len(q) \in Nat
      /\ \A i \in DOMAIN Tail(q) : i + 1 \in DOMAIN q /\ 1 < i + 1 /\ Tail(q)[i] = q[i + 1]
  BY <1>0, <1>1
<1>3. Calmer(sockets, ss) /\ NoneGreeted(sockets, ss) /\ ss[node.ws].down = Tail(q)
  BY <1>0, <1>1, CalmDown
<1>4. \E up \in Message : sockets' = Upward(ss, up)
  <2>1. \A kind \in {"ok", "error"} : Msg(kind, m.cred) \in Message
    BY <1>2 DEF Msg, Message
  <2>2. Msg("close", NoCred) \in Message
    BY DEF Msg, Message, NoCred
  <2> HIDE DEF m, ss
  <2>3. \/ \E kind \in {"ok", "error"} : sockets' = Upward(ss, Msg(kind, m.cred))
        \/ sockets' = Upward(ss, Msg("close", NoCred))
    BY DEF NodeReceives, NodeRotates, NodeStops, m, ss
  <2> QED BY <2>1, <2>2, <2>3
<1>5. /\ Calmer(sockets, sockets') /\ NoneGreeted(sockets, sockets')
      /\ sockets'[node.ws].down = Tail(q)
  <2> HIDE DEF ss, q
  <2>1. ss \in Seq(Socket) /\ DOMAIN ss = DOMAIN sockets
    BY <1>3 DEF Calmer
  <2>2. PICK up \in Message : sockets' = Upward(ss, up)
    BY <1>4
  <2>3. /\ Calmer(ss, sockets') /\ NoneGreeted(ss, sockets')
        /\ \A u \in DOMAIN ss : sockets'[u].down = ss[u].down
    BY <1>1, <2>1, <2>2, CalmUpward
  <2> QED BY <1>1, <1>3, <2>1, <2>3 DEF Calmer, NoneGreeted
<1>6. LinkedIsOnline'
  BY <1>0, <1>5, StaysOnline
<1>7. CASE node'.stored = node.stored
  <2>1. node' \in NodeState /\ node'.mem = node.mem /\ node'.ws \in {node.ws, NoLink}
    <3> HIDE DEF q, m, ss
    <3>1. \/ node' = node
          \/ node' = [node EXCEPT !.stored = m.cred, !.stopping = TRUE]
          \/ node' = [node EXCEPT !.alive = FALSE, !.ws = NoLink]
          \/ node' = [node EXCEPT !.ws = NoLink]
      BY DEF NodeReceives, NodeRotates, NodeStops, m, q
    <3>2. CASE node' = [node EXCEPT !.stored = m.cred, !.stopping = TRUE]
      BY <1>0, <1>2, <3>2 DEF NodeState, Message
    <3>3. CASE node' = [node EXCEPT !.alive = FALSE, !.ws = NoLink]
      BY <1>0, <3>3 DEF NodeState, NoLink
    <3>4. CASE node' = [node EXCEPT !.ws = NoLink]
      BY <1>0, <3>4 DEF NodeState, NoLink
    <3> QED BY <1>0, <3>1, <3>2, <3>3, <3>4
  <2> QED BY <1>0, <1>5, <1>6, <1>7, <2>1, CalmStep DEF NodeLinkInv
<1>8. CASE node'.stored # node.stored
  <2> HIDE DEF q, m, ss
  <2>1. m.kind = "rotate" /\ node' = [node EXCEPT !.stored = m.cred, !.stopping = TRUE]
    BY <1>0, <1>8 DEF NodeReceives, NodeRotates, NodeStops, NodeState, m, q
  <2>2. /\ node' \in NodeState /\ node'.stored = m.cred /\ node'.mem = node.mem /\ node'.ws = node.ws
    BY <1>0, <1>2, <2>1 DEF NodeState, Message
  <2>3. /\ Unused(registry, m.cred, InUse, issued, cleared)
        /\ m.cred \in cleared \/ m.cred # carried
        /\ \A j \in DOMAIN q : 1 < j /\ q[j].kind = "rotate" => m.cred < q[j].cred
    BY <1>0, <1>1, <1>2, <2>1 DEF Rotation, Queued
  <2>4. InUse' \in SUBSET (InUse \cup {m.cred}) /\ m.cred \in InUse'
    BY <1>5, <2>2 DEF InUse, Calmer
  <2>5. ToNode' = Tail(q)
    BY <1>0, <1>5, <2>2 DEF ToNode
  <2>6. Shorter(ToNode, Tail(q))
    BY <1>0, <1>1 DEF Shorter, q
  <2>7. \A i \in DOMAIN Tail(q) : Tail(q)[i].kind = "rotate" => Tail(q)[i].cred # m.cred
    <3> SUFFICES ASSUME NEW i \in DOMAIN Tail(q), Tail(q)[i].kind = "rotate"
                 PROVE  Tail(q)[i].cred # m.cred
      OBVIOUS
    <3>1. /\ i + 1 \in DOMAIN q /\ 1 < i + 1 /\ Tail(q)[i] = q[i + 1]
      BY <1>2
    <3>2. m.cred < q[i + 1].cred /\ m.cred \in Nat
      BY <1>2, <2>3, <3>1 DEF Message
    <3> QED BY <3>1, <3>2
  <2>8. Rotation(registry, file, m.cred, InUse', Tail(q), carried, issued, cleared)
    BY <1>0, <2>3, <2>4, <2>6, <2>7, Stores
  <2>9. Rotation(registry, file, node.stored, InUse, ToNode, carried, issued, cleared)'
    BY <1>0, <2>2, <2>5, <2>8
  <2>10. NodeLinkTypeOK' /\ RevokedIsClosed'
    BY <1>0, <1>5, <2>2 DEF NodeLinkTypeOK, NodeLinkInv, RevokedIsClosed, Calmer
  <2> QED BY <1>6, <2>9, <2>10 DEF NodeLinkInv
<1> QED BY <1>7, <1>8

\* Dial: the new link is not greeted yet, and nothing is on it.
LEMMA DialKeeps ==
  ASSUME NodeLinkInv, Dial
  PROVE  NodeLinkInv'
<1>0. /\ NodeLinkTypeOK /\ node \in NodeState /\ registry \in Record
      /\ Rotation(registry, file, node.stored, InUse, ToNode, carried, issued, cleared)
      /\ UNCHANGED <<issued, carried, cleared>>
  BY RegistrySteps DEF NodeLinkInv, Dial, NodeLinkTypeOK
<1>1. CASE ~Admits(registry, node.mem)
  <2>1. node' = [node EXCEPT !.alive = FALSE] /\ UNCHANGED <<registry, file, sockets, link>>
    BY <1>1 DEF Dial
  <2>2. node' \in NodeState /\ node'.stored = node.stored /\ node'.mem = node.mem /\ node'.ws = node.ws
    BY <1>0, <2>1 DEF NodeState
  <2>3. Calmer(sockets, sockets') /\ NoneGreeted(sockets, sockets')
    BY <1>0, <2>1, CalmSame DEF NodeLinkTypeOK
  <2>4. LinkedIsOnline'
    BY <2>1, <2>3, StaysOnline
  <2> QED BY <1>0, <2>1, <2>2, <2>3, <2>4, CalmStep DEF NodeLinkInv
<1>2. CASE Admits(registry, node.mem)
  <2> DEFINE closed == HubCloses(sockets, link, "close")
             new == NewSocket(node.mem)
             n == Len(sockets) + 1
  <2>1. /\ registerNodeLink(registry, node.mem) /\ node' = [node EXCEPT !.ws = n]
    BY <1>2 DEF Dial
  <2>2. sockets' = Append(closed, new) /\ link' = n
    BY <2>1 DEF registerNodeLink
  <2>3. Alike(registry, registry') /\ file' = registry'
    BY <1>0, <2>1, StillProvable DEF registerNodeLink, Persist
  <2>4. Calmer(sockets, closed)
    BY <1>0, CalmClose DEF NodeLinkTypeOK
  <2>5. /\ new \in Socket /\ new.cred = node.mem /\ new.down = <<>> /\ ~new.greeted
    BY <1>0 DEF NewSocket, Socket, NodeState
  <2> HIDE DEF closed, new
  <2>6. /\ closed \in Seq(Socket) /\ DOMAIN closed = 1..Len(sockets) /\ Len(closed) = Len(sockets)
        /\ Len(sockets) \in Nat /\ DOMAIN sockets = 1..Len(sockets)
    BY <1>0, <2>4 DEF Calmer, NodeLinkTypeOK
  <2>7. /\ sockets' \in Seq(Socket) /\ DOMAIN sockets' = 1..n /\ sockets'[n] = new
        /\ \A s \in DOMAIN sockets : sockets'[s] = closed[s]
    BY <2>2, <2>5, <2>6, AppendProperties
  <2>8. /\ node' \in NodeState /\ node'.stored = node.stored /\ node'.mem = node.mem /\ node'.ws = n
    BY <1>0, <2>1, <2>6 DEF NodeState
  <2>9. InUse' \in SUBSET InUse /\ node.stored \in InUse'
    <3>1. \A s \in DOMAIN sockets' : sockets'[s].cred = node.mem \/ (s \in DOMAIN sockets /\ sockets'[s].cred = sockets[s].cred)
      BY <2>4, <2>5, <2>6, <2>7 DEF Calmer
    <3> QED BY <2>8, <3>1 DEF InUse
  <2>10. n # NoLink /\ ToNode' = <<>>
    BY <2>5, <2>6, <2>7, <2>8 DEF ToNode, NoLink
  <2>11. Rotation(registry', registry', node.stored, InUse, ToNode, carried, issued, cleared)
    BY <2>3, RegistrySteps DEF Alike
  <2>12. Shorter(ToNode, <<>>)
    BY DEF Shorter
  <2>13. Rotation(registry', registry', node.stored, InUse', <<>>, carried, issued, cleared)
    BY <2>9, <2>11, <2>12, Less
  <2>14. Rotation(registry, file, node.stored, InUse, ToNode, carried, issued, cleared)'
    BY <1>0, <2>3, <2>8, <2>10, <2>13
  <2>15. NodeLinkTypeOK'
    BY <2>2, <2>6, <2>7, <2>8 DEF NodeLinkTypeOK
  <2>16. RevokedIsClosed' /\ LinkedIsOnline'
    BY <1>2, <2>2, <2>3, <2>5, <2>7 DEF RevokedIsClosed, LinkedIsOnline, Admits, Alike
  <2> QED BY <2>14, <2>15, <2>16 DEF NodeLinkInv
<1> QED BY <1>1, <1>2

\* RotateManual and RotateOnline without a link: the sockets stay as they are.
LEMMA RotateAwayKeeps ==
  ASSUME NodeLinkInv, RotateManual \/ (RotateOnline /\ ~Usable)
  PROVE  NodeLinkInv'
<1>0. /\ NodeLinkTypeOK /\ node \in NodeState
      /\ Rotation(registry, file, node.stored, InUse, ToNode, carried, issued, cleared)
      /\ MayBegin(registry) /\ issued' = issued + 1
      /\ UNCHANGED <<sockets, link, node, cleared>>
  BY DEF NodeLinkInv, NodeLinkTypeOK, RotateManual, RotateOnline
<1>1. PICK state \in {"issuing", "failed"} :
        registry' = [registry EXCEPT !.next = issued + 1, !.state = state] /\ file' = registry'
  BY DEF RotateManual, RotateOnline, Persist, Begun
<1>2. carried' \in {carried, issued + 1}
  BY DEF RotateManual, RotateOnline
<1>3. Rotation(registry', registry', node.stored, InUse, ToNode, carried', issued + 1, cleared)
  BY <1>0, <1>1, <1>2, Begins
<1>4. registry'.revoked = registry.revoked /\ registry'.lost = registry.lost
  BY <1>1, RegistrySteps DEF Record
<1>5. Calmer(sockets, sockets') /\ NoneGreeted(sockets, sockets')
  BY <1>0, CalmSame DEF NodeLinkTypeOK
<1>6. LinkedIsOnline'
  BY <1>0, <1>4, <1>5, StaysOnline
<1> QED BY <1>0, <1>1, <1>3, <1>4, <1>5, <1>6, CalmStep DEF NodeLinkInv

\* RotateOnline over a link, which may or may not be the one the node is on.
LEMMA RotateOnlineKeeps ==
  ASSUME NodeLinkInv, RotateOnline, Usable
  PROVE  NodeLinkInv'
<1> DEFINE m == Msg("rotate", issued + 1)
           x == [sockets[link] EXCEPT !.down = IF sockets[link].broken THEN @ ELSE Append(@, m)]
<1>0. /\ NodeLinkTypeOK /\ node \in NodeState
      /\ Rotation(registry, file, node.stored, InUse, ToNode, carried, issued, cleared)
      /\ MayBegin(registry) /\ issued' = issued + 1
      /\ UNCHANGED <<link, node, carried, cleared>>
  BY DEF NodeLinkInv, NodeLinkTypeOK, RotateOnline
<1>1. registry' = [registry EXCEPT !.next = issued + 1, !.state = "issuing"] /\ file' = registry'
  BY DEF RotateOnline, Persist, Begun
<1>2. sockets' = [sockets EXCEPT ![link] = x]
  BY DEF RotateOnline
<1>3. sockets \in Seq(Socket) /\ link \in DOMAIN sockets /\ sockets[link] \in Socket
  <2>1. sockets \in Seq(Socket) /\ link \in DOMAIN sockets
    BY <1>0 DEF NodeLinkTypeOK, Usable
  <2> QED BY <2>1, ElementOfSeq
<1>4. m \in Message /\ Append(sockets[link].down, m) \in Seq(Message)
  <2>1. m \in Message
    BY <1>0 DEF Msg, Message, Rotation
  <2>2. sockets[link].down \in Seq(Message)
    BY <1>3 DEF Socket
  <2> QED BY <2>1, <2>2, AppendProperties
<1> HIDE DEF m
<1>5. /\ x \in Socket /\ x.cred = sockets[link].cred /\ x.hub = sockets[link].hub
      /\ x.greeted = sockets[link].greeted
      /\ x.down \in {sockets[link].down, Append(sockets[link].down, m)}
  BY <1>3, <1>4 DEF Socket
<1> HIDE DEF x
<1>6. /\ sockets' \in Seq(Socket) /\ DOMAIN sockets' = DOMAIN sockets /\ sockets'[link] = x
      /\ \A u \in DOMAIN sockets : u # link => sockets'[u] = sockets[u]
  BY <1>2, <1>3, <1>5, OneSocket
<1>7. InUse' = InUse
  BY <1>0, <1>5, <1>6 DEF InUse
<1>8. ToNode' = ToNode \/ ToNode' = Append(ToNode, m)
  <2>1. CASE node.ws = link
    BY <1>0, <1>5, <1>6, <2>1 DEF ToNode
  <2>2. CASE node.ws # link
    BY <1>0, <1>6, <2>2 DEF ToNode, NodeLinkTypeOK
  <2> QED BY <2>1, <2>2
<1>9. Rotation(registry', registry', node.stored, InUse, ToNode', carried, issued + 1, cleared)
  BY <1>0, <1>1, <1>8, Begins DEF m
<1>10. Rotation(registry, file, node.stored, InUse, ToNode, carried, issued, cleared)'
  BY <1>0, <1>1, <1>7, <1>9
<1>11. registry'.revoked = registry.revoked /\ registry'.lost = registry.lost
  BY <1>1, RegistrySteps DEF Record
<1>12. NodeLinkTypeOK' /\ RevokedIsClosed'
  BY <1>0, <1>5, <1>6, <1>11 DEF NodeLinkTypeOK, RevokedIsClosed, NodeLinkInv
<1>13. LinkedIsOnline'
  BY <1>0, <1>5, <1>6, <1>11 DEF LinkedIsOnline, Usable, NodeLinkInv
<1> QED BY <1>10, <1>12, <1>13 DEF NodeLinkInv

\* CarryToNode: the operator writes the credential to the node's file.
LEMMA CarryKeeps ==
  ASSUME NodeLinkInv, CarryToNode
  PROVE  NodeLinkInv'
<1>0. /\ NodeLinkTypeOK /\ node \in NodeState
      /\ Rotation(registry, file, node.stored, InUse, ToNode, carried, issued, cleared)
      /\ carried # NoCred /\ carried' = NoCred /\ node' = [node EXCEPT !.stored = carried]
      /\ UNCHANGED <<registry, file, sockets, link, issued, cleared>>
  BY DEF NodeLinkInv, NodeLinkTypeOK, CarryToNode
<1>1. Unused(registry, carried, InUse, issued, cleared) /\ carried \in Nat
  BY <1>0 DEF Rotation, Unused
<1>2. node' \in NodeState /\ node'.stored = carried /\ node'.mem = node.mem /\ node'.ws = node.ws
  BY <1>0, <1>1 DEF NodeState
<1>3. InUse' \in SUBSET (InUse \cup {carried}) /\ carried \in InUse' /\ ToNode' = ToNode
  BY <1>0, <1>2 DEF InUse, ToNode
<1>4. Shorter(ToNode, ToNode)
  BY DEF Shorter
<1>5. \A i \in DOMAIN ToNode : ToNode[i].kind = "rotate" =>
        ToNode[i].cred \in cleared \/ ToNode[i].cred # carried
  BY <1>0 DEF Rotation, Queued
<1>6. Rotation(registry, file, carried, InUse', ToNode, NoCred, issued, cleared)
  BY <1>0, <1>1, <1>3, <1>4, <1>5, Stores
<1>7. Rotation(registry, file, node.stored, InUse, ToNode, carried, issued, cleared)'
  BY <1>0, <1>2, <1>3, <1>6
<1> QED BY <1>0, <1>2, <1>7 DEF NodeLinkInv, NodeLinkTypeOK, RevokedIsClosed, LinkedIsOnline, Usable

\* NodeDies, maybe right after it has written a credential.
LEMMA NodeDiesKeeps ==
  ASSUME NodeLinkInv, NEW c \in 1..MaxCredentials, NodeDies(c)
  PROVE  NodeLinkInv'
<1>0. /\ NodeLinkTypeOK /\ node \in NodeState
      /\ Rotation(registry, file, node.stored, InUse, ToNode, carried, issued, cleared)
      /\ node' = [node EXCEPT !.stored = c, !.alive = FALSE, !.ws = NoLink]
      /\ sockets' = IF node.ws = NoLink THEN sockets ELSE BreakSocket(sockets, node.ws)
      /\ UNCHANGED <<registry, file, link, issued, carried, cleared>>
  BY DEF NodeLinkInv, NodeLinkTypeOK, NodeDies
<1>1. Calmer(sockets, sockets') /\ NoneGreeted(sockets, sockets')
  <2>1. CASE node.ws = NoLink
    BY <1>0, <2>1, CalmSame DEF NodeLinkTypeOK
  <2>2. CASE node.ws # NoLink
    BY <1>0, <2>2, CalmLoss DEF NodeLinkTypeOK
  <2> QED BY <2>1, <2>2
<1>2. LinkedIsOnline'
  BY <1>0, <1>1, StaysOnline
<1>3. c \in Nat
  BY NodeLinkConstants
<1>4. node' \in NodeState /\ node'.stored = c /\ node'.mem = node.mem /\ node'.ws = NoLink
  BY <1>0, <1>3 DEF NodeState, NoLink
<1>5. CASE c = node.stored
  BY <1>0, <1>1, <1>2, <1>4, <1>5, CalmStep DEF NodeLinkInv
<1>6. CASE node.ws # NoLink /\ \E m \in Range(sockets[node.ws].down) : m = Msg("rotate", c)
  <2>1. sockets[node.ws] \in Socket /\ ToNode = sockets[node.ws].down
    BY <1>0, <1>6, ElementOfSeq DEF NodeLinkTypeOK, ToNode
  <2>2. PICK i \in DOMAIN ToNode : ToNode[i] = Msg("rotate", c)
    BY <1>6, <2>1 DEF Range
  <2>3. Unused(registry, c, InUse, issued, cleared) /\ (c \in cleared \/ c # carried)
    BY <1>0, <2>2 DEF Rotation, Queued, Msg
  <2>4. InUse' \in SUBSET (InUse \cup {c}) /\ c \in InUse' /\ ToNode' = <<>>
    BY <1>1, <1>4 DEF InUse, ToNode, Calmer
  <2>5. Shorter(ToNode, <<>>) /\ DOMAIN <<>> = {}
    BY DEF Shorter
  <2>6. Rotation(registry, file, c, InUse', <<>>, carried, issued, cleared)
    BY <1>0, <2>3, <2>4, <2>5, Stores
  <2>7. Rotation(registry, file, node.stored, InUse, ToNode, carried, issued, cleared)'
    BY <1>0, <1>4, <2>4, <2>6
  <2>8. NodeLinkTypeOK' /\ RevokedIsClosed'
    BY <1>0, <1>1, <1>4 DEF NodeLinkTypeOK, NodeLinkInv, RevokedIsClosed, Calmer
  <2> QED BY <1>2, <2>7, <2>8 DEF NodeLinkInv
<1> QED BY <1>5, <1>6 DEF NodeDies

\* Every socket is replaced by one in its place.
LEMMA CalmAll ==
  ASSUME NEW ss \in Seq(Socket), NEW tt, tt = [s \in DOMAIN ss |-> tt[s]],
         \A s \in DOMAIN ss : /\ tt[s] \in Socket /\ tt[s].cred = ss[s].cred
                              /\ tt[s].hub # "open" /\ Shorter(ss[s].down, tt[s].down)
  PROVE  Calmer(ss, tt)
<1>1. Len(ss) \in Nat /\ DOMAIN ss = 1..Len(ss)
  OBVIOUS
<1>2. tt \in [1..Len(ss) -> Socket]
  BY <1>1
<1>3. tt \in Seq(Socket) /\ DOMAIN tt = DOMAIN ss
  BY <1>1, <1>2
<1> QED BY <1>3 DEF Calmer

\* RevokeNode: no socket is open afterwards.
LEMMA RevokeKeeps ==
  ASSUME NodeLinkInv, RevokeNode
  PROVE  NodeLinkInv'
<1>0. /\ NodeLinkTypeOK /\ registry \in Record
      /\ registry' = [registry EXCEPT !.revoked = TRUE] /\ file' = registry'
      /\ sockets' = [s \in DOMAIN sockets |-> HubCloses(sockets, s, "revoked")[s]]
      /\ UNCHANGED <<link, node, issued, carried, cleared>>
  BY RegistrySteps DEF NodeLinkInv, RevokeNode, RevokeSockets, Persist
<1>1. sockets \in Seq(Socket) /\ node \in NodeState
  BY <1>0 DEF NodeLinkTypeOK
<1>2. ASSUME NEW s \in DOMAIN sockets
      PROVE  /\ sockets'[s] \in Socket /\ sockets'[s].cred = sockets[s].cred
             /\ sockets'[s].hub # "open" /\ Shorter(sockets[s].down, sockets'[s].down)
             /\ sockets'[s].greeted => sockets[s].greeted
  <2> DEFINE tt == HubCloses(sockets, s, "revoked")
  <2>1. /\ Calmer(sockets, tt) /\ NoneGreeted(sockets, tt)
        /\ s # NoLink => tt[s].hub # "open"
    BY <1>1, CalmClose
  <2>2. s # NoLink
    BY <1>1 DEF NoLink
  <2>3. sockets'[s] = tt[s]
    BY <1>0
  <2> HIDE DEF tt
  <2>4. tt \in Seq(Socket) /\ s \in DOMAIN tt
    BY <2>1 DEF Calmer
  <2>5. tt[s] \in Socket
    BY <2>4, ElementOfSeq
  <2> QED BY <2>1, <2>2, <2>3, <2>5 DEF Calmer, NoneGreeted
<1>3. sockets' = [s \in DOMAIN sockets |-> sockets'[s]]
  BY <1>0
<1>4. Calmer(sockets, sockets') /\ NoneGreeted(sockets, sockets')
  BY <1>1, <1>2, <1>3, CalmAll DEF NoneGreeted
<1>5. /\ registry' \in Record /\ registry'.active = registry.active /\ registry'.next = registry.next
      /\ registry'.lost = registry.lost /\ (Provable(registry') <=> Provable(registry))
  BY <1>0 DEF Record, Provable
<1>6. Rotation(registry', file', node.stored, InUse, ToNode, carried, issued, cleared)
  BY <1>0, <1>5, RegistrySteps
<1>7. LinkedIsOnline'
  BY <1>0, <1>4, <1>5, StaysOnline
<1>8. RevokedIsClosed'
  BY <1>2, <1>4 DEF RevokedIsClosed, Calmer
<1> QED BY <1>0, <1>1, <1>4, <1>6, <1>7, <1>8, CalmStep DEF NodeLinkInv

\* HubRestarts: the registry is what its file says, and all sockets are gone.
LEMMA RestartKeeps ==
  ASSUME NodeLinkInv, HubRestarts
  PROVE  NodeLinkInv'
<1>0. /\ NodeLinkTypeOK
      /\ Rotation(registry, file, node.stored, InUse, ToNode, carried, issued, cleared)
      /\ registry' = file /\ file' = file /\ link' = NoLink
      /\ sockets' = [s \in DOMAIN sockets |-> [BreakSocket(sockets, s)[s] EXCEPT !.hub = "closed"]]
      /\ UNCHANGED <<node, issued, carried, cleared>>
  BY DEF NodeLinkInv, HubRestarts
<1>1. sockets \in Seq(Socket) /\ node \in NodeState
  BY <1>0 DEF NodeLinkTypeOK
<1>2. ASSUME NEW s \in DOMAIN sockets
      PROVE  /\ sockets'[s] \in Socket /\ sockets'[s].cred = sockets[s].cred
             /\ sockets'[s].hub # "open" /\ Shorter(sockets[s].down, sockets'[s].down)
  <2>1. sockets[s] \in Socket /\ <<>> \in Seq(Message)
    BY <1>1, ElementOfSeq
  <2>2. BreakSocket(sockets, s)[s] = [sockets[s] EXCEPT !.broken = TRUE, !.up = <<>>, !.down = <<>>]
    BY DEF BreakSocket
  <2>3. sockets'[s] = [sockets[s] EXCEPT !.broken = TRUE, !.up = <<>>, !.down = <<>>, !.hub = "closed"]
    BY <1>0, <2>2
  <2>4. /\ sockets'[s] \in Socket /\ sockets'[s].cred = sockets[s].cred
        /\ sockets'[s].hub = "closed" /\ sockets'[s].down = <<>>
    BY <2>1, <2>3 DEF Socket
  <2> QED BY <2>4 DEF Shorter
<1>3. sockets' = [s \in DOMAIN sockets |-> sockets'[s]]
  BY <1>0
<1>4. Calmer(sockets, sockets')
  BY <1>1, <1>2, <1>3, CalmAll
<1>5. Rotation(registry', file', node.stored, InUse, ToNode, carried, issued, cleared)
  BY <1>0, ReadBack
<1>6. RevokedIsClosed'
  BY <1>2, <1>4 DEF RevokedIsClosed, Calmer
<1>7. LinkedIsOnline'
  BY <1>0, <1>4, StaysOnline
<1> QED BY <1>0, <1>1, <1>4, <1>5, <1>6, <1>7, CalmStep DEF NodeLinkInv

-----------------------------------------------------------------------------
(* The theorems.                                                           *)

\* Every reachable state meets the invariant.
LEMMA NodeLinkInvariant == NodeLinkSpec => []NodeLinkInv
<1>1. NodeLinkInit => NodeLinkInv
  <2> SUFFICES ASSUME NodeLinkInit PROVE NodeLinkInv
    OBVIOUS
  <2> USE DEF NodeLinkInit
  <2>1. sockets \in Seq(Socket) /\ DOMAIN sockets = {} /\ <<>> \in Seq(Message) /\ DOMAIN <<>> = {}
    OBVIOUS
  <2>2. NodeLinkTypeOK /\ RevokedIsClosed /\ LinkedIsOnline
    BY <2>1 DEF NodeLinkTypeOK, NodeState, NoLink, RevokedIsClosed, LinkedIsOnline
  <2>3. registry \in Record /\ ~Provable(registry) /\ file = registry
    BY DEF Record, NoCred, Provable
  <2>4. Shape(registry, 1) /\ Shape(file, 1) /\ Behind(file, registry)
    BY <2>3 DEF Shape, Behind
  <2>5. InUse = {1} /\ ToNode = <<>>
    BY <2>1 DEF InUse, ToNode
  <2>6. Queued(registry, <<>>, {1}, NoCred, 1, {})
    BY <2>1 DEF Queued
  <2>7. Rotation(registry, file, 1, {1}, <<>>, NoCred, 1, {})
    BY <2>1, <2>3, <2>4, <2>6 DEF Rotation
  <2> QED BY <2>2, <2>5, <2>7 DEF NodeLinkInv
<1>2. NodeLinkInv /\ [NodeLinkNext]_nodeLinkVars => NodeLinkInv'
  <2> SUFFICES ASSUME NodeLinkInv, [NodeLinkNext]_nodeLinkVars PROVE NodeLinkInv'
    OBVIOUS
  <2>1. CASE UNCHANGED nodeLinkVars
    BY <2>1 DEF nodeLinkVars, NodeLinkInv, NodeLinkTypeOK, RevokedIsClosed, LinkedIsOnline, Usable,
                InUse, ToNode
  <2>2. CASE NodeLinkNext
    BY <2>2, RegistryActions, DialKeeps, HubReceivesKeeps, HubNoticesCloseKeeps, NodeActions,
       RotateAwayKeeps, RotateOnlineKeeps, CarryKeeps, RevokeKeeps, NodeReceivesKeeps,
       NodeDiesKeeps, RestartKeeps DEF NodeLinkNext
  <2> QED BY <2>1, <2>2
<1> QED BY <1>1, <1>2, PTL DEF NodeLinkSpec

\* resolveCredentialForAuth accepts the credential in the node's file, before
\* and after a crash of the hub, unless its rotation was cleared or the node
\* revoked, whatever becomes of a rotation's messages, calls and processes.
THEOREM NodeNeverLockedOut == NodeLinkSpec => []NeverLockedOut
<1>1. NodeLinkInv => NeverLockedOut
  BY DEF NodeLinkInv, Rotation, Behind, NeverLockedOut, Admits, Provable
<1> QED BY <1>1, NodeLinkInvariant, PTL

\* A credential that clearCredentialRotationFailure dropped, or that a proved
\* rotation replaced in the file, is never accepted again.
THEOREM DeadCredentials == NodeLinkSpec => []DeadStayDead
<1>1. NodeLinkInv => DeadStayDead
  <2> SUFFICES ASSUME NodeLinkInv, NEW c \in 1..issued, c \in cleared \/ c < file.active
               PROVE  ~Admits(registry, c) /\ ~Admits(file, c)
    BY DEF DeadStayDead
  <2>1. /\ issued \in Nat /\ Shape(registry, issued) /\ Shape(file, issued) /\ Behind(file, registry)
        /\ \A x \in cleared : x # file.active /\ x # registry.active /\ (Provable(registry) => x # registry.next)
    BY DEF NodeLinkInv, Rotation
  <2>2. file.active <= registry.active
    BY <2>1 DEF Shape, Behind
  <2> QED BY <2>1, <2>2 DEF Admits, Shape, Behind, Provable
<1> QED BY <1>1, NodeLinkInvariant, PTL

\* markDisconnected for a link that was replaced does not take the node
\* offline while the newer link is open and has greeted.
THEOREM LinkedNodeIsOnline == NodeLinkSpec => []LinkedIsOnline
<1>1. NodeLinkInv => LinkedIsOnline
  BY DEF NodeLinkInv
<1> QED BY <1>1, NodeLinkInvariant, PTL

\* revokeNode is for good: no restart or late write of the registry brings the
\* node back, and no socket of it is open any more.
THEOREM RevocationIsFinal == NodeLinkSpec => RevokedForGood
<1>1. NodeLinkInv /\ NodeLinkInv' /\ [NodeLinkNext]_nodeLinkVars =>
        [registry.revoked =>
           registry'.revoked /\ \A s \in DOMAIN sockets' : sockets'[s].hub # "open"]_nodeLinkVars
  <2> SUFFICES ASSUME NodeLinkInv, NodeLinkInv', NodeLinkNext, registry.revoked
               PROVE  registry'.revoked
    BY DEF NodeLinkInv, RevokedIsClosed
  <2>0. registry \in Record /\ file.revoked
    BY RegistrySteps DEF NodeLinkInv, Rotation, Behind
  <2>1. \A c : ~Admits(registry, c)
    BY DEF Admits
  <2>2. \/ UNCHANGED registry \/ registry' = file
        \/ registry' = [registry EXCEPT !.next = NoCred, !.state = "none"]
        \/ \E cs : registry' = failCredentialRotation(registry, cs)
        \/ \E c : registry' = markCredentialRotationDelivered(registry, c)
    <3>1. CASE FlushHeartbeat \/ Dial \/ HttpHeartbeat \/ (\E p \in pending : RpcTimesOut(p))
      BY <2>1, <3>1 DEF FlushHeartbeat, Dial, HttpHeartbeat, RpcTimesOut, Persist
    <3>2. ASSUME NEW s \in DOMAIN sockets, HubReceives(s) \/ HubNoticesClose(s) \/ SocketBreaks(s)
          PROVE  \/ UNCHANGED registry
                 \/ \E cs : registry' = failCredentialRotation(registry, cs)
                 \/ \E c : registry' = markCredentialRotationDelivered(registry, c)
      BY <3>2 DEF HubReceives, Answered, HubNoticesClose, MarksOffline, SocketBreaks, Persist
    <3>3. CASE RotateOnline \/ RotateManual \/ CarryToNode \/ ClearRotation \/ RevokeNode
      BY <3>3 DEF RotateOnline, RotateManual, MayBegin, CarryToNode, ClearRotation, RevokeNode, Persist
    <3>4. CASE NodeStarts \/ NodeGreets \/ StopTimer \/ NodeNoticesClose
               \/ (\E written \in BOOLEAN : NodeReceives(written))
               \/ (\E c \in 1..MaxCredentials : NodeDies(c)) \/ HubRestarts
      BY <3>4 DEF NodeStarts, NodeGreets, StopTimer, NodeNoticesClose, NodeReceives, NodeDies,
                  HubRestarts
    <3> QED BY <3>1, <3>2, <3>3, <3>4 DEF NodeLinkNext
  <2>3. \A r : Alike(registry, r) => r.revoked
    BY DEF Alike
  <2> QED BY <2>0, <2>2, <2>3, StillProvable DEF Record
<1> QED BY <1>1, NodeLinkInvariant, PTL DEF NodeLinkSpec, RevokedForGood
=============================================================================
