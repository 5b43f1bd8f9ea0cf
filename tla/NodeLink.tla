------------------------------ MODULE NodeLink ------------------------------
(***************************************************************************)
(* A remote node on its link to the hub: the registry with its rotation of *)
(* the node's credential (server/hub-node-registry.ts), the hub's end of   *)
(* the link (server/hub-node-link.ts), the node's end                      *)
(* (server/node-link-client.ts, node-link-rpc-host.ts, bin/relay-ide.ts)   *)
(* and those who start a rotation (hub-node-router.ts,                     *)
(* credential-rotation-scheduler.ts).                                      *)
(*                                                                         *)
(* Credentials are numbered in the order they are issued. A socket carries *)
(* messages in order both ways; either end may be the first to notice that *)
(* it is gone. Of the calls over the link only credential.rotate is        *)
(* modelled.                                                               *)
(***************************************************************************)
EXTENDS Integers, Sequences, FiniteSets, SequencesExt

CONSTANTS
  \* Exploration bounds: credentials issued, sockets opened, and faults (lost
  \* sockets, crashes, answers that take too long, a node that cannot write).
  MaxCredentials, MaxLinks, MaxLinkFaults

ASSUME NodeLinkConstants == {MaxCredentials, MaxLinks, MaxLinkFaults} \subseteq Nat \ {0}

VARIABLES
  registry,   \* the node's record in the hub's memory
  file,       \* the same in the registry file
  sockets,    \* every socket there was, with what is on its way
  link,       \* links: the socket registered for the node, or NoLink
  pending,    \* credential.rotate calls not yet answered
  node,       \* the credential file, and the process with its own copy
  issued,     \* how many credentials there are
  carried,    \* the one an operator carries to the node by hand, or NoCred
  cleared,    \* those whose rotation was cleared
  linkFaults  \* faults so far (exploration bound)

nodeLinkVars == <<registry, file, sockets, link, pending, node, issued,
                  carried, cleared, linkFaults>>

NoLink == 0
NoCred == 0

NewSocket(c) == [cred |-> c, hub |-> "open", broken |-> FALSE, greeted |-> FALSE,
                 up |-> <<>>, down |-> <<>>]

Msg(kind, c) == [kind |-> kind, cred |-> c]

NodeLinkInit ==
  /\ registry = [active |-> 1, next |-> NoCred, state |-> "none",
                 revoked |-> FALSE, lost |-> FALSE]
  /\ file = registry
  /\ sockets = <<>> /\ link = NoLink /\ pending = {}
  /\ node = [stored |-> 1, mem |-> 1, alive |-> FALSE, ws |-> NoLink, stopping |-> FALSE]
  /\ issued = 1 /\ carried = NoCred /\ cleared = {} /\ linkFaults = 0

LinkFault == linkFaults < MaxLinkFaults /\ linkFaults' = linkFaults + 1

-----------------------------------------------------------------------------
(* The registry.                                                           *)

\* provableRotation: issued, delivered and failed ones.
Provable(r) == r.state \notin {"none", "stable"}

\* resolveCredentialForAuth.
Admits(r, c) == ~r.revoked /\ (c = r.active \/ (Provable(r) /\ c = r.next))

\* proveCredentialRotation.
proveCredentialRotation(r, c) ==
  IF Provable(r) /\ c = r.next THEN [r EXCEPT !.active = c, !.state = "stable"] ELSE r

\* recordHeartbeat, for a node that is not revoked.
recordHeartbeat(r, c) == [proveCredentialRotation(r, c) EXCEPT !.lost = FALSE]

\* Mutation: a failed rotation cannot be proved any more.
FailForgets(r, cs) ==
  IF Provable(r) /\ r.next \in cs THEN [r EXCEPT !.state = "none", !.next = NoCred] ELSE r

\* failCredentialRotation, for whichever of these credentials is being issued.
failCredentialRotation(r, cs) ==
  IF Provable(r) /\ r.next \in cs THEN [r EXCEPT !.state = "failed"] ELSE r

markCredentialRotationDelivered(r, c) ==
  IF r.state = "issuing" /\ r.next = c THEN [r EXCEPT !.state = "delivered"] ELSE r

\* persist
Persist(r) == registry' = r /\ file' = r

\* The debounced write after a heartbeat.
FlushHeartbeat ==
  /\ file # registry
  /\ file' = registry
  /\ UNCHANGED <<registry, sockets, link, pending, node, issued, carried, cleared, linkFaults>>

-----------------------------------------------------------------------------
(* The hub's end of the link.                                              *)

Usable == link # NoLink /\ sockets[link].hub = "open"

PendingOn(s) == {p \in pending : p.socket = s}
CredsOf(ps) == {p.cred : p \in ps}

\* close: what was sent before is still to arrive, and so is the other end's.
HubCloses(ss, s, kind) ==
  IF s # NoLink /\ ss[s].hub = "open"
  THEN [ss EXCEPT ![s].hub = "closing",
                  ![s].down = IF ss[s].broken THEN @ ELSE Append(@, Msg(kind, NoCred))]
  ELSE ss

\* commitCredentialAllow and registerNodeLink: a newer link replaces the one
\* there is, and fails the calls on it.
registerNodeLink(r, c) ==
  /\ Persist(failCredentialRotation(r, CredsOf(PendingOn(link))))
  /\ sockets' = Append(HubCloses(sockets, link, "close"), NewSocket(c))
  /\ link' = Len(sockets) + 1
  /\ pending' = pending \ PendingOn(link)

\* An upgrade with the credential the node's process has. One the hub does not
\* accept ends the process.
Dial ==
  /\ node.alive /\ node.ws = NoLink
  /\ Len(sockets) < MaxLinks
  /\ IF Admits(registry, node.mem)
     THEN registerNodeLink(registry, node.mem) /\ node' = [node EXCEPT !.ws = Len(sockets) + 1]
     ELSE node' = [node EXCEPT !.alive = FALSE] /\ UNCHANGED <<registry, file, sockets, link, pending>>
  /\ UNCHANGED <<issued, carried, cleared, linkFaults>>

\* A heartbeat over HTTP, with the stored credential.
HttpHeartbeat ==
  /\ Admits(registry, node.stored)
  /\ registry' = recordHeartbeat(registry, node.stored)
  /\ file' = registry
  /\ UNCHANGED <<sockets, link, pending, node, issued, carried, cleared, linkFaults>>

\* The answer to a call that nobody waits for any more is dropped.
Answered(m) ==
  LET done == {p \in pending : p.cred = m.cred}
  IN /\ pending' = pending \ done
     /\ IF done = {} THEN UNCHANGED <<registry, file>>
        ELSE IF m.kind = "ok" THEN Persist(markCredentialRotationDelivered(registry, m.cred))
        ELSE Persist(failCredentialRotation(registry, {m.cred}))

HubReceives(s) ==
  LET m == Head(sockets[s].up)
      taken == [sockets EXCEPT ![s].up = Tail(@)]
  IN /\ sockets[s].hub # "closed" /\ sockets[s].up # <<>> /\ m.kind # "close"
     /\ IF m.kind = "hello"
        THEN /\ UNCHANGED <<file, pending>>
             /\ IF registry.revoked THEN registry' = registry /\ sockets' = taken
                ELSE /\ registry' = recordHeartbeat(registry, sockets[s].cred)
                     /\ sockets' = [taken EXCEPT ![s].greeted = TRUE]
        ELSE sockets' = taken /\ Answered(m)
     /\ UNCHANGED <<link, node, issued, carried, cleared, linkFaults>>

\* Mutation: a link that is gone always takes the node offline.
OfflineAnyway(s, ss) == ~registry.revoked

\* markDisconnected: not while another link is in use.
MarksOffline(s, ss) ==
  ~registry.revoked /\ ~(link \notin {NoLink, s} /\ ss[link].hub = "open")

\* unregisterNodeLink and markDisconnected, on the close event.
HubNoticesClose(s) ==
  LET ss == [sockets EXCEPT ![s].hub = "closed"]
      failed == failCredentialRotation(registry, CredsOf(PendingOn(s)))
  IN /\ sockets[s].hub # "closed"
     /\ sockets[s].broken \/ (sockets[s].up # <<>> /\ Head(sockets[s].up).kind = "close")
     /\ sockets' = ss
     /\ link' = IF link = s THEN NoLink ELSE link
     /\ pending' = pending \ PendingOn(s)
     /\ IF MarksOffline(s, ss) THEN Persist([failed EXCEPT !.lost = TRUE])
        ELSE IF failed # registry THEN Persist(failed) ELSE UNCHANGED <<registry, file>>
     /\ UNCHANGED <<node, issued, carried, cleared, linkFaults>>

\* The timer of a call.
RpcTimesOut(p) ==
  /\ p \in pending /\ LinkFault
  /\ pending' = pending \ {p}
  /\ Persist(failCredentialRotation(registry, {p.cred}))
  /\ UNCHANGED <<sockets, link, node, issued, carried, cleared>>

-----------------------------------------------------------------------------
(* Operators and the scheduler.                                            *)

\* assertNoActiveRotation
MayBegin(r) == ~r.revoked /\ ~Provable(r)

Begun(c, state) == [registry EXCEPT !.next = c, !.state = state]

\* beginCredentialRotation and the online delivery, which fails at once when
\* there is no link. (The scheduler does not even begin then.)
RotateOnline ==
  LET c == issued + 1
  IN /\ MayBegin(registry) /\ issued < MaxCredentials
     /\ issued' = c
     /\ IF Usable
        THEN /\ Persist(Begun(c, "issuing"))
             /\ pending' = pending \cup {[socket |-> link, cred |-> c]}
             /\ sockets' = [sockets EXCEPT ![link].down =
                              IF sockets[link].broken THEN @ ELSE Append(@, Msg("rotate", c))]
        ELSE Persist(Begun(c, "failed")) /\ UNCHANGED <<pending, sockets>>
     /\ UNCHANGED <<link, node, carried, cleared, linkFaults>>

\* The manual delivery: the operator gets the credential.
RotateManual ==
  /\ MayBegin(registry) /\ issued < MaxCredentials
  /\ issued' = issued + 1 /\ carried' = issued + 1
  /\ Persist(Begun(issued + 1, "issuing"))
  /\ UNCHANGED <<sockets, link, pending, node, cleared, linkFaults>>

CarryToNode ==
  /\ carried # NoCred
  /\ node' = [node EXCEPT !.stored = carried] /\ carried' = NoCred
  /\ UNCHANGED <<registry, file, sockets, link, pending, issued, cleared, linkFaults>>

\* Mutation: the removal is not written.
ClearUnsaved ==
  /\ Provable(registry)
  /\ cleared' = cleared \cup {registry.next}
  /\ registry' = [registry EXCEPT !.next = NoCred, !.state = "none"]
  /\ UNCHANGED <<file, sockets, link, pending, node, issued, carried, linkFaults>>

\* clearCredentialRotationFailure: any rotation that is not stable.
ClearRotation ==
  /\ Provable(registry)
  /\ cleared' = cleared \cup {registry.next}
  /\ Persist([registry EXCEPT !.next = NoCred, !.state = "none"])
  /\ UNCHANGED <<sockets, link, pending, node, issued, carried, linkFaults>>

RevokeSockets == [s \in DOMAIN sockets |-> HubCloses(sockets, s, "revoked")[s]]

\* Mutation: the revocation waits for the next heartbeat to be written.
RevokeUnsaved ==
  /\ ~registry.revoked
  /\ registry' = [registry EXCEPT !.revoked = TRUE]
  /\ sockets' = RevokeSockets
  /\ UNCHANGED <<file, link, pending, node, issued, carried, cleared, linkFaults>>

\* revokeNode: every socket of the node is told and closed.
RevokeNode ==
  /\ ~registry.revoked
  /\ Persist([registry EXCEPT !.revoked = TRUE])
  /\ sockets' = RevokeSockets
  /\ UNCHANGED <<link, pending, node, issued, carried, cleared, linkFaults>>

-----------------------------------------------------------------------------
(* The node.                                                               *)

\* What the client sends on its socket. Nothing arrives on a broken one.
Upward(ss, m) ==
  IF node.ws = NoLink \/ ss[node.ws].broken THEN ss
  ELSE [ss EXCEPT ![node.ws].up = Append(@, m)]

\* The process starts, by hand or by its service manager, and reads the file.
NodeStarts ==
  /\ ~node.alive
  /\ node' = [node EXCEPT !.alive = TRUE, !.mem = node.stored, !.ws = NoLink, !.stopping = FALSE]
  /\ UNCHANGED <<registry, file, sockets, link, pending, issued, carried, cleared, linkFaults>>

\* sendHello and the heartbeats.
NodeGreets ==
  /\ node.alive /\ node.ws # NoLink
  /\ sockets[node.ws].up = <<>> /\ ~sockets[node.ws].broken
  /\ sockets' = Upward(sockets, Msg("hello", NoCred))
  /\ UNCHANGED <<registry, file, link, pending, node, issued, carried, cleared, linkFaults>>

\* stop: the socket is closed and the process ends.
NodeStops(ss) ==
  /\ sockets' = Upward(ss, Msg("close", NoCred))
  /\ node' = [node EXCEPT !.alive = FALSE, !.ws = NoLink]

\* handleCredentialRotate: the credential is written, the call answered, and
\* the process ends a moment later; or it cannot be written.
NodeRotates(ss, c, written) ==
  /\ sockets' = Upward(ss, Msg(IF written THEN "ok" ELSE "error", c))
  /\ IF written THEN node' = [node EXCEPT !.stored = c, !.stopping = TRUE] /\ UNCHANGED linkFaults
     ELSE UNCHANGED node /\ LinkFault

NodeReceives(written) ==
  LET m == Head(sockets[node.ws].down)
      ss == [sockets EXCEPT ![node.ws].down = Tail(@)]
  IN /\ node.alive /\ node.ws # NoLink /\ sockets[node.ws].down # <<>>
     /\ ~written => m.kind = "rotate"
     /\ CASE m.kind = "rotate" -> NodeRotates(ss, m.cred, written)
          [] m.kind = "revoked" -> NodeStops(ss) /\ UNCHANGED linkFaults
          [] OTHER -> /\ sockets' = Upward(ss, Msg("close", NoCred))
                      /\ node' = [node EXCEPT !.ws = NoLink] /\ UNCHANGED linkFaults
     /\ UNCHANGED <<registry, file, link, pending, issued, carried, cleared>>

\* The timer that restarts the process after a rotation.
StopTimer ==
  /\ node.alive /\ node.stopping
  /\ NodeStops(sockets)
  /\ UNCHANGED <<registry, file, link, pending, issued, carried, cleared, linkFaults>>

NodeNoticesClose ==
  /\ node.alive /\ node.ws # NoLink /\ sockets[node.ws].broken
  /\ node' = [node EXCEPT !.ws = NoLink]
  /\ UNCHANGED <<registry, file, sockets, link, pending, issued, carried, cleared, linkFaults>>

-----------------------------------------------------------------------------
(* Faults.                                                                 *)

BreakSocket(ss, s) == [ss EXCEPT ![s].broken = TRUE, ![s].up = <<>>, ![s].down = <<>>]

SocketBreaks(s) ==
  /\ ~sockets[s].broken /\ sockets[s].hub # "closed" /\ LinkFault
  /\ sockets' = BreakSocket(sockets, s)
  /\ UNCHANGED <<registry, file, link, pending, node, issued, carried, cleared>>

\* The process is killed, maybe right after it has written a credential.
NodeDies(c) ==
  /\ node.alive /\ LinkFault
  /\ c = node.stored \/ (node.ws # NoLink /\ \E m \in Range(sockets[node.ws].down) :
                           m = Msg("rotate", c))
  /\ node' = [node EXCEPT !.stored = c, !.alive = FALSE, !.ws = NoLink]
  /\ sockets' = IF node.ws = NoLink THEN sockets ELSE BreakSocket(sockets, node.ws)
  /\ UNCHANGED <<registry, file, link, pending, issued, carried, cleared>>

HubRestarts ==
  /\ LinkFault
  /\ registry' = file
  /\ sockets' = [s \in DOMAIN sockets |-> [BreakSocket(sockets, s)[s] EXCEPT !.hub = "closed"]]
  /\ link' = NoLink /\ pending' = {}
  /\ UNCHANGED <<file, node, issued, carried, cleared>>

NodeLinkNext ==
  \/ FlushHeartbeat \/ Dial \/ HttpHeartbeat
  \/ \E s \in DOMAIN sockets : HubReceives(s) \/ HubNoticesClose(s) \/ SocketBreaks(s)
  \/ \E p \in pending : RpcTimesOut(p)
  \/ RotateOnline \/ RotateManual \/ CarryToNode \/ ClearRotation \/ RevokeNode
  \/ NodeStarts \/ NodeGreets \/ StopTimer \/ NodeNoticesClose
  \/ \E written \in BOOLEAN : NodeReceives(written)
  \/ \E c \in 1..MaxCredentials : NodeDies(c)
  \/ HubRestarts

NodeLinkSpec == NodeLinkInit /\ [][NodeLinkNext]_nodeLinkVars

-----------------------------------------------------------------------------
(* Properties                                                              *)

\* The node is never locked out: whatever is lost, late, failed or restarted
\* during a rotation, the hub accepts the credential in the node's file, and
\* would after a crash, unless the operator has cleared its rotation or
\* revoked the node.
NeverLockedOut ==
  node.stored \notin cleared =>
    /\ registry.revoked \/ Admits(registry, node.stored)
    /\ file.revoked \/ Admits(file, node.stored)

\* A credential that was cleared, or replaced in the registry file, is never
\* accepted again, by this hub or by the next one.
DeadStayDead ==
  \A c \in 1..issued : c \in cleared \/ c < file.active =>
    ~Admits(registry, c) /\ ~Admits(file, c)

\* The close of a replaced link, however late, does not take the node offline.
LinkedIsOnline ==
  Usable /\ sockets[link].greeted => ~registry.lost

\* A revoked node has no open link and never comes back, restarts included.
RevokedForGood ==
  [][registry.revoked =>
       registry'.revoked /\ \A s \in DOMAIN sockets' : sockets'[s].hub # "open"]_nodeLinkVars
=============================================================================
