---------------------- MODULE CompletionCallbacksProofs ----------------------
(***************************************************************************)
(* What holds of the completion callbacks for any number of delegations,   *)
(* any fan-out and any number of failures, deaths and restarts.            *)
(*                                                                         *)
(* The fan-in invariant is not inductive: it does not say why a parent can *)
(* be released. Row states what a row and the routes in flight for it      *)
(* owe each other while the row is open; each store transaction keeps that *)
(* (one lemma each), and the binder's actions are put together from them.  *)
(***************************************************************************)
EXTENDS CompletionCallbacks, TLAPS

\* Row w of edge p, with n routes in flight, in the table es.
Row(es, p, w, n) ==
  /\ w.state = "none" => n = 0 /\ ~w.done
  /\ w.state = "pending" => n <= w.intents /\ (~w.awaiting => w.intents = 0)
  /\ w.state \in {"satisfied", "delivered"} => ~w.awaiting /\ n = 0
  /\ w.state \in Open /\ ~w.awaiting =>
       \A c \in Edges : es[c].parent = p => es[c].done

RouteCounts == [Edges \cup {NoEdge} -> Nat]

Table(es, rs) ==
  /\ es \in [Edges -> Edge]
  /\ rs \in RouteCounts
  /\ \A c \in Edges : es[c].parent # NoEdge => es[es[c].parent].state # "none"
  /\ \A p \in Edges : Row(es, p, es[p], rs[p])

\* What no transaction undoes.
Keeps(es, new) ==
  \A e \in Edges : /\ es[e].state \in Settled => new[e].state = es[e].state
                   /\ es[e].done => new[e].done

\* Row w may replace row e, whatever else the table holds.
Fits(es, rs, e, w) ==
  /\ w \in Edge
  /\ w.parent = es[e].parent
  /\ es[e].done => w.done
  /\ es[e].state # "none" => w.state # "none"
  /\ es[e].state \in Settled => w.state = es[e].state
  /\ Row(es, e, w, rs[e])

\* A transaction that writes one row in place keeps the table sound.
LEMMA WriteRow ==
  ASSUME NEW es, NEW rs, NEW new, Table(es, rs),
         NEW e \in Edges, NEW w, NEW ws \in RouteCounts, Fits(es, ws, e, w),
         \A x \in Edges \ {e} : ws[x] = rs[x],
         new = [es EXCEPT ![e] = w]
  PROVE  Table(new, ws) /\ Keeps(es, new)
<1>1. /\ new \in [Edges -> Edge]
      /\ new[e] = w
      /\ \A x \in Edges : x # e => new[x] = es[x]
  BY DEF Table, Fits
<1>2. /\ w.parent = es[e].parent /\ (es[e].done => w.done)
      /\ (es[e].state # "none" => w.state # "none")
      /\ (es[e].state \in Settled => w.state = es[e].state)
  BY DEF Fits
<1>3. \A x \in Edges : /\ new[x].parent = es[x].parent
                       /\ es[x].done => new[x].done
                       /\ es[x].state # "none" => new[x].state # "none"
                       /\ es[x].state \in Settled => new[x].state = es[x].state
  BY <1>1, <1>2
<1>4. \A c \in Edges : es[c].parent \in Edges \cup {NoEdge}
  BY DEF Table, Edge
<1>5. \A c \in Edges : new[c].parent # NoEdge => new[new[c].parent].state # "none"
  BY <1>3, <1>4 DEF Table
<1>6. ASSUME NEW p \in Edges
      PROVE  Row(new, p, new[p], ws[p])
  <2>1. Row(es, p, new[p], ws[p])
    BY <1>1 DEF Table, Fits
  <2> QED BY <2>1, <1>3 DEF Row
<1> QED BY <1>1, <1>3, <1>5, <1>6 DEF Table, Keeps

\* A turn that ends satisfies its edge, unless children are awaited.
LEMMA SatisfyOK ==
  ASSUME NEW es, NEW rs, Table(es, rs), NEW e \in Edges
  PROVE  /\ Table(satisfyCompletionCallback(es, e), rs)
         /\ Keeps(es, satisfyCompletionCallback(es, e))
<1> DEFINE new == satisfyCompletionCallback(es, e)
           w == [es[e] EXCEPT !.evidence = TRUE,
                              !.state = IF es[e].awaiting THEN "pending" ELSE "satisfied"]
<1>1. CASE es[e].state # "pending"
  BY <1>1 DEF satisfyCompletionCallback, Keeps
<1>2. CASE es[e].state = "pending"
  <2>1. es[e] \in Edge /\ rs \in RouteCounts /\ Row(es, e, es[e], rs[e])
    BY DEF Table
  <2>2. new = [es EXCEPT ![e] = w]
    BY <1>2 DEF satisfyCompletionCallback
  <2>3. rs[e] \in Nat
    BY <2>1 DEF RouteCounts
  <2>4. /\ w \in Edge
        /\ w.parent = es[e].parent /\ w.done = es[e].done
        /\ w.awaiting = es[e].awaiting /\ w.intents = es[e].intents
        /\ w.state = IF es[e].awaiting THEN "pending" ELSE "satisfied"
    BY <2>1 DEF Edge, Open, Settled
  <2> HIDE DEF w
  <2>5. Fits(es, rs, e, w)
    BY <1>2, <2>1, <2>3, <2>4 DEF Fits, Row, Open, Settled
  <2> QED BY <2>1, <2>2, <2>5, WriteRow
<1> QED BY <1>1, <1>2

\* A message that mentions n agents announces n children and routes n times.
LEMMA AnnounceOK ==
  ASSUME NEW es, NEW rs, Table(es, rs), NEW p \in Edges, NEW n \in Nat \ {0},
         es[p].state = "pending"
  PROVE  LET new == announceChildren(es, p, n)
         IN Table(new, [rs EXCEPT ![p] = @ + n]) /\ Keeps(es, new)
<1> DEFINE new == announceChildren(es, p, n)
           w == [es[p] EXCEPT !.awaiting = TRUE, !.intents = @ + n]
           ws == [rs EXCEPT ![p] = @ + n]
<1>1. es[p] \in Edge /\ rs \in RouteCounts /\ Row(es, p, es[p], rs[p])
  BY DEF Table
<1>2. new = [es EXCEPT ![p] = w]
  BY DEF announceChildren
<1>3. /\ ws \in RouteCounts /\ rs[p] \in Nat /\ ws[p] = rs[p] + n
      /\ \A x \in Edges \ {p} : ws[x] = rs[x]
  BY <1>1 DEF RouteCounts
<1>4. es[p].intents \in Nat /\ es[p].intents + n \in Nat
  BY <1>1 DEF Edge
<1>5. /\ w \in Edge /\ w.parent = es[p].parent /\ w.done = es[p].done
      /\ w.awaiting = TRUE /\ w.intents = es[p].intents + n
      /\ w.state = es[p].state
  BY <1>1, <1>4 DEF Edge
<1> HIDE DEF w, ws
<1>6. Fits(es, ws, p, w)
  BY <1>1, <1>3, <1>4, <1>5 DEF Fits, Row, Open, Settled
<1> QED BY <1>2, <1>3, <1>6, WriteRow DEF ws

\* A route that fails takes back one intent, and frees a childless parent.
LEMMA ReleaseDeferredOK ==
  ASSUME NEW es, NEW rs, Table(es, rs), NEW p \in Edges, rs[p] > 0
  PROVE  LET new == releaseDeferredCompletionCallback(es, p)
         IN Table(new, [rs EXCEPT ![p] = @ - 1]) /\ Keeps(es, new)
<1> DEFINE new == releaseDeferredCompletionCallback(es, p)
           n == IF es[p].intents > 0 THEN es[p].intents - 1 ELSE 0
           freed == n = 0 /\ Children(es, p) = {}
           skip == es[p].state # "pending" \/ ~es[p].awaiting
           w == IF skip THEN es[p]
                ELSE [es[p] EXCEPT !.intents = n, !.awaiting = ~freed,
                                   !.state = IF freed /\ es[p].evidence
                                             THEN "satisfied" ELSE "pending"]
           ws == [rs EXCEPT ![p] = @ - 1]
<1>1. /\ es \in [Edges -> Edge] /\ es[p] \in Edge
      /\ rs \in RouteCounts /\ Row(es, p, es[p], rs[p])
  BY DEF Table
<1>2. new = [es EXCEPT ![p] = w]
  BY <1>1 DEF releaseDeferredCompletionCallback
<1>3. /\ ws \in RouteCounts /\ rs[p] \in Nat /\ ws[p] = rs[p] - 1
      /\ \A x \in Edges \ {p} : ws[x] = rs[x]
  BY <1>1 DEF RouteCounts
<1>4. es[p].intents \in Nat /\ n \in Nat /\ freed \in BOOLEAN
  BY <1>1 DEF Edge
<1> HIDE DEF freed
<1>5. /\ w \in Edge /\ w.parent = es[p].parent /\ w.done = es[p].done
      /\ skip => w = es[p]
      /\ ~skip => /\ w.intents = n /\ (IF freed THEN ~w.awaiting ELSE w.awaiting)
                  /\ w.state \in {"pending", "satisfied"}
                  /\ w.state = "satisfied" => freed
  BY <1>1, <1>4 DEF Edge, Open, Settled
<1>6. freed => n = 0 /\ \A c \in Edges : es[c].parent # p
  BY DEF freed, Children
<1> HIDE DEF w, ws
<1>7. Fits(es, ws, p, w)
  <2>1. CASE skip
    BY <1>1, <1>3, <1>5, <2>1 DEF Fits, Row, Open, Settled
  <2>2. CASE ~skip
    BY <1>1, <1>3, <1>4, <1>5, <1>6, <2>2 DEF Fits, Row, Open, Settled
  <2> QED BY <2>1, <2>2
<1> QED BY <1>2, <1>3, <1>7, WriteRow DEF ws

\* A write that only moves a row's state to `to`, where Row allows it.
LEMMA MoveOK ==
  ASSUME NEW es, NEW rs, Table(es, rs), NEW e \in Edges, NEW to,
         \/ es[e].state = "satisfied" /\ to = "delivered"
         \/ es[e].state = "delivered" /\ to \in {"satisfied", "consumed"}
         \/ es[e].state \in Open /\ to = "consumed"
  PROVE  LET new == [es EXCEPT ![e].state = to]
         IN Table(new, rs) /\ Keeps(es, new)
<1> DEFINE w == [es[e] EXCEPT !.state = to]
<1>1. es[e] \in Edge /\ rs \in RouteCounts /\ Row(es, e, es[e], rs[e])
  BY DEF Table
<1>2. /\ w \in Edge /\ w.state = to
      /\ w.parent = es[e].parent /\ w.done = es[e].done
      /\ w.awaiting = es[e].awaiting /\ w.intents = es[e].intents
  BY <1>1 DEF Edge, Open, Settled
<1> HIDE DEF w
<1>3. Fits(es, rs, e, w)
  BY <1>1, <1>2 DEF Fits, Row, Open, Settled
<1> QED BY <1>1, <1>3, WriteRow DEF w

\* Claims handed back, acceptances and explicit returns are such moves.
LEMMA HandBackOK ==
  ASSUME NEW es, NEW rs, Table(es, rs), NEW e \in Edges
  PROVE  /\ Table(releaseDeliveredCompletionCallback(es, e), rs)
         /\ Keeps(es, releaseDeliveredCompletionCallback(es, e))
         /\ Table(consumeCompletionCallback(es, e), rs)
         /\ Keeps(es, consumeCompletionCallback(es, e))
         /\ Table(consumeForExplicitReturn(es, e), rs)
         /\ Keeps(es, consumeForExplicitReturn(es, e))
<1>1. Keeps(es, es)
  BY DEF Keeps
<1>2. /\ Table(releaseDeliveredCompletionCallback(es, e), rs)
      /\ Keeps(es, releaseDeliveredCompletionCallback(es, e))
  BY <1>1, MoveOK DEF releaseDeliveredCompletionCallback
<1>3. /\ Table(consumeCompletionCallback(es, e), rs)
      /\ Keeps(es, consumeCompletionCallback(es, e))
  BY <1>1, MoveOK DEF consumeCompletionCallback
<1>4. /\ Table(consumeForExplicitReturn(es, e), rs)
      /\ Keeps(es, consumeForExplicitReturn(es, e))
  BY <1>1, MoveOK DEF consumeForExplicitReturn
<1> QED BY <1>2, <1>3, <1>4

\* The end of a continuation marks the child, and the last one releases the
\* parent that waits for it.
LEMMA CompleteChildOK ==
  ASSUME NEW es, NEW rs, Table(es, rs), NEW c \in Edges
  PROVE  /\ Table(completeChildContinuation(es, c), rs)
         /\ Keeps(es, completeChildContinuation(es, c))
<1> DEFINE p == es[c].parent
           v == [es[c] EXCEPT !.done = TRUE]
           marked == [es EXCEPT ![c] = v]
           w == [marked[p] EXCEPT !.state = "satisfied", !.awaiting = FALSE,
                                  !.evidence = TRUE]
           new == [marked EXCEPT ![p] = w]
<1>1. /\ es \in [Edges -> Edge] /\ es[c] \in Edge
      /\ rs \in RouteCounts /\ Row(es, c, es[c], rs[c])
  BY DEF Table
<1>2. /\ v \in Edge /\ v.state = es[c].state /\ v.done = TRUE
      /\ v.parent = es[c].parent
      /\ v.awaiting = es[c].awaiting /\ v.intents = es[c].intents
  BY <1>1 DEF Edge
<1>3. es[c].state = "consumed" => Fits(es, rs, c, v)
  <2> HIDE DEF v
  <2> QED BY <1>1, <1>2 DEF Fits, Row
<1>4. es[c].state = "consumed" => Table(marked, rs) /\ Keeps(es, marked)
  <2> HIDE DEF v
  <2> QED BY <1>1, <1>3, WriteRow
<1>5. Keeps(es, es)
  BY DEF Keeps
<1>6. \/ completeChildContinuation(es, c) = es
      \/ /\ es[c].state = "consumed"
         /\ \/ completeChildContinuation(es, c) = marked
            \/ /\ p \in Edges /\ FanInComplete(marked, p)
               /\ completeChildContinuation(es, c) = new
  BY <1>1, <1>2 DEF completeChildContinuation, Edge
<1>7. ASSUME es[c].state = "consumed", p \in Edges, FanInComplete(marked, p)
      PROVE  Table(new, rs) /\ Keeps(es, new)
  <2> HIDE DEF marked, p
  <2>1. marked[p] \in Edge /\ Row(marked, p, marked[p], rs[p]) /\ rs[p] \in Nat
    BY <1>4, <1>7 DEF Table, RouteCounts
  <2>2. /\ w \in Edge /\ w.state = "satisfied" /\ w.awaiting = FALSE
        /\ w.parent = marked[p].parent /\ w.done = marked[p].done
    BY <2>1 DEF Edge, Open
  <2>3. /\ marked[p].state = "pending" /\ marked[p].intents = 0
        /\ \A x \in Edges : marked[x].parent = p => marked[x].done
    BY <1>7 DEF FanInComplete, Children
  <2> HIDE DEF w
  <2>4. Fits(marked, rs, p, w)
    BY <2>1, <2>2, <2>3 DEF Fits, Row, Settled
  <2>5. Table(new, rs) /\ Keeps(marked, new)
    BY <1>1, <1>4, <1>7, <2>4, WriteRow
  <2> HIDE DEF new
  <2> QED BY <1>4, <1>7, <2>5 DEF Keeps
<1> HIDE DEF marked, new, p
<1> QED BY <1>4, <1>5, <1>6, <1>7

\* A route that is admitted turns one of its parent's intents into a row.
LEMMA CreateOK ==
  ASSUME NEW es, NEW rs, Table(es, rs), NEW e \in Edges, NEW p \in Edges \cup {NoEdge},
         rs[p] > 0, es[e].state = "none", p # NoEdge => AdmitsChild(es, p)
  PROVE  LET new == createCompletionCallback(es, e, p)
         IN Table(new, [rs EXCEPT ![p] = @ - 1]) /\ Keeps(es, new)
<1> USE CallbackConstants
<1> DEFINE new == createCompletionCallback(es, e, p)
           ws == [rs EXCEPT ![p] = @ - 1]
           row == NewEdge("pending", p)
<1>1. /\ es \in [Edges -> Edge] /\ rs \in RouteCounts
      /\ \A x \in Edges : /\ Row(es, x, es[x], rs[x])
                           /\ es[x].parent \in Edges \cup {NoEdge}
                           /\ es[x].intents \in Nat /\ rs[x] \in Nat
      /\ rs[p] \in Nat
  BY DEF Table, Edge, RouteCounts
<1>2. /\ ws \in RouteCounts /\ ws[p] = rs[p] - 1
      /\ \A x \in Edges : x # p => ws[x] = rs[x]
  BY <1>1 DEF RouteCounts
<1>3. e # p /\ rs[e] = 0 /\ \A x \in Edges : es[x].parent # e
  BY <1>1 DEF Table, AdmitsChild, Row
<1>4. /\ row \in Edge /\ row.state = "pending" /\ row.parent = p
      /\ row.awaiting = FALSE /\ row.intents = 0 /\ row.done = FALSE
  BY DEF NewEdge, Edge, Open
<1>5. /\ new[e] = row
      /\ p \in Edges => new[p] = [es[p] EXCEPT !.intents = @ - 1]
      /\ \A x \in Edges \ {e, p} : new[x] = es[x]
  BY <1>3 DEF createCompletionCallback
<1>6. p \in Edges =>
        /\ new[p] \in Edge /\ new[p].state = "pending" /\ new[p].awaiting
        /\ new[p].intents = es[p].intents - 1
        /\ new[p].parent = es[p].parent /\ new[p].done = es[p].done
  <2> SUFFICES ASSUME p \in Edges PROVE /\ new[p] \in Edge /\ new[p].state = "pending"
                        /\ new[p].awaiting /\ new[p].intents = es[p].intents - 1
                        /\ new[p].parent = es[p].parent /\ new[p].done = es[p].done
    OBVIOUS
  <2>1. es[p].intents - 1 \in Nat /\ es[p].state = "pending" /\ es[p].awaiting
    BY <1>1 DEF AdmitsChild
  <2> QED BY <1>1, <1>5, <2>1 DEF Edge
<1> HIDE DEF row
<1>7. new \in [Edges -> Edge]
  <2>1. \A x \in Edges : new[x] \in Edge
    BY <1>1, <1>4, <1>5, <1>6
  <2>2. new = [x \in Edges |-> new[x]]
    BY DEF createCompletionCallback
  <2> HIDE DEF new
  <2> QED BY <2>1, <2>2
<1> HIDE DEF new, ws
<1>8. \A x \in Edges : x # e => /\ new[x].parent = es[x].parent
                                /\ new[x].done = es[x].done
                                /\ new[x].state = es[x].state
                                /\ new[x].awaiting = es[x].awaiting
  BY <1>1, <1>5, <1>6 DEF AdmitsChild, Edge
<1>9. \A c \in Edges : new[c].parent # NoEdge => new[new[c].parent].state # "none"
  BY <1>1, <1>3, <1>4, <1>5, <1>8 DEF Table, AdmitsChild
<1>10. ASSUME NEW x \in Edges
       PROVE  Row(new, x, new[x], ws[x])
  <2>1. CASE x = e
    BY <1>2, <1>3, <1>4, <1>5, <1>8, <2>1 DEF Row
  <2>2. CASE x = p
    BY <1>1, <1>2, <1>6, <2>2 DEF Row, Open, AdmitsChild
  <2>3. CASE x # e /\ x # p
    <3>1. new[x] = es[x] /\ ws[x] = rs[x] /\ Row(es, x, es[x], rs[x])
      BY <1>1, <1>2, <1>5, <2>3
    <3>2. \A c \in Edges : new[c].parent = x => es[c].parent = x /\ new[c].done = es[c].done
      BY <1>4, <1>5, <1>8, <2>3
    <3> QED BY <3>1, <3>2 DEF Row
  <2> QED BY <2>1, <2>2, <2>3
<1>11. Keeps(es, new)
  <2>1. ~es[e].done /\ es[e].state \notin Settled
    BY <1>1 DEF Row, Settled
  <2> QED BY <1>8, <2>1 DEF Keeps
<1> QED BY <1>2, <1>7, <1>9, <1>10, <1>11 DEF Table, ws, new

\* An undeliverable callback settles its row and the open ancestors.
LEMMA TerminalizeOK ==
  ASSUME NEW es, NEW rs, Table(es, rs), NEW e \in Edges, es[e].state = "delivered"
  PROVE  /\ Table(terminalizeDeliveredCompletionCallback(es, e), rs)
         /\ Keeps(es, terminalizeDeliveredCompletionCallback(es, e))
<1> DEFINE new == terminalizeDeliveredCompletionCallback(es, e)
<1>1. /\ es \in [Edges -> Edge] /\ rs \in RouteCounts
      /\ \A x \in Edges : Row(es, x, es[x], rs[x])
      /\ \A x \in Edges : es[x] \in Edge /\ es[x].parent \in Edges \cup {NoEdge}
  BY DEF Table, Edge
<1>2. \A x \in Edges :
        \/ new[x] = es[x]
        \/ es[x].state \in Open /\ new[x] = [es[x] EXCEPT !.state = "undeliverable"]
  BY DEF terminalizeDeliveredCompletionCallback, Open
<1>3. new = [x \in Edges |-> new[x]]
  BY DEF terminalizeDeliveredCompletionCallback
<1> HIDE DEF new
<1>4. ASSUME NEW x \in Edges
      PROVE  /\ new[x] \in Edge
             /\ new[x].parent = es[x].parent /\ new[x].done = es[x].done
             /\ new[x] = es[x] \/ (es[x].state \in Open /\ new[x].state = "undeliverable")
  <2> DEFINE w == [es[x] EXCEPT !.state = "undeliverable"]
  <2>1. /\ w \in Edge /\ w.state = "undeliverable"
        /\ w.parent = es[x].parent /\ w.done = es[x].done
    BY <1>1 DEF Edge, Settled
  <2>2. new[x] = es[x] \/ (es[x].state \in Open /\ new[x] = w)
    BY <1>2
  <2> HIDE DEF w
  <2> QED BY <1>1, <2>1, <2>2
<1>5. new \in [Edges -> Edge]
  BY <1>3, <1>4
<1>6. \A c \in Edges : new[c].parent # NoEdge => new[new[c].parent].state # "none"
  BY <1>1, <1>4 DEF Table
<1>7. ASSUME NEW x \in Edges
      PROVE  Row(new, x, new[x], rs[x])
  <2>1. Row(es, x, es[x], rs[x])
    BY <1>1
  <2> QED BY <2>1, <1>4 DEF Row, Open
<1>8. Keeps(es, new)
  BY <1>4 DEF Keeps, Open, Settled
<1> QED BY <1>1, <1>5, <1>6, <1>7, <1>8 DEF Table, new

\* Startup recovery, when no route of this process is in flight.
LEMMA RecoverOK ==
  ASSUME NEW es, NEW rs, Table(es, rs)
  PROVE  LET new == recoverCompletionCallbacks(es)
         IN Table(new, [p \in Edges \cup {NoEdge} |-> 0]) /\ Keeps(es, new)
<1> DEFINE new == recoverCompletionCallbacks(es)
           ws == [p \in Edges \cup {NoEdge} |-> 0]
           freed(x) == es[x].state = "pending" /\ (~es[x].awaiting \/ Children(es, x) = {})
           v(x) == [es[x] EXCEPT !.state = "satisfied"]
           w(x) == [es[x] EXCEPT !.state = "satisfied", !.awaiting = FALSE,
                                 !.intents = IF es[x].awaiting THEN 0 ELSE @,
                                 !.evidence = TRUE]
<1>1. /\ es \in [Edges -> Edge]
      /\ \A x \in Edges : Row(es, x, es[x], rs[x])
      /\ \A x \in Edges : /\ es[x] \in Edge /\ es[x].parent \in Edges \cup {NoEdge}
                           /\ es[x].intents \in Nat /\ rs[x] \in Nat
  BY DEF Table, Edge, RouteCounts
<1>2. ASSUME NEW x \in Edges
      PROVE  new[x] = IF es[x].state = "delivered" THEN v(x)
                      ELSE IF freed(x) THEN w(x) ELSE es[x]
  BY DEF recoverCompletionCallbacks
<1>3. new = [x \in Edges |-> new[x]]
  BY DEF recoverCompletionCallbacks
<1> HIDE DEF new
<1>4. ASSUME NEW x \in Edges
      PROVE  /\ v(x) \in Edge /\ v(x).state = "satisfied" /\ v(x).done = es[x].done
             /\ v(x).parent = es[x].parent /\ v(x).awaiting = es[x].awaiting
             /\ w(x) \in Edge /\ w(x).state = "satisfied" /\ w(x).done = es[x].done
             /\ w(x).parent = es[x].parent /\ w(x).awaiting = FALSE
  BY <1>1 DEF Edge, Open
<1>5. \A x \in Edges : freed(x) => \A c \in Edges : es[c].parent = x => es[c].done
  BY <1>1 DEF Children, Row, Open
<1> HIDE DEF v, w, freed
<1>6. \A x \in Edges : /\ new[x] \in Edge /\ new[x].parent = es[x].parent
                       /\ new[x].done = es[x].done
                       /\ \/ new[x] = es[x]
                          \/ es[x].state \in Open /\ new[x].state = "satisfied"
  BY <1>1, <1>2, <1>4 DEF freed, Open
<1>7. new \in [Edges -> Edge] /\ ws \in RouteCounts /\ \A x \in Edges : ws[x] = 0
  BY <1>3, <1>6 DEF RouteCounts
<1>8. \A c \in Edges : new[c].parent # NoEdge => new[new[c].parent].state # "none"
  BY <1>1, <1>6 DEF Table
<1>9. ASSUME NEW x \in Edges
      PROVE  Row(new, x, new[x], ws[x])
  <2>1. Row(es, x, es[x], rs[x])
    BY <1>1
  <2>2. CASE es[x].state = "delivered"
    BY <1>2, <1>4, <1>6, <1>7, <2>1, <2>2 DEF Row, Open
  <2>3. CASE es[x].state # "delivered" /\ freed(x)
    <3>1. new[x] = w(x)
      BY <1>2, <2>3
    <3>2. new[x].state = "satisfied" /\ new[x].awaiting = FALSE
      BY <1>4, <3>1
    <3>3. \A c \in Edges : new[c].parent = x => new[c].done
      BY <1>5, <1>6, <2>3
    <3> QED BY <1>7, <3>2, <3>3 DEF Row
  <2>4. CASE es[x].state # "delivered" /\ ~freed(x)
    <3>1. new[x] = es[x] /\ ws[x] = 0 /\ es[x].intents \in Nat
      BY <1>1, <1>2, <1>7, <2>4
    <3> HIDE DEF ws
    <3> QED BY <1>6, <2>1, <3>1 DEF Row
  <2> QED BY <2>2, <2>3, <2>4
<1>10. Keeps(es, new)
  BY <1>6 DEF Keeps, Open, Settled
<1> QED BY <1>7, <1>8, <1>9, <1>10 DEF Table, new

\* Retention drops a settled row; what it was a child of is settled too.
LEMMA PruneOK ==
  ASSUME NEW es, NEW rs, Table(es, rs), NEW e \in Edges, rs[e] = 0
  PROVE  Table([es EXCEPT ![e] = NewEdge("pruned", NoEdge)], rs)
<1> DEFINE w == NewEdge("pruned", NoEdge)
           new == [es EXCEPT ![e] = w]
<1>1. w \in Edge /\ w.state = "pruned" /\ w.parent = NoEdge
  BY DEF NewEdge, Edge
<1> HIDE DEF w
<1>2. /\ new \in [Edges -> Edge] /\ new[e] = w
      /\ \A x \in Edges : x # e => new[x] = es[x]
      /\ \A x \in Edges : es[x].parent \in Edges \cup {NoEdge}
  BY <1>1 DEF Table, Edge
<1> HIDE DEF new
<1>3. \A c \in Edges : new[c].parent # NoEdge => new[new[c].parent].state # "none"
  BY <1>1, <1>2 DEF Table
<1>4. ASSUME NEW x \in Edges
      PROVE  Row(new, x, new[x], rs[x])
  <2>1. CASE x = e
    BY <1>1, <1>2, <2>1 DEF Row, Open
  <2>2. CASE x # e
    <3>1. \A c \in Edges : new[c].parent = x => new[c] = es[c]
      BY <1>1, <1>2, CallbackConstants
    <3> QED BY <1>2, <2>2, <3>1 DEF Row, Table
  <2> QED BY <2>1, <2>2
<1> QED BY <1>2, <1>3, <1>4 DEF Table, new, w

-----------------------------------------------------------------------------
(* The binder's actions.                                                   *)

\* Routes of delegations that answer nobody do not matter to the table.
LEMMA RootRoutes ==
  ASSUME NEW es, NEW rs, Table(es, rs), NEW ws \in RouteCounts,
         \A x \in Edges : ws[x] = rs[x]
  PROVE  Table(es, ws)
BY DEF Table

\* What two transactions in a row keep.
LEMMA KeepsTransitive ==
  ASSUME NEW es, NEW mid, NEW new, Keeps(es, mid), Keeps(mid, new)
  PROVE  Keeps(es, new)
BY DEF Keeps

\* The inductive invariant.
Inv ==
  /\ Table(edges, routes)
  /\ target \in [Edges -> TargetStates] /\ turn \in [Edges -> TurnStates]
  /\ deferred \in [Edges -> BOOLEAN] /\ left \in [Disturbances -> Nat]

\* What SettledStays says of one step.
StepKeeps ==
  \A e \in Edges :
    /\ edges[e].state \in Settled => edges'[e].state \in {edges[e].state, "pruned"}
    /\ edges[e].done => edges'[e].done \/ edges'[e].state = "pruned"

\* The exploration bounds stay natural numbers.
LEMMA SpendOK ==
  ASSUME Inv, NEW d \in Disturbances, Spend(d)
  PROVE  left' \in [Disturbances -> Nat]
BY DEF Inv, Spend

\* A finalized message, for the target turn or a continuation alike.
LEMMA FinalizedOK ==
  ASSUME Inv, NEW p \in Edges, NEW returned \in BOOLEAN, NEW n \in Nat,
         Finalized(p, returned, n)
  PROVE  Inv' /\ StepKeeps
<1> USE CallbackConstants
<1> DEFINE es == IF returned THEN consumeForExplicitReturn(edges, p) ELSE edges
<1>1. Table(edges, routes) /\ routes \in RouteCounts /\ Keeps(edges, edges)
  BY DEF Inv, Table, Keeps
<1>2. Table(es, routes) /\ Keeps(edges, es)
  BY <1>1, HandBackOK
<1>3. UNCHANGED <<target, turn, deferred>> /\ left' \in [Disturbances -> Nat]
  BY SpendOK DEF Finalized, Inv, Disturbances
<1>4. Table(edges', routes') /\ Keeps(edges, edges')
  <2> HIDE DEF es
  <2>1. /\ edges' = IF n > 0 THEN announceChildren(es, p, n) ELSE es
        /\ routes' = [routes EXCEPT ![IF es[p].state = "pending" THEN p ELSE NoEdge] = @ + n]
    BY DEF Finalized, es
  <2>2. CASE n = 0
    <3>1. edges' = es /\ routes' = routes
      BY <1>1, <2>1, <2>2 DEF RouteCounts
    <3> QED BY <1>2, <3>1
  <2>3. CASE n > 0 /\ es[p].state = "pending"
    <3>1. /\ edges' = announceChildren(es, p, n) /\ n \in Nat \ {0}
          /\ routes' = [routes EXCEPT ![p] = @ + n]
      BY <2>1, <2>3
    <3>2. Table(edges', routes') /\ Keeps(es, edges')
      BY <1>2, <2>3, <3>1, AnnounceOK
    <3> QED BY <1>2, <3>2, KeepsTransitive
  <2>4. CASE n > 0 /\ es[p].state # "pending"
    <3>1. edges' = es
      BY <2>1, <2>4 DEF announceChildren
    <3>2. routes' \in RouteCounts /\ \A x \in Edges : routes'[x] = routes[x]
      BY <1>1, <2>1, <2>4 DEF RouteCounts
    <3> QED BY <1>2, <3>1, <3>2, RootRoutes
  <2> QED BY <2>2, <2>3, <2>4
<1> QED BY <1>3, <1>4 DEF Inv, StepKeeps, Keeps

\* Every step keeps the invariant and what is settled.
LEMMA StepOK ==
  ASSUME Inv, [Next]_vars
  PROVE  Inv' /\ StepKeeps
<1> USE CallbackConstants
<1>1. Table(edges, routes) /\ routes \in RouteCounts /\ Keeps(edges, edges)
  BY DEF Inv, Table, Keeps
<1>2. Keeps(edges, edges') => StepKeeps
  BY DEF Keeps, StepKeeps
<1>3. ASSUME NEW n \in 1..MaxFan, DelegateRoot(n)
      PROVE  Inv' /\ StepKeeps
  <2>1. routes' \in RouteCounts /\ \A x \in Edges : routes'[x] = routes[x]
    BY <1>1, <1>3 DEF DelegateRoot, RouteCounts
  <2> QED BY <1>1, <1>2, <1>3, <2>1, RootRoutes DEF DelegateRoot, Inv
<1>4. ASSUME NEW e \in Edges, NEW returned \in BOOLEAN, NEW n \in 0..MaxFan,
             TargetFinalized(e, returned, n) \/ ContinuationFinalized(e, returned, n)
      PROVE  Inv' /\ StepKeeps
  <2>1. n \in Nat /\ edges[e].parent \in Edges \cup {NoEdge}
    BY <1>1 DEF Table, Edge
  <2> QED BY <1>4, <2>1, FinalizedOK DEF TargetFinalized, ContinuationFinalized
<1>5. ASSUME NEW e \in Edges, NEW p \in Edges \cup {NoEdge}, NEW full \in BOOLEAN,
             RouteAdmitted(p, e, full)
      PROVE  Inv' /\ StepKeeps
  <2> DEFINE es == createCompletionCallback(edges, e, p)
  <2>1. Table(es, routes') /\ Keeps(edges, es)
    BY <1>1, <1>5, CreateOK DEF RouteAdmitted
  <2>2. edges' = IF full THEN satisfyCompletionCallback(es, e) ELSE es
    BY <1>5 DEF RouteAdmitted
  <2> HIDE DEF es
  <2>3. Table(edges', routes') /\ Keeps(edges, edges')
    BY <2>1, <2>2, SatisfyOK, KeepsTransitive
  <2> QED BY <1>2, <1>5, <2>3 DEF RouteAdmitted, Inv, TargetStates
<1>6. ASSUME NEW p \in Edges \cup {NoEdge}, RouteFailed(p)
      PROVE  Inv' /\ StepKeeps
  <2>1. left' \in [Disturbances -> Nat]
    BY <1>6, SpendOK DEF RouteFailed, Inv, Disturbances
  <2>2. Table(edges', routes') /\ Keeps(edges, edges')
    <3>1. CASE p = NoEdge
      <4>1. routes' \in RouteCounts /\ \A x \in Edges : routes'[x] = routes[x]
        BY <1>1, <1>6, <3>1 DEF RouteFailed, RouteCounts
      <4> QED BY <1>1, <1>6, <3>1, <4>1, RootRoutes DEF RouteFailed
    <3>2. CASE p # NoEdge
      BY <1>1, <1>6, <3>2, ReleaseDeferredOK DEF RouteFailed
    <3> QED BY <3>1, <3>2
  <2> QED BY <1>2, <1>6, <2>1, <2>2 DEF RouteFailed, Inv
<1>7. ASSUME NEW e \in Edges, FinishTarget(e)
      PROVE  Inv' /\ StepKeeps
  <2>1. Table(edges', routes') /\ Keeps(edges, edges')
    BY <1>1, <1>7, SatisfyOK DEF FinishTarget
  <2> QED BY <1>2, <1>7, <2>1 DEF FinishTarget, Inv, TargetStates
<1>8. ASSUME NEW e \in Edges, TargetDies(e)
      PROVE  Inv' /\ StepKeeps
  <2>1. Table(edges', routes') /\ Keeps(edges, edges')
    BY <1>1, <1>8, SatisfyOK DEF TargetDies
  <2> QED BY <1>2, <1>8, <2>1, SpendOK DEF TargetDies, Inv, TargetStates, Disturbances
<1>9. ASSUME NEW e \in Edges, StartTarget(e)
      PROVE  Inv' /\ StepKeeps
  BY <1>1, <1>2, <1>9 DEF StartTarget, Inv, TargetStates
<1>10. ASSUME NEW e \in Edges, Claim(e)
      PROVE  Inv' /\ StepKeeps
  <2>1. Table(edges', routes') /\ Keeps(edges, edges')
    BY <1>1, <1>10, MoveOK DEF Claim
  <2> QED BY <1>2, <1>10, <2>1 DEF Claim, Inv, TurnStates
<1>11. ASSUME NEW e \in Edges, ClaimUnavailable(e)
      PROVE  Inv' /\ StepKeeps
  <2> DEFINE es == [edges EXCEPT ![e].state = "delivered"]
  <2>1. Table(es, routes) /\ Keeps(edges, es)
    BY <1>1, <1>11, MoveOK DEF ClaimUnavailable
  <2>2. es[e].state = "delivered"
    BY <1>1 DEF Table, Edge
  <2>3. edges' = terminalizeDeliveredCompletionCallback(es, e) /\ routes' = routes
    BY <1>11 DEF ClaimUnavailable
  <2> HIDE DEF es
  <2>4. Table(edges', routes') /\ Keeps(edges, edges')
    BY <2>1, <2>2, <2>3, TerminalizeOK, KeepsTransitive
  <2> QED BY <1>2, <1>11, <2>4 DEF ClaimUnavailable, Inv
<1>12. ASSUME NEW e \in Edges, EnqueueCallback(e)
      PROVE  Inv' /\ StepKeeps
  BY <1>1, <1>2, <1>12 DEF EnqueueCallback, Inv, TurnStates
<1>13. ASSUME NEW e \in Edges, SendCallback(e)
      PROVE  Inv' /\ StepKeeps
  BY <1>1, <1>2, <1>13 DEF SendCallback, Inv, TurnStates
<1>14. ASSUME NEW e \in Edges, RetryCallback(e)
      PROVE  Inv' /\ StepKeeps
  BY <1>1, <1>2, <1>14, SpendOK DEF RetryCallback, Inv, TurnStates, Disturbances
<1>15. ASSUME NEW e \in Edges, RetryRefused(e)
      PROVE  Inv' /\ StepKeeps
  BY <1>1, <1>2, <1>15, SpendOK DEF RetryRefused, Inv, TurnStates, Disturbances
<1>16. ASSUME NEW e \in Edges, ReleaseCallback(e)
      PROVE  Inv' /\ StepKeeps
  <2>1. Table(edges', routes') /\ Keeps(edges, edges')
    BY <1>1, <1>16, HandBackOK DEF ReleaseCallback
  <2> QED BY <1>2, <1>16, <2>1 DEF ReleaseCallback, Inv, TurnStates
<1>17. ASSUME NEW e \in Edges, CallbackDies(e)
      PROVE  Inv' /\ StepKeeps
  <2>1. Table(edges', routes') /\ Keeps(edges, edges')
    BY <1>1, <1>17, HandBackOK DEF CallbackDies
  <2> QED BY <1>2, <1>17, <2>1, SpendOK DEF CallbackDies, Inv, TurnStates, Disturbances
<1>18. ASSUME NEW e \in Edges, AcceptCallback(e)
      PROVE  Inv' /\ StepKeeps
  <2> DEFINE es == consumeCompletionCallback(edges, e)
             flush == edges[e].state = "delivered" /\ deferred[e]
  <2>1. Table(es, routes) /\ Keeps(edges, es)
    BY <1>1, HandBackOK
  <2>2. /\ edges' = IF flush THEN completeChildContinuation(es, e) ELSE es
        /\ routes' = routes
    BY <1>18 DEF AcceptCallback
  <2> HIDE DEF es, flush
  <2>3. Table(edges', routes') /\ Keeps(edges, edges')
    BY <2>1, <2>2, CompleteChildOK, KeepsTransitive
  <2>4. deferred' \in [Edges -> BOOLEAN]
    BY <1>18 DEF AcceptCallback, Inv
  <2> QED BY <1>2, <1>18, <2>3, <2>4 DEF AcceptCallback, Inv, TurnStates
<1>19. ASSUME NEW e \in Edges, FinishCallback(e)
      PROVE  Inv' /\ StepKeeps
  <2>1. Table(edges', routes') /\ Keeps(edges, edges')
    BY <1>1, <1>19, CompleteChildOK DEF FinishCallback
  <2>2. deferred' \in [Edges -> BOOLEAN]
    BY <1>19 DEF FinishCallback, Inv
  <2> QED BY <1>2, <1>19, <2>1, <2>2 DEF FinishCallback, Inv, TurnStates
<1>20. ASSUME NEW e \in Edges, Prune(e)
      PROVE  Inv' /\ StepKeeps
  <2>1. Table(edges', routes')
    BY <1>1, <1>20, PruneOK DEF Prune
  <2>2. edges'[e].state = "pruned" /\ \A x \in Edges : x # e => edges'[x] = edges[x]
    BY <1>1, <1>20 DEF Prune, Table, NewEdge
  <2> QED BY <1>20, <2>1, <2>2 DEF Prune, Inv, StepKeeps, TargetStates
<1>21. ASSUME CrashRestart
      PROVE  Inv' /\ StepKeeps
  <2>1. Table(edges', routes') /\ Keeps(edges, edges')
    BY <1>1, <1>21, RecoverOK DEF CrashRestart
  <2> QED BY <1>2, <1>21, <2>1, SpendOK
        DEF CrashRestart, Inv, TargetStates, TurnStates, Disturbances
<1>22. CASE UNCHANGED vars
  BY <1>1, <1>2, <1>22 DEF vars, Inv
<1> QED
  BY <1>3, <1>4, <1>5, <1>6, <1>7, <1>8, <1>9, <1>10, <1>11, <1>12, <1>13, <1>14, <1>15, <1>16, <1>17, <1>18, <1>19, <1>20, <1>21, <1>22 DEF Next

-----------------------------------------------------------------------------
(* The theorems.                                                           *)

\* The inductive invariant holds of the binder and the store together.
LEMMA InvHolds == Spec => []Inv
<1>1. Init => Inv
  BY CallbackConstants DEF Init, Inv, Table, Row, RouteCounts, NewEdge, Edge, Open,
       TargetStates, TurnStates, Disturbances
<1>2. Inv /\ [Next]_vars => Inv'
  BY StepOK
<1> QED BY <1>1, <1>2, PTL DEF Spec

\* The table and the binder's memory keep their shape; announced intents never
\* become negative; a child's parent always exists, because
\* createCompletionCallback checks it and retention leaves a trace of the row.
THEOREM TypeCorrect == Spec => []TypeOK
<1>1. Inv => TypeOK
  BY DEF Inv, Table, TypeOK, RouteCounts
<1> QED BY <1>1, InvHolds, PTL

\* Fan-in: whatever fails, dies or restarts, a delegation is never reported
\* upward (satisfied or delivered) while a delegation made on its behalf is
\* being routed or has a continuation that is not over.
THEOREM FanInHolds == Spec => []FanIn
<1>1. Inv => FanIn
  BY DEF Inv, Table, Row, FanIn, Children, Open
<1> QED BY <1>1, InvHolds, PTL

\* The pending_child_intents counter never falls behind the routes in flight,
\* so an announced child of a waiting parent is always admitted.
THEOREM IntentsHold == Spec => []IntentsCoverRoutes
<1>1. Inv => IntentsCoverRoutes
  BY DEF Inv, Table, Row, IntentsCoverRoutes
<1> QED BY <1>1, InvHolds, PTL

\* Exactly-once settlement: no late terminal, retry, release or recovery
\* reopens a consumed or undeliverable edge or forgets a continuation's end.
THEOREM SettledHolds == Spec => SettledStays
<1>1. Inv /\ [Next]_vars => [StepKeeps]_vars
  BY StepOK
<1>2. SettledStays <=> [][StepKeeps]_vars
  BY DEF SettledStays, StepKeeps
<1> QED BY <1>1, <1>2, InvHolds, PTL DEF Spec

-----------------------------------------------------------------------------
(***************************************************************************)
(* An undeliverable callback leaves nothing waiting above it, at any depth *)
(* of nesting.                                                             *)
(*                                                                         *)
(* The ancestors of a row are the least set that its parents lead into, so *)
(* the table never has to be well-founded or finite. Almost every          *)
(* transaction Closes: it adds no ancestor, reopens no row and makes no    *)
(* row undeliverable. Two do not: createCompletionCallback adds a row,     *)
(* which is nobody's ancestor yet, and the terminalization makes rows      *)
(* undeliverable, but reaches every ancestor of each of them.              *)
(***************************************************************************)

\* S holds all the ancestors of e.
Holds(es, e, S) == \A x \in S \cup {e} : es[x].parent \in S \cup {NoEdge}

\* UndeliverableUpward, of any table.
Upward(es) ==
  \A c \in Edges : es[c].state = "undeliverable" =>
    \A a \in Ancestors(es, c) : es[a].state \notin Open

Closes(es, new) ==
  \A x \in Edges :
    /\ new[x].parent \in {es[x].parent, NoEdge}
    /\ es[x].state \notin Open => new[x].state \notin Open
    /\ new[x].state = "undeliverable" => es[x].state = "undeliverable"

\* Cutting rows off their parents adds no ancestor.
LEMMA AncestorsShrink ==
  ASSUME NEW es, NEW new, NEW c \in Edges,
         \A x \in Edges : new[x].parent \in {es[x].parent, NoEdge}
  PROVE  Ancestors(new, c) \subseteq Ancestors(es, c)
<1> SUFFICES ASSUME NEW a \in Ancestors(new, c), NEW S \in SUBSET Edges, Holds(es, c, S)
             PROVE  a \in S
  BY DEF Ancestors, Holds
<1>1. Holds(new, c, S)
  BY DEF Holds
<1> QED BY <1>1 DEF Ancestors, Holds

\* An ancestor's ancestors are ancestors.
LEMMA AncestorsNest ==
  ASSUME NEW es, NEW e \in Edges, NEW c \in Ancestors(es, e)
  PROVE  Ancestors(es, c) \subseteq Ancestors(es, e)
<1> SUFFICES ASSUME NEW a \in Ancestors(es, c), NEW S \in SUBSET Edges, Holds(es, e, S)
             PROVE  a \in S
  BY DEF Ancestors, Holds
<1>1. c \in S
  BY DEF Ancestors, Holds
<1>2. Holds(es, c, S)
  BY <1>1 DEF Holds
<1> QED BY <1>2 DEF Ancestors, Holds

\* A transaction that Closes keeps the property.
LEMMA ClosesOK ==
  ASSUME NEW es, NEW new, Upward(es), Closes(es, new)
  PROVE  Upward(new)
<1> SUFFICES ASSUME NEW c \in Edges, new[c].state = "undeliverable",
                    NEW a \in Ancestors(new, c)
             PROVE  new[a].state \notin Open
  BY DEF Upward
<1>1. a \in Edges /\ a \in Ancestors(es, c)
  BY AncestorsShrink DEF Closes, Ancestors
<1> QED BY <1>1 DEF Upward, Closes

\* A new row is not yet anybody's parent, so no row gets a new ancestor.
LEMMA CreateUpward ==
  ASSUME NEW es, NEW rs, Table(es, rs), Upward(es), NEW e \in Edges,
         NEW p \in Edges \cup {NoEdge}, es[e].state = "none",
         p # NoEdge => AdmitsChild(es, p)
  PROVE  Upward(createCompletionCallback(es, e, p))
<1> USE CallbackConstants
<1> DEFINE new == createCompletionCallback(es, e, p)
<1>1. /\ es \in [Edges -> Edge] /\ \A x \in Edges : es[x].parent # e
  BY DEF Table
<1>2. new[e].state = "pending"
  BY DEF createCompletionCallback, NewEdge
<1>3. \A x \in Edges \ {e} : new[x].parent = es[x].parent /\ new[x].state = es[x].state
  BY <1>1 DEF createCompletionCallback, Edge
<1> HIDE DEF new
<1> SUFFICES ASSUME NEW c \in Edges, new[c].state = "undeliverable",
                    NEW a \in Ancestors(new, c)
             PROVE  new[a].state \notin Open
  BY DEF Upward, new
<1>4. c # e /\ es[c].state = "undeliverable"
  BY <1>2, <1>3
<1>5. ASSUME NEW S \in SUBSET Edges, Holds(es, c, S)
      PROVE  a \in S \ {e}
  <2>1. Holds(new, c, S \ {e})
    BY <1>1, <1>3, <1>4, <1>5 DEF Holds
  <2> QED BY <2>1 DEF Ancestors, Holds
<1>6. Holds(es, c, Edges)
  BY <1>1 DEF Holds, Edge
<1>7. a \in Edges \ {e}
  BY <1>5, <1>6
<1>8. a \in Ancestors(es, c)
  BY <1>5, <1>7 DEF Ancestors, Holds
<1> QED BY <1>3, <1>4, <1>7, <1>8 DEF Upward

\* The terminalization reaches all that lies above what it gives up.
LEMMA TerminalizeUpward ==
  ASSUME NEW es, NEW rs, Table(es, rs), Upward(es), NEW e \in Edges
  PROVE  Upward(terminalizeDeliveredCompletionCallback(es, e))
<1> DEFINE new == terminalizeDeliveredCompletionCallback(es, e)
           hit == {x \in Edges : x = e \/ (x \in Ancestors(es, e) /\ es[x].state \in Open)}
<1>1. es \in [Edges -> Edge]
  BY DEF Table
<1>2. \A x \in Edges : new[x] = IF x \in hit THEN [es[x] EXCEPT !.state = "undeliverable"]
                                ELSE es[x]
  BY DEF terminalizeDeliveredCompletionCallback
<1>3. \A x \in Edges : /\ new[x].parent = es[x].parent
                       /\ new[x].state = IF x \in hit THEN "undeliverable" ELSE es[x].state
  <2> HIDE DEF hit, new
  <2> QED BY <1>1, <1>2 DEF Edge
<1> HIDE DEF new
<1> SUFFICES ASSUME NEW c \in Edges, new[c].state = "undeliverable",
                    NEW a \in Ancestors(new, c)
             PROVE  new[a].state \notin Open
  BY DEF Upward, new
<1>4. a \in Edges /\ a \in Ancestors(es, c)
  BY <1>3, AncestorsShrink DEF Ancestors
<1>5. CASE c \in hit
  <2>1. a \in Ancestors(es, e)
    BY <1>4, <1>5, AncestorsNest
  <2> QED BY <1>3, <1>4, <2>1 DEF Open
<1>6. CASE c \notin hit
  <2>1. es[a].state \notin Open
    BY <1>3, <1>4, <1>6 DEF Upward
  <2> QED BY <1>3, <1>4, <2>1 DEF Open
<1> QED BY <1>5, <1>6

\* The transactions that write rows without creating or giving up any.
LEMMA WritesClose ==
  ASSUME NEW es, es \in [Edges -> Edge], NEW e \in Edges, NEW n \in Nat
  PROVE  /\ Closes(es, satisfyCompletionCallback(es, e))
         /\ Closes(es, announceChildren(es, e, n))
         /\ Closes(es, releaseDeferredCompletionCallback(es, e))
         /\ Closes(es, releaseDeliveredCompletionCallback(es, e))
         /\ Closes(es, consumeCompletionCallback(es, e))
         /\ Closes(es, consumeForExplicitReturn(es, e))
         /\ Closes(es, recoverCompletionCallbacks(es))
<1> USE DEF Closes, Edge, Open, Settled
<1>1. Closes(es, satisfyCompletionCallback(es, e))
  BY DEF satisfyCompletionCallback
<1>2. Closes(es, announceChildren(es, e, n))
  BY DEF announceChildren
<1>3. Closes(es, releaseDeferredCompletionCallback(es, e))
  BY DEF releaseDeferredCompletionCallback
<1>4. /\ Closes(es, releaseDeliveredCompletionCallback(es, e))
      /\ Closes(es, consumeCompletionCallback(es, e))
      /\ Closes(es, consumeForExplicitReturn(es, e))
  BY DEF releaseDeliveredCompletionCallback, consumeCompletionCallback,
         consumeForExplicitReturn
<1>5. Closes(es, recoverCompletionCallbacks(es))
  BY DEF recoverCompletionCallbacks
<1> QED BY <1>1, <1>2, <1>3, <1>4, <1>5

\* The end of a continuation releases a parent that is still waiting.
LEMMA CompleteCloses ==
  ASSUME NEW es, es \in [Edges -> Edge], NEW c \in Edges
  PROVE  Closes(es, completeChildContinuation(es, c))
<1> DEFINE p == es[c].parent
           marked == [es EXCEPT ![c].done = TRUE]
           new == [marked EXCEPT ![p].state = "satisfied", ![p].awaiting = FALSE,
                                 ![p].evidence = TRUE]
<1>1. marked \in [Edges -> Edge] /\ Closes(es, marked)
  BY DEF Edge, Closes
<1>2. \/ completeChildContinuation(es, c) = es
      \/ completeChildContinuation(es, c) = marked
      \/ p \in Edges /\ marked[p].state = "pending" /\ completeChildContinuation(es, c) = new
  BY DEF completeChildContinuation, FanInComplete, Edge
<1>3. Closes(es, es)
  BY DEF Closes
<1>4. p \in Edges /\ marked[p].state = "pending" => Closes(es, new)
  <2> HIDE DEF marked, p
  <2> QED BY <1>1 DEF Closes, Edge, Open
<1> QED BY <1>1, <1>2, <1>3, <1>4

-----------------------------------------------------------------------------
(* The binder's actions.                                                   *)

\* A finalized message, whether its turn is a target or a continuation.
LEMMA FinalizedUpward ==
  ASSUME Inv, Upward(edges), NEW p \in Edges, NEW returned \in BOOLEAN, NEW n \in Nat,
         Finalized(p, returned, n)
  PROVE  Upward(edges')
<1> DEFINE es == IF returned THEN consumeForExplicitReturn(edges, p) ELSE edges
<1>1. Table(edges, routes) /\ edges \in [Edges -> Edge]
  BY DEF Inv, Table
<1>2. Upward(es) /\ Table(es, routes)
  BY <1>1, HandBackOK, WritesClose, ClosesOK
<1>3. edges' = IF n > 0 THEN announceChildren(es, p, n) ELSE es
  BY DEF Finalized
<1> HIDE DEF es
<1>4. es \in [Edges -> Edge]
  BY <1>2 DEF Table
<1> QED BY <1>2, <1>3, <1>4, WritesClose, ClosesOK

\* Every step keeps the property.
LEMMA StepUpward ==
  ASSUME Inv, Upward(edges), [Next]_vars
  PROVE  Upward(edges')
<1>1. Table(edges, routes) /\ edges \in [Edges -> Edge]
  BY DEF Inv, Table
<1>2. ASSUME NEW e \in Edges, NEW returned \in BOOLEAN, NEW n \in 0..MaxFan,
             TargetFinalized(e, returned, n) \/ ContinuationFinalized(e, returned, n)
      PROVE  Upward(edges')
  <2>1. n \in Nat /\ edges[e].parent \in Edges \cup {NoEdge}
    BY <1>1, CallbackConstants DEF Edge
  <2> QED BY <1>2, <2>1, FinalizedUpward DEF TargetFinalized, ContinuationFinalized
<1>3. ASSUME NEW e \in Edges, NEW p \in Edges \cup {NoEdge}, NEW full \in BOOLEAN,
             RouteAdmitted(p, e, full)
      PROVE  Upward(edges')
  <2> DEFINE es == createCompletionCallback(edges, e, p)
  <2>1. Upward(es)
    BY <1>1, <1>3, CreateUpward DEF RouteAdmitted
  <2>2. es \in [Edges -> Edge]
    BY <1>1, <1>3, CreateOK DEF RouteAdmitted, Table
  <2>3. edges' = IF full THEN satisfyCompletionCallback(es, e) ELSE es
    BY <1>3 DEF RouteAdmitted
  <2> HIDE DEF es
  <2>4. Closes(es, satisfyCompletionCallback(es, e))
    BY <2>2, WritesClose
  <2> QED BY <2>1, <2>3, <2>4, ClosesOK
<1>4. ASSUME NEW p \in Edges \cup {NoEdge}, RouteFailed(p)
      PROVE  Upward(edges')
  <2>1. CASE p = NoEdge
    BY <1>4, <2>1 DEF RouteFailed
  <2>2. CASE p # NoEdge
    <3>1. Closes(edges, releaseDeferredCompletionCallback(edges, p))
      BY <1>1, <2>2, WritesClose
    <3> QED BY <1>4, <2>2, <3>1, ClosesOK DEF RouteFailed
  <2> QED BY <2>1, <2>2
<1>5. ASSUME NEW e \in Edges, FinishTarget(e) \/ TargetDies(e)
      PROVE  Upward(edges')
  <2>1. Closes(edges, satisfyCompletionCallback(edges, e))
    BY <1>1, WritesClose
  <2> QED BY <1>5, <2>1, ClosesOK DEF FinishTarget, TargetDies
<1>6. ASSUME NEW e \in Edges, edges[e].state = "satisfied"
      PROVE  LET es == [edges EXCEPT ![e].state = "delivered"]
             IN Table(es, routes) /\ Upward(es)
  <2> DEFINE es == [edges EXCEPT ![e].state = "delivered"]
  <2>1. Table(es, routes)
    BY <1>1, <1>6, MoveOK
  <2>2. Closes(edges, es)
    BY <1>1, <1>6 DEF Closes, Edge, Open
  <2> QED BY <2>1, <2>2, ClosesOK
<1>7. ASSUME NEW e \in Edges, Claim(e) \/ ClaimUnavailable(e)
      PROVE  Upward(edges')
  BY <1>6, <1>7, TerminalizeUpward DEF Claim, ClaimUnavailable
<1>8. ASSUME NEW e \in Edges, ReleaseCallback(e) \/ CallbackDies(e)
      PROVE  Upward(edges')
  <2>1. Closes(edges, releaseDeliveredCompletionCallback(edges, e))
    BY <1>1, WritesClose
  <2> QED BY <1>8, <2>1, ClosesOK DEF ReleaseCallback, CallbackDies
<1>9. ASSUME NEW e \in Edges, AcceptCallback(e)
      PROVE  Upward(edges')
  <2> DEFINE es == consumeCompletionCallback(edges, e)
  <2>1. Upward(es) /\ Table(es, routes)
    BY <1>1, HandBackOK, WritesClose, ClosesOK
  <2>2. edges' = es \/ edges' = completeChildContinuation(es, e)
    BY <1>9 DEF AcceptCallback
  <2> HIDE DEF es
  <2>3. es \in [Edges -> Edge]
    BY <2>1 DEF Table
  <2> QED BY <2>1, <2>2, <2>3, CompleteCloses, ClosesOK
<1>10. ASSUME NEW e \in Edges, FinishCallback(e)
       PROVE  Upward(edges')
  BY <1>1, <1>10, CompleteCloses, ClosesOK DEF FinishCallback
<1>11. ASSUME NEW e \in Edges, Prune(e)
       PROVE  Upward(edges')
  <2>1. Closes(edges, [edges EXCEPT ![e] = NewEdge("pruned", NoEdge)])
    BY <1>1 DEF Closes, NewEdge, Edge, Open
  <2> QED BY <1>11, <2>1, ClosesOK DEF Prune
<1>12. ASSUME CrashRestart
       PROVE  Upward(edges')
  <2>1. CASE Edges = {}
    BY <2>1 DEF Upward
  <2>2. CASE Edges # {}
    BY <1>1, <1>12, <2>2, WritesClose, ClosesOK DEF CrashRestart
  <2> QED BY <2>1, <2>2
<1>13. ASSUME \/ UNCHANGED vars
              \/ \E n \in 1..MaxFan : DelegateRoot(n)
              \/ \E e \in Edges : \/ StartTarget(e) \/ EnqueueCallback(e)
                                  \/ SendCallback(e) \/ RetryCallback(e)
                                  \/ RetryRefused(e)
       PROVE  Upward(edges')
  BY <1>13 DEF vars, DelegateRoot, StartTarget, EnqueueCallback, SendCallback,
       RetryCallback, RetryRefused
<1> QED BY <1>2, <1>3, <1>4, <1>5, <1>7, <1>8, <1>9, <1>10, <1>11, <1>12, <1>13 DEF Next

\* When terminalizeDeliveredCompletionCallback gives a callback up, nothing
\* above it stays pending, satisfied or delivered, and no later delegation,
\* restart, retry or retention puts an open row above it again.
THEOREM UpwardHolds == Spec => []UndeliverableUpward
<1>1. Init => Upward(edges)
  BY DEF Init, Upward, NewEdge
<1>2. Inv /\ Upward(edges) /\ [Next]_vars => Upward(edges)'
  BY StepUpward
<1>3. Upward(edges) <=> UndeliverableUpward
  BY DEF Upward, UndeliverableUpward
<1> QED BY <1>1, <1>2, <1>3, InvHolds, PTL DEF Spec

-----------------------------------------------------------------------------
(***************************************************************************)
(* A delegation is not reported while its own turn is ahead or running.    *)
(*                                                                         *)
(* A row is reported by the end of its turn, by recovery, or by the last   *)
(* callback turn of its children. The last one needs that an agent runs    *)
(* one turn at a time: a callback turn starts only when the turn that made *)
(* the delegation is over. Serial adds what makes this inductive: a child  *)
(* exists, or is being routed, only after its parent's turn has started,   *)
(* and evidence of a turn's end is only written when it has ended.         *)
(***************************************************************************)

Ahead == {"queued", "active"}
Reported == {"satisfied", "delivered"}

Sound(es, rs, tg, tn) ==
  /\ \A e \in Edges : es[e].state = "none" => tg[e] = "none" /\ tn[e] = "none"
  /\ \A e \in Edges : rs[e] > 0 => tg[e] # "queued"
  /\ \A c \in Edges : LET p == es[c].parent
                      IN p # NoEdge =>
                           /\ tg[p] # "queued"
                           /\ tn[c] \in {"sending", "accepted", "ended"} => tg[p] \notin Ahead
  /\ \A e \in Edges : es[e].evidence \/ es[e].state \in Reported => tg[e] \notin Ahead

Serial == Sound(edges, routes, target, turn)

\* A transaction that ends or reports only rows of A, or rows whose turn had
\* already ended.
Reports(es, new, A) ==
  \A x \in Edges :
    /\ new[x].parent \in {es[x].parent, NoEdge}
    /\ new[x].state = "none" => es[x].state = "none"
    /\ new[x].evidence => es[x].evidence \/ x \in A
    /\ new[x].state \in Reported => es[x].state \in Reported \/ es[x].evidence \/ x \in A

\* Such a transaction keeps the turns in order if the turns of A are over.
LEMMA ReportsOK ==
  ASSUME NEW es, NEW new, NEW rs, NEW tg, NEW tn, NEW A,
         es \in [Edges -> Edge], new \in [Edges -> Edge],
         Sound(es, rs, tg, tn), Reports(es, new, A),
         \A x \in Edges : x \in A => tg[x] \notin Ahead
  PROVE  Sound(new, rs, tg, tn)
<1>1. \A x \in Edges : new[x].state = "none" => es[x].state = "none"
  BY DEF Reports
<1>2. \A x \in Edges : new[x].parent # NoEdge => new[x].parent = es[x].parent
  BY DEF Reports
<1>3. \A x \in Edges : new[x].evidence \/ new[x].state \in Reported => tg[x] \notin Ahead
  BY DEF Reports, Sound, Edge
<1> QED BY <1>1, <1>2, <1>3 DEF Sound

\* What each transaction reports.
LEMMA WritesReport ==
  ASSUME NEW es, es \in [Edges -> Edge], NEW e \in Edges, NEW n \in Nat
  PROVE  /\ Reports(es, satisfyCompletionCallback(es, e), {e})
         /\ Reports(es, announceChildren(es, e, n), {})
         /\ Reports(es, releaseDeferredCompletionCallback(es, e), {})
         /\ Reports(es, releaseDeliveredCompletionCallback(es, e), {})
         /\ Reports(es, consumeCompletionCallback(es, e), {})
         /\ Reports(es, consumeForExplicitReturn(es, e), {})
         /\ Reports(es, terminalizeDeliveredCompletionCallback(es, e), {})
<1> USE DEF Reports, Reported, Edge
<1>1. Reports(es, satisfyCompletionCallback(es, e), {e})
  BY DEF satisfyCompletionCallback
<1>2. Reports(es, announceChildren(es, e, n), {})
  BY DEF announceChildren
<1>3. Reports(es, releaseDeferredCompletionCallback(es, e), {})
  BY DEF releaseDeferredCompletionCallback
<1>4. /\ Reports(es, releaseDeliveredCompletionCallback(es, e), {})
      /\ Reports(es, consumeCompletionCallback(es, e), {})
      /\ Reports(es, consumeForExplicitReturn(es, e), {})
  BY DEF releaseDeliveredCompletionCallback, consumeCompletionCallback,
         consumeForExplicitReturn
<1>5. Reports(es, terminalizeDeliveredCompletionCallback(es, e), {})
  BY DEF terminalizeDeliveredCompletionCallback
<1> QED BY <1>1, <1>2, <1>3, <1>4, <1>5

\* The end of a continuation reports at most the parent it belongs to.
LEMMA CompleteReports ==
  ASSUME NEW es, es \in [Edges -> Edge], NEW c \in Edges
  PROVE  Reports(es, completeChildContinuation(es, c), {es[c].parent} \ {NoEdge})
<1> DEFINE p == es[c].parent
           marked == [es EXCEPT ![c].done = TRUE]
           new == [marked EXCEPT ![p].state = "satisfied", ![p].awaiting = FALSE,
                                 ![p].evidence = TRUE]
<1>1. marked \in [Edges -> Edge] /\ Reports(es, marked, {})
  BY DEF Edge, Reports
<1>2. \/ completeChildContinuation(es, c) = es
      \/ completeChildContinuation(es, c) = marked
      \/ p # NoEdge /\ p \in Edges /\ completeChildContinuation(es, c) = new
  BY DEF completeChildContinuation, Edge
<1>3. Reports(es, es, {p} \ {NoEdge})
  BY DEF Reports
<1>4. Reports(es, marked, {p} \ {NoEdge})
  <2> HIDE DEF marked, p
  <2> QED BY <1>1 DEF Reports
<1>5. p # NoEdge /\ p \in Edges => Reports(es, new, {p} \ {NoEdge})
  <2> HIDE DEF marked, p
  <2> QED BY <1>1 DEF Reports, Edge
<1> QED BY <1>2, <1>3, <1>4, <1>5

\* A new row has no turn yet, no children and no routes; its parent's turn has
\* started, since a route was in flight for it.
LEMMA CreateSound ==
  ASSUME NEW es, NEW rs, NEW tg, NEW tn, Table(es, rs), Sound(es, rs, tg, tn),
         NEW e \in Edges, NEW p \in Edges \cup {NoEdge}, NEW q,
         rs[p] > 0, es[e].state = "none", p # NoEdge => AdmitsChild(es, p),
         tg \in [Edges -> TargetStates]
  PROVE  Sound(createCompletionCallback(es, e, p), [rs EXCEPT ![p] = @ - 1],
               [tg EXCEPT ![e] = q], tn)
<1> USE CallbackConstants
<1> DEFINE new == createCompletionCallback(es, e, p)
           ws == [rs EXCEPT ![p] = @ - 1]
           ts == [tg EXCEPT ![e] = q]
<1>1. /\ es \in [Edges -> Edge] /\ rs \in RouteCounts
      /\ \A x \in Edges : es[x].parent # e /\ es[x].parent \in Edges \cup {NoEdge}
      /\ rs[e] = 0 /\ e # p /\ tn[e] = "none"
  BY DEF Table, Edge, Row, Sound
<1>2. /\ new[e].state = "pending" /\ new[e].parent = p /\ ~new[e].evidence
      /\ ts[e] = q /\ \A x \in Edges \ {e} : ts[x] = tg[x]
      /\ \A x \in Edges : ws[x] \in Nat /\ (ws[x] > 0 => rs[x] > 0)
      /\ ws[e] = 0
  BY <1>1 DEF createCompletionCallback, NewEdge, RouteCounts
<1>3. \A x \in Edges \ {e} : /\ new[x].parent = es[x].parent
                             /\ new[x].state = es[x].state
                             /\ new[x].evidence = es[x].evidence
  BY <1>1 DEF createCompletionCallback, Edge
<1>4. p # NoEdge => tg[p] # "queued"
  BY DEF Sound
<1> HIDE DEF new, ws, ts
<1>5. \A x \in Edges : new[x].state = "none" => ts[x] = "none" /\ tn[x] = "none"
  BY <1>2, <1>3 DEF Sound
<1>6. \A x \in Edges : ws[x] > 0 => ts[x] # "queued"
  BY <1>2 DEF Sound
<1>7. ASSUME NEW c \in Edges, new[c].parent # NoEdge
      PROVE  /\ ts[new[c].parent] # "queued"
             /\ tn[c] \in {"sending", "accepted", "ended"} => ts[new[c].parent] \notin Ahead
  <2>1. CASE c = e
    BY <1>1, <1>2, <1>4, <1>7, <2>1
  <2>2. CASE c # e
    <3>1. new[c].parent = es[c].parent /\ es[c].parent \in Edges \ {e}
      BY <1>1, <1>3, <1>7, <2>2
    <3> QED BY <1>2, <1>7, <3>1 DEF Sound
  <2> QED BY <2>1, <2>2
<1>8. \A x \in Edges : new[x].evidence \/ new[x].state \in Reported => ts[x] \notin Ahead
  BY <1>2, <1>3 DEF Sound, Reported
<1> QED BY <1>5, <1>6, <1>7, <1>8 DEF Sound, new, ws, ts

-----------------------------------------------------------------------------
(* The binder's actions.                                                   *)

\* A finalized message of a turn that has started.
LEMMA FinalizedSerial ==
  ASSUME Inv, Serial, NEW p \in Edges, NEW returned \in BOOLEAN, NEW n \in Nat,
         target[p] # "queued", Finalized(p, returned, n)
  PROVE  Serial'
<1> USE CallbackConstants
<1> DEFINE es == IF returned THEN consumeForExplicitReturn(edges, p) ELSE edges
           parent == IF es[p].state = "pending" THEN p ELSE NoEdge
<1>1. Table(edges, routes) /\ edges \in [Edges -> Edge] /\ routes \in RouteCounts
  BY DEF Inv, Table
<1>2. es \in [Edges -> Edge]
  BY <1>1, HandBackOK DEF Table
<1>3. Sound(es, routes, target, turn)
  <2>1. CASE returned
    <3>1. Reports(edges, es, {})
      BY <1>1, <2>1, WritesReport
    <3> HIDE DEF es
    <3> QED BY <1>1, <1>2, <3>1, ReportsOK DEF Serial
  <2>2. CASE ~returned
    BY <2>2 DEF Serial
  <2> QED BY <2>1, <2>2
<1>4. /\ edges' = IF n > 0 THEN announceChildren(es, p, n) ELSE es
      /\ routes' = [routes EXCEPT ![parent] = @ + n]
      /\ UNCHANGED <<target, turn>>
  BY DEF Finalized
<1>5. edges' \in [Edges -> Edge]
  BY FinalizedOK DEF Inv, Table
<1> HIDE DEF es
<1>6. Sound(edges', routes, target, turn)
  <2>1. CASE n = 0
    BY <1>3, <1>4, <2>1
  <2>2. CASE n > 0
    <3>1. Reports(es, edges', {})
      BY <1>2, <1>4, <2>2, WritesReport
    <3> QED BY <1>2, <1>3, <1>5, <3>1, ReportsOK
  <2> QED BY <2>1, <2>2
<1>7. \A x \in Edges : routes'[x] > 0 => x = p \/ routes[x] > 0
  BY <1>1, <1>4 DEF RouteCounts
<1> QED BY <1>4, <1>6, <1>7 DEF Sound, Serial

\* Every step keeps the turns in order.
LEMMA StepSerial ==
  ASSUME Inv, Serial, [Next]_vars
  PROVE  Serial'
<1> USE CallbackConstants
<1>1. /\ Table(edges, routes) /\ edges \in [Edges -> Edge] /\ routes \in RouteCounts
      /\ target \in [Edges -> TargetStates] /\ turn \in [Edges -> TurnStates]
      /\ \A e \in Edges : edges[e].parent \in Edges \cup {NoEdge}
  BY DEF Inv, Table, Edge
<1>2. edges' \in [Edges -> Edge]
  BY StepOK DEF Inv, Table
<1>3. ASSUME NEW n \in 1..MaxFan, DelegateRoot(n)
      PROVE  Serial'
  <2>1. \A x \in Edges : routes'[x] = routes[x]
    BY <1>1, <1>3 DEF DelegateRoot, RouteCounts
  <2> QED BY <1>3, <2>1 DEF DelegateRoot, Serial, Sound
<1>4. ASSUME NEW e \in Edges, NEW returned \in BOOLEAN, NEW n \in 0..MaxFan,
             TargetFinalized(e, returned, n) \/ ContinuationFinalized(e, returned, n)
      PROVE  Serial'
  <2>1. CASE TargetFinalized(e, returned, n)
    BY <2>1, FinalizedSerial DEF TargetFinalized
  <2>2. CASE ContinuationFinalized(e, returned, n)
    <3>1. edges[e].parent \in Edges /\ target[edges[e].parent] # "queued"
      BY <1>1, <2>2 DEF ContinuationFinalized, Serial, Sound
    <3> QED BY <2>2, <3>1, FinalizedSerial DEF ContinuationFinalized
  <2> QED BY <1>4, <2>1, <2>2
<1>5. ASSUME NEW e \in Edges, NEW p \in Edges \cup {NoEdge}, NEW full \in BOOLEAN,
             RouteAdmitted(p, e, full)
      PROVE  Serial'
  <2> DEFINE es == createCompletionCallback(edges, e, p)
  <2>1. /\ edges' = IF full THEN satisfyCompletionCallback(es, e) ELSE es
        /\ routes' = [routes EXCEPT ![p] = @ - 1] /\ turn' = turn
        /\ target' = [target EXCEPT ![e] = IF full THEN "none" ELSE "queued"]
        /\ routes[p] > 0 /\ edges[e].state = "none"
        /\ p # NoEdge => AdmitsChild(edges, p)
    BY <1>5 DEF RouteAdmitted
  <2>2. Sound(es, routes', target', turn)
    BY <1>1, <2>1, CreateSound DEF Serial
  <2>3. es \in [Edges -> Edge]
    BY <1>1, <2>1, CreateOK DEF Table
  <2> HIDE DEF es
  <2>4. CASE full
    <3>1. Reports(es, edges', {e}) /\ target'[e] \notin Ahead
      BY <1>1, <2>1, <2>3, <2>4, WritesReport DEF Ahead
    <3>2. \A x \in Edges : x \in {e} => target'[x] \notin Ahead
      BY <3>1
    <3>3. Sound(edges', routes', target', turn)
      BY <1>2, <2>2, <2>3, <3>1, <3>2, ReportsOK
    <3> QED BY <2>1, <3>3 DEF Serial
  <2>5. CASE ~full
    BY <2>1, <2>2, <2>5 DEF Serial
  <2> QED BY <2>4, <2>5
<1>6. ASSUME NEW p \in Edges \cup {NoEdge}, RouteFailed(p)
      PROVE  Serial'
  <2>1. /\ UNCHANGED <<target, turn>>
        /\ \A x \in Edges : routes'[x] > 0 => routes[x] > 0
    BY <1>1, <1>6 DEF RouteFailed, RouteCounts
  <2>2. Sound(edges', routes, target, turn)
    <3>1. CASE p = NoEdge
      BY <1>6, <3>1 DEF RouteFailed, Serial
    <3>2. CASE p # NoEdge
      <4>1. Reports(edges, edges', {})
        BY <1>1, <1>6, <3>2, WritesReport DEF RouteFailed
      <4> QED BY <1>1, <1>2, <4>1, ReportsOK DEF Serial
    <3> QED BY <3>1, <3>2
  <2> QED BY <2>1, <2>2 DEF Sound, Serial
<1>7. ASSUME NEW e \in Edges, StartTarget(e)
      PROVE  Serial'
  <2>1. /\ UNCHANGED <<edges, routes, turn>> /\ target[e] = "queued"
        /\ target' = [target EXCEPT ![e] = "active"]
    BY <1>7 DEF StartTarget
  <2>2. target'[e] = "active" /\ \A x \in Edges \ {e} : target'[x] = target[x]
    BY <1>1, <2>1
  <2> QED BY <1>1, <2>1, <2>2 DEF Serial, Sound, Ahead
<1>8. ASSUME NEW e \in Edges, FinishTarget(e) \/ TargetDies(e)
      PROVE  Serial'
  <2>1. /\ UNCHANGED <<routes, turn>> /\ target[e] # "none"
        /\ edges' = satisfyCompletionCallback(edges, e)
        /\ target'[e] \in {"over", "none"}
        /\ \A x \in Edges \ {e} : target'[x] = target[x]
    BY <1>1, <1>8 DEF FinishTarget, TargetDies
  <2>2. Sound(edges, routes, target', turn)
    BY <1>1, <2>1 DEF Serial, Sound, Ahead
  <2>3. Reports(edges, edges', {e}) /\ target'[e] \notin Ahead
    BY <1>1, <2>1, WritesReport DEF Ahead
  <2> QED BY <1>1, <1>2, <2>1, <2>2, <2>3, ReportsOK DEF Serial
<1>9. ASSUME NEW e \in Edges, Claim(e) \/ ClaimUnavailable(e)
      PROVE  Serial'
  <2> DEFINE es == [edges EXCEPT ![e].state = "delivered"]
  <2>1. /\ edges[e].state = "satisfied" /\ UNCHANGED <<routes, target>>
        /\ \/ edges' = es /\ turn' = [turn EXCEPT ![e] = "claimed"]
           \/ edges' = terminalizeDeliveredCompletionCallback(es, e) /\ turn' = turn
    BY <1>9 DEF Claim, ClaimUnavailable
  <2>2. es \in [Edges -> Edge]
    BY <1>1 DEF Edge, Open
  <2>3. Reports(edges, es, {}) /\ es[e].state = "delivered"
    BY <1>1, <2>1 DEF Reports, Reported, Edge
  <2> HIDE DEF es
  <2>4. Sound(es, routes, target, turn)
    BY <1>1, <2>2, <2>3, ReportsOK DEF Serial
  <2>5. CASE edges' = es /\ turn' = [turn EXCEPT ![e] = "claimed"]
    <3>1. turn'[e] = "claimed" /\ \A x \in Edges \ {e} : turn'[x] = turn[x]
      BY <1>1, <2>5
    <3> QED BY <2>1, <2>3, <2>4, <2>5, <3>1 DEF Sound, Serial
  <2>6. CASE edges' = terminalizeDeliveredCompletionCallback(es, e) /\ turn' = turn
    <3>1. Reports(es, edges', {})
      BY <2>2, <2>6, WritesReport
    <3> QED BY <1>2, <2>1, <2>2, <2>4, <2>6, <3>1, ReportsOK DEF Serial
  <2> QED BY <2>1, <2>5, <2>6
<1>10. ASSUME NEW e \in Edges,
              EnqueueCallback(e) \/ RetryCallback(e) \/ RetryRefused(e)
       PROVE  Serial'
  <2>1. /\ UNCHANGED <<edges, routes, target>> /\ turn[e] # "none"
        /\ turn'[e] \in {"queued", "none"} /\ \A x \in Edges \ {e} : turn'[x] = turn[x]
    BY <1>1, <1>10 DEF EnqueueCallback, RetryCallback, RetryRefused
  <2> QED BY <2>1 DEF Serial, Sound
<1>11. ASSUME NEW e \in Edges, SendCallback(e)
       PROVE  Serial'
  <2>1. /\ UNCHANGED <<edges, routes, target>> /\ turn[e] = "queued"
        /\ turn'[e] = "sending" /\ \A x \in Edges \ {e} : turn'[x] = turn[x]
        /\ edges[e].parent # NoEdge => target[edges[e].parent] # "active"
    BY <1>1, <1>11 DEF SendCallback, Busy
  <2> QED BY <2>1 DEF Serial, Sound, Ahead
<1>12. ASSUME NEW e \in Edges, ReleaseCallback(e) \/ CallbackDies(e)
       PROVE  Serial'
  <2>1. /\ edges' = releaseDeliveredCompletionCallback(edges, e)
        /\ UNCHANGED <<routes, target>>
        /\ turn'[e] = "none" /\ \A x \in Edges \ {e} : turn'[x] = turn[x]
    BY <1>1, <1>12 DEF ReleaseCallback, CallbackDies
  <2>2. Sound(edges, routes, target, turn')
    BY <2>1 DEF Serial, Sound
  <2>3. Reports(edges, edges', {})
    BY <1>1, <2>1, WritesReport
  <2> QED BY <1>1, <1>2, <2>1, <2>2, <2>3, ReportsOK DEF Serial
<1>13. ASSUME NEW e \in Edges, AcceptCallback(e)
       PROVE  Serial'
  <2> DEFINE es == consumeCompletionCallback(edges, e)
  <2>1. /\ edges' = es \/ edges' = completeChildContinuation(es, e)
        /\ UNCHANGED <<routes, target>> /\ turn[e] \in {"sending", "ended"}
        /\ turn'[e] \in {"accepted", "none"} /\ \A x \in Edges \ {e} : turn'[x] = turn[x]
    BY <1>1, <1>13 DEF AcceptCallback
  <2>2. edges[e].parent # NoEdge => target[edges[e].parent] \notin Ahead
    BY <2>1 DEF Serial, Sound
  <2>3. Sound(edges, routes, target, turn')
    BY <2>1, <2>2 DEF Serial, Sound
  <2>4. es \in [Edges -> Edge] /\ es[e].parent = edges[e].parent
    BY <1>1 DEF consumeCompletionCallback, Edge, Settled
  <2>5. Reports(edges, es, {})
    BY <1>1, WritesReport
  <2> HIDE DEF es
  <2>6. Sound(es, routes, target, turn')
    BY <1>1, <2>3, <2>4, <2>5, ReportsOK
  <2>7. CASE edges' = es
    BY <2>1, <2>6, <2>7 DEF Serial
  <2>8. CASE edges' = completeChildContinuation(es, e)
    <3>1. Reports(es, edges', {es[e].parent} \ {NoEdge})
      BY <2>4, <2>8, CompleteReports
    <3>2. \A x \in Edges : x \in {es[e].parent} \ {NoEdge} => target[x] \notin Ahead
      BY <2>2, <2>4
    <3> QED BY <1>2, <2>1, <2>4, <2>6, <3>1, <3>2, ReportsOK DEF Serial
  <2> QED BY <2>1, <2>7, <2>8
<1>14. ASSUME NEW e \in Edges, FinishCallback(e)
       PROVE  Serial'
  <2>1. /\ edges' = edges \/ edges' = completeChildContinuation(edges, e)
        /\ UNCHANGED <<routes, target>> /\ turn[e] \in {"sending", "accepted"}
        /\ turn'[e] \in {"ended", "none"} /\ \A x \in Edges \ {e} : turn'[x] = turn[x]
    BY <1>1, <1>14 DEF FinishCallback
  <2>2. edges[e].parent # NoEdge => target[edges[e].parent] \notin Ahead
    BY <2>1 DEF Serial, Sound
  <2>3. Sound(edges, routes, target, turn')
    BY <2>1, <2>2 DEF Serial, Sound
  <2>4. CASE edges' = edges
    BY <2>1, <2>3, <2>4 DEF Serial
  <2>5. CASE edges' = completeChildContinuation(edges, e)
    <3>1. Reports(edges, edges', {edges[e].parent} \ {NoEdge})
      BY <1>1, <2>5, CompleteReports
    <3>2. \A x \in Edges : x \in {edges[e].parent} \ {NoEdge} => target[x] \notin Ahead
      BY <2>2
    <3> QED BY <1>1, <1>2, <2>1, <2>3, <3>1, <3>2, ReportsOK DEF Serial
  <2> QED BY <2>1, <2>4, <2>5
<1>15. ASSUME NEW e \in Edges, Prune(e)
       PROVE  Serial'
  <2>1. /\ UNCHANGED <<routes, turn>> /\ turn[e] = "none"
        /\ edges' = [edges EXCEPT ![e] = NewEdge("pruned", NoEdge)]
        /\ target'[e] = "none" /\ \A x \in Edges \ {e} : target'[x] = target[x]
    BY <1>1, <1>15 DEF Prune
  <2>2. Sound(edges, routes, target', turn)
    BY <1>1, <2>1 DEF Serial, Sound, Ahead
  <2>3. Reports(edges, edges', {})
    BY <1>1, <2>1 DEF Reports, Reported, NewEdge, Edge
  <2>4. Sound(edges', routes, target', turn)
    BY <1>1, <1>2, <2>2, <2>3, ReportsOK
  <2> QED BY <2>1, <2>4 DEF Serial
<1>16. ASSUME CrashRestart
       PROVE  Serial'
  <2>1. \A e \in Edges : routes'[e] = 0 /\ target'[e] = "none" /\ turn'[e] = "none"
    BY <1>16 DEF CrashRestart
  <2>2. \A e \in Edges : edges'[e].parent \in Edges \cup {NoEdge}
    BY <1>2 DEF Edge
  <2> QED BY <2>1, <2>2 DEF Serial, Sound, Ahead
<1>17. CASE UNCHANGED vars
  BY <1>17 DEF vars, Serial
<1> QED BY <1>3, <1>4, <1>5, <1>6, <1>7, <1>8, <1>9, <1>10, <1>11, <1>12, <1>13,
           <1>14, <1>15, <1>16, <1>17 DEF Next

\* No delegation is reported upward before the turn that handles it has ended:
\* not by the callbacks of its children, which wait for the agent's own turn,
\* and not by a failed route, which falls back to evidence of that turn's end.
THEOREM ReportedHolds == Spec => []ReportedAfterTurn
<1>1. Init => Serial
  BY CallbackConstants DEF Init, Serial, Sound, NewEdge, Reported, Ahead
<1>2. Inv /\ Serial /\ [Next]_vars => Serial'
  BY StepSerial
<1>3. Serial => ReportedAfterTurn
  BY DEF Serial, Sound, ReportedAfterTurn, Reported, Ahead
<1> QED BY <1>1, <1>2, <1>3, InvHolds, PTL DEF Spec

-----------------------------------------------------------------------------
(***************************************************************************)
(* A claim has a turn, and a continuation that counts as ended has none.   *)
(*                                                                         *)
(* Both hold as long as no callback turn is enqueued again. What makes     *)
(* them inductive ties the row of an edge to its callback turn and to the  *)
(* terminal held for it: an accepted turn's claim is consumed, a terminal  *)
(* is held only for a turn that has ended, and a continuation that is done *)
(* has no turn that runs or could still start.                             *)
(***************************************************************************)

\* Row w with its callback turn t and whether a terminal is held for it.
OwnedRow(w, t, held) ==
  /\ t # "none" => w.state \in {"delivered", "consumed", "undeliverable"}
  /\ t = "accepted" => w.state # "delivered"
  /\ w.state = "delivered" => t # "none"
  /\ w.done => w.state = "consumed" /\ t \in {"none", "ended"}
  /\ held => \/ t = "ended"
             \/ t = "none" /\ w.state \in Settled \cup {"pruned"}

Owned(es, tn, df) == \A e \in Edges : OwnedRow(es[e], tn[e], df[e])

\* A write that claims nothing, ends no continuation and reopens no row.
Apart(v, w) ==
  /\ w.done = v.done
  /\ \/ w.state = v.state
     \/ v.state \in {"none", "pending"} /\ w.state \in {"pending", "satisfied"}
     \/ v.state \in Open /\ w.state \in {"consumed", "undeliverable"}

AllApart(es, new) == \A e \in Edges : Apart(es[e], new[e])

\* Such a write keeps every row with its turn.
LEMMA ApartOwned ==
  ASSUME NEW es, NEW new, NEW tn, NEW df, Owned(es, tn, df), AllApart(es, new)
  PROVE  Owned(new, tn, df)
<1> SUFFICES ASSUME NEW e \in Edges PROVE OwnedRow(new[e], tn[e], df[e])
  BY DEF Owned
<1>1. OwnedRow(es[e], tn[e], df[e]) /\ Apart(es[e], new[e])
  BY DEF Owned, AllApart
<1> QED BY <1>1 DEF OwnedRow, Apart, Open, Settled

\* The transactions that write one row, or the children's intents, are apart.
LEMMA WritesApart ==
  ASSUME NEW es, es \in [Edges -> Edge], NEW e \in Edges, NEW n \in Nat
  PROVE  /\ AllApart(es, satisfyCompletionCallback(es, e))
         /\ AllApart(es, announceChildren(es, e, n))
         /\ AllApart(es, releaseDeferredCompletionCallback(es, e))
         /\ AllApart(es, consumeForExplicitReturn(es, e))
<1> USE DEF AllApart, Apart, Edge, Open
<1>1. AllApart(es, satisfyCompletionCallback(es, e))
  BY DEF satisfyCompletionCallback
<1>2. AllApart(es, announceChildren(es, e, n))
  BY DEF announceChildren
<1>3. AllApart(es, releaseDeferredCompletionCallback(es, e))
  BY DEF releaseDeferredCompletionCallback
<1>4. AllApart(es, consumeForExplicitReturn(es, e))
  BY DEF consumeForExplicitReturn
<1> QED BY <1>1, <1>2, <1>3, <1>4

\* A created row has no turn yet.
LEMMA CreateApart ==
  ASSUME NEW es, es \in [Edges -> Edge], NEW e \in Edges, NEW p \in Edges \cup {NoEdge},
         es[e].state = "none", ~es[e].done
  PROVE  AllApart(es, createCompletionCallback(es, e, p))
BY DEF AllApart, Apart, createCompletionCallback, NewEdge, Edge

\* The end of a continuation is marked on its own row; what it releases is a
\* parent that is still pending.
LEMMA CompleteApart ==
  ASSUME NEW es, es \in [Edges -> Edge], NEW c \in Edges
  PROVE  LET new == completeChildContinuation(es, c) IN
         /\ \A e \in Edges \ {c} : Apart(es[e], new[e])
         /\ Apart(es[c], new[c])
            \/ new[c].state = "consumed"
<1> DEFINE p == es[c].parent
           marked == [es EXCEPT ![c].done = TRUE]
           freed == [marked EXCEPT ![p].state = "satisfied", ![p].awaiting = FALSE,
                                   ![p].evidence = TRUE]
<1>1. \/ completeChildContinuation(es, c) = es
      \/ es[c].state = "consumed" /\ completeChildContinuation(es, c) = marked
      \/ /\ es[c].state = "consumed"
         /\ p \in Edges /\ marked[p].state = "pending" /\ completeChildContinuation(es, c) = freed
  BY DEF completeChildContinuation, FanInComplete, Edge
<1>2. /\ marked \in [Edges -> Edge] /\ marked[c].state = es[c].state
      /\ \A e \in Edges \ {c} : marked[e] = es[e]
  BY DEF Edge
<1>3. CASE completeChildContinuation(es, c) = es
  BY <1>3 DEF Apart
<1>4. CASE es[c].state = "consumed" /\ completeChildContinuation(es, c) = marked
  BY <1>2, <1>4 DEF Apart
<1>5. CASE /\ es[c].state = "consumed" /\ p \in Edges /\ marked[p].state = "pending"
           /\ completeChildContinuation(es, c) = freed
  <2> HIDE DEF marked, p
  <2>1. p # c
    BY <1>2, <1>5
  <2>2. freed[c] = marked[c] /\ freed[p].state = "satisfied" /\ freed[p].done = marked[p].done
        /\ \A e \in Edges \ {p} : freed[e] = marked[e]
    BY <1>2, <1>5, <2>1 DEF Edge
  <2>3. \A e \in Edges \ {c} : Apart(es[e], freed[e])
    BY <1>2, <1>5, <2>2 DEF Apart
  <2> QED BY <1>2, <1>5, <2>2, <2>3
<1> QED BY <1>1, <1>3, <1>4, <1>5

\* A step at one callback turn, which may free other rows.
LEMMA OneTurnOwned ==
  ASSUME Inv, Owned(edges, turn, deferred), NEW e \in Edges,
         NEW t \in TurnStates, NEW held \in BOOLEAN,
         turn' = [turn EXCEPT ![e] = t], deferred' = [deferred EXCEPT ![e] = held],
         \A x \in Edges \ {e} : Apart(edges[x], edges'[x]),
         OwnedRow(edges'[e], t, held)
  PROVE  Owned(edges', turn', deferred')
<1> SUFFICES ASSUME NEW x \in Edges PROVE OwnedRow(edges'[x], turn'[x], deferred'[x])
  BY DEF Owned
<1>1. CASE x = e
  BY <1>1 DEF Inv
<1>2. CASE x # e
  <2>1. turn'[x] = turn[x] /\ deferred'[x] = deferred[x]
    BY <1>2 DEF Inv
  <2>2. OwnedRow(edges[x], turn[x], deferred[x]) /\ Apart(edges[x], edges'[x])
    BY <1>2 DEF Owned
  <2> QED BY <2>1, <2>2 DEF OwnedRow, Apart, Open, Settled
<1> QED BY <1>1, <1>2

\* A finalized message hands back or announces; no turn moves.
LEMMA FinalizedOwned ==
  ASSUME Inv, Owned(edges, turn, deferred), NEW p \in Edges, NEW returned \in BOOLEAN,
         NEW n \in Nat, Finalized(p, returned, n)
  PROVE  Owned(edges', turn', deferred')
<1> DEFINE es == IF returned THEN consumeForExplicitReturn(edges, p) ELSE edges
<1>1. Table(edges, routes) /\ edges \in [Edges -> Edge]
  BY DEF Inv, Table
<1>2. Owned(es, turn, deferred) /\ Table(es, routes)
  BY <1>1, HandBackOK, WritesApart, ApartOwned
<1>3. /\ edges' = IF n > 0 THEN announceChildren(es, p, n) ELSE es
      /\ turn' = turn /\ deferred' = deferred
  BY DEF Finalized
<1> HIDE DEF es
<1>4. es \in [Edges -> Edge]
  BY <1>2 DEF Table
<1> QED BY <1>2, <1>3, <1>4, WritesApart, ApartOwned

\* The steps that lead to a callback turn and back from it.
LEMMA ClaimOwned ==
  ASSUME Inv, Owned(edges, turn, deferred), NEW e \in Edges, Claim(e)
  PROVE  Owned(edges', turn', deferred')
<1>1. /\ edges \in [Edges -> Edge] /\ deferred[e] \in BOOLEAN
      /\ edges[e].state = "satisfied" /\ turn[e] = "none"
      /\ edges' = [edges EXCEPT ![e].state = "delivered"]
      /\ turn' = [turn EXCEPT ![e] = "claimed"] /\ deferred' = deferred
  BY DEF Inv, Table, Claim
<1>2. OwnedRow(edges[e], turn[e], deferred[e])
  BY DEF Owned
<1>3. ~deferred[e] /\ ~edges[e].done
  BY <1>1, <1>2 DEF OwnedRow, Settled
<1>4. edges'[e].state = "delivered" /\ edges'[e].done = edges[e].done
  BY <1>1 DEF Edge
<1>5. OwnedRow(edges'[e], "claimed", deferred[e])
  BY <1>3, <1>4 DEF OwnedRow
<1>6. \A x \in Edges \ {e} : Apart(edges[x], edges'[x])
  BY <1>1 DEF Apart
<1>7. deferred' = [deferred EXCEPT ![e] = deferred[e]]
  BY <1>1 DEF Inv
<1>8. PICK t \in TurnStates : t = "claimed"
  BY DEF TurnStates
<1> QED BY <1>1, <1>5, <1>6, <1>7, <1>8, OneTurnOwned

\* A callback that nobody can receive is given up with all that waits for it.
LEMMA UnavailableOwned ==
  ASSUME Inv, Owned(edges, turn, deferred), NEW e \in Edges, ClaimUnavailable(e)
  PROVE  Owned(edges', turn', deferred')
<1> DEFINE es == [edges EXCEPT ![e].state = "delivered"]
<1>1. /\ edges \in [Edges -> Edge] /\ edges[e].state = "satisfied"
      /\ edges' = terminalizeDeliveredCompletionCallback(es, e)
      /\ turn' = turn /\ deferred' = deferred
  BY DEF Inv, Table, ClaimUnavailable
<1>2. \A x \in Edges : /\ es[x].done = edges[x].done
                       /\ x # e => es[x] = edges[x]
  BY <1>1 DEF Edge
<1>3. es[e].state = "delivered" /\ es \in [Edges -> Edge]
  BY <1>1 DEF Edge, Open
<1> HIDE DEF es
<1>4. \A x \in Edges :
        edges'[x] = IF x = e \/ (x \in Ancestors(es, e) /\ es[x].state \in Open)
                    THEN [es[x] EXCEPT !.state = "undeliverable"] ELSE es[x]
  BY <1>1 DEF terminalizeDeliveredCompletionCallback
<1>5. ASSUME NEW x \in Edges
      PROVE  Apart(edges[x], edges'[x])
  <2>1. CASE x = e
    <3>1. edges'[x].state = "undeliverable" /\ edges'[x].done = es[x].done
      BY <1>3, <1>4, <2>1 DEF Edge
    <3> QED BY <1>1, <1>2, <2>1, <3>1 DEF Apart, Open
  <2>2. CASE x # e
    <3>1. es[x] = edges[x]
      BY <1>2, <2>2
    <3>2. CASE x \in Ancestors(es, e) /\ es[x].state \in Open
      <4>1. edges'[x].state = "undeliverable" /\ edges'[x].done = es[x].done
        BY <1>3, <1>4, <3>2 DEF Edge
      <4> QED BY <3>1, <3>2, <4>1 DEF Apart
    <3>3. CASE ~(x \in Ancestors(es, e) /\ es[x].state \in Open)
      BY <1>4, <2>2, <3>1, <3>3 DEF Apart
    <3> QED BY <3>2, <3>3
  <2> QED BY <2>1, <2>2
<1> QED BY <1>1, <1>5, ApartOwned DEF AllApart

\* A turn moves on towards its runtime.
LEMMA OnwardOwned ==
  ASSUME Inv, Owned(edges, turn, deferred), NEW e \in Edges,
         EnqueueCallback(e) \/ SendCallback(e)
  PROVE  Owned(edges', turn', deferred')
<1>1. PICK t \in TurnStates :
        /\ turn' = [turn EXCEPT ![e] = t] /\ t \in {"queued", "sending"}
        /\ turn[e] \in {"claimed", "queued"}
  BY DEF EnqueueCallback, SendCallback, TurnStates
<1>2. edges' = edges /\ deferred' = deferred /\ deferred[e] \in BOOLEAN
  BY DEF EnqueueCallback, SendCallback, Inv
<1>3. deferred' = [deferred EXCEPT ![e] = deferred[e]]
  BY <1>2 DEF Inv
<1>4. OwnedRow(edges[e], turn[e], deferred[e])
  BY DEF Owned
<1>5. OwnedRow(edges'[e], t, deferred[e])
  BY <1>1, <1>2, <1>4 DEF OwnedRow
<1>6. \A x \in Edges \ {e} : Apart(edges[x], edges'[x])
  BY <1>2 DEF Apart
<1> QED BY <1>1, <1>2, <1>3, <1>5, <1>6, OneTurnOwned

\* A turn ends without its terminal: its claim is offered again.
LEMMA ReleaseOwned ==
  ASSUME Inv, Owned(edges, turn, deferred), NEW e \in Edges,
         ReleaseCallback(e) \/ CallbackDies(e)
  PROVE  Owned(edges', turn', deferred')
<1>1. /\ edges \in [Edges -> Edge]
      /\ turn' = [turn EXCEPT ![e] = "none"] /\ deferred' = [deferred EXCEPT ![e] = FALSE]
      /\ edges' = releaseDeliveredCompletionCallback(edges, e)
      /\ turn[e] # "none"
  BY DEF ReleaseCallback, CallbackDies, Inv, Table
<1>2. PICK t \in TurnStates : t = "none"
  BY DEF TurnStates
<1>3. PICK held \in BOOLEAN : held = FALSE
  OBVIOUS
<1>4. /\ \A x \in Edges \ {e} : edges'[x] = edges[x]
      /\ edges'[e].done = edges[e].done
      /\ edges'[e].state = IF edges[e].state = "delivered" THEN "satisfied" ELSE edges[e].state
  BY <1>1 DEF releaseDeliveredCompletionCallback, Edge
<1>5. OwnedRow(edges[e], turn[e], deferred[e])
  BY DEF Owned
<1>6. OwnedRow(edges'[e], t, held)
  BY <1>2, <1>3, <1>4, <1>5 DEF OwnedRow
<1>7. \A x \in Edges \ {e} : Apart(edges[x], edges'[x])
  BY <1>4 DEF Apart
<1> QED BY <1>1, <1>2, <1>3, <1>6, <1>7, OneTurnOwned


\* The adapter accepts the trigger; a terminal held until now ends the
\* continuation.
LEMMA AcceptOwned ==
  ASSUME Inv, Owned(edges, turn, deferred), NEW e \in Edges, AcceptCallback(e)
  PROVE  Owned(edges', turn', deferred')
<1> DEFINE es == consumeCompletionCallback(edges, e)
           flush == edges[e].state = "delivered" /\ deferred[e]
<1>1. /\ edges \in [Edges -> Edge] /\ deferred \in [Edges -> BOOLEAN]
      /\ turn \in [Edges -> TurnStates] /\ turn[e] \in {"sending", "ended"}
      /\ edges' = IF flush THEN completeChildContinuation(es, e) ELSE es
      /\ deferred' = [deferred EXCEPT ![e] = @ /\ ~flush]
      /\ turn' = [turn EXCEPT ![e] = IF @ = "sending" THEN "accepted" ELSE "none"]
  BY DEF AcceptCallback, Inv, Table
<1>2. PICK t \in TurnStates : t = IF turn[e] = "sending" THEN "accepted" ELSE "none"
  BY DEF TurnStates
<1>3. PICK held \in BOOLEAN : held = (deferred[e] /\ ~flush)
  BY <1>1
<1>4. OwnedRow(edges[e], turn[e], deferred[e])
  BY DEF Owned
<1>5. /\ es \in [Edges -> Edge] /\ \A x \in Edges \ {e} : es[x] = edges[x]
      /\ es[e].done = edges[e].done /\ es[e].state \in {"consumed", "undeliverable"}
  BY <1>1, <1>4 DEF consumeCompletionCallback, OwnedRow, Edge, Settled
<1>6. turn' = [turn EXCEPT ![e] = t] /\ deferred' = [deferred EXCEPT ![e] = held]
  BY <1>1, <1>2, <1>3
<1>7. CASE flush
  <2>1. /\ turn[e] = "ended" /\ t = "none" /\ ~held /\ es[e].state = "consumed"
        /\ edges' = completeChildContinuation(es, e)
    BY <1>1, <1>2, <1>3, <1>4, <1>7 DEF OwnedRow, consumeCompletionCallback, Edge, Settled
  <2> HIDE DEF es, flush
  <2>2. /\ \A x \in Edges \ {e} : Apart(es[x], edges'[x])
        /\ edges'[e].state = "consumed"
    BY <1>5, <2>1, CompleteApart DEF Apart, Open
  <2>3. \A x \in Edges \ {e} : Apart(edges[x], edges'[x])
    BY <1>5, <2>2
  <2>4. OwnedRow(edges'[e], t, held)
    BY <2>1, <2>2 DEF OwnedRow
  <2> QED BY <1>6, <2>3, <2>4, OneTurnOwned
<1>8. CASE ~flush
  <2>1. edges' = es
    BY <1>1, <1>8
  <2>9. edges[e].state = "consumed" => es[e].state = "consumed"
    BY <1>1 DEF consumeCompletionCallback
  <2> HIDE DEF es, flush
  <2>2. \A x \in Edges \ {e} : Apart(edges[x], edges'[x])
    BY <1>5, <2>1 DEF Apart
  <2>3. t \in {"accepted", "none"} /\ (t = "accepted" => turn[e] = "sending")
    BY <1>2
  <2>4. edges[e].done => turn[e] = "ended" /\ edges[e].state = "consumed"
    BY <1>1, <1>4 DEF OwnedRow
  <2>5. deferred[e] => turn[e] = "ended"
    BY <1>1, <1>4 DEF OwnedRow
  <2>6. edges[e].done => t = "none" /\ edges'[e].state = "consumed"
    BY <1>2, <1>5, <2>1, <2>4, <2>9
  <2>7. held => t = "none"
    BY <1>2, <1>3, <2>5
  <2>8. OwnedRow(edges'[e], t, held)
    BY <1>5, <2>1, <2>3, <2>6, <2>7 DEF OwnedRow, Settled
  <2> QED BY <1>6, <2>2, <2>8, OneTurnOwned
<1> QED BY <1>7, <1>8

\* A callback turn ends: its terminal is held for the acceptance still to
\* come, or completes the continuation.
LEMMA FinishOwned ==
  ASSUME Inv, Owned(edges, turn, deferred), NEW e \in Edges, FinishCallback(e)
  PROVE  Owned(edges', turn', deferred')
<1> DEFINE open == edges[e].state = "delivered"
<1>1. /\ edges \in [Edges -> Edge] /\ deferred \in [Edges -> BOOLEAN]
      /\ turn \in [Edges -> TurnStates] /\ turn[e] \in {"sending", "accepted"}
      /\ deferred' = [deferred EXCEPT ![e] = @ \/ open]
      /\ edges' = IF open THEN edges ELSE completeChildContinuation(edges, e)
      /\ turn' = [turn EXCEPT ![e] = IF @ = "sending" THEN "ended" ELSE "none"]
  BY DEF FinishCallback, Inv, Table
<1>2. PICK t \in TurnStates : t = IF turn[e] = "sending" THEN "ended" ELSE "none"
  BY DEF TurnStates
<1>3. OwnedRow(edges[e], turn[e], deferred[e])
  BY DEF Owned
<1>4. ~deferred[e] /\ ~edges[e].done
  BY <1>1, <1>3 DEF OwnedRow
<1>5. PICK held \in BOOLEAN : held = open
  OBVIOUS
<1>6. turn' = [turn EXCEPT ![e] = t] /\ deferred' = [deferred EXCEPT ![e] = held]
  BY <1>1, <1>2, <1>4, <1>5
<1>7. CASE open
  <2>1. turn[e] = "sending" /\ t = "ended" /\ edges' = edges
    BY <1>1, <1>2, <1>3, <1>7 DEF OwnedRow
  <2>2. \A x \in Edges \ {e} : Apart(edges[x], edges'[x])
    BY <2>1 DEF Apart
  <2>3. OwnedRow(edges'[e], t, held)
    BY <1>4, <1>7, <2>1 DEF OwnedRow
  <2> QED BY <1>6, <2>2, <2>3, OneTurnOwned
<1>8. CASE ~open
  <2>1. edges' = completeChildContinuation(edges, e) /\ ~held
    BY <1>1, <1>5, <1>8
  <2>2. edges[e].state \in {"consumed", "undeliverable"}
    BY <1>1, <1>3, <1>8 DEF OwnedRow
  <2>3. /\ \A x \in Edges \ {e} : Apart(edges[x], edges'[x])
        /\ Apart(edges[e], edges'[e]) \/ edges'[e].state = "consumed"
    BY <1>1, <2>1, CompleteApart
  <2>4. t \in {"none", "ended"}
    BY <1>2
  <2>5. /\ edges'[e].state \in {"consumed", "undeliverable"}
        /\ edges'[e].done => edges'[e].state = "consumed"
    BY <1>4, <2>2, <2>3 DEF Apart, Open
  <2>6. OwnedRow(edges'[e], t, held)
    BY <2>1, <2>4, <2>5 DEF OwnedRow
  <2> QED BY <1>6, <2>3, <2>6, OneTurnOwned
<1> QED BY <1>7, <1>8


\* An admitted route gives a new row; a full queue ends it at once.
LEMMA AdmitOwned ==
  ASSUME Inv, Owned(edges, turn, deferred), NEW e \in Edges,
         NEW p \in Edges \cup {NoEdge}, NEW full \in BOOLEAN, RouteAdmitted(p, e, full)
  PROVE  Owned(edges', turn', deferred')
<1> DEFINE es == createCompletionCallback(edges, e, p)
<1>1. /\ Table(edges, routes) /\ edges \in [Edges -> Edge] /\ Row(edges, e, edges[e], routes[e])
      /\ routes[p] > 0 /\ edges[e].state = "none" /\ (p # NoEdge => AdmitsChild(edges, p))
      /\ edges' = IF full THEN satisfyCompletionCallback(es, e) ELSE es
      /\ turn' = turn /\ deferred' = deferred
  BY DEF RouteAdmitted, Inv, Table
<1>2. ~edges[e].done
  BY <1>1 DEF Row
<1>3. AllApart(edges, es)
  BY <1>1, <1>2, CreateApart
<1>4. es \in [Edges -> Edge]
  BY <1>1, CreateOK DEF Table
<1>5. Owned(es, turn, deferred)
  BY <1>3, ApartOwned
<1> HIDE DEF es
<1>6. PICK n \in Nat : n = 0
  OBVIOUS
<1> QED BY <1>1, <1>4, <1>5, WritesApart, ApartOwned

\* A restart forgets the turns and offers their claims again.
LEMMA RestartOwned ==
  ASSUME Inv, Owned(edges, turn, deferred), CrashRestart
  PROVE  Owned(edges', turn', deferred')
<1> SUFFICES ASSUME NEW e \in Edges PROVE OwnedRow(edges'[e], turn'[e], deferred'[e])
  BY DEF Owned
<1>1. /\ edges \in [Edges -> Edge] /\ edges' = recoverCompletionCallbacks(edges)
      /\ turn'[e] = "none" /\ deferred'[e] = FALSE
  BY DEF CrashRestart, Inv, Table
<1>2. /\ edges'[e].done = edges[e].done
      /\ \/ edges'[e].state = "satisfied" /\ edges[e].state \in {"delivered", "pending"}
         \/ edges'[e].state = edges[e].state /\ edges[e].state # "delivered"
  BY <1>1 DEF recoverCompletionCallbacks, Edge
<1>3. OwnedRow(edges[e], turn[e], deferred[e])
  BY DEF Owned
<1> QED BY <1>1, <1>2, <1>3 DEF OwnedRow

\* Retention drops a settled row, which has no turn.
LEMMA PruneOwned ==
  ASSUME Inv, Owned(edges, turn, deferred), NEW e \in Edges, Prune(e)
  PROVE  Owned(edges', turn', deferred')
<1>1. /\ edges \in [Edges -> Edge] /\ turn[e] = "none"
      /\ edges' = [edges EXCEPT ![e] = NewEdge("pruned", NoEdge)]
      /\ turn' = turn /\ deferred' = deferred
  BY DEF Prune, Inv, Table
<1>2. edges'[e].state = "pruned" /\ ~edges'[e].done /\ \A x \in Edges \ {e} : edges'[x] = edges[x]
  BY <1>1 DEF NewEdge
<1> SUFFICES ASSUME NEW x \in Edges PROVE OwnedRow(edges'[x], turn'[x], deferred'[x])
  BY DEF Owned
<1>3. OwnedRow(edges[x], turn[x], deferred[x])
  BY DEF Owned
<1> QED BY <1>1, <1>2, <1>3 DEF OwnedRow

\* Every step that enqueues no callback turn again keeps rows and turns
\* together.
LEMMA StepOwned ==
  ASSUME Inv, Owned(edges, turn, deferred), [Next]_vars,
         \A e \in Edges : ~RetryCallback(e) /\ ~RetryRefused(e)
  PROVE  Owned(edges', turn', deferred')
<1> DEFINE Goal == Owned(edges', turn', deferred')
<1>1. Table(edges, routes) /\ edges \in [Edges -> Edge]
      /\ \A e \in Edges : edges[e].parent \in Edges \cup {NoEdge}
  BY DEF Inv, Table, Edge
<1>2. edges' = edges /\ turn' = turn /\ deferred' = deferred => Goal
  OBVIOUS
<1>3. AllApart(edges, edges') /\ turn' = turn /\ deferred' = deferred => Goal
  BY ApartOwned
<1>4. ASSUME NEW n \in 1..MaxFan, DelegateRoot(n)
      PROVE  Goal
  BY <1>2, <1>4 DEF DelegateRoot
<1>5. ASSUME NEW e \in Edges, NEW returned \in BOOLEAN, NEW n \in 0..MaxFan,
             TargetFinalized(e, returned, n) \/ ContinuationFinalized(e, returned, n)
      PROVE  Goal
  <2>1. n \in Nat /\ edges[e].parent \in Edges \cup {NoEdge}
    BY <1>1, CallbackConstants
  <2> QED BY <1>5, <2>1, FinalizedOwned DEF TargetFinalized, ContinuationFinalized
<1>6. ASSUME NEW e \in Edges, NEW p \in Edges \cup {NoEdge}, NEW full \in BOOLEAN,
             RouteAdmitted(p, e, full)
      PROVE  Goal
  BY <1>6, AdmitOwned
<1>7. ASSUME NEW p \in Edges \cup {NoEdge}, RouteFailed(p)
      PROVE  Goal
  <2>1. PICK n \in Nat : n = 0
    OBVIOUS
  <2>2. turn' = turn /\ deferred' = deferred
        /\ edges' = IF p = NoEdge THEN edges ELSE releaseDeferredCompletionCallback(edges, p)
    BY <1>7 DEF RouteFailed
  <2>3. p # NoEdge => AllApart(edges, releaseDeferredCompletionCallback(edges, p))
    BY <1>1, <2>1, WritesApart
  <2> QED BY <1>2, <1>3, <2>2, <2>3
<1>8. ASSUME NEW e \in Edges, StartTarget(e)
      PROVE  Goal
  BY <1>2, <1>8 DEF StartTarget
<1>9. ASSUME NEW e \in Edges, FinishTarget(e) \/ TargetDies(e)
      PROVE  Goal
  <2>1. PICK n \in Nat : n = 0
    OBVIOUS
  <2>2. AllApart(edges, satisfyCompletionCallback(edges, e))
    BY <1>1, <2>1, WritesApart
  <2> QED BY <1>3, <1>9, <2>2 DEF FinishTarget, TargetDies
<1>10. ASSUME NEW e \in Edges, \/ Claim(e) \/ ClaimUnavailable(e)
                               \/ EnqueueCallback(e) \/ SendCallback(e)
       PROVE  Goal
  BY <1>10, ClaimOwned, UnavailableOwned, OnwardOwned
<1>11. ASSUME NEW e \in Edges, \/ ReleaseCallback(e) \/ CallbackDies(e)
                               \/ AcceptCallback(e) \/ FinishCallback(e)
       PROVE  Goal
  BY <1>11, ReleaseOwned, AcceptOwned, FinishOwned
<1>12. ASSUME NEW e \in Edges, Prune(e)
       PROVE  Goal
  BY <1>12, PruneOwned
<1>13. ASSUME CrashRestart
       PROVE  Goal
  BY <1>13, RestartOwned
<1>14. CASE UNCHANGED vars
  BY <1>2, <1>14 DEF vars
<1> HIDE DEF Goal
<1>15. \A e \in Edges : ~RetryCallback(e) /\ ~RetryRefused(e)
  OBVIOUS
<1>16. ASSUME Next
       PROVE  Goal
  <2>1. ASSUME NEW e \in Edges,
               \/ \E returned \in BOOLEAN, n \in 0..MaxFan :
                    TargetFinalized(e, returned, n) \/ ContinuationFinalized(e, returned, n)
               \/ \E p \in Edges \cup {NoEdge}, full \in BOOLEAN : RouteAdmitted(p, e, full)
        PROVE  Goal
    BY <1>5, <1>6, <2>1
  <2>2. ASSUME NEW e \in Edges,
               \/ StartTarget(e) \/ FinishTarget(e) \/ TargetDies(e)
               \/ Claim(e) \/ ClaimUnavailable(e) \/ EnqueueCallback(e) \/ SendCallback(e)
               \/ ReleaseCallback(e) \/ AcceptCallback(e) \/ FinishCallback(e)
               \/ CallbackDies(e) \/ RetryCallback(e) \/ RetryRefused(e)
               \/ Prune(e)
        PROVE  Goal
    BY <1>8, <1>9, <1>10, <1>11, <1>12, <1>15, <2>2
  <2>3. (\E n \in 1..MaxFan : DelegateRoot(n)) => Goal
    BY <1>4
  <2>4. (\E p \in Edges \cup {NoEdge} : RouteFailed(p)) => Goal
    BY <1>7
  <2> QED BY <1>13, <1>16, <2>1, <2>2, <2>3, <2>4 DEF Next
<1> QED BY <1>14, <1>16 DEF Goal

\* Failures only use up what is left of them.
LEMMA LeftShrinks ==
  ASSUME Inv, [Next]_vars
  PROVE  left' = left \/ \E d \in Disturbances : Spend(d)
<1> USE DEF Disturbances
<1>1. ASSUME NEW n \in 1..MaxFan, DelegateRoot(n)
      PROVE  left' = left
  BY <1>1 DEF DelegateRoot
<1>2. ASSUME NEW e \in Edges, NEW returned \in BOOLEAN, NEW n \in 0..MaxFan,
             TargetFinalized(e, returned, n) \/ ContinuationFinalized(e, returned, n)
      PROVE  left' = left \/ Spend("return")
  BY <1>2 DEF TargetFinalized, ContinuationFinalized, Finalized
<1>3. ASSUME NEW e \in Edges, NEW p \in Edges \cup {NoEdge}, NEW full \in BOOLEAN,
             RouteAdmitted(p, e, full)
      PROVE  left' = left
  BY <1>3 DEF RouteAdmitted
<1>4. ASSUME NEW p \in Edges \cup {NoEdge}, RouteFailed(p)
      PROVE  left' = left \/ Spend("route")
  BY <1>4 DEF RouteFailed
<1>5. ASSUME NEW e \in Edges, \/ StartTarget(e) \/ FinishTarget(e) \/ Claim(e)
                              \/ ClaimUnavailable(e) \/ EnqueueCallback(e)
                              \/ SendCallback(e) \/ ReleaseCallback(e)
                              \/ AcceptCallback(e) \/ FinishCallback(e) \/ Prune(e)
      PROVE  left' = left
  BY <1>5 DEF StartTarget, FinishTarget, Claim, ClaimUnavailable, EnqueueCallback,
       SendCallback, ReleaseCallback, AcceptCallback, FinishCallback, Prune
<1>6. ASSUME NEW e \in Edges, \/ TargetDies(e) \/ CallbackDies(e)
                              \/ RetryCallback(e) \/ RetryRefused(e)
      PROVE  Spend("death") \/ Spend("retry") \/ Spend("refusal")
  BY <1>6 DEF TargetDies, CallbackDies, RetryCallback, RetryRefused
<1>7. ASSUME CrashRestart
      PROVE  Spend("crash")
  BY <1>7 DEF CrashRestart
<1>8. UNCHANGED vars => left' = left
  BY DEF vars
<1> QED BY <1>1, <1>2, <1>3, <1>4, <1>5, <1>6, <1>7, <1>8 DEF Next

\* The inductive invariant: no more is left of the retries than there was, and
\* until the first of them rows and turns belong together.
OwnedInv ==
  /\ left["retry"] <= MaxRetries /\ left["refusal"] <= MaxRefusals
  /\ NoResend => Owned(edges, turn, deferred)

LEMMA OwnedHolds == Spec => []OwnedInv
<1> USE CallbackConstants
<1>1. Init => OwnedInv
  <2> SUFFICES ASSUME Init PROVE OwnedInv
    OBVIOUS
  <2>1. left["retry"] = MaxRetries /\ left["refusal"] = MaxRefusals
    BY DEF Init, Disturbances
  <2>2. \A e \in Edges : /\ edges[e].state = "none" /\ ~edges[e].done
                         /\ turn[e] = "none" /\ ~deferred[e]
    BY DEF Init, NewEdge
  <2>3. Owned(edges, turn, deferred)
    BY <2>2 DEF Owned, OwnedRow
  <2> QED BY <2>1, <2>3 DEF OwnedInv
<1>2. ASSUME Inv, OwnedInv, [Next]_vars
      PROVE  OwnedInv'
  <2>1. /\ left["retry"] \in Nat /\ left["refusal"] \in Nat
        /\ left["retry"] <= MaxRetries /\ left["refusal"] <= MaxRefusals
        /\ MaxRetries \in Nat /\ MaxRefusals \in Nat
        /\ left \in [Disturbances -> Nat]
    BY <1>2 DEF OwnedInv, Inv, Disturbances
  <2>2. ASSUME NEW d \in Disturbances, Spend(d)
        PROVE  /\ left'[d] = left[d] - 1
               /\ \A x \in Disturbances \ {d} : left'[x] = left[x]
    BY <2>1, <2>2 DEF Spend
  <2>3. left'["retry"] <= left["retry"] /\ left'["refusal"] <= left["refusal"]
        /\ left'["retry"] \in Int /\ left'["refusal"] \in Int
    <3>1. CASE left' = left
      BY <2>1, <3>1
    <3>2. ASSUME NEW d \in Disturbances, Spend(d)
          PROVE  left'["retry"] <= left["retry"] /\ left'["refusal"] <= left["refusal"]
                 /\ left'["retry"] \in Int /\ left'["refusal"] \in Int
      BY <2>1, <2>2, <3>2 DEF Disturbances
    <3> QED BY <1>2, <3>1, <3>2, LeftShrinks
  <2>4. left'["retry"] <= MaxRetries /\ left'["refusal"] <= MaxRefusals
    BY <2>1, <2>3
  <2>5. ASSUME NoResend'
        PROVE  Owned(edges', turn', deferred')
    <3>1. left'["retry"] = MaxRetries /\ left'["refusal"] = MaxRefusals
      BY <2>5 DEF NoResend
    <3>2. left["retry"] = MaxRetries /\ left["refusal"] = MaxRefusals
      BY <2>1, <2>3, <3>1
    <3>3. ~Spend("retry") /\ ~Spend("refusal")
      BY <2>2, <3>1, <3>2 DEF Disturbances
    <3>4. \A e \in Edges : ~RetryCallback(e) /\ ~RetryRefused(e)
      BY <3>3 DEF RetryCallback, RetryRefused
    <3>5. Owned(edges, turn, deferred)
      BY <1>2, <3>2 DEF OwnedInv, NoResend
    <3> QED BY <1>2, <3>4, <3>5, StepOwned
  <2> QED BY <2>4, <2>5 DEF OwnedInv
<1> QED BY <1>1, <1>2, InvHolds, PTL DEF Spec

\* A durable claim (a delivered row) always has the turn that carries it to its
\* requester, in this process: releaseUnacceptedCompletionCallbackTurn, the
\* death of a runtime and recovery at startup hand back what they interrupt.
THEOREM ClaimsHold == Spec => []ClaimsAreOwned
<1>1. OwnedInv => ClaimsAreOwned
  BY DEF OwnedInv, Owned, OwnedRow, ClaimsAreOwned
<1> QED BY <1>1, OwnedHolds, PTL

\* No callback turn of a delegation's children still runs when the delegation
\* is reported upward: completeChildContinuation marks a child only when its
\* turn has ended and the adapter has accepted it.
THEOREM ReleasedHold == Spec => []ReleasedAfterContinuations
<1>1. Inv /\ OwnedInv => ReleasedAfterContinuations
  <2> SUFFICES ASSUME Inv, OwnedInv, NoResend, NEW p \in Edges,
                      edges[p].state \in {"satisfied", "delivered"},
                      NEW c \in Edges, edges[c].parent = p
               PROVE  turn[c] \notin {"sending", "accepted"}
    BY DEF ReleasedAfterContinuations, Children
  <2>1. edges[c].done
    BY DEF Inv, Table, Row, Open
  <2>2. OwnedRow(edges[c], turn[c], deferred[c])
    BY DEF OwnedInv, Owned
  <2> QED BY <2>1, <2>2 DEF OwnedRow
<1> QED BY <1>1, OwnedHolds, InvHolds, PTL
=============================================================================
