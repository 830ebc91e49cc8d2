---------------------------- MODULE ChronaLogProofs ----------------------------
(***************************************************************************)
(* The event log accounts for the tables, and a log without failed calls   *)
(* rebuilds them.  Every operation is a sequence of a few effects on       *)
(* tables, counters and log; what holds of the log is shown to survive     *)
(* each effect once, and then carried through the operations.              *)
(***************************************************************************)
EXTENDS ChronaDbProofs

-----------------------------------------------------------------------------
(* The effects *)

\* The log of e is that of d and one event more.
Logs(d, e, now, ev) ==
  /\ now \in Clock
  /\ e.eventCtr = d.eventCtr + 1
  /\ e.events = Insert(d.events, <<now, d.eventCtr + 1>>, ev)

\* The strings of e are those of d and the ones the ids in used stand for.
Interns(d, e, used) == DOMAIN e.strRev = DOMAIN d.strRev \cup (used \ {Zero})

\* A new node under the next id.
AddsNode(d, e) ==
  \E n \in Node, now \in Clock :
    /\ e.nodes = Insert(d.nodes, d.nodeCtr + 1, n)
    /\ Interns(d, e, {n.type})
    /\ SameEdges(d, e)
    /\ Logs(d, e, now, NodeAdded(n))

\* Edge g under the next id, in the table of edges and in that of revisions.
StoresEdge(d, e, g) ==
  /\ g \in Edge
  /\ e.edgeCtr = d.edgeCtr + 1
  /\ e.edges = Insert(d.edges, d.edgeCtr + 1, g)
  /\ e.superIdx = IF g.supersedes = Zero THEN d.superIdx
                  ELSE d.superIdx \cup {<<g.supersedes, d.edgeCtr + 1>>}
  /\ SameNodes(d, e)
  /\ Interns(d, e, {g.type, g.source})

ObservesEdge(d, e, g) ==
  \E now \in Clock : StoresEdge(d, e, g) /\ Logs(d, e, now, EdgeObserved(g))

AddsEdge(d, e) == \E g \in Edge : g.supersedes = Zero /\ ObservesEdge(d, e, g)

\* The event that accompanies a revision just stored.
NotesRevision(d, e, g) ==
  \E now \in Clock :
    /\ SameStrings(d, e) /\ SameNodes(d, e) /\ SameEdges(d, e)
    /\ Logs(d, e, now, EdgeSuperseded(g.supersedes, g))

\* A revision is logged twice, as an edge and as what it revises.
AddsRevision(d, e) ==
  \E m : \E g \in Edge : /\ g.supersedes # Zero /\ Good(m)
                         /\ ObservesEdge(d, m, g) /\ NotesRevision(m, e, g)

\* The end of an edge moves to an earlier time.
ClosesEdge(d, e) ==
  \E id \in DOMAIN d.edges, at \in Time, now \in Clock :
    /\ d.edges[id].vt = NoTs \/ at < d.edges[id].vt
    /\ e.edges = Insert(d.edges, id, [d.edges[id] EXCEPT !.vt = at])
    /\ e.edgeCtr = d.edgeCtr /\ e.superIdx = d.superIdx
    /\ SameStrings(d, e) /\ SameNodes(d, e)
    /\ Logs(d, e, now, EdgeInvalidated(id, at))

\* What a call may do when it succeeds, besides nothing.
Effect(d, e) == AddsNode(d, e) \/ AddsEdge(d, e) \/ AddsRevision(d, e) \/ ClosesEdge(d, e)

\* What a failed call may leave behind: strings and a burned edge id.
LeavesResidue(d, e) ==
  /\ e.edges = d.edges /\ e.superIdx = d.superIdx
  /\ SameNodes(d, e) /\ SameLog(d, e)

-----------------------------------------------------------------------------
(* The parts of the operations have these effects *)

LEMMA InternsString ==
  ASSUME NEW d, NEW s \in Text, Good(d)
  PROVE  LET r == Intern(d, s) IN Interns(d, r.db, {r.id})
<1> DEFINE r == Intern(d, s)
<1>1. CASE s \in DOMAIN d.strFwd
  <2>1. r.db = d /\ r.id = d.strFwd[s]
    BY <1>1 DEF Intern, Ok
  <2>2. d.strFwd[s] \in DOMAIN d.strRev
    BY <1>1 DEF Good, DbInv, InternerBijective
  <2> QED
    BY <2>1, <2>2 DEF Interns
<1>2. CASE s \notin DOMAIN d.strFwd
  <2>1. r.id = d.strCtr + 1 /\ r.db.strRev = Insert(d.strRev, r.id, s)
    BY <1>2, InternNew DEF Good
  <2>2. r.id # Zero
    BY <2>1 DEF Good, IsDatabase, Zero
  <2> HIDE DEF r
  <2>3. DOMAIN r.db.strRev = DOMAIN d.strRev \cup {r.id}
    BY <2>1 DEF Insert
  <2> QED
    BY <2>2, <2>3 DEF Interns, r
<1> QED
  BY <1>1, <1>2

LEMMA InternsOptional ==
  ASSUME NEW d, NEW s \in Text, Good(d)
  PROVE  LET r == InternOptional(d, s) IN Interns(d, r.db, {r.id})
<1>1. CASE s = Empty
  BY <1>1 DEF InternOptional, Ok, Interns
<1>2. CASE s # Empty
  BY <1>2, InternsString DEF InternOptional
<1> QED
  BY <1>1, <1>2

\* append_event and what it leaves alone.
LEMMA AppendLogs ==
  ASSUME NEW d, NEW ev \in Event, NEW now \in Clock, Good(d)
  PROVE  LET e == AppendEvent(d, ev, now)
         IN /\ Good(e) /\ Logs(d, e, now, ev)
            /\ SameStrings(d, e) /\ SameNodes(d, e) /\ SameEdges(d, e)
<1> DEFINE e == AppendEvent(d, ev, now)
<1>1. now \in Time
  BY InputAssumption
<1>2. Good(e) /\ SameStrings(d, e) /\ SameNodes(d, e) /\ SameEdges(d, e)
  BY <1>1, AppendGood
<1>3. Logs(d, e, now, ev)
  BY DEF Logs, AppendEvent, Good, IsDatabase, HasTables
<1> QED
  BY <1>2, <1>3

LEMMA UpsertNodeEffect ==
  ASSUME NEW d, NEW ext \in Text, NEW type \in Text, NEW now \in Clock, Good(d)
  PROVE  LET r == UpsertNode(d, ext, type, now)
         IN /\ r.db = d \/ AddsNode(d, r.db)
            /\ r.ok => /\ DOMAIN r.db.nodes \subseteq DOMAIN d.nodes \cup {r.id}
                       /\ r.db.nodes[r.id].ext = ext
<1>1. CASE ext = Empty
  BY <1>1 DEF UpsertNode, Err
<1>3. CASE ext # Empty /\ ext \in DOMAIN d.extIds
  <2>1. UpsertNode(d, ext, type, now) = Ok(d, d.extIds[ext])
    BY <1>3 DEF UpsertNode
  <2>2. d.nodes[d.extIds[ext]].ext = ext
    BY <1>3 DEF Good, DbInv, NodesNamed
  <2> QED
    BY <2>1, <2>2 DEF Ok
<1>2. CASE ext # Empty /\ ext \notin DOMAIN d.extIds
  <2> DEFINE t  == InternOptional(d, type)
             id == t.db.nodeCtr + 1
             n  == [ext |-> ext, type |-> t.id]
             e  == InsertNode(t.db, id, n)
             f  == AppendEvent(e, NodeAdded(n), now)
  <2>1. UpsertNode(d, ext, type, now) = Ok(f, id)
    BY <1>2 DEF UpsertNode
  <2>2. /\ IsDatabase(t.db) /\ InternerBijective(t.db)
        /\ Resolves(t.db, t.id) /\ t.id \in Nat
        /\ DOMAIN d.strRev \subseteq DOMAIN t.db.strRev
        /\ SameNodes(d, t.db) /\ SameEdges(d, t.db) /\ SameLog(d, t.db)
    BY InternOptionalCorrect DEF Good, DbInv
  <2>3. Interns(d, t.db, {t.id})
    BY InternsOptional
  <2> HIDE DEF t
  <2>4. Good(t.db)
    BY <2>2, MoreStrings
  <2>5. /\ n \in Node /\ n.type = t.id /\ n.ext \notin DOMAIN t.db.extIds
        /\ Resolves(t.db, n.type)
    BY <1>2, <2>2 DEF Node, SameNodes
  <2> HIDE DEF n
  <2>6. /\ Good(e) /\ e.nodes = Insert(t.db.nodes, id, n)
        /\ SameStrings(t.db, e) /\ SameEdges(t.db, e) /\ SameLog(t.db, e)
    <3>1. Good(e)
      BY <2>4, <2>5, InsertNodeGood
    <3> QED
      BY <2>4, <3>1 DEF InsertNode, Good, IsDatabase, HasTables, SameStrings, SameEdges, SameLog
  <2> HIDE DEF e
  <2>7. NodeAdded(n) \in Event
    BY <2>5 DEF NodeAdded, Event
  <2>8. /\ Logs(e, f, now, NodeAdded(n))
        /\ SameStrings(e, f) /\ SameNodes(e, f) /\ SameEdges(e, f)
    BY <2>6, <2>7, AppendLogs
  <2> HIDE DEF f
  <2>9. /\ f.nodes = Insert(d.nodes, d.nodeCtr + 1, n)
        /\ Interns(d, f, {n.type})
        /\ SameEdges(d, f)
        /\ Logs(d, f, now, NodeAdded(n))
    BY <2>2, <2>3, <2>5, <2>6, <2>8
       DEF SameStrings, SameNodes, SameEdges, SameLog, Logs, Interns
  <2>10. id = d.nodeCtr + 1 /\ n.ext = ext
    BY <2>2 DEF SameNodes, n
  <2>11. DOMAIN f.nodes \subseteq DOMAIN d.nodes \cup {id} /\ f.nodes[id].ext = ext
    BY <2>9, <2>10 DEF Insert
  <2>12. AddsNode(d, f)
    BY <2>5, <2>9 DEF AddsNode
  <2> HIDE DEF id
  <2>13. UpsertNode(d, ext, type, now).db = f /\ UpsertNode(d, ext, type, now).id = id
    BY <2>1 DEF Ok
  <2> QED
    BY <2>11, <2>12, <2>13
<1> QED
  BY <1>1, <1>2, <1>3

\* add_edge_internal stores and logs the edge it returns, or leaves a residue.
LEMMA AddEdgeInternalEffect ==
  ASSUME NEW d, NEW from \in DOMAIN d.nodes, NEW to \in DOMAIN d.nodes,
         NEW in \in EdgeInput, NEW old \in Nat, NEW now \in Clock,
         Good(d), MayRevise(d, old, in.vf)
  PROVE  LET r == AddEdgeInternal(d, from, to, in, old, now)
         IN IF r.ok THEN /\ r.db.edges[r.id].supersedes = old
                         /\ r.db.edges[r.id].from = from /\ r.db.edges[r.id].to = to
                         /\ r.id \in DOMAIN r.db.edges
                         /\ ObservesEdge(d, r.db, r.db.edges[r.id])
            ELSE LeavesResidue(d, r.db)
<1> DEFINE t  == Intern(d, in.type)
           s  == InternOptional(t.db, in.source)
           id == s.db.edgeCtr + 1
           d1 == [s.db EXCEPT !.edgeCtr = id]
           e  == [from |-> from, to |-> to, type |-> t.id, source |-> s.id,
                  vf |-> in.vf, vt |-> in.vt, supersedes |-> old]
           g  == InsertEdge(d1, id, e)
           h  == AppendEvent(g, EdgeObserved(e), now)
<1>1. /\ in.type \in Text /\ in.source \in Text
      /\ in.vf \in Time /\ in.vt \in Time \cup {NoTs}
  BY DEF EdgeInput
<1>2. AddEdgeInternal(d, from, to, in, old, now)
        = IF in.confident /\ ValidEdge(e) THEN Ok(h, id) ELSE Err(d1)
  BY DEF AddEdgeInternal
<1>3. /\ IsDatabase(t.db) /\ InternerBijective(t.db)
      /\ t.id \in DOMAIN t.db.strRev /\ t.id \in Nat
      /\ DOMAIN d.strRev \subseteq DOMAIN t.db.strRev
      /\ SameNodes(d, t.db) /\ SameEdges(d, t.db) /\ SameLog(d, t.db)
      /\ Interns(d, t.db, {t.id})
  BY <1>1, InternCorrect, InternsString DEF Good, DbInv
<1> HIDE DEF t
<1>5. Good(t.db)
  BY <1>3, MoreStrings
<1>6. /\ IsDatabase(s.db) /\ InternerBijective(s.db)
      /\ Resolves(s.db, s.id) /\ s.id \in Nat
      /\ DOMAIN t.db.strRev \subseteq DOMAIN s.db.strRev
      /\ SameNodes(t.db, s.db) /\ SameEdges(t.db, s.db) /\ SameLog(t.db, s.db)
      /\ Interns(t.db, s.db, {s.id})
  BY <1>1, <1>3, <1>5, InternOptionalCorrect, InternsOptional
<1> HIDE DEF s
<1>7. Interns(d, s.db, {t.id, s.id})
  BY <1>3, <1>6 DEF Interns
<1>8. Good(s.db)
  BY <1>5, <1>6, MoreStrings
<1>9. /\ Good(d1) /\ id \in Nat /\ d1.edgeCtr = id
      /\ id \notin DOMAIN d1.edges /\ d1.edges = s.db.edges
      /\ SameStrings(s.db, d1) /\ SameNodes(s.db, d1) /\ SameLog(s.db, d1)
  BY <1>8, TakeEdgeIdGood
<1>10. id > 0 /\ id = d.edgeCtr + 1 /\ d1.superIdx = d.superIdx
  BY <1>3, <1>6, <1>8 DEF Good, IsDatabase, HasTables, SameEdges
<1> HIDE DEF d1
<1>11. CASE in.confident /\ ValidEdge(e)
  <2>1. /\ e \in Edge
        /\ e.from = from /\ e.to = to /\ e.type = t.id /\ e.source = s.id
        /\ e.vf = in.vf /\ e.supersedes = old
    <3>1. from \in Nat /\ to \in Nat
      BY DEF Good, IsDatabase, IsTable
    <3> QED
      BY <1>1, <1>3, <1>6, <3>1 DEF Edge
  <2>2. AddEdgeInternal(d, from, to, in, old, now) = Ok(h, id)
    BY <1>2, <1>11
  <2>3. ValidEdge(e)
    BY <1>11
  <2> HIDE DEF e, id
  <2>4. /\ e.from \in DOMAIN d1.nodes /\ e.to \in DOMAIN d1.nodes
        /\ e.type \in DOMAIN d1.strRev /\ Resolves(d1, e.source)
    BY <2>1, <1>3, <1>6, <1>9 DEF SameNodes, SameStrings, Resolves
  <2>5. MayRevise(d1, e.supersedes, e.vf)
    BY <2>1, <1>3, <1>6, <1>9 DEF MayRevise, SameEdges
  <2>6. /\ Good(g) /\ g.edges = Insert(d1.edges, id, e) /\ g.edges[id] = e
        /\ SameStrings(d1, g) /\ SameNodes(d1, g) /\ SameLog(d1, g)
    BY <1>9, <1>10, <2>1, <2>3, <2>4, <2>5, InsertEdgeGood
  <2>7. /\ g.edgeCtr = id
        /\ g.superIdx = IF e.supersedes = Zero THEN d1.superIdx
                        ELSE d1.superIdx \cup {<<e.supersedes, id>>}
    BY <1>9 DEF InsertEdge, Good, IsDatabase, HasTables
  <2> HIDE DEF g
  <2>8. EdgeObserved(e) \in Event
    BY <2>1 DEF EdgeObserved, Event
  <2>9. /\ Logs(g, h, now, EdgeObserved(e))
        /\ SameStrings(g, h) /\ SameNodes(g, h) /\ SameEdges(g, h)
    BY <2>6, <2>8, AppendLogs
  <2> HIDE DEF h
  <2>10. h.edges[id] = e /\ e.supersedes = old
    BY <2>1, <2>6, <2>9 DEF SameEdges
  <2>11. StoresEdge(d, h, e)
    <3>1. /\ h.edgeCtr = d.edgeCtr + 1
          /\ h.edges = Insert(d.edges, d.edgeCtr + 1, e)
          /\ h.superIdx = IF e.supersedes = Zero THEN d.superIdx
                          ELSE d.superIdx \cup {<<e.supersedes, d.edgeCtr + 1>>}
      BY <1>3, <1>6, <1>9, <1>10, <2>6, <2>7, <2>9 DEF SameEdges
    <3>2. SameNodes(d, h)
      BY <1>3, <1>6, <1>9, <2>6, <2>9 DEF SameNodes
    <3>3. Interns(d, h, {e.type, e.source})
      BY <1>7, <1>9, <2>1, <2>6, <2>9 DEF SameStrings, Interns
    <3> QED
      BY <2>1, <3>1, <3>2, <3>3 DEF StoresEdge
  <2>12. Logs(d, h, now, EdgeObserved(e))
    BY <1>3, <1>6, <1>9, <2>6, <2>9 DEF Logs, SameLog
  <2>13. id \in DOMAIN h.edges
    BY <2>6, <2>9 DEF SameEdges, Insert
  <2> QED
    BY <2>1, <2>2, <2>10, <2>11, <2>12, <2>13 DEF Ok, ObservesEdge
<1>12. CASE ~(in.confident /\ ValidEdge(e))
  <2>1. AddEdgeInternal(d, from, to, in, old, now) = Err(d1)
    BY <1>2, <1>12
  <2>2. LeavesResidue(d, d1)
    BY <1>3, <1>6, <1>9, <1>10 DEF LeavesResidue, SameNodes, SameEdges, SameLog
  <2> QED
    BY <2>1, <2>2 DEF Err
<1> QED
  BY <1>11, <1>12

LEMMA InvalidateEdgeEffect ==
  ASSUME NEW d, NEW id, NEW at \in Time, NEW now \in Clock, Good(d)
  PROVE  LET r == InvalidateEdge(d, id, at, now)
         IN r.db = d \/ ClosesEdge(d, r.db)
<1> DEFINE e == d.edges[id]
           u == [e EXCEPT !.vt = at]
           g == [d EXCEPT !.edges = Insert(@, id, u)]
           h == AppendEvent(g, EdgeInvalidated(id, at), now)
<1>1. CASE \/ id \notin DOMAIN d.edges \/ (e.vt # NoTs /\ e.vt <= at)
           \/ ~ValidEdge(u)
  BY <1>1 DEF InvalidateEdge, Ok, Err
<1>2. CASE id \in DOMAIN d.edges /\ ~(e.vt # NoTs /\ e.vt <= at) /\ ValidEdge(u)
  <2>1. InvalidateEdge(d, id, at, now) = Ok(h, id)
    BY <1>2 DEF InvalidateEdge
  <2>2. Good(g)
    BY <1>2, CloseEdgeGood
  <2>3. /\ g.edges = Insert(d.edges, id, u)
        /\ g.edgeCtr = d.edgeCtr /\ g.superIdx = d.superIdx
        /\ SameStrings(d, g) /\ SameNodes(d, g) /\ SameLog(d, g)
    BY DEF Good, IsDatabase, HasTables, SameStrings, SameNodes, SameLog
  <2>4. e.vt = NoTs \/ at < e.vt
    <3>1. e.vt \in Time \cup {NoTs}
      BY <1>2 DEF Good, IsDatabase, IsTable, Edge
    <3> QED
      BY <1>2, <3>1, TimeAssumption
  <2> HIDE DEF g
  <2>5. EdgeInvalidated(id, at) \in Event
    <3>1. id \in Nat
      BY <1>2 DEF Good, IsDatabase, IsTable
    <3> QED
      BY <3>1 DEF EdgeInvalidated, Event
  <2>6. /\ Logs(g, h, now, EdgeInvalidated(id, at))
        /\ SameStrings(g, h) /\ SameNodes(g, h) /\ SameEdges(g, h)
    BY <2>2, <2>5, AppendLogs
  <2> HIDE DEF h
  <2>7. /\ h.edges = Insert(d.edges, id, u)
        /\ h.edgeCtr = d.edgeCtr /\ h.superIdx = d.superIdx
        /\ SameStrings(d, h) /\ SameNodes(d, h)
        /\ Logs(d, h, now, EdgeInvalidated(id, at))
    BY <2>3, <2>6 DEF SameStrings, SameNodes, SameEdges, SameLog, Logs
  <2> QED
    BY <1>2, <2>1, <2>4, <2>7 DEF Ok, ClosesEdge
<1> QED
  BY <1>1, <1>2

-----------------------------------------------------------------------------
(* What the log says of the ends of edges *)

Of(d, kind) == {k \in DOMAIN d.events : d.events[k].kind = kind}

\* No edge was given the same end twice.
EndsDiffer(d) ==
  \A j, k \in Of(d, "EdgeInvalidated") :
    d.events[j].id = d.events[k].id /\ d.events[j].at = d.events[k].at => j = k

\* Every event has a reading of the clock in its key, every invalidation is of a
\* stored edge, and the log tells the end of every edge.
Explained(d) ==
  /\ \A k \in DOMAIN d.events : k[1] \in Clock
  /\ \A k \in Of(d, "EdgeInvalidated") : d.events[k].id \in DOMAIN d.edges
  /\ EndsDiffer(d)
  /\ LogExplainsValidity(d)

\* An event that is logged takes the place of none and gets the greatest id.
LEMMA LogsFacts ==
  ASSUME NEW d, NEW e, NEW now, NEW ev, Good(d), Logs(d, e, now, ev)
  PROVE  \E new : /\ new[1] \in Clock /\ new[2] = d.eventCtr + 1
                  /\ new \notin DOMAIN d.events
                  /\ DOMAIN e.events = DOMAIN d.events \cup {new}
                  /\ e.events[new] = ev
                  /\ \A k \in DOMAIN d.events : e.events[k] = d.events[k] /\ k[2] < new[2]
                  /\ Of(e, ev.kind) = Of(d, ev.kind) \cup {new}
                  /\ new \notin Of(d, ev.kind)
                  /\ \A kind : kind # ev.kind => Of(e, kind) = Of(d, kind)
<1> DEFINE new == <<now, d.eventCtr + 1>>
<1>1. new[1] \in Clock /\ new[2] = d.eventCtr + 1
  BY DEF Logs
<1>2. \A k \in DOMAIN d.events : k[2] < new[2]
  BY <1>1 DEF Good, DbInv, LogNumbered, IsDatabase
<1>3. new \notin DOMAIN d.events
  <2>1. d.eventCtr \in Nat
    BY DEF Good, IsDatabase
  <2> HIDE DEF new
  <2> QED
    BY <1>1, <1>2, <2>1
<1>4. e.events = Insert(d.events, new, ev)
  BY DEF Logs
<1> HIDE DEF new
<1>5. /\ DOMAIN e.events = DOMAIN d.events \cup {new}
      /\ e.events[new] = ev
      /\ \A k \in DOMAIN d.events : e.events[k] = d.events[k]
  BY <1>3, <1>4 DEF Insert
<1>6. /\ Of(e, ev.kind) = Of(d, ev.kind) \cup {new}
      /\ new \notin Of(d, ev.kind)
      /\ \A kind : kind # ev.kind => Of(e, kind) = Of(d, kind)
  BY <1>3, <1>5 DEF Of
<1> QED
  BY <1>1, <1>2, <1>3, <1>5, <1>6

LEMMA ClosingsAre ==
  ASSUME NEW d, NEW i
  PROVE  Closings(d, i) = {k \in Of(d, "EdgeInvalidated") : d.events[k].id = i}
  BY DEF Closings, Of

\* An event of another kind leaves the closings of every edge as they were.
LEMMA OtherEventExplains ==
  ASSUME NEW d, NEW e, NEW now, NEW ev, Good(d), Explained(d), Logs(d, e, now, ev),
         ev.kind # "EdgeInvalidated", DOMAIN d.edges \subseteq DOMAIN e.edges,
         \A i \in DOMAIN e.edges : IF i \in DOMAIN d.edges THEN e.edges[i] = d.edges[i]
                                   ELSE ev = EdgeObserved(e.edges[i])
  PROVE  Explained(e)
<1>1. PICK new : /\ new[1] \in Clock
                 /\ new \notin DOMAIN d.events
                 /\ DOMAIN e.events = DOMAIN d.events \cup {new}
                 /\ e.events[new] = ev
                 /\ \A k \in DOMAIN d.events : e.events[k] = d.events[k]
                 /\ \A kind : kind # ev.kind => Of(e, kind) = Of(d, kind)
  BY LogsFacts
<1>2. Of(e, "EdgeInvalidated") = Of(d, "EdgeInvalidated")
  BY <1>1
<1>3. \A i : Closings(e, i) = Closings(d, i)
  BY <1>1, <1>2, ClosingsAre DEF Of
<1>4. \A k \in DOMAIN e.events : k[1] \in Clock
  BY <1>1 DEF Explained
<1>5. \A k \in Of(e, "EdgeInvalidated") : e.events[k].id \in DOMAIN e.edges
  BY <1>1, <1>2 DEF Explained, Of
<1>6. ASSUME NEW i \in DOMAIN e.edges, Closings(e, i) = {}
      PROVE  \E k \in DOMAIN e.events : e.events[k] = EdgeObserved(e.edges[i])
  <2>1. CASE i \in DOMAIN d.edges
    BY <1>1, <1>3, <1>6, <2>1 DEF Explained, LogExplainsValidity
  <2>2. CASE i \notin DOMAIN d.edges
    BY <1>1, <2>2
  <2> QED
    BY <2>1, <2>2
<1>7. ASSUME NEW i \in DOMAIN e.edges, Closings(e, i) # {}
      PROVE  \E k \in Closings(e, i) :
                /\ e.events[k].at = e.edges[i].vt
                /\ \A j \in Closings(e, i) \ {k} : /\ j[2] < k[2]
                                                   /\ e.events[j].at > e.events[k].at
  <2>1. i \in DOMAIN d.edges
    BY <1>3, <1>7, ClosingsAre DEF Explained
  <2>2. PICK k \in Closings(d, i) :
                /\ d.events[k].at = d.edges[i].vt
                /\ \A j \in Closings(d, i) \ {k} : /\ j[2] < k[2]
                                                   /\ d.events[j].at > d.events[k].at
    BY <1>3, <1>7, <2>1 DEF Explained, LogExplainsValidity
  <2>3. \A j \in Closings(d, i) : e.events[j] = d.events[j]
    BY <1>1 DEF Closings
  <2> QED
    BY <1>3, <2>1, <2>2, <2>3
<1>8. EndsDiffer(e)
  <2>1. \A k \in Of(d, "EdgeInvalidated") : e.events[k] = d.events[k]
    BY <1>1 DEF Of
  <2> QED
    BY <1>2, <2>1 DEF Explained, EndsDiffer
<1> QED
  BY <1>4, <1>5, <1>6, <1>7, <1>8 DEF Explained, LogExplainsValidity

\* A closing gets the greatest id and an end before every earlier one.
LEMMA ClosingExplains ==
  ASSUME NEW d, NEW e, Good(d), Explained(d), ClosesEdge(d, e)
  PROVE  Explained(e)
<1>1. PICK id \in DOMAIN d.edges, at \in Time, now \in Clock :
        /\ d.edges[id].vt = NoTs \/ at < d.edges[id].vt
        /\ e.edges = Insert(d.edges, id, [d.edges[id] EXCEPT !.vt = at])
        /\ Logs(d, e, now, EdgeInvalidated(id, at))
  BY DEF ClosesEdge
<1> DEFINE ev == EdgeInvalidated(id, at)
<1>2. ev.kind = "EdgeInvalidated" /\ ev.id = id /\ ev.at = at
  BY DEF EdgeInvalidated
<1> HIDE DEF ev
<1>3. PICK new : /\ new[1] \in Clock
                 /\ new \notin DOMAIN d.events
                 /\ DOMAIN e.events = DOMAIN d.events \cup {new}
                 /\ e.events[new] = ev
                 /\ \A k \in DOMAIN d.events : e.events[k] = d.events[k] /\ k[2] < new[2]
                 /\ Of(e, ev.kind) = Of(d, ev.kind) \cup {new}
  BY <1>1, LogsFacts DEF ev
<1>4. /\ DOMAIN e.edges = DOMAIN d.edges
      /\ \A i \in DOMAIN d.edges : i # id => e.edges[i] = d.edges[i]
      /\ e.edges[id].vt = at
  <2>1. d.edges[id] \in Edge
    BY DEF Good, IsDatabase, IsTable
  <2> QED
    BY <1>1, <2>1 DEF Insert, Edge
<1>5. /\ Closings(e, id) = Closings(d, id) \cup {new}
      /\ \A i : i # id => Closings(e, i) = Closings(d, i)
  <2>1. Of(e, "EdgeInvalidated") = Of(d, "EdgeInvalidated") \cup {new}
    BY <1>2, <1>3
  <2>2. \A k \in Of(d, "EdgeInvalidated") : e.events[k] = d.events[k]
    BY <1>3 DEF Of
  <2> QED
    BY <1>2, <1>3, <2>1, <2>2, ClosingsAre
<1>6. \A k \in DOMAIN e.events : k[1] \in Clock
  BY <1>3 DEF Explained
<1>7. \A k \in Of(e, "EdgeInvalidated") : e.events[k].id \in DOMAIN e.edges
  BY <1>2, <1>3, <1>4 DEF Explained, Of
<1>8. ASSUME NEW j \in Closings(d, id)
      PROVE  d.events[j].at > at /\ j[2] < new[2] /\ e.events[j] = d.events[j]
  <2>1. PICK k \in Closings(d, id) :
                /\ d.events[k].at = d.edges[id].vt
                /\ \A x \in Closings(d, id) \ {k} : d.events[x].at > d.events[k].at
    BY <1>8 DEF Explained, LogExplainsValidity
  <2>2. \A x \in Closings(d, id) : x \in DOMAIN d.events /\ d.events[x].at \in Time
    <3> SUFFICES ASSUME NEW x \in Closings(d, id)
                 PROVE  x \in DOMAIN d.events /\ d.events[x].at \in Time
      OBVIOUS
    <3>1. x \in DOMAIN d.events /\ d.events[x] \in Event
          /\ d.events[x].kind = "EdgeInvalidated"
      BY DEF Closings, Good, IsDatabase, IsTable
    <3>2. d.events[x] \in [kind : {"EdgeInvalidated"}, id : Nat, at : Time]
      BY <3>1 DEF Event
    <3> QED
      BY <3>1, <3>2
  <2>3. at < d.edges[id].vt
    BY <1>1, <2>1, <2>2, TimeAssumption
  <2>4. d.events[j].at > at
    <3>1. at < d.events[k].at /\ d.events[k].at \in Int /\ d.events[j].at \in Int /\ at \in Int
      BY <2>1, <2>2, <2>3, TimeAssumption
    <3>2. j = k \/ d.events[j].at > d.events[k].at
      BY <2>1
    <3> QED
      BY <3>1, <3>2
  <2> QED
    BY <1>3, <2>2, <2>4
<1>9. ASSUME NEW i \in DOMAIN e.edges, Closings(e, i) = {}
      PROVE  \E k \in DOMAIN e.events : e.events[k] = EdgeObserved(e.edges[i])
  <2>1. i # id /\ i \in DOMAIN d.edges /\ Closings(d, i) = {} /\ e.edges[i] = d.edges[i]
    BY <1>4, <1>5, <1>9
  <2> QED
    BY <1>3, <2>1 DEF Explained, LogExplainsValidity
<1>10. ASSUME NEW i \in DOMAIN e.edges, Closings(e, i) # {}
       PROVE  \E k \in Closings(e, i) :
                 /\ e.events[k].at = e.edges[i].vt
                 /\ \A j \in Closings(e, i) \ {k} : /\ j[2] < k[2]
                                                    /\ e.events[j].at > e.events[k].at
  <2>1. CASE i = id
    <3>1. new \in Closings(e, i) /\ e.events[new].at = e.edges[i].vt /\ e.events[new].at = at
      BY <1>2, <1>3, <1>4, <1>5, <2>1
    <3>2. ASSUME NEW j \in Closings(e, i) \ {new}
          PROVE  j[2] < new[2] /\ e.events[j].at > e.events[new].at
      BY <1>5, <1>8, <2>1, <3>1
    <3> QED
      BY <3>1, <3>2
  <2>2. CASE i # id
    <3>1. /\ i \in DOMAIN d.edges /\ e.edges[i] = d.edges[i]
          /\ Closings(e, i) = Closings(d, i)
          /\ \A j \in Closings(d, i) : e.events[j] = d.events[j]
      BY <1>3, <1>4, <1>5, <2>2 DEF Closings
    <3>2. PICK k \in Closings(d, i) :
                /\ d.events[k].at = d.edges[i].vt
                /\ \A j \in Closings(d, i) \ {k} : /\ j[2] < k[2]
                                                   /\ d.events[j].at > d.events[k].at
      BY <1>10, <3>1 DEF Explained, LogExplainsValidity
    <3> QED
      BY <3>1, <3>2
  <2> QED
    BY <2>1, <2>2
<1>11. EndsDiffer(e)
  <2>1. /\ Of(e, "EdgeInvalidated") = Of(d, "EdgeInvalidated") \cup {new}
        /\ \A k \in Of(d, "EdgeInvalidated") : e.events[k] = d.events[k]
    BY <1>2, <1>3 DEF Of
  <2>2. ASSUME NEW j \in Of(d, "EdgeInvalidated")
        PROVE  ~(d.events[j].id = ev.id /\ d.events[j].at = ev.at)
    <3>1. d.events[j].id = id => d.events[j].at > at
      BY <1>8, ClosingsAre
    <3>2. at \in Int
      BY TimeAssumption
    <3> QED
      BY <1>2, <3>1, <3>2
  <2> QED
    BY <1>3, <2>1, <2>2 DEF Explained, EndsDiffer
<1> QED
  BY <1>6, <1>7, <1>9, <1>10, <1>11 DEF Explained, LogExplainsValidity

\* The id of a new edge is no other edge's.
LEMMA FreshEdge ==
  ASSUME NEW d, Good(d)
  PROVE  d.edgeCtr + 1 \notin DOMAIN d.edges /\ d.edgeCtr \in Nat
  BY DEF Good, DbInv, EdgesResolve, IsDatabase

LEMMA ObservedExplains ==
  ASSUME NEW d, NEW e, NEW g, Good(d), Explained(d), ObservesEdge(d, e, g)
  PROVE  Explained(e)
<1>1. PICK now \in Clock : StoresEdge(d, e, g) /\ Logs(d, e, now, EdgeObserved(g))
  BY DEF ObservesEdge
<1>2. /\ DOMAIN d.edges \subseteq DOMAIN e.edges
      /\ \A i \in DOMAIN e.edges : IF i \in DOMAIN d.edges THEN e.edges[i] = d.edges[i]
                                   ELSE e.edges[i] = g
  BY <1>1, FreshEdge DEF StoresEdge, Insert
<1>3. EdgeObserved(g).kind # "EdgeInvalidated"
  BY DEF EdgeObserved
<1> QED
  BY <1>1, <1>2, <1>3, OtherEventExplains

LEMMA EffectExplains ==
  ASSUME NEW d, NEW e, Good(d), Explained(d), Effect(d, e)
  PROVE  Explained(e)
<1>1. CASE AddsNode(d, e)
  <2>1. PICK n \in Node, now \in Clock : SameEdges(d, e) /\ Logs(d, e, now, NodeAdded(n))
    BY <1>1 DEF AddsNode
  <2>2. NodeAdded(n).kind # "EdgeInvalidated"
    BY DEF NodeAdded
  <2> QED
    BY <2>1, <2>2, OtherEventExplains DEF SameEdges
<1>2. CASE AddsEdge(d, e)
  BY <1>2, ObservedExplains DEF AddsEdge
<1>3. CASE AddsRevision(d, e)
  <2>1. PICK m : \E g \in Edge : Good(m) /\ ObservesEdge(d, m, g) /\ NotesRevision(m, e, g)
    BY <1>3 DEF AddsRevision
  <2>2. PICK g \in Edge : Good(m) /\ ObservesEdge(d, m, g) /\ NotesRevision(m, e, g)
    BY <2>1
  <2>3. Explained(m)
    BY <2>2, ObservedExplains
  <2>4. PICK now \in Clock :
          SameEdges(m, e) /\ Logs(m, e, now, EdgeSuperseded(g.supersedes, g))
    BY <2>2 DEF NotesRevision
  <2>5. EdgeSuperseded(g.supersedes, g).kind # "EdgeInvalidated"
    BY DEF EdgeSuperseded
  <2> QED
    BY <2>2, <2>3, <2>4, <2>5, OtherEventExplains DEF SameEdges
<1>4. CASE ClosesEdge(d, e)
  BY <1>4, ClosingExplains
<1> QED
  BY <1>1, <1>2, <1>3, <1>4 DEF Effect

LEMMA ResidueExplains ==
  ASSUME NEW d, NEW e, Explained(d), LeavesResidue(d, e)
  PROVE  Explained(e)
  BY DEF Explained, EndsDiffer, LeavesResidue, SameLog, LogExplainsValidity, Closings, Of

-----------------------------------------------------------------------------
(* As many events as there are rows *)

EndedEarly(d) == {i \in DOMAIN d.edges : Closings(d, i) # {}}

RevisionsCounted(d) ==
  IsFiniteSet(d.superIdx) /\ Cardinality(Of(d, "EdgeSuperseded")) = Cardinality(d.superIdx)

Counted(d) ==
  /\ IsFiniteSet(DOMAIN d.events)
  /\ IsFiniteSet(DOMAIN d.nodes) /\ IsFiniteSet(DOMAIN d.edges)
  /\ Cardinality(Of(d, "NodeAdded")) = Cardinality(DOMAIN d.nodes)
  /\ Cardinality(Of(d, "EdgeObserved")) = Cardinality(DOMAIN d.edges)
  /\ Cardinality(EndedEarly(d)) <= Cardinality(Of(d, "EdgeInvalidated"))

\* What one more event does to the counts of events.
LEMMA LogsCounts ==
  ASSUME NEW d, NEW e, NEW now, NEW ev, Good(d), Logs(d, e, now, ev),
         IsFiniteSet(DOMAIN d.events)
  PROVE  /\ IsFiniteSet(DOMAIN e.events)
         /\ Cardinality(Of(e, ev.kind)) = Cardinality(Of(d, ev.kind)) + 1
         /\ Cardinality(Of(d, ev.kind)) \in Nat
         /\ \A kind : kind # ev.kind => Of(e, kind) = Of(d, kind)
<1>1. PICK new : /\ DOMAIN e.events = DOMAIN d.events \cup {new}
                 /\ Of(e, ev.kind) = Of(d, ev.kind) \cup {new}
                 /\ new \notin Of(d, ev.kind)
                 /\ \A kind : kind # ev.kind => Of(e, kind) = Of(d, kind)
  BY LogsFacts
<1>2. IsFiniteSet(DOMAIN e.events)
  BY <1>1, FS_AddElement
<1>3. IsFiniteSet(Of(d, ev.kind))
  <2>1. Of(d, ev.kind) \subseteq DOMAIN d.events
    BY DEF Of
  <2> QED
    BY <2>1, FS_Subset
<1>4. Cardinality(Of(e, ev.kind)) = Cardinality(Of(d, ev.kind)) + 1
  BY <1>1, <1>3, FS_AddElement
<1>5. Cardinality(Of(d, ev.kind)) \in Nat
  BY <1>3, FS_CardinalityType
<1> QED
  BY <1>1, <1>2, <1>4, <1>5

LEMMA RowsCount ==
  ASSUME NEW S, NEW x, x \notin S, IsFiniteSet(S)
  PROVE  /\ IsFiniteSet(S \cup {x})
         /\ Cardinality(S \cup {x}) = Cardinality(S) + 1
         /\ Cardinality(S) \in Nat
  BY FS_AddElement, FS_CardinalityType

LEMMA SameClosings ==
  ASSUME NEW d, NEW e, NEW now, NEW ev, Good(d), Logs(d, e, now, ev),
         ev.kind # "EdgeInvalidated"
  PROVE  \A i : Closings(e, i) = Closings(d, i)
<1>1. /\ Of(e, "EdgeInvalidated") = Of(d, "EdgeInvalidated")
      /\ \A k \in DOMAIN d.events : e.events[k] = d.events[k]
  BY LogsFacts
<1> QED
  BY <1>1, ClosingsAre DEF Of

LEMMA NodeCounts ==
  ASSUME NEW d, NEW e, Good(d), Counted(d), RevisionsCounted(d), AddsNode(d, e)
  PROVE  Counted(e) /\ RevisionsCounted(e)
<1>1. PICK n \in Node, now \in Clock :
        /\ e.nodes = Insert(d.nodes, d.nodeCtr + 1, n)
        /\ SameEdges(d, e)
        /\ Logs(d, e, now, NodeAdded(n))
  BY DEF AddsNode
<1>2. NodeAdded(n).kind = "NodeAdded"
  BY DEF NodeAdded
<1>3. d.nodeCtr + 1 \notin DOMAIN d.nodes /\ DOMAIN e.nodes = DOMAIN d.nodes \cup {d.nodeCtr + 1}
  BY <1>1 DEF Good, DbInv, NodesNamed, IsDatabase, Insert
<1>4. /\ IsFiniteSet(DOMAIN e.nodes)
      /\ Cardinality(DOMAIN e.nodes) = Cardinality(DOMAIN d.nodes) + 1
  BY <1>3, RowsCount DEF Counted
<1>5. /\ IsFiniteSet(DOMAIN e.events)
      /\ Cardinality(Of(e, "NodeAdded")) = Cardinality(Of(d, "NodeAdded")) + 1
      /\ \A kind : kind # "NodeAdded" => Of(e, kind) = Of(d, kind)
  BY <1>1, <1>2, LogsCounts DEF Counted
<1>6. EndedEarly(e) = EndedEarly(d)
  BY <1>1, <1>2, SameClosings DEF EndedEarly, SameEdges
<1> QED
  BY <1>1, <1>4, <1>5, <1>6 DEF Counted, RevisionsCounted, SameEdges

LEMMA ObservedCounts ==
  ASSUME NEW d, NEW e, NEW g, Good(d), Explained(d), Counted(d), ObservesEdge(d, e, g)
  PROVE  /\ Counted(e)
         /\ Of(e, "EdgeSuperseded") = Of(d, "EdgeSuperseded")
<1>1. PICK now \in Clock : StoresEdge(d, e, g) /\ Logs(d, e, now, EdgeObserved(g))
  BY DEF ObservesEdge
<1>2. EdgeObserved(g).kind = "EdgeObserved"
  BY DEF EdgeObserved
<1>3. DOMAIN e.edges = DOMAIN d.edges \cup {d.edgeCtr + 1} /\ SameNodes(d, e)
  BY <1>1 DEF StoresEdge, Insert
<1>4. /\ IsFiniteSet(DOMAIN e.edges)
      /\ Cardinality(DOMAIN e.edges) = Cardinality(DOMAIN d.edges) + 1
  BY <1>3, FreshEdge, RowsCount DEF Counted
<1>5. /\ IsFiniteSet(DOMAIN e.events)
      /\ Cardinality(Of(e, "EdgeObserved")) = Cardinality(Of(d, "EdgeObserved")) + 1
      /\ \A kind : kind # "EdgeObserved" => Of(e, kind) = Of(d, kind)
  BY <1>1, <1>2, LogsCounts DEF Counted
<1>6. EndedEarly(e) = EndedEarly(d)
  <2>1. \A i : Closings(e, i) = Closings(d, i)
    BY <1>1, <1>2, SameClosings
  <2>2. Closings(d, d.edgeCtr + 1) = {}
    BY FreshEdge, ClosingsAre DEF Explained
  <2> QED
    BY <1>3, <2>1, <2>2 DEF EndedEarly
<1> QED
  BY <1>3, <1>4, <1>5, <1>6 DEF Counted, SameNodes

LEMMA ClosingCounts ==
  ASSUME NEW d, NEW e, Good(d), Counted(d), RevisionsCounted(d), ClosesEdge(d, e)
  PROVE  Counted(e) /\ RevisionsCounted(e)
<1>1. PICK id \in DOMAIN d.edges, at \in Time, now \in Clock :
        /\ e.edges = Insert(d.edges, id, [d.edges[id] EXCEPT !.vt = at])
        /\ e.superIdx = d.superIdx /\ SameNodes(d, e)
        /\ Logs(d, e, now, EdgeInvalidated(id, at))
  BY DEF ClosesEdge
<1> DEFINE ev == EdgeInvalidated(id, at)
<1>2. ev.kind = "EdgeInvalidated" /\ ev.id = id
  BY DEF EdgeInvalidated
<1> HIDE DEF ev
<1>3. DOMAIN e.edges = DOMAIN d.edges
  BY <1>1 DEF Insert
<1>4. /\ IsFiniteSet(DOMAIN e.events)
      /\ Cardinality(Of(e, "EdgeInvalidated")) = Cardinality(Of(d, "EdgeInvalidated")) + 1
      /\ Cardinality(Of(d, "EdgeInvalidated")) \in Nat
      /\ \A kind : kind # "EdgeInvalidated" => Of(e, kind) = Of(d, kind)
  BY <1>1, <1>2, LogsCounts DEF Counted, ev
<1>5. EndedEarly(e) \subseteq EndedEarly(d) \cup {id}
  <2>1. PICK new : /\ Of(e, ev.kind) = Of(d, ev.kind) \cup {new}
                   /\ e.events[new] = ev
                   /\ \A k \in DOMAIN d.events : e.events[k] = d.events[k]
    BY <1>1, LogsFacts DEF ev
  <2>2. \A i : i # id => Closings(e, i) = Closings(d, i)
    <3>1. Of(e, "EdgeInvalidated") = Of(d, "EdgeInvalidated") \cup {new}
      BY <1>2, <2>1
    <3>2. \A k \in Of(d, "EdgeInvalidated") : e.events[k] = d.events[k]
      BY <2>1 DEF Of
    <3> QED
      BY <1>2, <2>1, <3>1, <3>2, ClosingsAre
  <2> QED
    BY <1>3, <2>2 DEF EndedEarly
<1>6. IsFiniteSet(EndedEarly(d))
  <2>1. EndedEarly(d) \subseteq DOMAIN d.edges
    BY DEF EndedEarly
  <2> QED
    BY <2>1, FS_Subset DEF Counted
<1>7. Cardinality(EndedEarly(e)) <= Cardinality(EndedEarly(d)) + 1
  <2>1. /\ IsFiniteSet(EndedEarly(d) \cup {id})
        /\ Cardinality(EndedEarly(d) \cup {id}) <= Cardinality(EndedEarly(d)) + 1
        /\ Cardinality(EndedEarly(d)) \in Nat
    BY <1>6, FS_AddElement, FS_CardinalityType
  <2>2. Cardinality(EndedEarly(e)) <= Cardinality(EndedEarly(d) \cup {id})
    BY <1>5, <2>1, FS_Subset
  <2>3. Cardinality(EndedEarly(e)) \in Nat /\ Cardinality(EndedEarly(d) \cup {id}) \in Nat
    BY <1>5, <2>1, FS_Subset, FS_CardinalityType
  <2> QED
    BY <2>1, <2>2, <2>3
<1>8. Cardinality(EndedEarly(e)) <= Cardinality(Of(e, "EdgeInvalidated"))
  <2>1. Cardinality(EndedEarly(e)) \in Nat /\ Cardinality(EndedEarly(d)) \in Nat
    <3>1. IsFiniteSet(EndedEarly(d) \cup {id})
      BY <1>6, FS_AddElement
    <3> QED
      BY <1>5, <1>6, <3>1, FS_Subset, FS_CardinalityType
  <2>2. Cardinality(EndedEarly(d)) <= Cardinality(Of(d, "EdgeInvalidated"))
    BY DEF Counted
  <2> QED
    BY <1>4, <1>7, <2>1, <2>2
<1> QED
  BY <1>1, <1>3, <1>4, <1>8 DEF Counted, RevisionsCounted, SameNodes

\* The pair of a new revision is new in the index of revisions.
LEMMA RevisionCounts ==
  ASSUME NEW d, NEW e, Good(d), Explained(d), Counted(d), RevisionsCounted(d),
         AddsRevision(d, e)
  PROVE  Counted(e) /\ RevisionsCounted(e)
<1>1. PICK m : \E g \in Edge : /\ g.supersedes # Zero /\ Good(m)
                               /\ ObservesEdge(d, m, g) /\ NotesRevision(m, e, g)
  BY DEF AddsRevision
<1>2. PICK g \in Edge : /\ g.supersedes # Zero /\ Good(m)
                        /\ ObservesEdge(d, m, g) /\ NotesRevision(m, e, g)
  BY <1>1
<1>3. Counted(m) /\ Of(m, "EdgeSuperseded") = Of(d, "EdgeSuperseded")
  BY <1>2, ObservedCounts
<1>4. m.superIdx = d.superIdx \cup {<<g.supersedes, d.edgeCtr + 1>>}
  BY <1>2 DEF ObservesEdge, StoresEdge
<1>5. <<g.supersedes, d.edgeCtr + 1>> \notin d.superIdx
  <2>1. d.superIdx = {<<d.edges[i].supersedes, i>> :
                        i \in {j \in DOMAIN d.edges : d.edges[j].supersedes # Zero}}
    BY DEF Good, DbInv, IndexesMirrorEdges
  <2> QED
    BY <2>1, FreshEdge
<1>6. PICK now \in Clock :
        /\ SameNodes(m, e) /\ SameEdges(m, e)
        /\ Logs(m, e, now, EdgeSuperseded(g.supersedes, g))
  BY <1>2 DEF NotesRevision
<1>7. EdgeSuperseded(g.supersedes, g).kind = "EdgeSuperseded"
  BY DEF EdgeSuperseded
<1>8. /\ IsFiniteSet(DOMAIN e.events)
      /\ Cardinality(Of(e, "EdgeSuperseded")) = Cardinality(Of(m, "EdgeSuperseded")) + 1
      /\ \A kind : kind # "EdgeSuperseded" => Of(e, kind) = Of(m, kind)
  BY <1>2, <1>3, <1>6, <1>7, LogsCounts DEF Counted
<1>9. EndedEarly(e) = EndedEarly(m)
  BY <1>2, <1>6, <1>7, SameClosings DEF EndedEarly, SameEdges
<1>10. Counted(e)
  BY <1>3, <1>6, <1>8, <1>9 DEF Counted, SameNodes, SameEdges
<1>11. IsFiniteSet(e.superIdx) /\ Cardinality(e.superIdx) = Cardinality(d.superIdx) + 1
  BY <1>4, <1>5, <1>6, RowsCount DEF RevisionsCounted, SameEdges
<1> QED
  BY <1>3, <1>8, <1>10, <1>11 DEF RevisionsCounted

LEMMA EffectCounts ==
  ASSUME NEW d, NEW e, Good(d), Explained(d), Counted(d), RevisionsCounted(d), Effect(d, e)
  PROVE  Counted(e) /\ RevisionsCounted(e)
<1>1. CASE AddsEdge(d, e)
  <2>1. PICK g \in Edge : g.supersedes = Zero /\ ObservesEdge(d, e, g)
    BY <1>1 DEF AddsEdge
  <2>2. Counted(e) /\ Of(e, "EdgeSuperseded") = Of(d, "EdgeSuperseded")
    BY <2>1, ObservedCounts
  <2>3. e.superIdx = d.superIdx
    BY <2>1 DEF ObservesEdge, StoresEdge
  <2> QED
    BY <2>2, <2>3 DEF RevisionsCounted
<1> QED
  BY <1>1, NodeCounts, RevisionCounts, ClosingCounts DEF Effect

LEMMA ResidueCounts ==
  ASSUME NEW d, NEW e, Counted(d), RevisionsCounted(d), LeavesResidue(d, e)
  PROVE  Counted(e) /\ RevisionsCounted(e)
<1>1. \A kind : Of(e, kind) = Of(d, kind)
  BY DEF LeavesResidue, SameLog, Of
<1>2. EndedEarly(e) = EndedEarly(d)
  BY DEF LeavesResidue, SameLog, EndedEarly, Closings
<1> QED
  BY <1>1, <1>2 DEF Counted, RevisionsCounted, LeavesResidue, SameLog, SameNodes

\* An edge whose record was never observed has been closed.
LEMMA EndedSinceCounted ==
  ASSUME NEW d, Explained(d), Counted(d)
  PROVE  Cardinality(EndedSince(d)) <= Cardinality(Of(d, "EdgeInvalidated"))
<1>1. EndedSince(d) \subseteq EndedEarly(d)
  BY DEF EndedSince, EndedEarly, Explained, LogExplainsValidity
<1>2. IsFiniteSet(EndedEarly(d))
  <2>1. EndedEarly(d) \subseteq DOMAIN d.edges
    BY DEF EndedEarly
  <2> QED
    BY <2>1, FS_Subset DEF Counted
<1>3. IsFiniteSet(EndedSince(d)) /\ Cardinality(EndedSince(d)) <= Cardinality(EndedEarly(d))
  BY <1>1, <1>2, FS_Subset
<1>4. IsFiniteSet(Of(d, "EdgeInvalidated"))
  <2>1. Of(d, "EdgeInvalidated") \subseteq DOMAIN d.events
    BY DEF Of
  <2> QED
    BY <2>1, FS_Subset DEF Counted
<1>5. /\ Cardinality(EndedSince(d)) \in Nat /\ Cardinality(EndedEarly(d)) \in Nat
      /\ Cardinality(Of(d, "EdgeInvalidated")) \in Nat
  BY <1>2, <1>3, <1>4, FS_CardinalityType
<1> QED
  BY <1>3, <1>5 DEF Counted

\* A closing gave its edge an end no earlier than the one it has.
LEMMA ClosedAtOrAfter ==
  ASSUME NEW d, Good(d), Explained(d), NEW k \in Of(d, "EdgeInvalidated")
  PROVE  <<d.events[k].id, d.events[k].at>> \in PossibleEnds(d)
<1> DEFINE i == d.events[k].id
<1>1. i \in DOMAIN d.edges
  BY DEF Explained
<1>2. ASSUME NEW x \in Of(d, "EdgeInvalidated") PROVE d.events[x].at \in Time
  <2>1. d.events[x] \in Event /\ d.events[x].kind = "EdgeInvalidated"
    BY DEF Of, Good, IsDatabase, IsTable
  <2>2. d.events[x] \in [kind : {"EdgeInvalidated"}, id : Nat, at : Time]
    BY <2>1 DEF Event
  <2> QED
    BY <2>2
<1>3. k \in Closings(d, i) /\ \A x \in Closings(d, i) : d.events[x].at \in Time
  BY <1>2, ClosingsAre
<1>4. PICK last \in Closings(d, i) :
             /\ d.events[last].at = d.edges[i].vt
             /\ \A x \in Closings(d, i) \ {last} : d.events[x].at > d.events[last].at
  BY <1>1, <1>3 DEF Explained, LogExplainsValidity
<1>5. d.events[last].at \in Int /\ d.events[k].at \in Int
  BY <1>3, TimeAssumption
<1>6. d.edges[i].vt # NoTs
  BY <1>4, <1>5, TimeAssumption
<1>7. d.edges[i].vt <= d.events[k].at
  <2>1. k = last \/ d.events[k].at > d.events[last].at
    BY <1>3, <1>4
  <2> QED
    BY <1>4, <1>5, <2>1
<1> HIDE DEF i
<1>8. d.events[k].at \in Time
  BY <1>3
<1> QED
  BY <1>1, <1>6, <1>7, <1>8 DEF PossibleEnds, i

LEMMA ClosingsBounded ==
  ASSUME NEW d, Good(d), Explained(d), Counted(d), IsFiniteSet(Time)
  PROVE  Cardinality(Of(d, "EdgeInvalidated")) <= Cardinality(PossibleEnds(d))
<1> DEFINE S == Of(d, "EdgeInvalidated")
           T == PossibleEnds(d)
           f == [k \in S |-> <<d.events[k].id, d.events[k].at>>]
<1>1. IsFiniteSet((DOMAIN d.edges) \X Time)
  BY FS_Product DEF Counted
<1>2. IsFiniteSet(T)
  <2>1. T \subseteq (DOMAIN d.edges) \X Time
    BY DEF PossibleEnds
  <2> QED
    BY <1>1, <2>1, FS_Subset
<1>3. f \in [S -> T]
  BY ClosedAtOrAfter
<1>4. \A j, k \in S : f[j] = f[k] => j = k
  BY DEF Explained, EndsDiffer
<1> HIDE DEF S, T, f
<1>5. f \in Injection(S, T)
  BY <1>3, <1>4 DEF Injection, IsInjective
<1>6. Cardinality(S) <= Cardinality(T)
  BY <1>2, <1>5, FS_Injection
<1> QED
  BY <1>6 DEF S, T

LEMMA LogTellsTables ==
  ASSUME NEW d, NEW s, Good(d), Explained(d), Counted(d), RevisionsCounted(d),
         IsFiniteSet(Time),
         s.nodes_added = Cardinality(Of(d, "NodeAdded")),
         s.edges_added = Cardinality(Of(d, "EdgeObserved")),
         s.edges_invalidated = Cardinality(Of(d, "EdgeInvalidated")),
         s.edges_superseded = Cardinality(Of(d, "EdgeSuperseded"))
  PROVE  DiffTellsTables(d, s)
<1>1. Cardinality(EndedSince(d)) <= Cardinality(Of(d, "EdgeInvalidated"))
  BY EndedSinceCounted
<1>2. Cardinality(Of(d, "EdgeInvalidated")) <= Cardinality(PossibleEnds(d))
  BY ClosingsBounded
<1> QED
  BY <1>1, <1>2 DEF DiffTellsTables, Counted, RevisionsCounted

\* Each event of a range lies in exactly one of two parts of it.
LEMMA PartsCount ==
  ASSUME NEW d, NEW t1 \in Time, NEW t \in Time, NEW t2 \in Time, NEW kind,
         t1 <= t, t < t2, Explained(d), IsFiniteSet(DOMAIN d.events)
  PROVE  CountOf(d, EventsBetween(d, t1, t), kind)
           + CountOf(d, EventsBetween(d, t + 1, t2), kind)
             = CountOf(d, EventsBetween(d, t1, t2), kind)
<1> DEFINE In(a, b) == {k \in EventsBetween(d, a, b) : d.events[k].kind = kind}
           P == In(t1, t)
           Q == In(t + 1, t2)
           W == In(t1, t2)
<1>1. \A k \in DOMAIN d.events : k[1] \in Int
  BY InputAssumption, TimeAssumption DEF Explained
<1>2. t1 \in Int /\ t \in Int /\ t2 \in Int
  BY TimeAssumption
<1>3. W = P \cup Q /\ P \cap Q = {}
  BY <1>1, <1>2 DEF EventsBetween
<1>4. IsFiniteSet(P) /\ IsFiniteSet(Q)
  <2>1. P \subseteq DOMAIN d.events /\ Q \subseteq DOMAIN d.events
    BY DEF EventsBetween
  <2> QED
    BY <2>1, FS_Subset
<1>5. /\ CountOf(d, EventsBetween(d, t1, t), kind) = Cardinality(P)
      /\ CountOf(d, EventsBetween(d, t + 1, t2), kind) = Cardinality(Q)
      /\ CountOf(d, EventsBetween(d, t1, t2), kind) = Cardinality(W)
  BY DEF CountOf
<1> HIDE DEF P, Q, W
<1>6. Cardinality(W) = Cardinality(P) + Cardinality(Q)
  <2>1. Cardinality(P \cup Q) = Cardinality(P) + Cardinality(Q) - Cardinality(P \cap Q)
    BY <1>4, FS_Union
  <2>2. Cardinality(P \cap Q) = 0
    BY <1>3, FS_EmptySet
  <2>3. Cardinality(P) \in Nat /\ Cardinality(Q) \in Nat
    BY <1>4, FS_CardinalityType
  <2> QED
    BY <1>3, <2>1, <2>2, <2>3
<1> QED
  BY <1>5, <1>6

-----------------------------------------------------------------------------
(* Nothing of a failed call *)

Named(d) == {d.nodes[i].type : i \in DOMAIN d.nodes}
              \cup {d.edges[i].type : i \in DOMAIN d.edges}
              \cup {d.edges[i].source : i \in DOMAIN d.edges}

LEMMA ResidueFreeIs ==
  ASSUME NEW d
  PROVE  NoResidue(d) <=> /\ DOMAIN d.edges = 1..d.edgeCtr
                          /\ DOMAIN d.strRev = Named(d) \ {Zero}
  BY DEF NoResidue, Named

LEMMA ObservedClean ==
  ASSUME NEW d, NEW e, NEW g, Good(d), NoResidue(d), ObservesEdge(d, e, g)
  PROVE  NoResidue(e)
<1> DEFINE id == d.edgeCtr + 1
<1>1. /\ e.edgeCtr = id /\ e.edges = Insert(d.edges, id, g)
      /\ SameNodes(d, e) /\ Interns(d, e, {g.type, g.source})
  BY DEF ObservesEdge, StoresEdge
<1>2. id \notin DOMAIN d.edges /\ d.edgeCtr \in Nat
  BY FreshEdge
<1>3. DOMAIN e.edges = 1..e.edgeCtr
  BY <1>1, <1>2, ResidueFreeIs DEF Insert
<1> HIDE DEF id
<1>4. Named(e) = Named(d) \cup {g.type, g.source}
  <2>1. DOMAIN e.edges = DOMAIN d.edges \cup {id} /\ e.edges[id] = g
        /\ \A i \in DOMAIN d.edges : e.edges[i] = d.edges[i]
    BY <1>1, <1>2 DEF Insert
  <2>2. /\ {e.edges[i].type : i \in DOMAIN e.edges}
             = {d.edges[i].type : i \in DOMAIN d.edges} \cup {g.type}
        /\ {e.edges[i].source : i \in DOMAIN e.edges}
             = {d.edges[i].source : i \in DOMAIN d.edges} \cup {g.source}
    BY <2>1
  <2>3. {e.nodes[i].type : i \in DOMAIN e.nodes} = {d.nodes[i].type : i \in DOMAIN d.nodes}
    BY <1>1 DEF SameNodes
  <2> QED
    BY <2>2, <2>3 DEF Named
<1>5. DOMAIN e.strRev = Named(e) \ {Zero}
  BY <1>1, <1>4, ResidueFreeIs DEF Interns
<1> QED
  BY <1>3, <1>5, ResidueFreeIs

LEMMA SameClean ==
  ASSUME NEW d, NEW e, NoResidue(d), SameStrings(d, e), SameNodes(d, e), SameEdges(d, e)
  PROVE  NoResidue(e)
  BY DEF NoResidue, SameStrings, SameNodes, SameEdges

LEMMA EffectClean ==
  ASSUME NEW d, NEW e, Good(d), NoResidue(d), Effect(d, e)
  PROVE  NoResidue(e)
<1>1. CASE AddsNode(d, e)
  <2>1. PICK n \in Node : /\ e.nodes = Insert(d.nodes, d.nodeCtr + 1, n)
                          /\ Interns(d, e, {n.type}) /\ SameEdges(d, e)
    BY <1>1 DEF AddsNode
  <2> DEFINE id == d.nodeCtr + 1
  <2>2. id \notin DOMAIN d.nodes /\ e.nodes = Insert(d.nodes, id, n)
    BY <2>1 DEF Good, DbInv, NodesNamed, IsDatabase
  <2> HIDE DEF id
  <2>3. DOMAIN e.nodes = DOMAIN d.nodes \cup {id} /\ e.nodes[id] = n
        /\ \A i \in DOMAIN d.nodes : e.nodes[i] = d.nodes[i]
    BY <2>2 DEF Insert
  <2>4. {e.nodes[i].type : i \in DOMAIN e.nodes}
          = {d.nodes[i].type : i \in DOMAIN d.nodes} \cup {n.type}
    BY <2>3
  <2>5. Named(e) = Named(d) \cup {n.type}
    BY <2>1, <2>4 DEF Named, SameEdges
  <2> QED
    BY <2>1, <2>5, ResidueFreeIs DEF Interns, SameEdges
<1>2. CASE AddsEdge(d, e)
  BY <1>2, ObservedClean DEF AddsEdge
<1>3. CASE AddsRevision(d, e)
  <2>1. PICK m : \E g \in Edge : Good(m) /\ ObservesEdge(d, m, g) /\ NotesRevision(m, e, g)
    BY <1>3 DEF AddsRevision
  <2>2. NoResidue(m)
    BY <2>1, ObservedClean
  <2> QED
    BY <2>1, <2>2, SameClean DEF NotesRevision
<1>4. CASE ClosesEdge(d, e)
  <2>1. PICK id \in DOMAIN d.edges, at \in Time :
          /\ e.edges = Insert(d.edges, id, [d.edges[id] EXCEPT !.vt = at])
          /\ e.edgeCtr = d.edgeCtr /\ SameStrings(d, e) /\ SameNodes(d, e)
    BY <1>4 DEF ClosesEdge
  <2>2. d.edges[id] \in Edge
    BY DEF Good, IsDatabase, IsTable
  <2>3. /\ DOMAIN e.edges = DOMAIN d.edges
        /\ \A i \in DOMAIN d.edges : /\ e.edges[i].type = d.edges[i].type
                                     /\ e.edges[i].source = d.edges[i].source
    BY <2>1, <2>2 DEF Insert, Edge
  <2>4. Named(e) = Named(d)
    BY <2>1, <2>3 DEF Named, SameNodes
  <2> QED
    BY <2>1, <2>3, <2>4, ResidueFreeIs DEF SameStrings
<1> QED
  BY <1>1, <1>2, <1>3, <1>4 DEF Effect

-----------------------------------------------------------------------------
(* The fold of the log *)

IsReplay(f, d, kinds, n) ==
  f = [i \in 0..n |-> IF i = 0 THEN NoRows ELSE Applied(f[i - 1], EventById(d, i), kinds)]

LEMMA ReplayIsFold ==
  ASSUME NEW d, NEW kinds
  PROVE  ReplayEdges(d, kinds) = (CHOOSE f : IsReplay(f, d, kinds, d.eventCtr))[d.eventCtr]
  BY DEF ReplayEdges, IsReplay

LEMMA ReplayExists ==
  ASSUME NEW d, NEW kinds
  PROVE  \A n \in Nat : \E f : IsReplay(f, d, kinds, n)
<1> DEFINE S == {n \in Nat : \E f : IsReplay(f, d, kinds, n)}
<1>1. 0 \in S
  <2>1. IsReplay([i \in 0..0 |-> NoRows], d, kinds, 0)
    BY DEF IsReplay
  <2> QED
    BY <2>1
<1>2. ASSUME NEW n \in Nat, n \in S PROVE n + 1 \in S
  <2>1. PICK f : IsReplay(f, d, kinds, n)
    BY <1>2
  <2> DEFINE g == [i \in 0..(n + 1) |-> IF i = n + 1 THEN Applied(f[n], EventById(d, n + 1), kinds)
                                        ELSE f[i]]
  <2>2. \A i \in 0..n : f[i] = IF i = 0 THEN NoRows ELSE Applied(f[i - 1], EventById(d, i), kinds)
    BY <2>1 DEF IsReplay
  <2>3. /\ \A i \in 0..n : g[i] = f[i]
        /\ g[n + 1] = Applied(f[n], EventById(d, n + 1), kinds)
        /\ DOMAIN g = 0..(n + 1)
    OBVIOUS
  <2>4. ASSUME NEW i \in 0..(n + 1)
        PROVE  g[i] = IF i = 0 THEN NoRows ELSE Applied(g[i - 1], EventById(d, i), kinds)
    <3> HIDE DEF g
    <3>1. CASE i = n + 1
      <4>1. i # 0 /\ i - 1 = n /\ n \in 0..n
        BY <3>1
      <4>2. g[i - 1] = f[n]
        BY <2>3, <4>1
      <4> QED
        BY <2>3, <3>1, <4>1, <4>2
    <3>2. CASE i # n + 1 /\ i # 0
      <4>1. i \in 0..n /\ i - 1 \in 0..n
        BY <3>2
      <4> QED
        BY <2>2, <2>3, <3>2, <4>1
    <3>3. CASE i = 0
      BY <2>2, <2>3, <3>3
    <3> QED
      BY <3>1, <3>2, <3>3
  <2>5. g = [i \in 0..(n + 1) |-> g[i]]
    OBVIOUS
  <2> HIDE DEF g
  <2>6. IsReplay(g, d, kinds, n + 1)
    BY <2>4, <2>5 DEF IsReplay
  <2> QED
    BY <2>6
<1> HIDE DEF S
<1>3. Nat \subseteq S
  BY <1>1, <1>2, NatSet
<1> QED
  BY <1>3 DEF S

\* Logs that agree up to event k are folded to the same table there.
LEMMA ReplayUnique ==
  ASSUME NEW d, NEW e, NEW kinds, NEW f, NEW g, NEW k \in Nat, NEW m \in Nat, k <= m,
         IsReplay(f, d, kinds, k), IsReplay(g, e, kinds, m),
         \A i \in 1..k : EventById(d, i) = EventById(e, i)
  PROVE  f[k] = g[k]
<1> DEFINE S == {i \in Nat : i <= k => f[i] = g[i]}
<1>1. /\ \A i \in 0..k : f[i] = IF i = 0 THEN NoRows ELSE Applied(f[i - 1], EventById(d, i), kinds)
      /\ \A i \in 0..m : g[i] = IF i = 0 THEN NoRows ELSE Applied(g[i - 1], EventById(e, i), kinds)
  BY DEF IsReplay
<1>2. 0 \in S
  BY <1>1
<1>3. ASSUME NEW n \in Nat, n \in S PROVE n + 1 \in S
  <2> SUFFICES ASSUME n + 1 <= k PROVE f[n + 1] = g[n + 1]
    OBVIOUS
  <2>1. f[n] = g[n]
    BY <1>3
  <2>2. n + 1 \in 0..k /\ n + 1 \in 0..m /\ n + 1 \in 1..k /\ n + 1 # 0 /\ (n + 1) - 1 = n
    OBVIOUS
  <2>3. /\ f[n + 1] = Applied(f[n], EventById(d, n + 1), kinds)
        /\ g[n + 1] = Applied(g[n], EventById(e, n + 1), kinds)
    BY <1>1, <2>2
  <2> QED
    BY <2>1, <2>2, <2>3
<1> HIDE DEF S
<1>4. k \in S
  BY <1>2, <1>3, NatSet
<1> QED
  BY <1>4 DEF S

\* The event with a given id is found by its id.
LEMMA EventByIdIs ==
  ASSUME NEW d, NEW k \in DOMAIN d.events,
         \A j \in DOMAIN d.events : j[2] = k[2] => j = k
  PROVE  EventById(d, k[2]) = d.events[k]
  BY DEF EventById

\* One event more is one turn of the fold more.
LEMMA ReplayNext ==
  ASSUME NEW d, NEW e, NEW kinds, NEW now, NEW ev, Good(d), Logs(d, e, now, ev)
  PROVE  ReplayEdges(e, kinds) = Applied(ReplayEdges(d, kinds), ev, kinds)
<1> DEFINE n == d.eventCtr
           m == n + 1
<1>1. n \in Nat /\ m \in Nat /\ n <= m /\ e.eventCtr = m /\ m # 0 /\ m - 1 = n /\ m \in 0..m
  BY DEF Good, IsDatabase, Logs
<1>2. PICK new : /\ new[2] = d.eventCtr + 1
                 /\ DOMAIN e.events = DOMAIN d.events \cup {new}
                 /\ e.events[new] = ev
                 /\ \A k \in DOMAIN d.events : e.events[k] = d.events[k] /\ k[2] < new[2]
  BY LogsFacts
<1> HIDE DEF n, m
<1>3. new[2] = m
  BY <1>2 DEF n, m
<1>4. \A k \in DOMAIN d.events : k[2] \in Nat
  BY DEF Good, DbInv, LogNumbered
<1>5. EventById(e, m) = ev
  <2>1. \A j \in DOMAIN e.events : j[2] = new[2] => j = new
    BY <1>1, <1>2, <1>3, <1>4
  <2> QED
    BY <1>2, <1>3, <2>1, EventByIdIs
<1>6. ASSUME NEW i \in 1..n PROVE EventById(d, i) = EventById(e, i)
  <2>1. PICK k \in DOMAIN d.events : k[2] = i
    BY DEF Good, DbInv, LogNumbered, n
  <2>2. \A j \in DOMAIN d.events : j[2] = k[2] => j = k
    BY DEF Good, DbInv, LogNumbered
  <2>3. \A j \in DOMAIN e.events : j[2] = k[2] => j = k
    BY <1>1, <1>2, <1>3, <2>1, <2>2
  <2>4. EventById(d, k[2]) = d.events[k]
    BY <2>2, EventByIdIs
  <2>5. EventById(e, k[2]) = e.events[k]
    BY <1>2, <2>3, EventByIdIs
  <2> QED
    BY <1>2, <2>1, <2>4, <2>5
<1> DEFINE f == CHOOSE x : IsReplay(x, d, kinds, n)
           g == CHOOSE x : IsReplay(x, e, kinds, m)
<1>7. IsReplay(f, d, kinds, n) /\ IsReplay(g, e, kinds, m)
  BY <1>1, ReplayExists
<1>8. ReplayEdges(d, kinds) = f[n] /\ ReplayEdges(e, kinds) = g[m]
  BY <1>1, ReplayIsFold DEF n
<1> HIDE DEF f, g
<1>9. f[n] = g[n]
  BY <1>1, <1>6, <1>7, ReplayUnique
<1>10. g[m] = Applied(g[m - 1], EventById(e, m), kinds)
  BY <1>1, <1>7 DEF IsReplay
<1> QED
  BY <1>1, <1>5, <1>8, <1>9, <1>10

\* The kinds that tell of edges when EdgeSuperseded is taken for a note.
Telling == EdgeEvents \ {"EdgeSuperseded"}

\* While ids have no gap, a replayed edge gets the id it was stored under.
LEMMA NextId ==
  ASSUME NEW d, NEW g, Good(d), NoResidue(d)
  PROVE  Appended(d.edges, g) = Insert(d.edges, d.edgeCtr + 1, g)
<1>1. DOMAIN d.edges = 1..d.edgeCtr /\ d.edgeCtr \in Nat
  BY FreshEdge, ResidueFreeIs
<1>2. Cardinality(DOMAIN d.edges) = d.edgeCtr
  BY <1>1, FS_Interval
<1> QED
  BY <1>2 DEF Appended

LEMMA AppliedEvents ==
  ASSUME NEW t, NEW kinds
  PROVE  /\ \A n : "NodeAdded" \notin kinds => Applied(t, NodeAdded(n), kinds) = t
         /\ \A g : "EdgeObserved" \in kinds => Applied(t, EdgeObserved(g), kinds) = Appended(t, g)
         /\ \A i, at : "EdgeInvalidated" \in kinds =>
                         Applied(t, EdgeInvalidated(i, at), kinds) = Ended(t, i, at)
         /\ \A i, g : Applied(t, EdgeSuperseded(i, g), kinds)
                        = IF "EdgeSuperseded" \in kinds THEN Ended(Appended(t, g), i, g.vf) ELSE t
<1>1. \A n : "NodeAdded" \notin kinds => Applied(t, NodeAdded(n), kinds) = t
  BY DEF Applied, NodeAdded
<1>2. \A g : "EdgeObserved" \in kinds => Applied(t, EdgeObserved(g), kinds) = Appended(t, g)
  BY DEF Applied, Replayed, EdgeObserved
<1>3. \A i, at : "EdgeInvalidated" \in kinds =>
                   Applied(t, EdgeInvalidated(i, at), kinds) = Ended(t, i, at)
  BY DEF Applied, Replayed, EdgeInvalidated
<1>4. \A i, g : Applied(t, EdgeSuperseded(i, g), kinds)
                  = IF "EdgeSuperseded" \in kinds THEN Ended(Appended(t, g), i, g.vf) ELSE t
  BY DEF Applied, Replayed, EdgeSuperseded
<1> QED
  BY <1>1, <1>2, <1>3, <1>4

LEMMA ObservedReplays ==
  ASSUME NEW d, NEW e, NEW g, Good(d), NoResidue(d), ReplayEdges(d, Telling) = d.edges,
         ObservesEdge(d, e, g)
  PROVE  ReplayEdges(e, Telling) = e.edges
<1>1. PICK now \in Clock : StoresEdge(d, e, g) /\ Logs(d, e, now, EdgeObserved(g))
  BY DEF ObservesEdge
<1>2. "EdgeObserved" \in Telling
  BY DEF Telling, EdgeEvents
<1>3. ReplayEdges(e, Telling) = Applied(d.edges, EdgeObserved(g), Telling)
  BY <1>1, ReplayNext
<1>4. Applied(d.edges, EdgeObserved(g), Telling) = Appended(d.edges, g)
  BY <1>2, AppliedEvents
<1>5. Appended(d.edges, g) = Insert(d.edges, d.edgeCtr + 1, g)
  BY NextId
<1> QED
  BY <1>1, <1>3, <1>4, <1>5 DEF StoresEdge

LEMMA EffectReplays ==
  ASSUME NEW d, NEW e, Good(d), NoResidue(d), ReplayEdges(d, Telling) = d.edges, Effect(d, e)
  PROVE  ReplayEdges(e, Telling) = e.edges
<1>1. CASE AddsNode(d, e)
  <2>1. PICK n \in Node, now \in Clock : SameEdges(d, e) /\ Logs(d, e, now, NodeAdded(n))
    BY <1>1 DEF AddsNode
  <2>2. ReplayEdges(e, Telling) = Applied(d.edges, NodeAdded(n), Telling)
    BY <2>1, ReplayNext
  <2>3. "NodeAdded" \notin Telling
    BY DEF Telling, EdgeEvents
  <2> QED
    BY <2>1, <2>2, <2>3, AppliedEvents DEF SameEdges
<1>2. CASE AddsEdge(d, e)
  BY <1>2, ObservedReplays DEF AddsEdge
<1>3. CASE AddsRevision(d, e)
  <2>1. PICK m : \E g \in Edge : Good(m) /\ ObservesEdge(d, m, g) /\ NotesRevision(m, e, g)
    BY <1>3 DEF AddsRevision
  <2>2. PICK g \in Edge : Good(m) /\ ObservesEdge(d, m, g) /\ NotesRevision(m, e, g)
    BY <2>1
  <2>3. ReplayEdges(m, Telling) = m.edges
    BY <2>2, ObservedReplays
  <2>4. PICK now \in Clock :
          SameEdges(m, e) /\ Logs(m, e, now, EdgeSuperseded(g.supersedes, g))
    BY <2>2 DEF NotesRevision
  <2>5. ReplayEdges(e, Telling) = Applied(m.edges, EdgeSuperseded(g.supersedes, g), Telling)
    BY <2>2, <2>3, <2>4, ReplayNext
  <2>6. "EdgeSuperseded" \notin Telling
    BY DEF Telling
  <2>7. Applied(m.edges, EdgeSuperseded(g.supersedes, g), Telling) = m.edges
    BY <2>6 DEF Applied, EdgeSuperseded
  <2> QED
    BY <2>4, <2>5, <2>7 DEF SameEdges
<1>4. CASE ClosesEdge(d, e)
  <2>1. PICK id \in DOMAIN d.edges, at \in Time, now \in Clock :
          /\ e.edges = Insert(d.edges, id, [d.edges[id] EXCEPT !.vt = at])
          /\ Logs(d, e, now, EdgeInvalidated(id, at))
    BY <1>4 DEF ClosesEdge
  <2>2. ReplayEdges(e, Telling) = Applied(d.edges, EdgeInvalidated(id, at), Telling)
    BY <2>1, ReplayNext
  <2>3. "EdgeInvalidated" \in Telling
    BY DEF Telling, EdgeEvents
  <2>4. ReplayEdges(e, Telling) = Ended(d.edges, id, at)
    BY <2>2, <2>3, AppliedEvents
  <2> QED
    BY <2>1, <2>4 DEF Ended
<1> QED
  BY <1>1, <1>2, <1>3, <1>4 DEF Effect

-----------------------------------------------------------------------------
(* The documented fold stores each revision twice *)

\* A table with the ids 1, 2, ..., n.
Numbered(t, n) == n \in Nat /\ DOMAIN t = 1..n

LEMMA AppendedNumbered ==
  ASSUME NEW t, NEW g, NEW n, Numbered(t, n)
  PROVE  Numbered(Appended(t, g), n + 1)
<1>1. n \in Nat /\ DOMAIN t = 1..n
  BY DEF Numbered
<1>2. Cardinality(DOMAIN t) = n
  BY <1>1, FS_Interval
<1>3. DOMAIN Appended(t, g) = (1..n) \cup {n + 1}
  BY <1>1, <1>2 DEF Appended, Insert
<1> QED
  BY <1>1, <1>3 DEF Numbered

LEMMA EndedNumbered ==
  ASSUME NEW t, NEW i, NEW at, NEW n, Numbered(t, n)
  PROVE  Numbered(Ended(t, i, at), n)
  BY DEF Ended, Insert, Numbered

\* The documented fold has an edge more for each revision.
Doubled(d) ==
  /\ Numbered(ReplayEdges(d, EdgeEvents), Cardinality(DOMAIN d.edges) + Cardinality(d.superIdx))
  /\ d.superIdx = {} => ReplayEdges(d, EdgeEvents) = d.edges

LEMMA EffectDoubles ==
  ASSUME NEW d, NEW e, Good(d), NoResidue(d), Counted(d), RevisionsCounted(d), Doubled(d),
         Effect(d, e)
  PROVE  Doubled(e)
<1> DEFINE t == ReplayEdges(d, EdgeEvents)
           u == ReplayEdges(e, EdgeEvents)
           n == Cardinality(DOMAIN d.edges)
           m == Cardinality(d.superIdx)
<1>1. /\ n \in Nat /\ m \in Nat
      /\ Numbered(t, n + m) /\ (d.superIdx = {} => t = d.edges)
  BY FS_CardinalityType DEF Doubled, Counted, RevisionsCounted
<1>2. /\ "NodeAdded" \notin EdgeEvents /\ "EdgeObserved" \in EdgeEvents
      /\ "EdgeInvalidated" \in EdgeEvents /\ "EdgeSuperseded" \in EdgeEvents
  BY DEF EdgeEvents
<1>3. CASE AddsNode(d, e)
  <2>1. PICK x \in Node, now \in Clock : SameEdges(d, e) /\ Logs(d, e, now, NodeAdded(x))
    BY <1>3 DEF AddsNode
  <2>2. u = t
    BY <1>2, <2>1, ReplayNext, AppliedEvents
  <2> QED
    BY <1>1, <2>1, <2>2 DEF Doubled, SameEdges
<1>4. CASE AddsEdge(d, e)
  <2>1. PICK g \in Edge : g.supersedes = Zero /\ ObservesEdge(d, e, g)
    BY <1>4 DEF AddsEdge
  <2>2. PICK now \in Clock : StoresEdge(d, e, g) /\ Logs(d, e, now, EdgeObserved(g))
    BY <2>1 DEF ObservesEdge
  <2>3. u = Appended(t, g)
    BY <1>2, <2>2, ReplayNext, AppliedEvents
  <2>4. /\ e.superIdx = d.superIdx /\ e.edges = Insert(d.edges, d.edgeCtr + 1, g)
        /\ DOMAIN e.edges = DOMAIN d.edges \cup {d.edgeCtr + 1}
    BY <2>1, <2>2 DEF StoresEdge, Insert
  <2>5. Cardinality(DOMAIN e.edges) = n + 1
    BY <2>4, FreshEdge, RowsCount DEF Counted
  <2>6. Numbered(u, n + m + 1)
    BY <1>1, <2>3, AppendedNumbered
  <2>7. n + m + 1 = Cardinality(DOMAIN e.edges) + Cardinality(e.superIdx)
    BY <1>1, <2>4, <2>5
  <2>8. e.superIdx = {} => u = e.edges
    BY <1>1, <2>3, <2>4, NextId
  <2> QED
    BY <2>6, <2>7, <2>8 DEF Doubled
<1>5. CASE AddsRevision(d, e)
  <2>1. PICK v : \E g \in Edge : /\ g.supersedes # Zero /\ Good(v)
                                 /\ ObservesEdge(d, v, g) /\ NotesRevision(v, e, g)
    BY <1>5 DEF AddsRevision
  <2>2. PICK g \in Edge : /\ g.supersedes # Zero /\ Good(v)
                          /\ ObservesEdge(d, v, g) /\ NotesRevision(v, e, g)
    BY <2>1
  <2>3. PICK now \in Clock : StoresEdge(d, v, g) /\ Logs(d, v, now, EdgeObserved(g))
    BY <2>2 DEF ObservesEdge
  <2>4. PICK at \in Clock :
          SameEdges(v, e) /\ Logs(v, e, at, EdgeSuperseded(g.supersedes, g))
    BY <2>2 DEF NotesRevision
  <2>5. ReplayEdges(v, EdgeEvents) = Appended(t, g)
    BY <1>2, <2>3, ReplayNext, AppliedEvents
  <2>6. u = Ended(Appended(Appended(t, g), g), g.supersedes, g.vf)
    BY <1>2, <2>2, <2>4, <2>5, ReplayNext, AppliedEvents
  <2>7. Numbered(u, n + m + 1 + 1)
    BY <1>1, <2>6, AppendedNumbered, EndedNumbered
  <2>8. /\ DOMAIN e.edges = DOMAIN d.edges \cup {d.edgeCtr + 1}
        /\ e.superIdx = d.superIdx \cup {<<g.supersedes, d.edgeCtr + 1>>}
    BY <2>2, <2>3, <2>4 DEF StoresEdge, SameEdges, Insert
  <2>9. Cardinality(DOMAIN e.edges) = n + 1
    BY <2>8, FreshEdge, RowsCount DEF Counted
  <2>10. Cardinality(e.superIdx) = m + 1
    <3>1. <<g.supersedes, d.edgeCtr + 1>> \notin d.superIdx
      <4>1. d.superIdx = {<<d.edges[i].supersedes, i>> :
                            i \in {j \in DOMAIN d.edges : d.edges[j].supersedes # Zero}}
        BY DEF Good, DbInv, IndexesMirrorEdges
      <4> QED
        BY <4>1, FreshEdge
    <3> QED
      BY <2>8, <3>1, RowsCount DEF RevisionsCounted
  <2>11. n + m + 1 + 1 = Cardinality(DOMAIN e.edges) + Cardinality(e.superIdx)
    BY <1>1, <2>9, <2>10
  <2> QED
    BY <2>7, <2>8, <2>11 DEF Doubled
<1>6. CASE ClosesEdge(d, e)
  <2>1. PICK id \in DOMAIN d.edges, at \in Time, now \in Clock :
          /\ e.edges = Insert(d.edges, id, [d.edges[id] EXCEPT !.vt = at])
          /\ e.superIdx = d.superIdx
          /\ Logs(d, e, now, EdgeInvalidated(id, at))
    BY <1>6 DEF ClosesEdge
  <2>2. u = Ended(t, id, at)
    BY <1>2, <2>1, ReplayNext, AppliedEvents
  <2>3. Numbered(u, n + m)
    BY <1>1, <2>2, EndedNumbered
  <2>4. DOMAIN e.edges = DOMAIN d.edges
    BY <2>1 DEF Insert
  <2>5. e.superIdx = {} => u = e.edges
    BY <1>1, <2>1, <2>2 DEF Ended
  <2> QED
    BY <2>1, <2>3, <2>4, <2>5 DEF Doubled
<1> QED
  BY <1>3, <1>4, <1>5, <1>6 DEF Effect

LEMMA DoubledIs ==
  ASSUME NEW d, Counted(d), RevisionsCounted(d), Doubled(d)
  PROVE  ReplayEdges(d, EdgeEvents) = d.edges <=> d.superIdx = {}
<1> DEFINE n == Cardinality(DOMAIN d.edges)
           m == Cardinality(d.superIdx)
<1>1. n \in Nat /\ m \in Nat /\ (m = 0 <=> d.superIdx = {})
  BY FS_CardinalityType, FS_EmptySet DEF Counted, RevisionsCounted
<1>2. Cardinality(DOMAIN ReplayEdges(d, EdgeEvents)) = n + m
  <2>1. DOMAIN ReplayEdges(d, EdgeEvents) = 1..(n + m)
    BY DEF Doubled, Numbered
  <2>2. Cardinality(1..(n + m)) = n + m
    BY <1>1, FS_Interval
  <2> QED
    BY <2>1, <2>2
<1>3. d.superIdx = {} => ReplayEdges(d, EdgeEvents) = d.edges
  BY DEF Doubled
<1>4. ReplayEdges(d, EdgeEvents) = d.edges => n = n + m
  BY <1>2
<1> QED
  BY <1>1, <1>3, <1>4

-----------------------------------------------------------------------------
(* The operations *)

\* Holds after every call.
Accounted(d) == Explained(d) /\ Counted(d) /\ RevisionsCounted(d)

\* Holds while no call has failed.
Rebuilt(d) == NoResidue(d) /\ ReplayEdges(d, Telling) = d.edges /\ Doubled(d)

\* e comes from d by calls of which none has failed.
Follows(d, e) == Good(e) /\ Accounted(e) /\ (Rebuilt(d) => Rebuilt(e))

\* The reply r of a call on d.
Replies(d, r) == Good(r.db) /\ Accounted(r.db) /\ (r.ok /\ Rebuilt(d) => Rebuilt(r.db))

LEMMA EffectFollows ==
  ASSUME NEW d, NEW e, Good(d), Accounted(d), Good(e), e = d \/ Effect(d, e)
  PROVE  Follows(d, e)
<1>1. CASE e = d
  BY <1>1 DEF Follows
<1>2. CASE Effect(d, e)
  <2>1. Accounted(e)
    BY <1>2, EffectExplains, EffectCounts DEF Accounted
  <2>2. Rebuilt(d) => Rebuilt(e)
    BY <1>2, EffectClean, EffectReplays, EffectDoubles DEF Rebuilt, Accounted
  <2> QED
    BY <2>1, <2>2 DEF Follows
<1> QED
  BY <1>1, <1>2

LEMMA ResidueAccounted ==
  ASSUME NEW d, NEW e, Accounted(d), LeavesResidue(d, e)
  PROVE  Accounted(e)
  BY ResidueExplains, ResidueCounts DEF Accounted

LEMMA UpsertNodeFollows ==
  ASSUME NEW d, NEW ext \in Text, NEW type \in Text, NEW now \in Clock,
         Good(d), Accounted(d)
  PROVE  Follows(d, UpsertNode(d, ext, type, now).db)
<1>1. now \in Time
  BY InputAssumption
<1>2. Good(UpsertNode(d, ext, type, now).db)
  BY <1>1, UpsertNodeGood
<1>3. UpsertNode(d, ext, type, now).db = d \/ Effect(d, UpsertNode(d, ext, type, now).db)
  BY UpsertNodeEffect DEF Effect
<1> QED
  BY <1>2, <1>3, EffectFollows

LEMMA InvalidateEdgeFollows ==
  ASSUME NEW d, NEW id, NEW at \in Time, NEW now \in Clock, Good(d), Accounted(d)
  PROVE  Follows(d, InvalidateEdge(d, id, at, now).db)
<1>1. now \in Time
  BY InputAssumption
<1>2. Good(InvalidateEdge(d, id, at, now).db)
  BY <1>1, InvalidateEdgeGood
<1>3. InvalidateEdge(d, id, at, now).db = d \/ Effect(d, InvalidateEdge(d, id, at, now).db)
  BY InvalidateEdgeEffect DEF Effect
<1> QED
  BY <1>2, <1>3, EffectFollows

LEMMA AddEdgeReplies ==
  ASSUME NEW d, NEW in \in EdgeInput, NEW clk \in [1..3 -> Clock], Good(d), Accounted(d)
  PROVE  Replies(d, AddEdge(d, in, clk))
<1> DEFINE f == UpsertNode(d, in.from, Empty, clk[1])
           t == UpsertNode(f.db, in.to, Empty, clk[2])
           n == AddEdgeInternal(t.db, f.id, t.id, in, Zero, clk[3])
<1>1. /\ in.from \in Text /\ in.to \in Text
      /\ clk[1] \in Clock /\ clk[2] \in Clock /\ clk[3] \in Clock
      /\ clk[1] \in Time /\ clk[2] \in Time /\ clk[3] \in Time
  BY InputAssumption DEF EdgeInput
<1>2. CASE in.type = Empty \/ (in.from = in.to /\ in.from = Empty)
  BY <1>2 DEF AddEdge, Err, Replies
<1>3. CASE ~(in.type = Empty \/ (in.from = in.to /\ in.from = Empty))
  <2>1. AddEdge(d, in, clk) = IF ~f.ok THEN f ELSE IF ~t.ok THEN t ELSE n
    BY <1>3 DEF AddEdge
  <2>2. /\ f.ok \in BOOLEAN /\ Good(f.db) /\ (f.ok => f.id \in DOMAIN f.db.nodes)
        /\ Follows(d, f.db)
    BY <1>1, TextAssumption, UpsertNodeGood, UpsertNodeFollows
  <2> HIDE DEF f
  <2>3. /\ t.ok \in BOOLEAN /\ Good(t.db) /\ (t.ok => t.id \in DOMAIN t.db.nodes)
        /\ DOMAIN f.db.nodes \subseteq DOMAIN t.db.nodes
    <3>1. Good(f.db)
      BY <2>2
    <3> QED
      BY <1>1, <3>1, TextAssumption, UpsertNodeGood
  <2>4. Follows(f.db, t.db)
    BY <1>1, <2>2, TextAssumption, UpsertNodeFollows DEF Follows
  <2> HIDE DEF t
  <2>5. Follows(d, t.db)
    BY <2>2, <2>4 DEF Follows
  <2>6. CASE f.ok /\ t.ok
    <3>1. f.id \in DOMAIN t.db.nodes /\ t.id \in DOMAIN t.db.nodes
      BY <2>2, <2>3, <2>6
    <3>2. Zero \in Nat /\ MayRevise(t.db, Zero, in.vf)
      BY DEF Zero, MayRevise
    <3>3. Good(n.db)
      BY <1>1, <2>3, <3>1, <3>2, AddEdgeInternalGood
    <3>4. IF n.ok THEN /\ n.db.edges[n.id].supersedes = Zero
                       /\ ObservesEdge(t.db, n.db, n.db.edges[n.id])
          ELSE LeavesResidue(t.db, n.db)
      BY <1>1, <2>3, <3>1, <3>2, AddEdgeInternalEffect
    <3> HIDE DEF n
    <3>5. CASE n.ok
      <4>1. Effect(t.db, n.db)
        BY <3>4, <3>5 DEF Effect, AddsEdge, ObservesEdge, StoresEdge
      <4>2. Follows(t.db, n.db)
        BY <2>3, <2>5, <3>3, <4>1, EffectFollows DEF Follows
      <4> QED
        BY <2>1, <2>5, <2>6, <4>2 DEF Follows, Replies
    <3>6. CASE ~n.ok
      BY <2>1, <2>5, <2>6, <3>3, <3>4, <3>6, ResidueAccounted DEF Follows, Replies
    <3> QED
      BY <3>5, <3>6
  <2>7. CASE ~f.ok \/ ~t.ok
    BY <2>1, <2>2, <2>3, <2>5, <2>7 DEF Follows, Replies
  <2> QED
    BY <2>6, <2>7
<1> QED
  BY <1>2, <1>3

LEMMA SupersedeEdgeReplies ==
  ASSUME NEW d, NEW old \in Nat, NEW in \in EdgeInput,
         NEW clk \in [1..5 -> Clock], Good(d), Accounted(d)
  PROVE  Replies(d, SupersedeEdge(d, old, in, clk))
<1> DEFINE f == UpsertNode(d, in.from, Empty, clk[1])
           t == UpsertNode(f.db, in.to, Empty, clk[2])
           c == InvalidateEdge(t.db, old, in.vf, clk[3])
           n == AddEdgeInternal(c.db, f.id, t.id, in, old, clk[4])
           g == n.db.edges[n.id]
           v == EdgeSuperseded(old, g)
           h == AppendEvent(n.db, v, clk[5])
<1>1. /\ in.from \in Text /\ in.to \in Text /\ in.vf \in Time
      /\ clk[1] \in Clock /\ clk[2] \in Clock /\ clk[3] \in Clock
      /\ clk[4] \in Clock /\ clk[5] \in Clock
      /\ clk[1] \in Time /\ clk[2] \in Time /\ clk[3] \in Time /\ clk[4] \in Time
  BY InputAssumption DEF EdgeInput
<1>2. CASE old \notin DOMAIN d.edges
  BY <1>2 DEF SupersedeEdge, Err, Replies
<1>3. CASE old \in DOMAIN d.edges
  <2>1. SupersedeEdge(d, old, in, clk)
          = IF ~f.ok THEN f ELSE IF ~t.ok THEN t ELSE IF ~c.ok THEN c
            ELSE IF ~n.ok THEN n ELSE Ok(h, n.id)
    BY <1>3 DEF SupersedeEdge
  <2>2. /\ f.ok \in BOOLEAN /\ Good(f.db) /\ (f.ok => f.id \in DOMAIN f.db.nodes)
        /\ Follows(d, f.db)
    BY <1>1, TextAssumption, UpsertNodeGood, UpsertNodeFollows
  <2> HIDE DEF f
  <2>3. /\ t.ok \in BOOLEAN /\ Good(t.db) /\ (t.ok => t.id \in DOMAIN t.db.nodes)
        /\ DOMAIN f.db.nodes \subseteq DOMAIN t.db.nodes
    <3>1. Good(f.db)
      BY <2>2
    <3> QED
      BY <1>1, <3>1, TextAssumption, UpsertNodeGood
  <2>4. Follows(f.db, t.db)
    BY <1>1, <2>2, TextAssumption, UpsertNodeFollows DEF Follows
  <2> HIDE DEF t
  <2>5. Follows(d, t.db)
    BY <2>2, <2>4 DEF Follows
  <2>6. /\ c.ok \in BOOLEAN /\ Good(c.db) /\ SameNodes(t.db, c.db)
        /\ c.ok => MayRevise(c.db, old, in.vf)
    BY <1>1, <2>3, InvalidateEdgeGood DEF MayRevise
  <2>7. Follows(t.db, c.db)
    BY <1>1, <2>3, <2>5, InvalidateEdgeFollows DEF Follows
  <2> HIDE DEF c
  <2>8. Follows(d, c.db)
    BY <2>5, <2>7 DEF Follows
  <2>9. CASE ~f.ok \/ ~t.ok \/ ~c.ok
    BY <2>1, <2>2, <2>3, <2>5, <2>6, <2>8, <2>9 DEF Follows, Replies
  <2>10. CASE f.ok /\ t.ok /\ c.ok
    <3>1. f.id \in DOMAIN c.db.nodes /\ t.id \in DOMAIN c.db.nodes
      BY <2>2, <2>3, <2>6, <2>10 DEF SameNodes
    <3>2. n.ok \in BOOLEAN /\ Good(n.db)
      BY <1>1, <2>6, <2>10, <3>1, AddEdgeInternalGood
    <3>3. IF n.ok THEN g.supersedes = old /\ ObservesEdge(c.db, n.db, g)
          ELSE LeavesResidue(c.db, n.db)
      BY <1>1, <2>6, <2>10, <3>1, AddEdgeInternalEffect
    <3> HIDE DEF n
    <3>4. CASE ~n.ok
      BY <2>1, <2>8, <2>10, <3>2, <3>3, <3>4, ResidueAccounted DEF Follows, Replies
    <3>5. CASE n.ok
      <4>1. g \in Edge /\ g.supersedes = old /\ ObservesEdge(c.db, n.db, g)
        BY <3>3, <3>5 DEF ObservesEdge, StoresEdge
      <4> HIDE DEF g
      <4>2. v \in Event
        BY <4>1 DEF EdgeSuperseded, Event
      <4> HIDE DEF v
      <4>3. /\ Good(h) /\ Logs(n.db, h, clk[5], v)
            /\ SameStrings(n.db, h) /\ SameNodes(n.db, h) /\ SameEdges(n.db, h)
        BY <1>1, <3>2, <4>2, AppendLogs
      <4> HIDE DEF h
      <4>4. old # Zero
        BY <1>3 DEF Zero, Good, DbInv, EdgesResolve, IsDatabase
      <4>5. NotesRevision(n.db, h, g)
        BY <1>1, <4>1, <4>3 DEF NotesRevision, v
      <4>6. Effect(c.db, h)
        BY <3>2, <4>1, <4>4, <4>5 DEF Effect, AddsRevision
      <4>7. Follows(c.db, h)
        BY <2>6, <2>8, <4>3, <4>6, EffectFollows DEF Follows
      <4>8. SupersedeEdge(d, old, in, clk).db = h
        BY <2>1, <2>10, <3>5 DEF Ok
      <4> QED
        BY <2>8, <4>7, <4>8 DEF Follows, Replies
    <3> QED
      BY <3>4, <3>5
  <2> QED
    BY <2>9, <2>10
<1> QED
  BY <1>2, <1>3

-----------------------------------------------------------------------------
(* Nodes that serve *)

Given == {in.ext : in \in NodeInputs}

Serves(d) == NodesServe(d, Given)

\* Rows that are kept go on serving.
LEMMA ServesOn ==
  ASSUME NEW d, NEW e, Good(e), Serves(d), Keeps(d, e),
         \A n \in (DOMAIN e.nodes) \ (DOMAIN d.nodes) :
            \/ e.nodes[n].ext \in Given
            \/ \E i \in DOMAIN e.edges : n \in {e.edges[i].from, e.edges[i].to}
  PROVE  Serves(e)
<1> SUFFICES ASSUME NEW n \in DOMAIN d.nodes
             PROVE  \/ e.nodes[n].ext \in Given
                    \/ \E i \in DOMAIN e.edges : n \in {e.edges[i].from, e.edges[i].to}
  BY DEF Serves, NodesServe
<1>1. e.nodes[n] = d.nodes[n]
  BY DEF Keeps, Kept
<1>2. CASE d.nodes[n].ext \in Given
  BY <1>1, <1>2
<1>3. CASE \E i \in DOMAIN d.edges : n \in {d.edges[i].from, d.edges[i].to}
  <2>1. PICK i \in DOMAIN d.edges : n \in {d.edges[i].from, d.edges[i].to}
    BY <1>3
  <2>2. i \in DOMAIN e.edges /\ [e.edges[i] EXCEPT !.vt = d.edges[i].vt] = d.edges[i]
    BY DEF Keeps
  <2>3. e.edges[i] \in Edge
    BY <2>2 DEF Good, IsDatabase, IsTable
  <2>4. e.edges[i].from = d.edges[i].from /\ e.edges[i].to = d.edges[i].to
    BY <2>2, <2>3 DEF Edge
  <2> QED
    BY <2>1, <2>2, <2>4
<1> QED
  BY <1>2, <1>3 DEF Serves, NodesServe

LEMMA AddEdgeServes ==
  ASSUME NEW d, NEW in \in EdgeInput, NEW clk \in [1..3 -> Clock], Good(d), Serves(d),
         AddEdge(d, in, clk).ok
  PROVE  Serves(AddEdge(d, in, clk).db)
<1> DEFINE f == UpsertNode(d, in.from, Empty, clk[1])
           t == UpsertNode(f.db, in.to, Empty, clk[2])
           n == AddEdgeInternal(t.db, f.id, t.id, in, Zero, clk[3])
           r == AddEdge(d, in, clk)
<1>1. /\ in.from \in Text /\ in.to \in Text
      /\ clk[1] \in Clock /\ clk[2] \in Clock /\ clk[3] \in Clock
      /\ clk[1] \in Time /\ clk[2] \in Time /\ clk[3] \in Time
      /\ clk \in [1..3 -> Time]
  BY InputAssumption DEF EdgeInput
<1>2. Keeps(d, r.db) /\ Good(r.db)
  BY <1>1, AddEdgeKeeps, AddEdgeGood
<1>3. r = n /\ f.ok /\ t.ok
  <2>1. ~(in.type = Empty \/ (in.from = in.to /\ in.from = Empty))
    BY DEF AddEdge, Err
  <2>2. r = IF ~f.ok THEN f ELSE IF ~t.ok THEN t ELSE n
    BY <2>1 DEF AddEdge
  <2> HIDE DEF f, t, n, r
  <2>3. r.ok
    BY DEF r
  <2> QED
    BY <2>2, <2>3
<1>4. /\ Good(f.db) /\ f.id \in DOMAIN f.db.nodes
      /\ DOMAIN f.db.nodes \subseteq DOMAIN d.nodes \cup {f.id}
  BY <1>1, <1>3, TextAssumption, UpsertNodeGood, UpsertNodeEffect
<1> HIDE DEF f
<1>5. /\ Good(t.db) /\ t.id \in DOMAIN t.db.nodes /\ DOMAIN f.db.nodes \subseteq DOMAIN t.db.nodes
      /\ DOMAIN t.db.nodes \subseteq DOMAIN f.db.nodes \cup {t.id}
  BY <1>1, <1>3, <1>4, TextAssumption, UpsertNodeGood, UpsertNodeEffect
<1> HIDE DEF t
<1>6. /\ n.id \in DOMAIN n.db.edges
      /\ n.db.edges[n.id].from = f.id /\ n.db.edges[n.id].to = t.id
      /\ SameNodes(t.db, n.db)
  <2>1. f.id \in DOMAIN t.db.nodes /\ Zero \in Nat /\ MayRevise(t.db, Zero, in.vf)
    BY <1>4, <1>5 DEF Zero, MayRevise
  <2>2. n.ok
    BY <1>3
  <2> QED
    BY <1>1, <1>5, <2>1, <2>2, AddEdgeInternalEffect DEF ObservesEdge, StoresEdge
<1> HIDE DEF n, r
<1>7. DOMAIN r.db.nodes \subseteq DOMAIN d.nodes \cup {f.id, t.id}
  BY <1>3, <1>4, <1>5, <1>6 DEF SameNodes
<1>8. Serves(r.db)
  BY <1>2, <1>3, <1>6, <1>7, ServesOn
<1> QED
  BY <1>8 DEF r

LEMMA SupersedeEdgeServes ==
  ASSUME NEW d, NEW old \in Nat, NEW in \in EdgeInput,
         NEW clk \in [1..5 -> Clock], Good(d), Serves(d), SupersedeEdge(d, old, in, clk).ok
  PROVE  Serves(SupersedeEdge(d, old, in, clk).db)
<1> DEFINE f == UpsertNode(d, in.from, Empty, clk[1])
           t == UpsertNode(f.db, in.to, Empty, clk[2])
           c == InvalidateEdge(t.db, old, in.vf, clk[3])
           n == AddEdgeInternal(c.db, f.id, t.id, in, old, clk[4])
           h == AppendEvent(n.db, EdgeSuperseded(old, n.db.edges[n.id]), clk[5])
           r == SupersedeEdge(d, old, in, clk)
<1>1. /\ in.from \in Text /\ in.to \in Text /\ in.vf \in Time
      /\ clk[1] \in Clock /\ clk[2] \in Clock /\ clk[3] \in Clock
      /\ clk[4] \in Clock /\ clk[5] \in Clock
      /\ clk[1] \in Time /\ clk[2] \in Time /\ clk[3] \in Time /\ clk[4] \in Time
      /\ clk[5] \in Time /\ clk \in [1..5 -> Time]
  BY InputAssumption DEF EdgeInput
<1>2. Keeps(d, r.db) /\ Good(r.db)
  BY <1>1, SupersedeEdgeKeeps, SupersedeEdgeGood
<1>3. r = Ok(h, n.id) /\ f.ok /\ t.ok /\ c.ok /\ n.ok
  <2>1. old \in DOMAIN d.edges
    BY DEF SupersedeEdge, Err
  <2>2. r = IF ~f.ok THEN f ELSE IF ~t.ok THEN t ELSE IF ~c.ok THEN c
            ELSE IF ~n.ok THEN n ELSE Ok(h, n.id)
    BY <2>1 DEF SupersedeEdge
  <2> HIDE DEF f, t, c, n, h, r
  <2>3. r.ok
    BY DEF r
  <2> QED
    BY <2>2, <2>3
<1>4. /\ Good(f.db) /\ f.id \in DOMAIN f.db.nodes
      /\ DOMAIN f.db.nodes \subseteq DOMAIN d.nodes \cup {f.id}
  BY <1>1, <1>3, TextAssumption, UpsertNodeGood, UpsertNodeEffect
<1> HIDE DEF f
<1>5. /\ Good(t.db) /\ t.id \in DOMAIN t.db.nodes /\ DOMAIN f.db.nodes \subseteq DOMAIN t.db.nodes
      /\ DOMAIN t.db.nodes \subseteq DOMAIN f.db.nodes \cup {t.id}
  <2>1. t.ok
    BY <1>3
  <2>2. Good(t.db) /\ t.id \in DOMAIN t.db.nodes /\ DOMAIN f.db.nodes \subseteq DOMAIN t.db.nodes
    BY <1>1, <1>4, <2>1, TextAssumption, UpsertNodeGood
  <2>3. DOMAIN t.db.nodes \subseteq DOMAIN f.db.nodes \cup {t.id}
    BY <1>1, <1>4, <2>1, TextAssumption, UpsertNodeEffect
  <2> QED
    BY <2>2, <2>3
<1> HIDE DEF t
<1>6. Good(c.db) /\ SameNodes(t.db, c.db) /\ MayRevise(c.db, old, in.vf)
  BY <1>1, <1>3, <1>5, InvalidateEdgeGood DEF MayRevise
<1> HIDE DEF c
<1>7. /\ n.id \in DOMAIN n.db.edges
      /\ n.db.edges[n.id].from = f.id /\ n.db.edges[n.id].to = t.id
      /\ SameNodes(c.db, n.db)
  <2>1. f.id \in DOMAIN c.db.nodes /\ t.id \in DOMAIN c.db.nodes
    BY <1>4, <1>5, <1>6 DEF SameNodes
  <2> QED
    BY <1>1, <1>3, <1>6, <2>1, AddEdgeInternalEffect DEF ObservesEdge, StoresEdge
<1>8. h.nodes = n.db.nodes /\ h.edges = n.db.edges
  <2>1. f.id \in DOMAIN c.db.nodes /\ t.id \in DOMAIN c.db.nodes
    BY <1>4, <1>5, <1>6 DEF SameNodes
  <2>2. Good(n.db)
    BY <1>1, <1>6, <2>1, AddEdgeInternalGood
  <2> HIDE DEF n
  <2> QED
    BY <2>2 DEF AppendEvent, Good, IsDatabase, HasTables
<1> HIDE DEF n, h, r
<1>9. r.db = h
  BY <1>3 DEF Ok
<1>10. DOMAIN r.db.nodes \subseteq DOMAIN d.nodes \cup {f.id, t.id}
  BY <1>4, <1>5, <1>6, <1>7, <1>8, <1>9 DEF SameNodes
<1>11. Serves(r.db)
  BY <1>2, <1>7, <1>8, <1>9, <1>10, ServesOn
<1> QED
  BY <1>11 DEF r

-----------------------------------------------------------------------------
(* Chains of revisions *)

IsWalk(w, d, n) ==
  w = [j \in 0..n |-> IF j \notin DOMAIN d.edges THEN <<>>
                      ELSE <<j>> \o w[d.edges[j].supersedes]]

LEMMA RevisionChainIs ==
  ASSUME NEW d, NEW i
  PROVE  RevisionChain(d, i) = (CHOOSE w : IsWalk(w, d, i))[i]
  BY DEF RevisionChain, IsWalk

\* A revision points to an older edge, or to none.
LEMMA SupersedesOlder ==
  ASSUME NEW d, Good(d), NEW j \in DOMAIN d.edges
  PROVE  j \in Nat /\ j # 0 /\ d.edges[j].supersedes \in 0..(j - 1)
<1>1. j \in 1..d.edgeCtr /\ d.edgeCtr \in Nat /\ d.edges[j] \in Edge
  BY DEF Good, DbInv, EdgesResolve, IsDatabase, IsTable
<1>2. d.edges[j].supersedes \in Nat
  BY <1>1 DEF Edge
<1>3. d.edges[j].supersedes # Zero => d.edges[j].supersedes < j
  BY DEF Good, DbInv, RevisionsOrdered
<1> QED
  BY <1>1, <1>2, <1>3 DEF Zero

LEMMA WalkExists ==
  ASSUME NEW d, Good(d)
  PROVE  \A n \in Nat : \E w : IsWalk(w, d, n)
<1> DEFINE S == {n \in Nat : \E w : IsWalk(w, d, n)}
           Older(j) == d.edges[j].supersedes
<1>1. 0 \in S
  <2>1. 0 \notin DOMAIN d.edges
    BY SupersedesOlder
  <2>2. IsWalk([j \in 0..0 |-> <<>>], d, 0)
    BY <2>1 DEF IsWalk
  <2> QED
    BY <2>2
<1>2. ASSUME NEW n \in Nat, n \in S PROVE n + 1 \in S
  <2>1. PICK w : IsWalk(w, d, n)
    BY <1>2
  <2> DEFINE last == IF n + 1 \notin DOMAIN d.edges THEN <<>> ELSE <<n + 1>> \o w[Older(n + 1)]
             g == [j \in 0..(n + 1) |-> IF j = n + 1 THEN last ELSE w[j]]
  <2>2. \A j \in 0..n : w[j] = IF j \notin DOMAIN d.edges THEN <<>> ELSE <<j>> \o w[Older(j)]
    BY <2>1 DEF IsWalk
  <2>3. /\ \A j \in 0..n : g[j] = w[j]
        /\ g[n + 1] = last
        /\ g = [j \in 0..(n + 1) |-> g[j]]
    OBVIOUS
  <2>4. ASSUME NEW j \in 0..(n + 1)
        PROVE  g[j] = IF j \notin DOMAIN d.edges THEN <<>> ELSE <<j>> \o g[Older(j)]
    <3> HIDE DEF g
    <3>1. j \in DOMAIN d.edges => Older(j) \in 0..n
      BY SupersedesOlder
    <3>2. j \in DOMAIN d.edges => g[Older(j)] = w[Older(j)]
      BY <2>3, <3>1
    <3>3. CASE j = n + 1
      BY <2>3, <3>2, <3>3
    <3>4. CASE j # n + 1
      <4>1. j \in 0..n
        BY <3>4
      <4> QED
        BY <2>2, <2>3, <3>2, <4>1
    <3> QED
      BY <3>3, <3>4
  <2> HIDE DEF g
  <2>5. IsWalk(g, d, n + 1)
    BY <2>3, <2>4 DEF IsWalk
  <2> QED
    BY <2>5
<1> HIDE DEF S
<1>3. Nat \subseteq S
  BY <1>1, <1>2, NatSet
<1> QED
  BY <1>3 DEF S

\* q holds edges of which each ends by the time those before it start.
Descends(d, q, j) ==
  /\ q \in Seq(DOMAIN d.edges)
  /\ q # <<>> => q[1] = j
  /\ \A m, n \in DOMAIN q : m < n => /\ d.edges[q[n]].vt # NoTs
                                     /\ d.edges[q[n]].vt <= d.edges[q[m]].vf

LEMMA ConsFacts ==
  ASSUME NEW S, NEW q \in Seq(S), NEW e \in S
  PROVE  LET t == <<e>> \o q
         IN /\ t \in Seq(S) /\ Len(t) = Len(q) + 1 /\ Len(q) \in Nat
            /\ t[1] = e
            /\ \A i \in 1..Len(q) : t[i + 1] = q[i]
<1>1. <<e>> \in Seq(S) /\ Len(<<e>>) = 1 /\ <<e>>[1] = e
  OBVIOUS
<1>2. Len(q) \in Nat
  BY LenProperties
<1> QED
  BY <1>1, <1>2, ConcatProperties

\* A revision put before the chain of what it revises.
LEMMA DescendsNext ==
  ASSUME NEW d, NEW j \in DOMAIN d.edges, NEW q, Good(d),
         Descends(d, q, d.edges[j].supersedes)
  PROVE  Descends(d, <<j>> \o q, j)
<1> DEFINE t == <<j>> \o q
           o == d.edges[j].supersedes
           S == DOMAIN d.edges
<1>1. /\ t \in Seq(S) /\ Len(t) = Len(q) + 1 /\ Len(q) \in Nat
      /\ t[1] = j
      /\ \A i \in 1..Len(q) : t[i + 1] = q[i]
  <2>1. q \in Seq(S) /\ j \in S
    BY DEF Descends
  <2> HIDE DEF S
  <2> QED
    BY <2>1, ConsFacts
<1>2. DOMAIN t = 1..(Len(q) + 1) /\ DOMAIN q = 1..Len(q)
  <2>1. q \in Seq(S)
    BY DEF Descends
  <2> HIDE DEF t, S
  <2> QED
    BY <1>1, <2>1, LenProperties
<1>3. \A i \in S : /\ d.edges[i].vf \in Int
                   /\ d.edges[i].vt # NoTs => d.edges[i].vt \in Int
                   /\ d.edges[i].vt # NoTs => d.edges[i].vf <= d.edges[i].vt
  <2> SUFFICES ASSUME NEW i \in S
               PROVE  /\ d.edges[i].vf \in Int
                      /\ d.edges[i].vt # NoTs => d.edges[i].vt \in Int
                      /\ d.edges[i].vt # NoTs => d.edges[i].vf <= d.edges[i].vt
    OBVIOUS
  <2>1. d.edges[i] \in Edge
    BY DEF Good, IsDatabase, IsTable
  <2>2. d.edges[i].vf \in Time /\ d.edges[i].vt \in Time \cup {NoTs}
    BY <2>1 DEF Edge
  <2>3. d.edges[i].vt # NoTs => d.edges[i].vf <= d.edges[i].vt
    BY DEF Good, DbInv, EdgesResolve
  <2> QED
    BY <2>2, <2>3, TimeAssumption
<1>4. \A i \in DOMAIN q : q[i] \in S
  <2>1. q \in Seq(S)
    BY DEF Descends
  <2> HIDE DEF S
  <2> QED
    BY <1>2, <2>1, ElementOfSeq
<1>5. ASSUME NEW i \in DOMAIN q
      PROVE  d.edges[q[i]].vt # NoTs /\ d.edges[q[i]].vt <= d.edges[j].vf
  <2>1. 1 \in DOMAIN q /\ q # <<>>
    BY <1>1, <1>2
  <2>2. q[1] = o /\ o \in S
    BY <1>4, <2>1 DEF Descends
  <2>3. d.edges[o].vt # NoTs /\ d.edges[o].vt <= d.edges[j].vf
    <3>1. o # Zero
      BY <2>2, SupersedesOlder DEF Zero
    <3> QED
      BY <3>1 DEF Good, DbInv, RevisionsOrdered
  <2>4. CASE i = 1
    <3>1. q[i] = o
      BY <2>2, <2>4
    <3> HIDE DEF o
    <3> QED
      BY <2>3, <3>1
  <2>5. CASE i # 1
    <3>1. 1 < i
      BY <1>1, <1>2, <2>5
    <3>2. d.edges[q[i]].vt # NoTs /\ d.edges[q[i]].vt <= d.edges[o].vf
      BY <2>1, <2>2, <3>1 DEF Descends
    <3>3. q[i] \in S /\ j \in S
      BY <1>4
    <3> HIDE DEF S, o
    <3> QED
      BY <1>3, <2>2, <2>3, <3>2, <3>3
  <2> QED
    BY <2>4, <2>5
<1>6. ASSUME NEW m \in DOMAIN t, NEW n \in DOMAIN t, m < n
      PROVE  d.edges[t[n]].vt # NoTs /\ d.edges[t[n]].vt <= d.edges[t[m]].vf
  <2> DEFINE k == n - 1
  <2>1. k \in DOMAIN q /\ n = k + 1 /\ k \in 1..Len(q)
    BY <1>1, <1>2, <1>6
  <2>2. t[n] = q[k]
    BY <1>1, <2>1
  <2>3. CASE m = 1
    BY <1>1, <1>5, <2>1, <2>2, <2>3
  <2>4. CASE m # 1
    <3> DEFINE i == m - 1
    <3>1. i \in DOMAIN q /\ m = i + 1 /\ i \in 1..Len(q) /\ i < k
      BY <1>1, <1>2, <1>6, <2>4
    <3>2. t[m] = q[i]
      BY <1>1, <3>1
    <3> HIDE DEF i, k, t
    <3> QED
      BY <2>1, <2>2, <3>1, <3>2 DEF Descends
  <2> QED
    BY <2>3, <2>4
<1> QED
  BY <1>1, <1>6 DEF Descends

LEMMA ChainDescends ==
  ASSUME NEW d, Good(d), NEW i \in Nat
  PROVE  Descends(d, RevisionChain(d, i), i)
<1> DEFINE w == CHOOSE x : IsWalk(x, d, i)
           S == {n \in Nat : \A j \in 0..n : j <= i => Descends(d, w[j], j)}
<1>1. IsWalk(w, d, i) /\ RevisionChain(d, i) = w[i]
  BY WalkExists, RevisionChainIs
<1> HIDE DEF w
<1>2. \A j \in 0..i : w[j] = IF j \notin DOMAIN d.edges THEN <<>>
                             ELSE <<j>> \o w[d.edges[j].supersedes]
  BY <1>1 DEF IsWalk
<1>3. \A j : Descends(d, <<>>, j)
  BY DEF Descends
<1>4. 0 \in S
  <2>1. 0 \notin DOMAIN d.edges
    BY SupersedesOlder
  <2>2. w[0] = <<>>
    <3>1. 0 \in 0..i
      OBVIOUS
    <3> QED
      BY <1>2, <2>1, <3>1
  <2> QED
    BY <1>3, <2>2
<1>5. ASSUME NEW n \in Nat, n \in S PROVE n + 1 \in S
  <2> SUFFICES ASSUME n + 1 <= i PROVE Descends(d, w[n + 1], n + 1)
    BY <1>5
  <2> DEFINE j == n + 1
  <2>1. j \in 0..i
    OBVIOUS
  <2>2. CASE j \notin DOMAIN d.edges
    BY <1>2, <1>3, <2>1, <2>2
  <2>3. CASE j \in DOMAIN d.edges
    <3>1. d.edges[j].supersedes \in 0..n /\ d.edges[j].supersedes <= i
      BY <2>3, SupersedesOlder
    <3>2. Descends(d, w[d.edges[j].supersedes], d.edges[j].supersedes)
      BY <1>5, <3>1
    <3>3. w[j] = <<j>> \o w[d.edges[j].supersedes]
      BY <1>2, <2>1, <2>3
    <3> HIDE DEF j
    <3>4. Descends(d, w[j], j)
      BY <2>3, <3>2, <3>3, DescendsNext
    <3> QED
      BY <3>4 DEF j
  <2> QED
    BY <2>2, <2>3
<1> HIDE DEF S
<1>6. i \in S
  BY <1>4, <1>5, NatSet
<1> QED
  BY <1>1, <1>6 DEF S

LEMMA GoodExclusive ==
  ASSUME NEW d, Good(d)
  PROVE  OneLiveRevision(d)
<1> SUFFICES ASSUME NEW i \in DOMAIN d.edges, NEW t \in Time
             PROVE  LET chain == RevisionChain(d, i)
                    IN \A m, n \in DOMAIN chain :
                         LiveAt(d.edges[chain[m]], t) /\ LiveAt(d.edges[chain[n]], t) => m = n
  BY DEF OneLiveRevision
<1> DEFINE q == RevisionChain(d, i)
<1>1. Descends(d, q, i)
  BY SupersedesOlder, ChainDescends
<1> HIDE DEF q
<1>2. DOMAIN q = 1..Len(q) /\ Len(q) \in Nat /\ \A m \in DOMAIN q : q[m] \in DOMAIN d.edges
  <2>1. q \in Seq(DOMAIN d.edges)
    BY <1>1 DEF Descends
  <2> QED
    BY <2>1, LenProperties, ElementOfSeq
<1>3. ASSUME NEW m \in DOMAIN q, NEW n \in DOMAIN q, m < n,
             LiveAt(d.edges[q[m]], t), LiveAt(d.edges[q[n]], t)
      PROVE  FALSE
  <2> DEFINE a == d.edges[q[m]]
             b == d.edges[q[n]]
  <2>1. a \in Edge /\ b \in Edge
    BY <1>2 DEF Good, IsDatabase, IsTable
  <2>2. b.vt # NoTs /\ b.vt <= a.vf
    BY <1>1, <1>3 DEF Descends
  <2>3. a.vf <= t /\ t < b.vt
    BY <1>3, <2>2 DEF LiveAt
  <2> HIDE DEF a, b
  <2>4. a.vf \in Int /\ b.vt \in Int /\ t \in Int
    BY <2>1, <2>2, TimeAssumption DEF Edge
  <2> QED
    BY <2>2, <2>3, <2>4
<1>4. \A m, n \in DOMAIN q :
        LiveAt(d.edges[q[m]], t) /\ LiveAt(d.edges[q[n]], t) => m = n
  <2> SUFFICES ASSUME NEW m \in DOMAIN q, NEW n \in DOMAIN q, m # n,
                      LiveAt(d.edges[q[m]], t), LiveAt(d.edges[q[n]], t)
               PROVE  FALSE
    OBVIOUS
  <2>1. m < n \/ n < m
    BY <1>2
  <2> QED
    BY <1>3, <2>1
<1> QED
  BY <1>4 DEF q

-----------------------------------------------------------------------------
(* The theorems *)

\* What the log accounts for, with or without failed calls.
LogInv == IndInv /\ Accounted(committed) /\ Accounted(txn)

\* Where errors end the transaction, what is committed has seen none.
CleanInv == Rebuilt(committed) /\ (phase = "open" => Rebuilt(txn))

LEMMA EmptyDbAccounted == Accounted(EmptyDb) /\ Rebuilt(EmptyDb)
<1> DEFINE d == EmptyDb
<1>1. /\ DOMAIN d.events = {} /\ DOMAIN d.nodes = {} /\ DOMAIN d.edges = {}
      /\ DOMAIN d.strRev = {} /\ d.superIdx = {}
      /\ d.edges = NoRows /\ d.edgeCtr = 0 /\ d.eventCtr = 0
  BY DEF EmptyDb, NoRows
<1> HIDE DEF d
<1>2. \A kind : Of(d, kind) = {}
  BY <1>1 DEF Of
<1>3. EndedEarly(d) = {}
  BY <1>1 DEF EndedEarly
<1>4. Explained(d)
  BY <1>1, <1>2 DEF Explained, EndsDiffer, LogExplainsValidity
<1>5. Counted(d) /\ RevisionsCounted(d)
  <2>1. IsFiniteSet({}) /\ Cardinality({}) = 0 /\ 0 <= 0
    BY FS_EmptySet
  <2> QED
    BY <1>1, <1>2, <1>3, <2>1 DEF Counted, RevisionsCounted
<1>6. NoResidue(d)
  <2>1. Named(d) = {}
    BY <1>1 DEF Named
  <2> QED
    BY <1>1, <2>1, ResidueFreeIs
<1>7. ASSUME NEW kinds PROVE ReplayEdges(d, kinds) = d.edges
  <2> DEFINE f == CHOOSE x : IsReplay(x, d, kinds, 0)
  <2>1. IsReplay(f, d, kinds, 0)
    BY ReplayExists
  <2>2. ReplayEdges(d, kinds) = f[0]
    BY <1>1, ReplayIsFold
  <2> HIDE DEF f
  <2>3. f[0] = NoRows
    BY <2>1 DEF IsReplay
  <2> QED
    BY <1>1, <2>2, <2>3
<1>8. Doubled(d)
  <2>1. Cardinality({}) = 0
    BY FS_EmptySet
  <2>2. ReplayEdges(d, EdgeEvents) = d.edges
    BY <1>7
  <2> QED
    BY <1>1, <2>1, <2>2 DEF Doubled, Numbered
<1> QED
  BY <1>4, <1>5, <1>6, <1>7, <1>8 DEF Accounted, Rebuilt, d

LEMMA InitLog == Init => LogInv /\ CleanInv
  BY InitIndInv, EmptyDbAccounted DEF Init, LogInv, CleanInv

\* A call has returned r.
LEMMA ReturnsAccounted ==
  ASSUME NEW r, LogInv, Replies(txn, r), Returns(r)
  PROVE  /\ Accounted(committed') /\ Accounted(txn')
         /\ "tolerate" \notin ErrorPolicy /\ CleanInv => CleanInv'
<1>1. txn' = r.db /\ phase = "open" /\ UNCHANGED committed
  BY DEF Returns
<1>2. "tolerate" \notin ErrorPolicy /\ phase' = "open" => r.ok
  BY DEF Returns
<1> QED
  BY <1>1, <1>2 DEF LogInv, Replies, CleanInv

LEMMA FollowsReplies ==
  ASSUME NEW d, NEW r, Follows(d, r.db)
  PROVE  Replies(d, r)
  BY DEF Follows, Replies

LEMMA NextAccounted ==
  ASSUME LogInv, [Next]_vars
  PROVE  /\ Accounted(committed') /\ Accounted(txn')
         /\ "tolerate" \notin ErrorPolicy /\ CleanInv => CleanInv'
<1> USE InputAssumption, TextAssumption
<1>1. Good(txn) /\ Accounted(txn) /\ Accounted(committed)
  BY DEF LogInv, IndInv
<1>2. CASE BeginWrite
  BY <1>1, <1>2 DEF BeginWrite, CleanInv
<1>3. CASE CallUpsertNode
  <2>1. PICK in \in NodeInputs, now \in Clock :
          Returns(UpsertNode(txn, in.ext, in.type, now))
    BY <1>3 DEF CallUpsertNode
  <2> DEFINE r == UpsertNode(txn, in.ext, in.type, now)
  <2>2. in.ext \in Text /\ in.type \in Text
    BY DEF NodeInput
  <2>3. Follows(txn, r.db)
    BY <1>1, <2>2, UpsertNodeFollows
  <2> HIDE DEF r
  <2>4. Replies(txn, r)
    BY <2>3, FollowsReplies
  <2> QED
    BY <2>1, <2>4, ReturnsAccounted DEF r
<1>4. CASE CallAddEdge
  <2>1. PICK in \in EdgeInputs, clk \in Readings(3) : Returns(AddEdge(txn, in, clk))
    BY <1>4 DEF CallAddEdge
  <2> DEFINE r == AddEdge(txn, in, clk)
  <2>2. in \in EdgeInput /\ clk \in [1..3 -> Clock]
    BY DEF Readings
  <2>3. Replies(txn, r)
    BY <1>1, <2>2, AddEdgeReplies
  <2> HIDE DEF r
  <2> QED
    BY <2>1, <2>3, ReturnsAccounted DEF r
<1>5. CASE CallInvalidateEdge
  <2>1. PICK id \in 1..(txn.edgeCtr + 1), at \in Time, now \in Clock :
          Returns(InvalidateEdge(txn, id, at, now))
    BY <1>5 DEF CallInvalidateEdge
  <2> DEFINE r == InvalidateEdge(txn, id, at, now)
  <2>2. Follows(txn, r.db)
    BY <1>1, InvalidateEdgeFollows
  <2> HIDE DEF r
  <2>3. Replies(txn, r)
    BY <2>2, FollowsReplies
  <2> QED
    BY <2>1, <2>3, ReturnsAccounted DEF r
<1>6. CASE CallSupersedeEdge
  <2>1. PICK old \in 1..(txn.edgeCtr + 1), in \in EdgeInputs, clk \in Readings(5) :
          Returns(SupersedeEdge(txn, old, in, clk))
    BY <1>6 DEF CallSupersedeEdge
  <2> DEFINE r == SupersedeEdge(txn, old, in, clk)
  <2>2. in \in EdgeInput /\ clk \in [1..5 -> Clock]
    BY DEF Readings
  <2>3. old \in Nat
    BY <1>1 DEF Good, IsDatabase
  <2>4. Replies(txn, r)
    BY <1>1, <2>2, <2>3, SupersedeEdgeReplies
  <2> HIDE DEF r
  <2> QED
    BY <2>1, <2>4, ReturnsAccounted DEF r
<1>7. CASE Commit
  BY <1>1, <1>7 DEF Commit, CleanInv
<1>8. CASE Rollback
  BY <1>1, <1>8 DEF Rollback, CleanInv
<1>9. CASE UNCHANGED vars
  BY <1>1, <1>9 DEF vars, CleanInv
<1> QED
  BY <1>2, <1>3, <1>4, <1>5, <1>6, <1>7, <1>8, <1>9 DEF Next, Call

\* No call that failed is in what may still be committed.
ServeInv == Serves(committed) /\ (phase = "open" => Serves(txn))

LEMMA InitServes == Init => ServeInv
  BY DEF Init, ServeInv, Serves, NodesServe, EmptyDb, NoRows

\* A call has returned r.
LEMMA ReturnsServe ==
  ASSUME NEW r, ServeInv, Returns(r), "tolerate" \notin ErrorPolicy,
         Serves(txn) /\ r.ok => Serves(r.db)
  PROVE  ServeInv'
<1>1. txn' = r.db /\ phase = "open" /\ UNCHANGED committed
  BY DEF Returns
<1>2. phase' = "open" => r.ok
  BY DEF Returns
<1> QED
  BY <1>1, <1>2 DEF ServeInv, Serves

LEMMA NextServes ==
  ASSUME LogInv, ServeInv, [Next]_vars, "tolerate" \notin ErrorPolicy
  PROVE  ServeInv'
<1> USE InputAssumption, TextAssumption
<1>1. Good(txn)
  BY DEF LogInv, IndInv
<1>2. CASE BeginWrite
  BY <1>2 DEF BeginWrite, ServeInv, Serves
<1>3. CASE CallUpsertNode
  <2>1. PICK in \in NodeInputs, now \in Clock :
          Returns(UpsertNode(txn, in.ext, in.type, now))
    BY <1>3 DEF CallUpsertNode
  <2> DEFINE r == UpsertNode(txn, in.ext, in.type, now)
  <2>2. in.ext \in Text /\ in.type \in Text /\ now \in Time /\ in.ext \in Given
    BY DEF NodeInput, Given
  <2>3. Good(r.db) /\ Keeps(txn, r.db)
    BY <1>1, <2>2, UpsertNodeGood, UpsertNodeKeeps
  <2>4. r.ok => /\ DOMAIN r.db.nodes \subseteq DOMAIN txn.nodes \cup {r.id}
                /\ r.db.nodes[r.id].ext = in.ext
    BY <1>1, <2>2, UpsertNodeEffect
  <2> HIDE DEF r
  <2>5. Serves(txn) /\ r.ok => Serves(r.db)
    BY <2>2, <2>3, <2>4, ServesOn
  <2> QED
    BY <2>1, <2>5, ReturnsServe DEF r
<1>4. CASE CallAddEdge
  <2>1. PICK in \in EdgeInputs, clk \in Readings(3) : Returns(AddEdge(txn, in, clk))
    BY <1>4 DEF CallAddEdge
  <2>2. in \in EdgeInput /\ clk \in [1..3 -> Clock]
    BY DEF Readings
  <2>3. Serves(txn) /\ AddEdge(txn, in, clk).ok => Serves(AddEdge(txn, in, clk).db)
    BY <1>1, <2>2, AddEdgeServes
  <2> QED
    BY <2>1, <2>3, ReturnsServe
<1>5. CASE CallInvalidateEdge
  <2>1. PICK id \in 1..(txn.edgeCtr + 1), at \in Time, now \in Clock :
          Returns(InvalidateEdge(txn, id, at, now))
    BY <1>5 DEF CallInvalidateEdge
  <2> DEFINE r == InvalidateEdge(txn, id, at, now)
  <2>2. Good(r.db) /\ SameNodes(txn, r.db) /\ Keeps(txn, r.db)
    BY <1>1, InvalidateEdgeGood, InvalidateEdgeKeeps
  <2> HIDE DEF r
  <2>3. Serves(txn) /\ r.ok => Serves(r.db)
    BY <2>2, ServesOn DEF SameNodes
  <2> QED
    BY <2>1, <2>3, ReturnsServe DEF r
<1>6. CASE CallSupersedeEdge
  <2>1. PICK old \in 1..(txn.edgeCtr + 1), in \in EdgeInputs, clk \in Readings(5) :
          Returns(SupersedeEdge(txn, old, in, clk))
    BY <1>6 DEF CallSupersedeEdge
  <2>2. in \in EdgeInput /\ clk \in [1..5 -> Clock]
    BY DEF Readings
  <2>3. old \in Nat
    BY <1>1 DEF Good, IsDatabase
  <2>4. Serves(txn) /\ SupersedeEdge(txn, old, in, clk).ok
          => Serves(SupersedeEdge(txn, old, in, clk).db)
    BY <1>1, <2>2, <2>3, SupersedeEdgeServes
  <2> QED
    BY <2>1, <2>4, ReturnsServe
<1>7. CASE Commit
  BY <1>7 DEF Commit, ServeInv, Serves
<1>8. CASE Rollback
  BY <1>8 DEF Rollback, ServeInv, Serves
<1>9. CASE UNCHANGED vars
  BY <1>9 DEF vars, ServeInv, Serves
<1> QED
  BY <1>2, <1>3, <1>4, <1>5, <1>6, <1>7, <1>8, <1>9 DEF Next, Call

LEMMA SpecLogInv == Spec => []LogInv
<1>1. LogInv /\ [Next]_vars => LogInv'
  BY NextIndInv, NextAccounted DEF LogInv
<1> QED
  BY InitLog, <1>1, PTL DEF Spec

\* The event log tells the end of every edge: the end stored is the one logged
\* last, each earlier one was later, and an edge never closed is as observed
\* (invalidate_edge, append_event), also after calls that failed.
THEOREM LogExplains == Spec => []LogExplainsState
<1>1. LogInv => LogExplainsState
  BY DEF LogInv, Accounted, Explained, LogExplainsState
<1> QED
  BY <1>1, SpecLogInv, PTL

\* A diff over all clock readings agrees with the committed tables, and so do two
\* over the parts of such a range together (diff_between, events_between), also
\* after calls that failed and however the wall clock jumped.  An instant is one
\* of finitely many, since Ts is an i64.
THEOREM DiffsCorrect ==
  ASSUME IsFiniteSet(Time)
  PROVE  Spec => []DiffsAccount
<1>1. LogInv => DiffsAccount
  <2> SUFFICES ASSUME LogInv, NEW t1 \in Time, NEW t2 \in Time,
                      \A now \in Clock : t1 <= now /\ now <= t2
               PROVE  /\ DiffTellsTables(committed, DiffBetween(committed, t1, t2))
                      /\ \A t \in Time : t1 <= t /\ t < t2 =>
                           DiffTellsTables(committed,
                             Sum(DiffBetween(committed, t1, t),
                                 DiffBetween(committed, t + 1, t2)))
    BY DEF DiffsAccount
  <2> DEFINE d == committed
  <2>1. Good(d) /\ Explained(d) /\ Counted(d) /\ RevisionsCounted(d)
    BY DEF LogInv, IndInv, Accounted
  <2> HIDE DEF d
  <2>2. EventsBetween(d, t1, t2) = DOMAIN d.events
    BY <2>1 DEF EventsBetween, Explained
  <2>3. \A kind : CountOf(d, EventsBetween(d, t1, t2), kind) = Cardinality(Of(d, kind))
    BY <2>2 DEF CountOf, Of
  <2>4. DiffTellsTables(d, DiffBetween(d, t1, t2))
    <3> DEFINE s == DiffBetween(d, t1, t2)
    <3>1. /\ s.nodes_added = Cardinality(Of(d, "NodeAdded"))
          /\ s.edges_added = Cardinality(Of(d, "EdgeObserved"))
          /\ s.edges_invalidated = Cardinality(Of(d, "EdgeInvalidated"))
          /\ s.edges_superseded = Cardinality(Of(d, "EdgeSuperseded"))
      BY <2>3 DEF DiffBetween
    <3> HIDE DEF s
    <3> QED
      BY <2>1, <3>1, LogTellsTables DEF s
  <2>5. ASSUME NEW t \in Time, t1 <= t, t < t2
        PROVE  DiffTellsTables(d, Sum(DiffBetween(d, t1, t), DiffBetween(d, t + 1, t2)))
    <3> DEFINE P == EventsBetween(d, t1, t)
               Q == EventsBetween(d, t + 1, t2)
               s == Sum(DiffBetween(d, t1, t), DiffBetween(d, t + 1, t2))
    <3>1. \A kind : CountOf(d, P, kind) + CountOf(d, Q, kind) = Cardinality(Of(d, kind))
      BY <2>1, <2>3, <2>5, PartsCount DEF Counted
    <3>2. /\ s.nodes_added = CountOf(d, P, "NodeAdded") + CountOf(d, Q, "NodeAdded")
          /\ s.edges_added = CountOf(d, P, "EdgeObserved") + CountOf(d, Q, "EdgeObserved")
          /\ s.edges_invalidated
               = CountOf(d, P, "EdgeInvalidated") + CountOf(d, Q, "EdgeInvalidated")
          /\ s.edges_superseded
               = CountOf(d, P, "EdgeSuperseded") + CountOf(d, Q, "EdgeSuperseded")
      BY DEF Sum, DiffBetween
    <3> HIDE DEF P, Q, s
    <3>3. /\ s.nodes_added = Cardinality(Of(d, "NodeAdded"))
          /\ s.edges_added = Cardinality(Of(d, "EdgeObserved"))
          /\ s.edges_invalidated = Cardinality(Of(d, "EdgeInvalidated"))
          /\ s.edges_superseded = Cardinality(Of(d, "EdgeSuperseded"))
      BY <3>1, <3>2
    <3> QED
      BY <2>1, <3>3, LogTellsTables DEF s
  <2> QED
    BY <2>4, <2>5 DEF d
<1> QED
  BY <1>1, SpecLogInv, PTL

\* Where errors propagate out of Db::write, the committed tables hold nothing that
\* a failed call has left (Db::write, commit): no edge id and no string, and no node
\* but those that upsert_node was asked for and the ends of edges.
THEOREM CommitsClean ==
  ASSUME "tolerate" \notin ErrorPolicy
  PROVE  Spec => []CommitsHoldNoResidue
<1>1. LogInv /\ CleanInv /\ [Next]_vars => CleanInv'
  BY NextAccounted
<1>2. LogInv /\ ServeInv /\ [Next]_vars => ServeInv'
  BY NextServes
<1>3. CleanInv /\ ServeInv => CommitsHoldNoResidue
  BY DEF CleanInv, Rebuilt, ServeInv, Serves, Given, CommitsHoldNoResidue
<1> QED
  BY InitLog, InitServes, SpecLogInv, <1>1, <1>2, <1>3, PTL DEF Spec

\* Under the same condition the committed log rebuilds the committed edges table
\* if EdgeSuperseded is left out (append_event, supersede_edge); with its effect of
\* ARCHITECTURE.md 3.5 it does so exactly as long as nothing was superseded.
THEOREM ReplayCorrect ==
  ASSUME "tolerate" \notin ErrorPolicy
  PROVE  Spec => []LogRebuildsEdges
<1>1. LogInv /\ CleanInv /\ [Next]_vars => CleanInv'
  BY NextAccounted
<1>2. LogInv /\ CleanInv => LogRebuildsEdges
  <2> SUFFICES ASSUME LogInv, CleanInv PROVE LogRebuildsEdges
    OBVIOUS
  <2>1. Rebuilt(committed) /\ Accounted(committed)
    BY DEF LogInv, CleanInv
  <2>2. ReplayRebuildsEdges <=> committed.superIdx = {}
    BY <2>1, DoubledIs DEF Rebuilt, Accounted, ReplayRebuildsEdges
  <2>3. ReplayEdges(committed, EdgeEvents \ {"EdgeSuperseded"}) = committed.edges
    BY <2>1 DEF Rebuilt, Telling
  <2> QED
    BY <2>2, <2>3 DEF LogRebuildsEdges
<1> QED
  BY InitLog, SpecLogInv, <1>1, <1>2, PTL DEF Spec

\* However an edge and its revisions are invalidated later, at no time are two
\* edges of one chain live (supersede_edge, revision_chain).
THEOREM ChainsCorrect == Spec => []ChainsExclusive
<1>1. IndInv => ChainsExclusive
  BY GoodExclusive DEF IndInv, ChainsExclusive
<1> QED
  BY <1>1, SpecIndInv, PTL

=============================================================================
