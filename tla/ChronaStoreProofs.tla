-------------------------- MODULE ChronaStoreProofs --------------------------
(***************************************************************************)
(* The lemmas about a database value and the operations on it that the     *)
(* other proof modules share.  Every operation takes a consistent database *)
(* to a consistent one and keeps the rows it is given, whether it succeeds *)
(* or fails half way; what a reader sees of a row that is kept stays what  *)
(* it was, what it sees of a new one is what the caller said, and a range  *)
(* scan lists what a look at every edge would find.                        *)
(***************************************************************************)
EXTENDS ChronaRead, FiniteSetTheorems, SequenceTheorems, WellFoundedInduction, TLAPS

\* Well typed and consistent.
Good(d) == IsDatabase(d) /\ DbInv(d)

\* Groups of tables an operation leaves alone.
SameStrings(d, e) == /\ e.strFwd = d.strFwd /\ e.strRev = d.strRev
                     /\ e.strCtr = d.strCtr
SameNodes(d, e)   == /\ e.nodes = d.nodes /\ e.extIds = d.extIds
                     /\ e.nodeCtr = d.nodeCtr
SameEdges(d, e)   == /\ e.edges = d.edges /\ e.fwdAdj = d.fwdAdj
                     /\ e.revAdj = d.revAdj /\ e.temporal = d.temporal
                     /\ e.superIdx = d.superIdx /\ e.edgeCtr = d.edgeCtr
SameLog(d, e)     == /\ e.events = d.events /\ e.eventCtr = d.eventCtr

-----------------------------------------------------------------------------
(* Tables *)

\* Inserting a well-typed row into a table gives a table.
LEMMA InsertTable ==
  ASSUME NEW K, NEW V, NEW t, NEW k \in K, NEW v \in V, IsTable(t, K, V)
  PROVE  IsTable(Insert(t, k, v), K, V)
  BY DEF IsTable, Insert

-----------------------------------------------------------------------------
(* The interner *)

\* What intern returns and changes when the string is new.
LEMMA InternNew ==
  ASSUME NEW d, NEW s, IsDatabase(d), s \notin DOMAIN d.strFwd
  PROVE  LET r == Intern(d, s)
         IN /\ r.id = d.strCtr + 1
            /\ r.db.strCtr = r.id
            /\ r.db.strFwd = Insert(d.strFwd, s, r.id)
            /\ r.db.strRev = Insert(d.strRev, r.id, s)
            /\ HasTables(r.db)
            /\ SameNodes(d, r.db) /\ SameEdges(d, r.db) /\ SameLog(d, r.db)
  BY DEF Intern, Ok, IsDatabase, HasTables, SameNodes, SameEdges, SameLog

\* intern keeps the database well typed and the interner bijective, returns an
\* id that resolves, and touches only the interner.
LEMMA InternCorrect ==
  ASSUME NEW d, NEW s \in Text, IsDatabase(d), InternerBijective(d)
  PROVE  LET r == Intern(d, s)
         IN /\ r.ok
            /\ IsDatabase(r.db)
            /\ InternerBijective(r.db)
            /\ r.id \in DOMAIN r.db.strRev
            /\ r.id \in Nat
            /\ DOMAIN d.strRev \subseteq DOMAIN r.db.strRev
            /\ SameNodes(d, r.db) /\ SameEdges(d, r.db) /\ SameLog(d, r.db)
<1> DEFINE r == Intern(d, s)
<1>1. CASE s \in DOMAIN d.strFwd
  <2>1. r = Ok(d, d.strFwd[s])
    BY <1>1 DEF Intern
  <2>2. /\ d.strFwd[s] \in DOMAIN d.strRev
        /\ d.strFwd[s] \in Nat
    BY <1>1 DEF InternerBijective, IsDatabase, IsTable
  <2> QED
    BY <2>1, <2>2 DEF Ok, SameNodes, SameEdges, SameLog
<1>2. CASE s \notin DOMAIN d.strFwd
  <2>1. /\ r.id = d.strCtr + 1
        /\ r.db.strCtr = r.id
        /\ r.db.strFwd = Insert(d.strFwd, s, r.id)
        /\ r.db.strRev = Insert(d.strRev, r.id, s)
        /\ HasTables(r.db)
        /\ SameNodes(d, r.db) /\ SameEdges(d, r.db) /\ SameLog(d, r.db)
    BY <1>2, InternNew
  <2>2. r.ok
    BY <1>2 DEF Intern, Ok
  <2>3. d.strCtr \in Nat /\ r.id \in Nat
    BY <2>1 DEF IsDatabase
  <2>4. /\ IsTable(r.db.strFwd, Text, Nat)
        /\ IsTable(r.db.strRev, Nat, Text)
    BY <2>1, <2>3, InsertTable DEF IsDatabase
  <2>5. IsDatabase(r.db)
    BY <2>1, <2>3, <2>4 DEF IsDatabase, SameNodes, SameEdges, SameLog
  <2>6. InternerBijective(r.db)
    <3>1. DOMAIN d.strRev = 1..d.strCtr /\ r.id \notin DOMAIN d.strRev
      BY <2>1, <2>3 DEF InternerBijective
    <3>2. DOMAIN r.db.strRev = 1..r.db.strCtr
      BY <3>1, <2>1, <2>3 DEF Insert
    <3>3. ASSUME NEW x \in DOMAIN r.db.strFwd
          PROVE  /\ r.db.strFwd[x] \in DOMAIN r.db.strRev
                 /\ r.db.strRev[r.db.strFwd[x]] = x
      <4>1. CASE x = s
        BY <4>1, <2>1 DEF Insert
      <4>2. CASE x # s
        <5>1. x \in DOMAIN d.strFwd /\ r.db.strFwd[x] = d.strFwd[x]
          BY <4>2, <2>1 DEF Insert
        <5>2. d.strFwd[x] \in DOMAIN d.strRev /\ d.strRev[d.strFwd[x]] = x
          BY <5>1 DEF InternerBijective
        <5> QED
          BY <5>1, <5>2, <3>1, <2>1 DEF Insert
      <4> QED
        BY <4>1, <4>2
    <3>4. ASSUME NEW i \in DOMAIN r.db.strRev
          PROVE  /\ r.db.strRev[i] \in DOMAIN r.db.strFwd
                 /\ r.db.strFwd[r.db.strRev[i]] = i
      <4>1. CASE i = r.id
        BY <4>1, <2>1 DEF Insert
      <4>2. CASE i # r.id
        <5>1. i \in DOMAIN d.strRev /\ r.db.strRev[i] = d.strRev[i]
          BY <4>2, <2>1 DEF Insert
        <5>2. d.strRev[i] \in DOMAIN d.strFwd /\ d.strFwd[d.strRev[i]] = i
          BY <5>1 DEF InternerBijective
        <5> QED
          BY <5>1, <5>2, <1>2, <2>1 DEF Insert
      <4> QED
        BY <4>1, <4>2
    <3> QED
      BY <3>2, <3>3, <3>4 DEF InternerBijective
  <2> QED
    BY <2>1, <2>2, <2>3, <2>5, <2>6 DEF Insert
<1> QED
  BY <1>1, <1>2

\* The same for an optional string, whose id may be 0.
LEMMA InternOptionalCorrect ==
  ASSUME NEW d, NEW s \in Text, IsDatabase(d), InternerBijective(d)
  PROVE  LET r == InternOptional(d, s)
         IN /\ r.ok
            /\ IsDatabase(r.db)
            /\ InternerBijective(r.db)
            /\ Resolves(r.db, r.id)
            /\ r.id \in Nat
            /\ DOMAIN d.strRev \subseteq DOMAIN r.db.strRev
            /\ SameNodes(d, r.db) /\ SameEdges(d, r.db) /\ SameLog(d, r.db)
<1>1. CASE s = Empty
  BY <1>1 DEF InternOptional, Ok, Zero, Resolves, SameNodes, SameEdges, SameLog
<1>2. CASE s # Empty
  <2>1. InternOptional(d, s) = Intern(d, s)
    BY <1>2 DEF InternOptional
  <2> QED
    BY <2>1, InternCorrect DEF Resolves
<1> QED
  BY <1>1, <1>2

-----------------------------------------------------------------------------
(* The event log *)

\* append_event adds one event under a fresh id and touches nothing else.
LEMMA AppendEventCorrect ==
  ASSUME NEW d, NEW ev \in Event, NEW now \in Time, IsDatabase(d), LogNumbered(d)
  PROVE  LET e == AppendEvent(d, ev, now)
         IN /\ IsDatabase(e)
            /\ LogNumbered(e)
            /\ SameStrings(d, e) /\ SameNodes(d, e) /\ SameEdges(d, e)
<1> DEFINE e == AppendEvent(d, ev, now)
           id == d.eventCtr + 1
<1>1. d.eventCtr \in Nat /\ id \in Nat /\ id = d.eventCtr + 1
  BY DEF IsDatabase
<1>2. /\ e.eventCtr = id
      /\ e.events = Insert(d.events, <<now, id>>, ev)
      /\ HasTables(e)
      /\ SameStrings(d, e) /\ SameNodes(d, e) /\ SameEdges(d, e)
  BY DEF AppendEvent, IsDatabase, HasTables, SameStrings, SameNodes, SameEdges
<1> HIDE DEF e
<1>3. IsTable(e.events, Time \X Nat, Event)
  <2>1. <<now, id>> \in Time \X Nat
    BY <1>1
  <2>2. IsTable(d.events, Time \X Nat, Event)
    BY DEF IsDatabase
  <2> HIDE DEF id
  <2> QED
    BY <2>1, <2>2, <1>2, InsertTable
<1>4. IsDatabase(e)
  BY <1>1, <1>2, <1>3 DEF IsDatabase, SameStrings, SameNodes, SameEdges
<1>5. LogNumbered(e)
  <2>1. DOMAIN e.events = DOMAIN d.events \cup {<<now, id>>}
    BY <1>2 DEF Insert
  <2>2. \A k \in DOMAIN d.events : k[2] \in 1..d.eventCtr
    BY DEF LogNumbered
  <2>3. \A k \in DOMAIN e.events : k[2] \in 1..e.eventCtr
    BY <2>1, <2>2, <1>1, <1>2
  <2>4. ASSUME NEW i \in 1..e.eventCtr
        PROVE  \E k \in DOMAIN e.events : k[2] = i
    <3>1. CASE i = id
      <4>1. <<now, id>> \in DOMAIN e.events /\ <<now, id>>[2] = id
        BY <2>1
      <4> QED
        BY <3>1, <4>1
    <3>2. CASE i # id
      <4>1. i \in 1..d.eventCtr
        BY <3>2, <1>1, <1>2
      <4> QED
        BY <4>1, <2>1 DEF LogNumbered
    <3> QED
      BY <3>1, <3>2
  <2>5. \A k \in DOMAIN d.events : k[2] # id
    BY <2>2, <1>1
  <2>6. ASSUME NEW j \in DOMAIN e.events, NEW k \in DOMAIN e.events, j[2] = k[2]
        PROVE  j = k
    BY <2>1, <2>5, <2>6 DEF LogNumbered
  <2> QED
    BY <2>3, <2>4, <2>6 DEF LogNumbered
<1> QED
  BY <1>2, <1>4, <1>5 DEF e

-----------------------------------------------------------------------------
(* Nodes *)

\* Interning more strings takes no type or source away from anyone.
LEMMA MoreStrings ==
  ASSUME NEW d, NEW e, Good(d), IsDatabase(e), InternerBijective(e),
         DOMAIN d.strRev \subseteq DOMAIN e.strRev,
         SameNodes(d, e), SameEdges(d, e), SameLog(d, e)
  PROVE  Good(e)
<1>1. NodesNamed(e)
  BY DEF Good, DbInv, NodesNamed, SameNodes, Resolves
<1>2. EdgesResolve(e)
  BY DEF Good, DbInv, EdgesResolve, SameNodes, SameEdges, Resolves
<1>3. IndexesMirrorEdges(e)
  BY DEF Good, DbInv, IndexesMirrorEdges, SameEdges
<1>4. RevisionsOrdered(e)
  BY DEF Good, DbInv, RevisionsOrdered, SameEdges
<1>5. LogNumbered(e)
  BY DEF Good, DbInv, LogNumbered, SameLog
<1> QED
  BY <1>1, <1>2, <1>3, <1>4, <1>5 DEF Good, DbInv

\* Appending an event to a consistent database.
LEMMA AppendGood ==
  ASSUME NEW d, NEW ev \in Event, NEW now \in Time, Good(d)
  PROVE  LET e == AppendEvent(d, ev, now)
         IN /\ Good(e)
            /\ SameStrings(d, e) /\ SameNodes(d, e) /\ SameEdges(d, e)
<1> DEFINE e == AppendEvent(d, ev, now)
<1>1. /\ IsDatabase(e)
      /\ LogNumbered(e)
      /\ SameStrings(d, e) /\ SameNodes(d, e) /\ SameEdges(d, e)
  BY AppendEventCorrect DEF Good, DbInv
<1> HIDE DEF e
<1>2. InternerBijective(e)
  BY <1>1 DEF Good, DbInv, InternerBijective, SameStrings
<1>3. NodesNamed(e)
  BY <1>1 DEF Good, DbInv, NodesNamed, SameNodes, SameStrings, Resolves
<1>4. EdgesResolve(e)
  BY <1>1 DEF Good, DbInv, EdgesResolve, SameNodes, SameEdges, SameStrings, Resolves
<1>5. IndexesMirrorEdges(e)
  BY <1>1 DEF Good, DbInv, IndexesMirrorEdges, SameEdges
<1>6. RevisionsOrdered(e)
  BY <1>1 DEF Good, DbInv, RevisionsOrdered, SameEdges
<1> QED
  BY <1>1, <1>2, <1>3, <1>4, <1>5, <1>6 DEF Good, DbInv, e

\* Storing a new node under the next id.
LEMMA InsertNodeGood ==
  ASSUME NEW d, NEW n \in Node, Good(d),
         n.ext \notin DOMAIN d.extIds, Resolves(d, n.type)
  PROVE  LET id == d.nodeCtr + 1
             e  == InsertNode(d, id, n)
         IN /\ Good(e)
            /\ id \in Nat
            /\ DOMAIN e.nodes = DOMAIN d.nodes \cup {id}
            /\ DOMAIN e.extIds = DOMAIN d.extIds \cup {n.ext}
            /\ SameStrings(d, e) /\ SameEdges(d, e) /\ SameLog(d, e)
<1> DEFINE id == d.nodeCtr + 1
           e  == InsertNode(d, id, n)
<1>1. d.nodeCtr \in Nat /\ id \in Nat /\ id = d.nodeCtr + 1 /\ n.ext \in Text
  BY DEF Good, IsDatabase, Node
<1>2. /\ e.nodeCtr = id
      /\ e.nodes = Insert(d.nodes, id, n)
      /\ e.extIds = Insert(d.extIds, n.ext, id)
      /\ HasTables(e)
      /\ SameStrings(d, e) /\ SameEdges(d, e) /\ SameLog(d, e)
  BY DEF InsertNode, Good, IsDatabase, HasTables, SameStrings, SameEdges, SameLog
<1> HIDE DEF e
<1>3. /\ IsTable(e.nodes, Nat, Node)
      /\ IsTable(e.extIds, Text, Nat)
  BY <1>1, <1>2, InsertTable DEF Good, IsDatabase
<1>4. IsDatabase(e)
  BY <1>1, <1>2, <1>3 DEF Good, IsDatabase, SameStrings, SameEdges, SameLog
<1>5. DOMAIN d.nodes = 1..d.nodeCtr /\ id \notin DOMAIN d.nodes
  BY <1>1 DEF Good, DbInv, NodesNamed
<1>6. /\ DOMAIN e.nodes = DOMAIN d.nodes \cup {id}
      /\ DOMAIN e.extIds = DOMAIN d.extIds \cup {n.ext}
  BY <1>2 DEF Insert
<1>7. NodesNamed(e)
  <2>1. DOMAIN e.nodes = 1..e.nodeCtr
    <3>1. DOMAIN e.nodes = 1..d.nodeCtr \cup {d.nodeCtr + 1}
      BY <1>5, <1>6
    <3>2. e.nodeCtr = d.nodeCtr + 1
      BY <1>2
    <3> QED
      BY <3>1, <3>2, <1>1
  <2>2. ASSUME NEW x \in DOMAIN e.extIds
        PROVE  e.extIds[x] \in DOMAIN e.nodes /\ e.nodes[e.extIds[x]].ext = x
    <3>1. CASE x = n.ext
      BY <3>1, <1>2, <1>6 DEF Insert
    <3>2. CASE x # n.ext
      <4>1. /\ x \in DOMAIN d.extIds /\ e.extIds[x] = d.extIds[x]
        BY <3>2, <1>2 DEF Insert
      <4>2. d.extIds[x] \in DOMAIN d.nodes /\ d.nodes[d.extIds[x]].ext = x
        BY <4>1 DEF Good, DbInv, NodesNamed
      <4> QED
        BY <4>1, <4>2, <1>2, <1>5 DEF Insert
    <3> QED
      BY <3>1, <3>2
  <2>3. ASSUME NEW i \in DOMAIN e.nodes
        PROVE  /\ e.nodes[i].ext \in DOMAIN e.extIds
               /\ e.extIds[e.nodes[i].ext] = i
               /\ Resolves(e, e.nodes[i].type)
    <3>1. CASE i = id
      BY <3>1, <1>2 DEF Insert, Resolves, SameStrings
    <3>2. CASE i # id
      <4>1. i \in DOMAIN d.nodes /\ e.nodes[i] = d.nodes[i]
        BY <3>2, <1>2 DEF Insert
      <4>2. /\ d.nodes[i].ext \in DOMAIN d.extIds
            /\ d.extIds[d.nodes[i].ext] = i
            /\ Resolves(d, d.nodes[i].type)
        BY <4>1 DEF Good, DbInv, NodesNamed
      <4> QED
        BY <4>1, <4>2, <1>2 DEF Insert, Resolves, SameStrings
    <3> QED
      BY <3>1, <3>2
  <2> QED
    BY <2>1, <2>2, <2>3 DEF NodesNamed
<1>8. InternerBijective(e)
  BY <1>2 DEF Good, DbInv, InternerBijective, SameStrings
<1>9. EdgesResolve(e)
  BY <1>2, <1>6 DEF Good, DbInv, EdgesResolve, SameEdges, SameStrings, Resolves
<1>10. IndexesMirrorEdges(e)
  BY <1>2 DEF Good, DbInv, IndexesMirrorEdges, SameEdges
<1>11. RevisionsOrdered(e)
  BY <1>2 DEF Good, DbInv, RevisionsOrdered, SameEdges
<1>12. LogNumbered(e)
  BY <1>2 DEF Good, DbInv, LogNumbered, SameLog
<1> QED
  BY <1>1, <1>2, <1>4, <1>6, <1>7, <1>8, <1>9, <1>10, <1>11, <1>12
     DEF Good, DbInv, e

\* upsert_node: fails, finds the node, or creates it; on success the id it
\* returns is that of a stored node.
LEMMA UpsertNodeGood ==
  ASSUME NEW d, NEW ext \in Text, NEW type \in Text, NEW now \in Time, Good(d)
  PROVE  LET r == UpsertNode(d, ext, type, now)
         IN /\ r.ok \in BOOLEAN
            /\ Good(r.db)
            /\ r.ok <=> ext # Empty
            /\ r.ok => r.id \in DOMAIN r.db.nodes /\ ext \in DOMAIN r.db.extIds
            /\ DOMAIN d.nodes \subseteq DOMAIN r.db.nodes
            /\ DOMAIN d.extIds \subseteq DOMAIN r.db.extIds
            /\ Empty \notin DOMAIN d.extIds => Empty \notin DOMAIN r.db.extIds
            /\ SameEdges(d, r.db)
<1>1. CASE ext = Empty
  BY <1>1 DEF UpsertNode, Err, SameEdges
<1>2. CASE ext # Empty /\ ext \in DOMAIN d.extIds
  <2>1. d.extIds[ext] \in DOMAIN d.nodes
    BY <1>2 DEF Good, DbInv, NodesNamed
  <2> QED
    BY <1>2, <2>1 DEF UpsertNode, Ok, SameEdges
<1>3. CASE ext # Empty /\ ext \notin DOMAIN d.extIds
  <2> DEFINE t  == InternOptional(d, type)
             id == t.db.nodeCtr + 1
             n  == [ext |-> ext, type |-> t.id]
             e  == InsertNode(t.db, id, n)
             f  == AppendEvent(e, NodeAdded(n), now)
  <2>1. UpsertNode(d, ext, type, now) = Ok(f, id)
    BY <1>3 DEF UpsertNode
  <2>2. /\ IsDatabase(t.db)
        /\ InternerBijective(t.db)
        /\ Resolves(t.db, t.id)
        /\ t.id \in Nat
        /\ DOMAIN d.strRev \subseteq DOMAIN t.db.strRev
        /\ SameNodes(d, t.db) /\ SameEdges(d, t.db) /\ SameLog(d, t.db)
    BY InternOptionalCorrect DEF Good, DbInv
  <2> HIDE DEF t
  <2>3. Good(t.db)
    BY <2>2, MoreStrings
  <2>4. /\ n \in Node /\ n.ext = ext
        /\ n.ext \notin DOMAIN t.db.extIds /\ Resolves(t.db, n.type)
    BY <1>3, <2>2 DEF Node, SameNodes
  <2> HIDE DEF n
  <2>5. /\ Good(e)
        /\ DOMAIN e.nodes = DOMAIN t.db.nodes \cup {id}
        /\ DOMAIN e.extIds = DOMAIN t.db.extIds \cup {ext}
        /\ SameEdges(t.db, e)
    BY <2>3, <2>4, InsertNodeGood
  <2> HIDE DEF e
  <2>6. NodeAdded(n) \in Event
    BY <2>4 DEF NodeAdded, Event
  <2>7. /\ Good(f)
        /\ SameNodes(e, f) /\ SameEdges(e, f)
    BY <2>5, <2>6, AppendGood
  <2> HIDE DEF f
  <2> QED
    BY <1>3, <2>1, <2>2, <2>5, <2>7 DEF Ok, SameNodes, SameEdges
<1> QED
  BY <1>1, <1>2, <1>3

-----------------------------------------------------------------------------
(* Edges *)

\* Taking an edge id, whether or not an edge is stored under it.
LEMMA TakeEdgeIdGood ==
  ASSUME NEW d, Good(d)
  PROVE  LET id == d.edgeCtr + 1
             e  == [d EXCEPT !.edgeCtr = id]
         IN /\ Good(e)
            /\ id \in Nat
            /\ e.edgeCtr = id
            /\ id \notin DOMAIN e.edges
            /\ e.edges = d.edges
            /\ SameStrings(d, e) /\ SameNodes(d, e) /\ SameLog(d, e)
<1> DEFINE id == d.edgeCtr + 1
           e  == [d EXCEPT !.edgeCtr = id]
<1>1. d.edgeCtr \in Nat /\ id \in Nat /\ id = d.edgeCtr + 1
  BY DEF Good, IsDatabase
<1>2. /\ e.edgeCtr = id
      /\ HasTables(e)
      /\ e.edges = d.edges /\ e.fwdAdj = d.fwdAdj /\ e.revAdj = d.revAdj
      /\ e.temporal = d.temporal /\ e.superIdx = d.superIdx
      /\ SameStrings(d, e) /\ SameNodes(d, e) /\ SameLog(d, e)
  BY DEF Good, IsDatabase, HasTables, SameStrings, SameNodes, SameLog
<1> HIDE DEF e
<1>3. IsDatabase(e)
  BY <1>1, <1>2 DEF Good, IsDatabase, SameStrings, SameNodes, SameLog
<1>4. InternerBijective(e)
  BY <1>2 DEF Good, DbInv, InternerBijective, SameStrings
<1>5. NodesNamed(e)
  BY <1>2 DEF Good, DbInv, NodesNamed, SameNodes, SameStrings, Resolves
<1>6. DOMAIN d.edges \subseteq 1..d.edgeCtr
  BY DEF Good, DbInv, EdgesResolve
<1>7. DOMAIN e.edges \subseteq 1..e.edgeCtr /\ id \notin DOMAIN e.edges
  BY <1>1, <1>2, <1>6
<1>8. EdgesResolve(e)
  BY <1>2, <1>7 DEF Good, DbInv, EdgesResolve, SameNodes, SameStrings, Resolves
<1>9. IndexesMirrorEdges(e)
  BY <1>2 DEF Good, DbInv, IndexesMirrorEdges
<1>10. RevisionsOrdered(e)
  BY <1>2 DEF Good, DbInv, RevisionsOrdered
<1>11. LogNumbered(e)
  BY <1>2 DEF Good, DbInv, LogNumbered, SameLog
<1> QED
  BY <1>1, <1>2, <1>3, <1>4, <1>5, <1>7, <1>8, <1>9, <1>10, <1>11
     DEF Good, DbInv, e

\* An edge may revise nothing, or a stored edge that has ended before it starts.
MayRevise(d, old, vf) ==
  old # Zero => /\ old \in DOMAIN d.edges
                /\ d.edges[old].vt # NoTs
                /\ d.edges[old].vt <= vf

\* Storing a resolved, well-formed edge under the id just taken.
LEMMA InsertEdgeGood ==
  ASSUME NEW d, NEW e \in Edge, NEW id \in Nat, Good(d),
         id = d.edgeCtr, id \notin DOMAIN d.edges, id > 0,
         e.from \in DOMAIN d.nodes, e.to \in DOMAIN d.nodes,
         e.type \in DOMAIN d.strRev, Resolves(d, e.source),
         ValidEdge(e), MayRevise(d, e.supersedes, e.vf)
  PROVE  LET g == InsertEdge(d, id, e)
         IN /\ Good(g)
            /\ DOMAIN g.edges = DOMAIN d.edges \cup {id}
            /\ g.edges[id] = e
            /\ g.edges = Insert(d.edges, id, e)
            /\ SameStrings(d, g) /\ SameNodes(d, g) /\ SameLog(d, g)
<1> DEFINE g == InsertEdge(d, id, e)
           fk == <<e.from, e.vf, id>>
           rk == <<e.to, e.vf, id>>
<1>1. /\ e.from \in Nat /\ e.to \in Nat /\ e.vf \in Time /\ e.supersedes \in Nat
      /\ fk \in AdjKey /\ rk \in AdjKey /\ <<e.vf, id>> \in Time \X Nat
  BY DEF Edge, AdjKey
<1>2. /\ HasTables(g)
      /\ g.edges = Insert(d.edges, id, e)
      /\ g.fwdAdj = Insert(d.fwdAdj, fk, e.to)
      /\ g.revAdj = Insert(d.revAdj, rk, e.from)
      /\ g.temporal = d.temporal \cup {<<e.vf, id>>}
      /\ g.superIdx = IF e.supersedes = Zero THEN d.superIdx
                      ELSE d.superIdx \cup {<<e.supersedes, id>>}
      /\ g.edgeCtr = d.edgeCtr
      /\ SameStrings(d, g) /\ SameNodes(d, g) /\ SameLog(d, g)
  BY DEF InsertEdge, Good, IsDatabase, HasTables, SameStrings, SameNodes, SameLog
<1> HIDE DEF g, fk, rk
<1>3. /\ IsTable(g.edges, Nat, Edge)
      /\ IsTable(g.fwdAdj, AdjKey, Nat)
      /\ IsTable(g.revAdj, AdjKey, Nat)
  <2>1. /\ IsTable(d.edges, Nat, Edge)
        /\ IsTable(d.fwdAdj, AdjKey, Nat)
        /\ IsTable(d.revAdj, AdjKey, Nat)
    BY DEF Good, IsDatabase
  <2>2. IsTable(g.edges, Nat, Edge)
    <3>1. IsTable(Insert(d.edges, id, e), Nat, Edge)
      BY <2>1, InsertTable
    <3> QED
      BY <3>1, <1>2
  <2>3. IsTable(g.fwdAdj, AdjKey, Nat)
    BY <2>1, <1>1, <1>2, InsertTable
  <2>4. IsTable(g.revAdj, AdjKey, Nat)
    BY <2>1, <1>1, <1>2, InsertTable
  <2> QED
    BY <2>2, <2>3, <2>4
<1>4. g.temporal \subseteq Time \X Nat /\ g.superIdx \subseteq Nat \X Nat
  BY <1>1, <1>2 DEF Good, IsDatabase
<1>5. IsDatabase(g)
  BY <1>2, <1>3, <1>4 DEF Good, IsDatabase, SameStrings, SameNodes, SameLog
<1>6. /\ DOMAIN g.edges = DOMAIN d.edges \cup {id}
      /\ g.edges[id] = e
      /\ \A i \in DOMAIN d.edges : g.edges[i] = d.edges[i]
  BY <1>2 DEF Insert
<1>7. InternerBijective(g)
  BY <1>2 DEF Good, DbInv, InternerBijective, SameStrings
<1>8. NodesNamed(g)
  BY <1>2 DEF Good, DbInv, NodesNamed, SameNodes, SameStrings, Resolves
<1>9. EdgesResolve(g)
  <2>1. DOMAIN g.edges \subseteq 1..g.edgeCtr
    BY <1>2, <1>6 DEF Good, DbInv, EdgesResolve
  <2>2. ASSUME NEW i \in DOMAIN g.edges
        PROVE  /\ {g.edges[i].from, g.edges[i].to} \subseteq DOMAIN g.nodes
               /\ g.edges[i].type \in DOMAIN g.strRev
               /\ Resolves(g, g.edges[i].source)
               /\ g.edges[i].vt # NoTs => g.edges[i].vf <= g.edges[i].vt
    <3>1. CASE i = id
      BY <3>1, <1>2, <1>6 DEF SameNodes, SameStrings, Resolves, ValidEdge
    <3>2. CASE i # id
      BY <3>2, <1>2, <1>6
         DEF Good, DbInv, EdgesResolve, SameNodes, SameStrings, Resolves
    <3> QED
      BY <3>1, <3>2
  <2> QED
    BY <2>1, <2>2 DEF EdgesResolve
<1>10. IndexesMirrorEdges(g)
  <2>1. DOMAIN g.fwdAdj = {<<g.edges[i].from, g.edges[i].vf, i>> : i \in DOMAIN g.edges}
    <3>1. DOMAIN g.fwdAdj = DOMAIN d.fwdAdj \cup {fk}
      BY <1>2 DEF Insert
    <3>2. DOMAIN d.fwdAdj = {<<d.edges[i].from, d.edges[i].vf, i>> : i \in DOMAIN d.edges}
      BY DEF Good, DbInv, IndexesMirrorEdges
    <3> QED
      BY <3>1, <3>2, <1>6 DEF fk
  <2>2. DOMAIN g.revAdj = {<<g.edges[i].to, g.edges[i].vf, i>> : i \in DOMAIN g.edges}
    <3>1. DOMAIN g.revAdj = DOMAIN d.revAdj \cup {rk}
      BY <1>2 DEF Insert
    <3>2. DOMAIN d.revAdj = {<<d.edges[i].to, d.edges[i].vf, i>> : i \in DOMAIN d.edges}
      BY DEF Good, DbInv, IndexesMirrorEdges
    <3> QED
      BY <3>1, <3>2, <1>6 DEF rk
  <2>3. ASSUME NEW i \in DOMAIN g.edges
        PROVE  /\ g.fwdAdj[<<g.edges[i].from, g.edges[i].vf, i>>] = g.edges[i].to
               /\ g.revAdj[<<g.edges[i].to, g.edges[i].vf, i>>] = g.edges[i].from
    <3>1. CASE i = id
      BY <3>1, <1>2, <1>6 DEF Insert, fk, rk
    <3>2. CASE i # id
      <4> DEFINE fi == <<d.edges[i].from, d.edges[i].vf, i>>
                 ri == <<d.edges[i].to, d.edges[i].vf, i>>
      <4>1. i \in DOMAIN d.edges /\ g.edges[i] = d.edges[i]
        BY <3>2, <1>6
      <4>2. /\ fi \in DOMAIN d.fwdAdj /\ d.fwdAdj[fi] = d.edges[i].to
            /\ ri \in DOMAIN d.revAdj /\ d.revAdj[ri] = d.edges[i].from
        BY <4>1 DEF Good, DbInv, IndexesMirrorEdges
      <4>3. fi # fk /\ ri # rk
        BY <3>2 DEF fk, rk
      <4> QED
        BY <4>1, <4>2, <4>3, <1>2 DEF Insert
    <3> QED
      BY <3>1, <3>2
  <2>4. g.temporal = {<<g.edges[i].vf, i>> : i \in DOMAIN g.edges}
    <3>1. d.temporal = {<<d.edges[i].vf, i>> : i \in DOMAIN d.edges}
      BY DEF Good, DbInv, IndexesMirrorEdges
    <3> QED
      BY <3>1, <1>2, <1>6
  <2>5. g.superIdx = {<<g.edges[i].supersedes, i>> :
                        i \in {j \in DOMAIN g.edges : g.edges[j].supersedes # Zero}}
    <3>1. d.superIdx = {<<d.edges[i].supersedes, i>> :
                          i \in {j \in DOMAIN d.edges : d.edges[j].supersedes # Zero}}
      BY DEF Good, DbInv, IndexesMirrorEdges
    <3>2. CASE e.supersedes = Zero
      BY <3>1, <3>2, <1>2, <1>6
    <3>3. CASE e.supersedes # Zero
      BY <3>1, <3>3, <1>2, <1>6
    <3> QED
      BY <3>2, <3>3
  <2> QED
    BY <2>1, <2>2, <2>3, <2>4, <2>5 DEF IndexesMirrorEdges
<1>11. RevisionsOrdered(g)
  <2> SUFFICES ASSUME NEW i \in DOMAIN g.edges, g.edges[i].supersedes # Zero
               PROVE  LET o == g.edges[i].supersedes
                      IN /\ o \in DOMAIN g.edges
                         /\ o < i
                         /\ g.edges[o].vt # NoTs
                         /\ g.edges[o].vt <= g.edges[i].vf
    BY DEF RevisionsOrdered
  <2>1. CASE i = id
    <3>1. \A o \in DOMAIN d.edges : o \in 1..id
      BY DEF Good, DbInv, EdgesResolve
    <3>2. \A o \in DOMAIN d.edges : o < id
      BY <3>1
    <3> QED
      BY <2>1, <3>2, <1>6 DEF MayRevise
  <2>2. CASE i # id
    BY <2>2, <1>6 DEF Good, DbInv, RevisionsOrdered
  <2> QED
    BY <2>1, <2>2
<1>12. LogNumbered(g)
  BY <1>2 DEF Good, DbInv, LogNumbered, SameLog
<1> QED
  BY <1>2, <1>5, <1>6, <1>7, <1>8, <1>9, <1>10, <1>11, <1>12 DEF Good, DbInv, g

\* The call that answered r to d stored one edge under a new id or, if it
\* failed, none, and left the other edges alone.
Adds(d, r) ==
  IF r.ok THEN r.id \notin DOMAIN d.edges /\ r.db.edges = Insert(d.edges, r.id, r.db.edges[r.id])
  ELSE r.db.edges = d.edges

\* add_edge_internal: on failure the id is burned and strings may stay behind,
\* on success the edge is stored; the database is consistent either way.
LEMMA AddEdgeInternalGood ==
  ASSUME NEW d, NEW from \in DOMAIN d.nodes, NEW to \in DOMAIN d.nodes,
         NEW in \in EdgeInput, NEW old \in Nat, NEW now \in Time,
         Good(d), MayRevise(d, old, in.vf)
  PROVE  LET r == AddEdgeInternal(d, from, to, in, old, now)
         IN /\ r.ok \in BOOLEAN
            /\ Good(r.db)
            /\ SameNodes(d, r.db)
            /\ r.ok => r.id \in DOMAIN r.db.edges
            /\ Adds(d, r)
<1> DEFINE t  == Intern(d, in.type)
           s  == InternOptional(t.db, in.source)
           id == s.db.edgeCtr + 1
           d1 == [s.db EXCEPT !.edgeCtr = id]
           e  == [from |-> from, to |-> to, type |-> t.id, source |-> s.id,
                  vf |-> in.vf, vt |-> in.vt, supersedes |-> old]
           g  == InsertEdge(d1, id, e)
           h  == AppendEvent(g, EdgeObserved(e), now)
<1>1. /\ in.type \in Text /\ in.source \in Text
      /\ in.vf \in Time /\ in.vt \in Time \cup {NoTs}
  BY DEF EdgeInput
<1>2. AddEdgeInternal(d, from, to, in, old, now)
        = IF in.confident /\ ValidEdge(e) THEN Ok(h, id) ELSE Err(d1)
  BY DEF AddEdgeInternal
<1>3. /\ IsDatabase(t.db) /\ InternerBijective(t.db)
      /\ t.id \in DOMAIN t.db.strRev /\ t.id \in Nat
      /\ DOMAIN d.strRev \subseteq DOMAIN t.db.strRev
      /\ SameNodes(d, t.db) /\ SameEdges(d, t.db) /\ SameLog(d, t.db)
  BY <1>1, InternCorrect DEF Good, DbInv
<1> HIDE DEF t
<1>4. /\ IsDatabase(s.db) /\ InternerBijective(s.db)
      /\ Resolves(s.db, s.id) /\ s.id \in Nat
      /\ DOMAIN t.db.strRev \subseteq DOMAIN s.db.strRev
      /\ SameNodes(t.db, s.db) /\ SameEdges(t.db, s.db) /\ SameLog(t.db, s.db)
  BY <1>1, <1>3, InternOptionalCorrect
<1> HIDE DEF s
<1>5. Good(t.db)
  BY <1>3, MoreStrings
<1>6. Good(s.db)
  BY <1>4, <1>5, MoreStrings
<1>7. /\ Good(d1)
      /\ id \in Nat
      /\ d1.edgeCtr = id
      /\ id \notin DOMAIN d1.edges
      /\ d1.edges = s.db.edges
      /\ SameStrings(s.db, d1) /\ SameNodes(s.db, d1)
  BY <1>6, TakeEdgeIdGood
<1>8. id > 0
  BY <1>6 DEF Good, IsDatabase
<1>9. CASE in.confident /\ ValidEdge(e)
  <2>1. /\ e \in Edge
        /\ e.from = from /\ e.to = to /\ e.type = t.id /\ e.source = s.id
        /\ e.vf = in.vf /\ e.supersedes = old
    <3>1. from \in Nat /\ to \in Nat
      BY DEF Good, IsDatabase, IsTable
    <3> QED
      BY <1>1, <1>3, <1>4, <3>1 DEF Edge
  <2>2. AddEdgeInternal(d, from, to, in, old, now) = Ok(h, id)
    BY <1>2, <1>9
  <2>3. ValidEdge(e)
    BY <1>9
  <2> HIDE DEF e, d1, id
  <2>4. /\ e.from \in DOMAIN d1.nodes /\ e.to \in DOMAIN d1.nodes
        /\ e.type \in DOMAIN d1.strRev /\ Resolves(d1, e.source)
    BY <2>1, <1>3, <1>4, <1>7 DEF SameNodes, SameStrings, Resolves
  <2>5. MayRevise(d1, e.supersedes, e.vf)
    BY <2>1, <1>3, <1>4, <1>7 DEF MayRevise, SameEdges
  <2>6. /\ Good(g) /\ SameNodes(d1, g)
        /\ g.edges = Insert(d1.edges, id, e)
    BY <1>7, <1>8, <2>1, <2>3, <2>4, <2>5, InsertEdgeGood
  <2> HIDE DEF g
  <2>7. EdgeObserved(e) \in Event
    BY <2>1 DEF EdgeObserved, Event
  <2>8. Good(h) /\ SameEdges(g, h) /\ SameNodes(g, h)
    BY <2>6, <2>7, AppendGood
  <2> HIDE DEF h
  <2> QED
    BY <1>3, <1>4, <1>7, <2>2, <2>6, <2>8 DEF Ok, SameEdges, SameNodes, Adds, Insert
<1>10. CASE ~(in.confident /\ ValidEdge(e))
  <2>1. AddEdgeInternal(d, from, to, in, old, now) = Err(d1)
    BY <1>2, <1>10
  <2> HIDE DEF d1
  <2> QED
    BY <1>3, <1>4, <1>7, <2>1 DEF Err, SameNodes, SameEdges, Adds
<1> QED
  BY <1>9, <1>10

\* add_edge, also when it fails after creating one node or both; every name
\* keeps its node, and on success both ends have one.
LEMMA AddEdgeGood ==
  ASSUME NEW d, NEW in \in EdgeInput, NEW clk \in [1..3 -> Time], Good(d)
  PROVE  LET r == AddEdge(d, in, clk)
         IN /\ r.ok \in BOOLEAN
            /\ Good(r.db)
            /\ DOMAIN d.extIds \subseteq DOMAIN r.db.extIds
            /\ r.ok => {in.from, in.to} \subseteq DOMAIN r.db.extIds
            /\ Empty \notin DOMAIN d.extIds => Empty \notin DOMAIN r.db.extIds
            /\ Adds(d, r)
<1> DEFINE f == UpsertNode(d, in.from, Empty, clk[1])
           t == UpsertNode(f.db, in.to, Empty, clk[2])
           n == AddEdgeInternal(t.db, f.id, t.id, in, Zero, clk[3])
<1>1. /\ in.from \in Text /\ in.to \in Text
      /\ clk[1] \in Time /\ clk[2] \in Time /\ clk[3] \in Time
  BY DEF EdgeInput
<1>2. CASE in.type = Empty \/ (in.from = in.to /\ in.from = Empty)
  BY <1>2 DEF AddEdge, Err, Adds
<1>3. CASE ~(in.type = Empty \/ (in.from = in.to /\ in.from = Empty))
  <2>1. AddEdge(d, in, clk) = IF ~f.ok THEN f ELSE IF ~t.ok THEN t ELSE n
    BY <1>3 DEF AddEdge
  <2>2. /\ f.ok \in BOOLEAN /\ Good(f.db) /\ (f.ok => f.id \in DOMAIN f.db.nodes)
        /\ DOMAIN d.extIds \subseteq DOMAIN f.db.extIds
        /\ f.ok => in.from \in DOMAIN f.db.extIds
        /\ Empty \notin DOMAIN d.extIds => Empty \notin DOMAIN f.db.extIds
        /\ SameEdges(d, f.db)
    BY <1>1, TextAssumption, UpsertNodeGood
  <2> HIDE DEF f
  <2>3. /\ t.ok \in BOOLEAN /\ Good(t.db) /\ (t.ok => t.id \in DOMAIN t.db.nodes)
        /\ DOMAIN f.db.nodes \subseteq DOMAIN t.db.nodes
        /\ DOMAIN f.db.extIds \subseteq DOMAIN t.db.extIds
        /\ t.ok => in.to \in DOMAIN t.db.extIds
        /\ Empty \notin DOMAIN f.db.extIds => Empty \notin DOMAIN t.db.extIds
        /\ SameEdges(f.db, t.db)
    BY <1>1, <2>2, TextAssumption, UpsertNodeGood
  <2> HIDE DEF t
  <2>4. CASE f.ok /\ t.ok
    <3>1. f.id \in DOMAIN t.db.nodes /\ t.id \in DOMAIN t.db.nodes
      BY <2>2, <2>3, <2>4
    <3>2. Zero \in Nat /\ MayRevise(t.db, Zero, in.vf)
      BY DEF Zero, MayRevise
    <3>3. n.ok \in BOOLEAN /\ Good(n.db) /\ SameNodes(t.db, n.db) /\ Adds(t.db, n)
      BY <1>1, <2>3, <3>1, <3>2, AddEdgeInternalGood
    <3> HIDE DEF n
    <3> QED
      BY <2>1, <2>2, <2>3, <2>4, <3>3 DEF SameNodes, SameEdges, Adds
  <2>5. CASE ~f.ok \/ ~t.ok
    BY <2>1, <2>2, <2>3, <2>5 DEF SameEdges, Adds
  <2> QED
    BY <2>4, <2>5
<1> QED
  BY <1>2, <1>3

-----------------------------------------------------------------------------
(* Closing and revising *)

\* e has the edges of d, all but one with the same record.
Spares(d, e, id) ==
  /\ DOMAIN e.edges = DOMAIN d.edges
  /\ \A i \in DOMAIN d.edges : i # id => e.edges[i] = d.edges[i]

\* Ending the validity of an edge, or moving its end to an earlier time.  That
\* the end moves earlier is what keeps the revisions of the edge in order.
LEMMA CloseEdgeGood ==
  ASSUME NEW d, NEW id \in DOMAIN d.edges, NEW at \in Time, Good(d),
         ~(d.edges[id].vt # NoTs /\ d.edges[id].vt <= at),
         ValidEdge([d.edges[id] EXCEPT !.vt = at])
  PROVE  LET u == [d.edges[id] EXCEPT !.vt = at]
             g == [d EXCEPT !.edges = Insert(@, id, u)]
         IN /\ Good(g)
            /\ Spares(d, g, id)
            /\ g.edges[id].vt = at
            /\ SameNodes(d, g)
<1> DEFINE e == d.edges[id]
           u == [e EXCEPT !.vt = at]
           g == [d EXCEPT !.edges = Insert(@, id, u)]
<1>1. id \in Nat /\ e \in Edge /\ IsTable(d.edges, Nat, Edge)
  BY DEF Good, IsDatabase, IsTable
<1>2. at # NoTs /\ at \in Int /\ Time \subseteq Int /\ NoTs \notin Int
  BY TimeAssumption
<1>3. /\ u \in Edge
      /\ u.from = e.from /\ u.to = e.to /\ u.type = e.type
      /\ u.source = e.source /\ u.vf = e.vf /\ u.vt = at
      /\ u.supersedes = e.supersedes
  BY <1>1 DEF Edge
<1>4. u.vf <= u.vt
  BY <1>2, <1>3 DEF ValidEdge
<1> HIDE DEF u
<1>5. /\ HasTables(g)
      /\ g.edges = Insert(d.edges, id, u)
      /\ g.fwdAdj = d.fwdAdj /\ g.revAdj = d.revAdj
      /\ g.temporal = d.temporal /\ g.superIdx = d.superIdx
      /\ g.edgeCtr = d.edgeCtr
      /\ SameStrings(d, g) /\ SameNodes(d, g) /\ SameLog(d, g)
  BY DEF Good, IsDatabase, HasTables, SameStrings, SameNodes, SameLog
<1> HIDE DEF g
<1>6. /\ DOMAIN g.edges = DOMAIN d.edges
      /\ g.edges[id] = u
      /\ \A i \in DOMAIN d.edges : i # id => g.edges[i] = d.edges[i]
  BY <1>5 DEF Insert
<1>7. \A i \in DOMAIN d.edges : /\ g.edges[i].from = d.edges[i].from
                                /\ g.edges[i].to = d.edges[i].to
                                /\ g.edges[i].type = d.edges[i].type
                                /\ g.edges[i].source = d.edges[i].source
                                /\ g.edges[i].vf = d.edges[i].vf
                                /\ g.edges[i].supersedes = d.edges[i].supersedes
  BY <1>3, <1>6
<1>8. IsDatabase(g)
  <2>1. IsTable(g.edges, Nat, Edge)
    BY <1>1, <1>3, <1>5, InsertTable
  <2> QED
    BY <2>1, <1>5 DEF Good, IsDatabase, SameStrings, SameNodes, SameLog
<1>9. InternerBijective(g)
  BY <1>5 DEF Good, DbInv, InternerBijective, SameStrings
<1>10. NodesNamed(g)
  BY <1>5 DEF Good, DbInv, NodesNamed, SameNodes, SameStrings, Resolves
<1>11. EdgesResolve(g)
  <2>1. DOMAIN g.edges \subseteq 1..g.edgeCtr
    BY <1>5, <1>6 DEF Good, DbInv, EdgesResolve
  <2>2. ASSUME NEW i \in DOMAIN g.edges
        PROVE  /\ {g.edges[i].from, g.edges[i].to} \subseteq DOMAIN g.nodes
               /\ g.edges[i].type \in DOMAIN g.strRev
               /\ Resolves(g, g.edges[i].source)
    BY <1>5, <1>6, <1>7
       DEF Good, DbInv, EdgesResolve, SameNodes, SameStrings, Resolves
  <2>3. ASSUME NEW i \in DOMAIN g.edges, g.edges[i].vt # NoTs
        PROVE  g.edges[i].vf <= g.edges[i].vt
    BY <2>3, <1>4, <1>6 DEF Good, DbInv, EdgesResolve
  <2> QED
    BY <2>1, <2>2, <2>3 DEF EdgesResolve
<1>12. IndexesMirrorEdges(g)
  BY <1>5, <1>6, <1>7 DEF Good, DbInv, IndexesMirrorEdges
<1>13. RevisionsOrdered(g)
  <2> SUFFICES ASSUME NEW i \in DOMAIN g.edges, g.edges[i].supersedes # Zero
               PROVE  LET o == g.edges[i].supersedes
                      IN /\ o \in DOMAIN g.edges
                         /\ o < i
                         /\ g.edges[o].vt # NoTs
                         /\ g.edges[o].vt <= g.edges[i].vf
    BY DEF RevisionsOrdered
  <2> DEFINE o == d.edges[i].supersedes
  <2>1. g.edges[i].supersedes = o /\ g.edges[i].vf = d.edges[i].vf
    BY <1>6, <1>7
  <2>2. /\ o \in DOMAIN d.edges /\ o < i
        /\ d.edges[o].vt # NoTs /\ d.edges[o].vt <= d.edges[i].vf
    BY <2>1, <1>6 DEF Good, DbInv, RevisionsOrdered
  <2>3. CASE o = id
    <3>1. d.edges[id].vt \in Int /\ d.edges[i].vf \in Int
      BY <2>2, <2>3, <1>1, <1>2, <1>6 DEF IsTable, Edge
    <3>2. at <= d.edges[i].vf
      BY <2>2, <2>3, <3>1, <1>2
    <3> QED
      BY <2>1, <2>2, <2>3, <3>2, <1>2, <1>3, <1>6
  <2>4. CASE o # id
    BY <2>1, <2>2, <2>4, <1>6
  <2> QED
    BY <2>3, <2>4
<1>14. LogNumbered(g)
  BY <1>5 DEF Good, DbInv, LogNumbered, SameLog
<1> QED
  BY <1>3, <1>5, <1>6, <1>8, <1>9, <1>10, <1>11, <1>12, <1>13, <1>14
     DEF Good, DbInv, Spares, g, u

\* invalidate_edge: when it succeeds the edge has ended by the time given,
\* either now or because it had ended before.
LEMMA InvalidateEdgeGood ==
  ASSUME NEW d, NEW id, NEW at \in Time, NEW now \in Time, Good(d)
  PROVE  LET r == InvalidateEdge(d, id, at, now)
         IN /\ r.ok \in BOOLEAN
            /\ Good(r.db)
            /\ SameNodes(d, r.db)
            /\ Spares(d, r.db, id)
            /\ r.ok => /\ id \in DOMAIN r.db.edges
                       /\ r.db.edges[id].vt # NoTs
                       /\ r.db.edges[id].vt <= at
<1> DEFINE e == d.edges[id]
           u == [e EXCEPT !.vt = at]
           g == [d EXCEPT !.edges = Insert(@, id, u)]
           h == AppendEvent(g, EdgeInvalidated(id, at), now)
<1>1. CASE id \notin DOMAIN d.edges \/ (~(e.vt # NoTs /\ e.vt <= at) /\ ~ValidEdge(u))
  <2>1. InvalidateEdge(d, id, at, now) = Err(d)
    BY <1>1 DEF InvalidateEdge
  <2> QED
    BY <2>1 DEF Err, SameNodes, Spares
<1>2. CASE id \in DOMAIN d.edges /\ e.vt # NoTs /\ e.vt <= at
  <2>1. InvalidateEdge(d, id, at, now) = Ok(d, id)
    BY <1>2 DEF InvalidateEdge
  <2> QED
    BY <2>1, <1>2 DEF Ok, SameNodes, Spares
<1>3. CASE /\ id \in DOMAIN d.edges
           /\ ~(e.vt # NoTs /\ e.vt <= at)
           /\ ValidEdge(u)
  <2>1. InvalidateEdge(d, id, at, now) = Ok(h, id)
    BY <1>3 DEF InvalidateEdge
  <2>2. /\ Good(g)
        /\ Spares(d, g, id)
        /\ g.edges[id].vt = at
        /\ SameNodes(d, g)
    BY <1>3, CloseEdgeGood
  <2> HIDE DEF g
  <2>3. EdgeInvalidated(id, at) \in Event
    <3>1. id \in Nat
      BY <1>3 DEF Good, IsDatabase, IsTable
    <3> QED
      BY <3>1 DEF EdgeInvalidated, Event
  <2>4. Good(h) /\ SameNodes(g, h) /\ SameEdges(g, h)
    BY <2>2, <2>3, AppendGood
  <2> HIDE DEF h
  <2>5. at # NoTs /\ at <= at
    BY TimeAssumption
  <2> QED
    BY <2>1, <2>2, <2>4, <2>5, <1>3 DEF Ok, SameNodes, SameEdges, Spares
<1> QED
  BY <1>1, <1>2, <1>3

\* supersede_edge, also when it fails after closing the old edge.
LEMMA SupersedeEdgeGood ==
  ASSUME NEW d, NEW old \in Nat, NEW in \in EdgeInput,
         NEW clk \in [1..5 -> Time], Good(d)
  PROVE  LET r == SupersedeEdge(d, old, in, clk)
         IN /\ r.ok \in BOOLEAN
            /\ Good(r.db)
            /\ Empty \notin DOMAIN d.extIds => Empty \notin DOMAIN r.db.extIds
            /\ \E m : Spares(d, m, old) /\ Adds(m, r)
<1> DEFINE f == UpsertNode(d, in.from, Empty, clk[1])
           t == UpsertNode(f.db, in.to, Empty, clk[2])
           c == InvalidateEdge(t.db, old, in.vf, clk[3])
           n == AddEdgeInternal(c.db, f.id, t.id, in, old, clk[4])
           v == EdgeSuperseded(old, n.db.edges[n.id])
           h == AppendEvent(n.db, v, clk[5])
<1>1. /\ in.from \in Text /\ in.to \in Text /\ in.vf \in Time
      /\ clk[1] \in Time /\ clk[2] \in Time /\ clk[3] \in Time
      /\ clk[4] \in Time /\ clk[5] \in Time
  BY DEF EdgeInput
<1>2. CASE old \notin DOMAIN d.edges
  <2>1. SupersedeEdge(d, old, in, clk) = Err(d)
    BY <1>2 DEF SupersedeEdge
  <2>2. Spares(d, d, old) /\ Adds(d, Err(d))
    BY DEF Spares, Adds, Err
  <2> QED
    BY <2>1, <2>2 DEF Err
<1>3. CASE old \in DOMAIN d.edges
  <2>1. SupersedeEdge(d, old, in, clk)
          = IF ~f.ok THEN f ELSE IF ~t.ok THEN t ELSE IF ~c.ok THEN c
            ELSE IF ~n.ok THEN n ELSE Ok(h, n.id)
    BY <1>3 DEF SupersedeEdge
  <2>2. /\ f.ok \in BOOLEAN /\ Good(f.db) /\ (f.ok => f.id \in DOMAIN f.db.nodes)
        /\ Empty \notin DOMAIN d.extIds => Empty \notin DOMAIN f.db.extIds
        /\ SameEdges(d, f.db)
    BY <1>1, TextAssumption, UpsertNodeGood
  <2> HIDE DEF f
  <2>3. /\ t.ok \in BOOLEAN /\ Good(t.db) /\ (t.ok => t.id \in DOMAIN t.db.nodes)
        /\ DOMAIN f.db.nodes \subseteq DOMAIN t.db.nodes
        /\ Empty \notin DOMAIN f.db.extIds => Empty \notin DOMAIN t.db.extIds
        /\ SameEdges(f.db, t.db)
    BY <1>1, <2>2, TextAssumption, UpsertNodeGood
  <2> HIDE DEF t
  <2>4. /\ c.ok \in BOOLEAN /\ Good(c.db) /\ SameNodes(t.db, c.db)
        /\ c.ok => MayRevise(c.db, old, in.vf)
        /\ Spares(t.db, c.db, old)
    BY <1>1, <2>3, InvalidateEdgeGood DEF MayRevise
  <2> HIDE DEF c
  <2>5. Spares(d, f.db, old) /\ Spares(d, t.db, old) /\ Spares(d, c.db, old)
    BY <2>2, <2>3, <2>4 DEF SameEdges, Spares
  <2>6. Empty \notin DOMAIN d.extIds => Empty \notin DOMAIN c.db.extIds
    BY <2>2, <2>3, <2>4 DEF SameNodes
  <2>7. CASE ~f.ok \/ ~t.ok \/ ~c.ok
    BY <2>1, <2>2, <2>3, <2>4, <2>7, <2>5, <2>6 DEF Adds
  <2>8. CASE f.ok /\ t.ok /\ c.ok
    <3>1. f.id \in DOMAIN c.db.nodes /\ t.id \in DOMAIN c.db.nodes
      BY <2>2, <2>3, <2>4, <2>8 DEF SameNodes
    <3>2. /\ n.ok \in BOOLEAN /\ Good(n.db)
          /\ n.ok => n.id \in DOMAIN n.db.edges
          /\ SameNodes(c.db, n.db) /\ Adds(c.db, n)
      BY <1>1, <2>4, <2>8, <3>1, AddEdgeInternalGood
    <3> HIDE DEF n
    <3>3. CASE ~n.ok
      BY <2>1, <2>8, <2>5, <2>6, <3>2, <3>3 DEF SameNodes
    <3>4. CASE n.ok
      <4>1. n.db.edges[n.id] \in Edge
        BY <3>2, <3>4 DEF Good, IsDatabase, IsTable
      <4>2. v \in Event
        BY <4>1 DEF EdgeSuperseded, Event
      <4> HIDE DEF v
      <4>3. Good(h) /\ SameNodes(n.db, h) /\ SameEdges(n.db, h)
        BY <1>1, <3>2, <4>2, AppendGood
      <4> HIDE DEF h
      <4>4. SupersedeEdge(d, old, in, clk) = Ok(h, n.id)
        BY <2>1, <2>8, <3>4
      <4>5. Adds(c.db, Ok(h, n.id))
        BY <3>2, <3>4, <4>3 DEF Adds, Ok, SameEdges
      <4> QED
        BY <2>5, <2>6, <3>2, <4>3, <4>4, <4>5 DEF Ok, SameNodes
    <3> QED
      BY <3>3, <3>4
  <2> QED
    BY <2>7, <2>8
<1> QED
  BY <1>2, <1>3

-----------------------------------------------------------------------------

\* A database just created is consistent.
LEMMA EmptyDbGood == Good(EmptyDb)
<1>1. IsDatabase(EmptyDb)
  BY DEF EmptyDb, NoRows, IsDatabase, HasTables, IsTable
<1>2. InternerBijective(EmptyDb) /\ NodesNamed(EmptyDb)
  BY DEF EmptyDb, NoRows, InternerBijective, NodesNamed
<1>3. EdgesResolve(EmptyDb) /\ RevisionsOrdered(EmptyDb)
  BY DEF EmptyDb, NoRows, EdgesResolve, RevisionsOrdered
<1>4. IndexesMirrorEdges(EmptyDb)
  BY DEF EmptyDb, NoRows, IndexesMirrorEdges
<1>5. LogNumbered(EmptyDb)
  BY DEF EmptyDb, NoRows, LogNumbered
<1> QED
  BY <1>1, <1>2, <1>3, <1>4, <1>5 DEF Good, DbInv

-----------------------------------------------------------------------------
(* What an operation keeps *)

\* f is the edge e, or e with an earlier end.
Shortened(e, f) == /\ [f EXCEPT !.vt = e.vt] = e
                   /\ \/ f.vt = e.vt
                      \/ f.vt # NoTs /\ (e.vt # NoTs => f.vt < e.vt)

EdgesKept(t, u) == \A i \in DOMAIN t : i \in DOMAIN u /\ Shortened(t[i], u[i])

LEMMA KeepsParts ==
  ASSUME NEW d, NEW e
  PROVE  Keeps(d, e) <=> /\ Kept(d.strFwd, e.strFwd) /\ Kept(d.nodes, e.nodes)
                         /\ Kept(d.events, e.events) /\ EdgesKept(d.edges, e.edges)
  BY DEF Keeps, EdgesKept, Shortened

\* A row under a new key takes the place of none.
LEMMA InsertKept ==
  ASSUME NEW t, NEW k, NEW v, k \notin DOMAIN t
  PROVE  Kept(t, Insert(t, k, v))
  BY DEF Kept, Insert

LEMMA KeptTransitive ==
  ASSUME NEW t, NEW u, NEW v, Kept(t, u), Kept(u, v)
  PROVE  Kept(t, v)
  BY DEF Kept

LEMMA KeptReflexive == ASSUME NEW t PROVE Kept(t, t)
  BY DEF Kept

LEMMA ShortenedReflexive == ASSUME NEW e \in Edge PROVE Shortened(e, e)
  BY DEF Shortened, Edge

LEMMA ShortenedTransitive ==
  ASSUME NEW e \in Edge, NEW f \in Edge, NEW g \in Edge, Shortened(e, f), Shortened(f, g)
  PROVE  Shortened(e, g)
<1>1. e.vt \in Time \cup {NoTs} /\ f.vt \in Time \cup {NoTs} /\ g.vt \in Time \cup {NoTs}
  BY DEF Edge
<1>2. g.vt = e.vt \/ (g.vt # NoTs /\ (e.vt # NoTs => g.vt < e.vt))
  BY <1>1, TimeAssumption DEF Shortened
<1>3. [g EXCEPT !.vt = e.vt] = e
  BY DEF Shortened, Edge
<1> QED
  BY <1>2, <1>3 DEF Shortened

LEMMA SameEdgesKept ==
  ASSUME NEW d, IsDatabase(d)
  PROVE  EdgesKept(d.edges, d.edges)
  BY ShortenedReflexive DEF IsDatabase, IsTable, EdgesKept

LEMMA KeepsReflexive == ASSUME NEW d, IsDatabase(d) PROVE Keeps(d, d)
  BY KeptReflexive, SameEdgesKept, KeepsParts

LEMMA KeepsTransitive ==
  ASSUME NEW d, NEW e, NEW f, IsDatabase(d), IsDatabase(e), IsDatabase(f),
         Keeps(d, e), Keeps(e, f)
  PROVE  Keeps(d, f)
<1>1. EdgesKept(d.edges, f.edges)
  <2> SUFFICES ASSUME NEW i \in DOMAIN d.edges
               PROVE  i \in DOMAIN f.edges /\ Shortened(d.edges[i], f.edges[i])
    BY DEF EdgesKept
  <2>1. i \in DOMAIN e.edges /\ Shortened(d.edges[i], e.edges[i])
    BY KeepsParts DEF EdgesKept
  <2>2. i \in DOMAIN f.edges /\ Shortened(e.edges[i], f.edges[i])
    BY <2>1, KeepsParts DEF EdgesKept
  <2>3. d.edges[i] \in Edge /\ e.edges[i] \in Edge /\ f.edges[i] \in Edge
    BY <2>1, <2>2 DEF IsDatabase, IsTable
  <2> QED
    BY <2>1, <2>2, <2>3, ShortenedTransitive
<1>2. /\ Kept(d.strFwd, f.strFwd) /\ Kept(d.nodes, f.nodes) /\ Kept(d.events, f.events)
  BY KeptTransitive, KeepsParts
<1> QED
  BY <1>1, <1>2, KeepsParts

-----------------------------------------------------------------------------
(* The parts of the operations *)

\* An interner that has grown, with the other tables as they were.
LEMMA InternKeeps ==
  ASSUME NEW d, NEW s \in Text, Good(d)
  PROVE  Keeps(d, Intern(d, s).db)
<1> DEFINE e == Intern(d, s).db
<1>1. CASE s \in DOMAIN d.strFwd
  BY <1>1, KeepsReflexive DEF Intern, Ok, Good
<1>2. CASE s \notin DOMAIN d.strFwd
  <2>1. /\ e.strFwd = Insert(d.strFwd, s, d.strCtr + 1)
        /\ SameNodes(d, e) /\ SameEdges(d, e) /\ SameLog(d, e)
    BY <1>2, InternNew DEF Good
  <2>2. Kept(d.strFwd, e.strFwd)
    BY <1>2, <2>1, InsertKept
  <2> HIDE DEF e
  <2> QED
    BY <2>1, <2>2, KeptReflexive, SameEdgesKept, KeepsParts
       DEF SameNodes, SameEdges, SameLog, Good, e
<1> QED
  BY <1>1, <1>2

LEMMA InternOptionalKeeps ==
  ASSUME NEW d, NEW s \in Text, Good(d)
  PROVE  Keeps(d, InternOptional(d, s).db)
  BY InternKeeps, KeepsReflexive DEF InternOptional, Ok, Good

\* The id in the key is new, whatever the clock says.
LEMMA AppendKeeps ==
  ASSUME NEW d, NEW ev \in Event, NEW now \in Time, Good(d)
  PROVE  Keeps(d, AppendEvent(d, ev, now))
<1> DEFINE e  == AppendEvent(d, ev, now)
           id == d.eventCtr + 1
<1>1. e.events = Insert(d.events, <<now, id>>, ev)
  BY DEF AppendEvent, Good, IsDatabase, HasTables
<1>2. <<now, id>> \notin DOMAIN d.events
  <2>1. \A k \in DOMAIN d.events : k[2] \in 1..d.eventCtr
    BY DEF Good, DbInv, LogNumbered
  <2>2. d.eventCtr \in Nat
    BY DEF Good, IsDatabase
  <2>3. ASSUME <<now, id>> \in DOMAIN d.events PROVE FALSE
    <3>1. <<now, id>>[2] \in 1..d.eventCtr
      BY <2>1, <2>3
    <3> QED
      BY <2>2, <3>1
  <2> QED
    BY <2>3
<1>3. Kept(d.events, e.events)
  BY <1>1, <1>2, InsertKept
<1>4. SameStrings(d, e) /\ SameNodes(d, e) /\ SameEdges(d, e)
  BY AppendGood
<1> HIDE DEF e
<1> QED
  BY <1>3, <1>4, KeptReflexive, SameEdgesKept, KeepsParts
     DEF SameStrings, SameNodes, SameEdges, Good, e

LEMMA InsertNodeKeeps ==
  ASSUME NEW d, NEW n \in Node, Good(d)
  PROVE  Keeps(d, InsertNode(d, d.nodeCtr + 1, n))
<1> DEFINE id == d.nodeCtr + 1
           e  == InsertNode(d, id, n)
<1>1. /\ e.nodes = Insert(d.nodes, id, n)
      /\ SameStrings(d, e) /\ SameEdges(d, e) /\ SameLog(d, e)
  BY DEF InsertNode, Good, IsDatabase, HasTables, SameStrings, SameEdges, SameLog
<1>2. id \notin DOMAIN d.nodes
  BY DEF Good, DbInv, NodesNamed, IsDatabase
<1>3. Kept(d.nodes, e.nodes)
  BY <1>1, <1>2, InsertKept
<1> HIDE DEF e
<1> QED
  BY <1>1, <1>3, KeptReflexive, SameEdgesKept, KeepsParts
     DEF SameStrings, SameEdges, SameLog, Good, e

LEMMA InsertEdgeKeeps ==
  ASSUME NEW d, NEW e \in Edge, NEW id \in Nat, Good(d), id \notin DOMAIN d.edges
  PROVE  Keeps(d, InsertEdge(d, id, e))
<1> DEFINE g == InsertEdge(d, id, e)
<1>1. /\ g.edges = Insert(d.edges, id, e)
      /\ SameStrings(d, g) /\ SameNodes(d, g) /\ SameLog(d, g)
  BY DEF InsertEdge, Good, IsDatabase, HasTables, SameStrings, SameNodes, SameLog
<1>2. EdgesKept(d.edges, g.edges)
  BY <1>1, SameEdgesKept DEF EdgesKept, Insert, Good
<1> HIDE DEF g
<1> QED
  BY <1>1, <1>2, KeptReflexive, KeepsParts DEF SameStrings, SameNodes, SameLog, g

\* Invalidating moves an end only earlier.
LEMMA CloseEdgeKeeps ==
  ASSUME NEW d, NEW id \in DOMAIN d.edges, NEW at \in Time, Good(d),
         ~(d.edges[id].vt # NoTs /\ d.edges[id].vt <= at)
  PROVE  Keeps(d, [d EXCEPT !.edges = Insert(@, id, [d.edges[id] EXCEPT !.vt = at])])
<1> DEFINE e == d.edges[id]
           u == [e EXCEPT !.vt = at]
           g == [d EXCEPT !.edges = Insert(@, id, u)]
<1>1. /\ g.edges = Insert(d.edges, id, u)
      /\ SameStrings(d, g) /\ SameNodes(d, g) /\ SameLog(d, g)
  BY DEF Good, IsDatabase, HasTables, SameStrings, SameNodes, SameLog
<1>2. e \in Edge
  BY DEF Good, IsDatabase, IsTable
<1>3. Shortened(e, u)
  <2>1. u.vt = at /\ [u EXCEPT !.vt = e.vt] = e
    BY <1>2 DEF Edge
  <2>2. e.vt \in Time \cup {NoTs}
    BY <1>2 DEF Edge
  <2>3. u.vt # NoTs /\ (e.vt # NoTs => u.vt < e.vt)
    BY <2>1, <2>2, TimeAssumption
  <2> HIDE DEF u, e
  <2> QED
    BY <2>1, <2>3 DEF Shortened
<1> HIDE DEF u
<1>4. EdgesKept(d.edges, g.edges)
  BY <1>1, <1>3, SameEdgesKept DEF EdgesKept, Insert, Good
<1> HIDE DEF g
<1> QED
  BY <1>1, <1>4, KeptReflexive, KeepsParts DEF SameStrings, SameNodes, SameLog, g, u

-----------------------------------------------------------------------------
(* The operations *)

LEMMA UpsertNodeKeeps ==
  ASSUME NEW d, NEW ext \in Text, NEW type \in Text, NEW now \in Time, Good(d)
  PROVE  Keeps(d, UpsertNode(d, ext, type, now).db)
<1>1. CASE ext = Empty \/ ext \in DOMAIN d.extIds
  BY <1>1, KeepsReflexive DEF UpsertNode, Err, Ok, Good
<1>2. CASE ext # Empty /\ ext \notin DOMAIN d.extIds
  <2> DEFINE t  == InternOptional(d, type)
             id == t.db.nodeCtr + 1
             n  == [ext |-> ext, type |-> t.id]
             e  == InsertNode(t.db, id, n)
             f  == AppendEvent(e, NodeAdded(n), now)
  <2>1. UpsertNode(d, ext, type, now) = Ok(f, id)
    BY <1>2 DEF UpsertNode
  <2>2. /\ IsDatabase(t.db) /\ InternerBijective(t.db)
        /\ Resolves(t.db, t.id) /\ t.id \in Nat
        /\ DOMAIN d.strRev \subseteq DOMAIN t.db.strRev
        /\ SameNodes(d, t.db) /\ SameEdges(d, t.db) /\ SameLog(d, t.db)
    BY InternOptionalCorrect DEF Good, DbInv
  <2>3. Keeps(d, t.db)
    BY InternOptionalKeeps
  <2> HIDE DEF t
  <2>4. Good(t.db)
    BY <2>2, MoreStrings
  <2>5. /\ n \in Node /\ n.ext \notin DOMAIN t.db.extIds /\ Resolves(t.db, n.type)
    BY <1>2, <2>2 DEF Node, SameNodes
  <2> HIDE DEF n
  <2>6. Good(e) /\ Keeps(t.db, e)
    BY <2>4, <2>5, InsertNodeGood, InsertNodeKeeps
  <2> HIDE DEF e
  <2>7. NodeAdded(n) \in Event
    BY <2>5 DEF NodeAdded, Event
  <2>8. Good(f) /\ Keeps(e, f)
    BY <2>6, <2>7, AppendGood, AppendKeeps
  <2> HIDE DEF f
  <2>9. Keeps(d, f)
    BY <2>3, <2>4, <2>6, <2>8, KeepsTransitive DEF Good
  <2> QED
    BY <2>1, <2>9 DEF Ok
<1> QED
  BY <1>1, <1>2

\* A failing call keeps the rows too: it leaves strings and a gap in the ids.
LEMMA AddEdgeInternalKeeps ==
  ASSUME NEW d, NEW from \in DOMAIN d.nodes, NEW to \in DOMAIN d.nodes,
         NEW in \in EdgeInput, NEW old \in Nat, NEW now \in Time,
         Good(d), MayRevise(d, old, in.vf)
  PROVE  Keeps(d, AddEdgeInternal(d, from, to, in, old, now).db)
<1> DEFINE t  == Intern(d, in.type)
           s  == InternOptional(t.db, in.source)
           id == s.db.edgeCtr + 1
           d1 == [s.db EXCEPT !.edgeCtr = id]
           e  == [from |-> from, to |-> to, type |-> t.id, source |-> s.id,
                  vf |-> in.vf, vt |-> in.vt, supersedes |-> old]
           g  == InsertEdge(d1, id, e)
           h  == AppendEvent(g, EdgeObserved(e), now)
<1>1. /\ in.type \in Text /\ in.source \in Text
      /\ in.vf \in Time /\ in.vt \in Time \cup {NoTs}
  BY DEF EdgeInput
<1>2. AddEdgeInternal(d, from, to, in, old, now)
        = IF in.confident /\ ValidEdge(e) THEN Ok(h, id) ELSE Err(d1)
  BY DEF AddEdgeInternal
<1>3. /\ IsDatabase(t.db) /\ InternerBijective(t.db)
      /\ t.id \in DOMAIN t.db.strRev /\ t.id \in Nat
      /\ DOMAIN d.strRev \subseteq DOMAIN t.db.strRev
      /\ SameNodes(d, t.db) /\ SameEdges(d, t.db) /\ SameLog(d, t.db)
  BY <1>1, InternCorrect DEF Good, DbInv
<1>4. Keeps(d, t.db)
  BY <1>1, InternKeeps
<1> HIDE DEF t
<1>5. Good(t.db)
  BY <1>3, MoreStrings
<1>6. /\ IsDatabase(s.db) /\ InternerBijective(s.db)
      /\ Resolves(s.db, s.id) /\ s.id \in Nat
      /\ DOMAIN t.db.strRev \subseteq DOMAIN s.db.strRev
      /\ SameNodes(t.db, s.db) /\ SameEdges(t.db, s.db) /\ SameLog(t.db, s.db)
  BY <1>1, <1>3, InternOptionalCorrect
<1>7. Keeps(t.db, s.db)
  BY <1>1, <1>5, InternOptionalKeeps
<1> HIDE DEF s
<1>8. Good(s.db)
  BY <1>5, <1>6, MoreStrings
<1>9. /\ Good(d1) /\ id \in Nat /\ d1.edgeCtr = id
      /\ id \notin DOMAIN d1.edges /\ d1.edges = s.db.edges
      /\ SameStrings(s.db, d1) /\ SameNodes(s.db, d1) /\ SameLog(s.db, d1)
  BY <1>8, TakeEdgeIdGood
<1>10. id > 0
  BY <1>8 DEF Good, IsDatabase
<1> HIDE DEF d1
<1>11. Keeps(s.db, d1)
  BY <1>8, <1>9, KeptReflexive, SameEdgesKept, KeepsParts
     DEF SameStrings, SameNodes, SameLog, Good
<1>12. Keeps(d, d1)
  <2>1. Keeps(d, s.db)
    BY <1>4, <1>5, <1>7, <1>8, KeepsTransitive DEF Good
  <2> QED
    BY <2>1, <1>8, <1>9, <1>11, KeepsTransitive DEF Good
<1>13. CASE in.confident /\ ValidEdge(e)
  <2>1. /\ e \in Edge
        /\ e.from = from /\ e.to = to /\ e.type = t.id /\ e.source = s.id
        /\ e.vf = in.vf /\ e.supersedes = old
    <3>1. from \in Nat /\ to \in Nat
      BY DEF Good, IsDatabase, IsTable
    <3> QED
      BY <1>1, <1>3, <1>6, <3>1 DEF Edge
  <2>2. AddEdgeInternal(d, from, to, in, old, now).db = h
    BY <1>2, <1>13 DEF Ok
  <2>3. ValidEdge(e)
    BY <1>13
  <2> HIDE DEF e, id
  <2>4. /\ e.from \in DOMAIN d1.nodes /\ e.to \in DOMAIN d1.nodes
        /\ e.type \in DOMAIN d1.strRev /\ Resolves(d1, e.source)
    BY <2>1, <1>3, <1>6, <1>9 DEF SameNodes, SameStrings, Resolves
  <2>5. MayRevise(d1, e.supersedes, e.vf)
    BY <2>1, <1>3, <1>6, <1>9 DEF MayRevise, SameEdges
  <2>6. Good(g)
    BY <1>9, <1>10, <2>1, <2>3, <2>4, <2>5, InsertEdgeGood
  <2>7. Keeps(d1, g)
    BY <1>9, <2>1, InsertEdgeKeeps
  <2> HIDE DEF g
  <2>8. EdgeObserved(e) \in Event
    BY <2>1 DEF EdgeObserved, Event
  <2>9. Good(h) /\ Keeps(g, h)
    BY <2>6, <2>8, AppendGood, AppendKeeps
  <2> HIDE DEF h
  <2>10. Keeps(d1, h)
    BY <1>9, <2>6, <2>7, <2>9, KeepsTransitive DEF Good
  <2> QED
    BY <1>9, <1>12, <2>2, <2>9, <2>10, KeepsTransitive DEF Good
<1>14. CASE ~(in.confident /\ ValidEdge(e))
  BY <1>2, <1>12, <1>14 DEF Err
<1> QED
  BY <1>13, <1>14

LEMMA AddEdgeKeeps ==
  ASSUME NEW d, NEW in \in EdgeInput, NEW clk \in [1..3 -> Time], Good(d)
  PROVE  Keeps(d, AddEdge(d, in, clk).db)
<1> DEFINE f == UpsertNode(d, in.from, Empty, clk[1])
           t == UpsertNode(f.db, in.to, Empty, clk[2])
           n == AddEdgeInternal(t.db, f.id, t.id, in, Zero, clk[3])
<1>1. /\ in.from \in Text /\ in.to \in Text
      /\ clk[1] \in Time /\ clk[2] \in Time /\ clk[3] \in Time
  BY DEF EdgeInput
<1>2. CASE in.type = Empty \/ (in.from = in.to /\ in.from = Empty)
  BY <1>2, KeepsReflexive DEF AddEdge, Err, Good
<1>3. CASE ~(in.type = Empty \/ (in.from = in.to /\ in.from = Empty))
  <2>1. AddEdge(d, in, clk) = IF ~f.ok THEN f ELSE IF ~t.ok THEN t ELSE n
    BY <1>3 DEF AddEdge
  <2>2. /\ f.ok \in BOOLEAN /\ Good(f.db) /\ (f.ok => f.id \in DOMAIN f.db.nodes)
        /\ Keeps(d, f.db)
    BY <1>1, TextAssumption, UpsertNodeGood, UpsertNodeKeeps
  <2> HIDE DEF f
  <2>3. /\ t.ok \in BOOLEAN /\ Good(t.db) /\ (t.ok => t.id \in DOMAIN t.db.nodes)
        /\ DOMAIN f.db.nodes \subseteq DOMAIN t.db.nodes
        /\ Keeps(f.db, t.db)
    <3>1. /\ t.ok \in BOOLEAN /\ Good(t.db) /\ (t.ok => t.id \in DOMAIN t.db.nodes)
          /\ DOMAIN f.db.nodes \subseteq DOMAIN t.db.nodes
      <4>1. Good(f.db)
        BY <2>2
      <4> QED
        BY <1>1, <4>1, TextAssumption, UpsertNodeGood
    <3>2. Keeps(f.db, t.db)
      BY <1>1, <2>2, TextAssumption, UpsertNodeKeeps
    <3> QED
      BY <3>1, <3>2
  <2> HIDE DEF t
  <2>4. Keeps(d, t.db)
    BY <2>2, <2>3, KeepsTransitive DEF Good
  <2>5. CASE f.ok /\ t.ok
    <3>1. f.id \in DOMAIN t.db.nodes /\ t.id \in DOMAIN t.db.nodes
      BY <2>2, <2>3, <2>5
    <3>2. Zero \in Nat /\ MayRevise(t.db, Zero, in.vf)
      BY DEF Zero, MayRevise
    <3>3. Good(n.db) /\ Keeps(t.db, n.db)
      BY <1>1, <2>3, <3>1, <3>2, AddEdgeInternalGood, AddEdgeInternalKeeps
    <3> HIDE DEF n
    <3>4. Keeps(d, n.db)
      BY <2>3, <2>4, <3>3, KeepsTransitive DEF Good
    <3> QED
      BY <2>1, <2>5, <3>4
  <2>6. CASE ~f.ok \/ ~t.ok
    BY <2>1, <2>2, <2>3, <2>4, <2>6
  <2> QED
    BY <2>5, <2>6
<1> QED
  BY <1>2, <1>3

LEMMA InvalidateEdgeKeeps ==
  ASSUME NEW d, NEW id, NEW at \in Time, NEW now \in Time, Good(d)
  PROVE  Keeps(d, InvalidateEdge(d, id, at, now).db)
<1> DEFINE e == d.edges[id]
           u == [e EXCEPT !.vt = at]
           g == [d EXCEPT !.edges = Insert(@, id, u)]
           h == AppendEvent(g, EdgeInvalidated(id, at), now)
<1>1. CASE \/ id \notin DOMAIN d.edges \/ (e.vt # NoTs /\ e.vt <= at)
           \/ ~ValidEdge(u)
  BY <1>1, KeepsReflexive DEF InvalidateEdge, Ok, Err, Good
<1>2. CASE id \in DOMAIN d.edges /\ ~(e.vt # NoTs /\ e.vt <= at) /\ ValidEdge(u)
  <2>1. InvalidateEdge(d, id, at, now) = Ok(h, id)
    BY <1>2 DEF InvalidateEdge
  <2>2. Good(g) /\ Keeps(d, g)
    BY <1>2, CloseEdgeGood, CloseEdgeKeeps
  <2> HIDE DEF g
  <2>3. EdgeInvalidated(id, at) \in Event
    <3>1. id \in Nat
      BY <1>2 DEF Good, IsDatabase, IsTable
    <3> QED
      BY <3>1 DEF EdgeInvalidated, Event
  <2>4. Good(h) /\ Keeps(g, h)
    BY <2>2, <2>3, AppendGood, AppendKeeps
  <2> HIDE DEF h
  <2>5. Keeps(d, h)
    BY <2>2, <2>4, KeepsTransitive DEF Good
  <2> QED
    BY <2>1, <2>5 DEF Ok
<1> QED
  BY <1>1, <1>2

LEMMA SupersedeEdgeKeeps ==
  ASSUME NEW d, NEW old \in Nat, NEW in \in EdgeInput,
         NEW clk \in [1..5 -> Time], Good(d)
  PROVE  Keeps(d, SupersedeEdge(d, old, in, clk).db)
<1> DEFINE f == UpsertNode(d, in.from, Empty, clk[1])
           t == UpsertNode(f.db, in.to, Empty, clk[2])
           c == InvalidateEdge(t.db, old, in.vf, clk[3])
           n == AddEdgeInternal(c.db, f.id, t.id, in, old, clk[4])
           v == EdgeSuperseded(old, n.db.edges[n.id])
           h == AppendEvent(n.db, v, clk[5])
<1>1. /\ in.from \in Text /\ in.to \in Text /\ in.vf \in Time
      /\ clk[1] \in Time /\ clk[2] \in Time /\ clk[3] \in Time
      /\ clk[4] \in Time /\ clk[5] \in Time
  BY DEF EdgeInput
<1>2. CASE old \notin DOMAIN d.edges
  BY <1>2, KeepsReflexive DEF SupersedeEdge, Err, Good
<1>3. CASE old \in DOMAIN d.edges
  <2>1. SupersedeEdge(d, old, in, clk)
          = IF ~f.ok THEN f ELSE IF ~t.ok THEN t ELSE IF ~c.ok THEN c
            ELSE IF ~n.ok THEN n ELSE Ok(h, n.id)
    BY <1>3 DEF SupersedeEdge
  <2>2. /\ f.ok \in BOOLEAN /\ Good(f.db) /\ (f.ok => f.id \in DOMAIN f.db.nodes)
        /\ Keeps(d, f.db)
    BY <1>1, TextAssumption, UpsertNodeGood, UpsertNodeKeeps
  <2> HIDE DEF f
  <2>3. /\ t.ok \in BOOLEAN /\ Good(t.db) /\ (t.ok => t.id \in DOMAIN t.db.nodes)
        /\ DOMAIN f.db.nodes \subseteq DOMAIN t.db.nodes
        /\ Keeps(f.db, t.db)
    <3>1. /\ t.ok \in BOOLEAN /\ Good(t.db) /\ (t.ok => t.id \in DOMAIN t.db.nodes)
          /\ DOMAIN f.db.nodes \subseteq DOMAIN t.db.nodes
      <4>1. Good(f.db)
        BY <2>2
      <4> QED
        BY <1>1, <4>1, TextAssumption, UpsertNodeGood
    <3>2. Keeps(f.db, t.db)
      BY <1>1, <2>2, TextAssumption, UpsertNodeKeeps
    <3> QED
      BY <3>1, <3>2
  <2> HIDE DEF t
  <2>4. /\ c.ok \in BOOLEAN /\ Good(c.db) /\ SameNodes(t.db, c.db)
        /\ c.ok => MayRevise(c.db, old, in.vf)
        /\ Keeps(t.db, c.db)
    BY <1>1, <2>3, InvalidateEdgeGood, InvalidateEdgeKeeps DEF MayRevise
  <2> HIDE DEF c
  <2>5. Keeps(d, t.db)
    BY <2>2, <2>3, KeepsTransitive DEF Good
  <2>6. Keeps(d, c.db)
    BY <2>3, <2>4, <2>5, KeepsTransitive DEF Good
  <2>7. CASE ~f.ok \/ ~t.ok \/ ~c.ok
    BY <2>1, <2>2, <2>3, <2>4, <2>5, <2>6, <2>7
  <2>8. CASE f.ok /\ t.ok /\ c.ok
    <3>1. f.id \in DOMAIN c.db.nodes /\ t.id \in DOMAIN c.db.nodes
      BY <2>2, <2>3, <2>4, <2>8 DEF SameNodes
    <3>2. /\ n.ok \in BOOLEAN /\ Good(n.db)
          /\ n.ok => n.id \in DOMAIN n.db.edges
          /\ Keeps(c.db, n.db)
      BY <1>1, <2>4, <2>8, <3>1, AddEdgeInternalGood, AddEdgeInternalKeeps
    <3> HIDE DEF n
    <3>3. Keeps(d, n.db)
      BY <2>4, <2>6, <3>2, KeepsTransitive DEF Good
    <3>4. CASE ~n.ok
      BY <2>1, <2>8, <3>3, <3>4
    <3>5. CASE n.ok
      <4>1. n.db.edges[n.id] \in Edge
        BY <3>2, <3>5 DEF Good, IsDatabase, IsTable
      <4>2. v \in Event
        BY <4>1 DEF EdgeSuperseded, Event
      <4> HIDE DEF v
      <4>3. Good(h) /\ Keeps(n.db, h)
        BY <1>1, <3>2, <4>2, AppendGood, AppendKeeps
      <4> HIDE DEF h
      <4>4. Keeps(d, h)
        BY <3>2, <3>3, <4>3, KeepsTransitive DEF Good
      <4> QED
        BY <2>1, <2>8, <3>5, <4>4 DEF Ok
    <3> QED
      BY <3>4, <3>5
  <2> QED
    BY <2>7, <2>8
<1> QED
  BY <1>2, <1>3

-----------------------------------------------------------------------------
(* What a reader sees of what was kept *)

\* An id keeps its string: intern adds to both halves.
LEMMA StringKept ==
  ASSUME NEW d, NEW e, Good(d), Good(e), Keeps(d, e), NEW i, Resolves(d, i)
  PROVE  StringOf(e, i) = StringOf(d, i)
<1>1. CASE i = Zero
  BY <1>1 DEF StringOf
<1>2. CASE i # Zero
  <2> DEFINE s == d.strRev[i]
  <2>1. s \in DOMAIN d.strFwd /\ d.strFwd[s] = i
    BY <1>2 DEF Resolves, Good, DbInv, InternerBijective
  <2>2. s \in DOMAIN e.strFwd /\ e.strFwd[s] = i
    BY <2>1, KeepsParts DEF Kept
  <2>3. e.strRev[i] = s
    BY <2>2 DEF Good, DbInv, InternerBijective
  <2> QED
    BY <1>2, <2>3 DEF StringOf
<1> QED
  BY <1>1, <1>2

\* A name keeps its node, and the node its type.
LEMMA NodesKeptInView ==
  ASSUME NEW d, NEW e, Good(d), Good(e), Keeps(d, e), NEW x \in DOMAIN d.extIds
  PROVE  x \in DOMAIN e.extIds /\ View(e).nodes[x] = View(d).nodes[x]
<1> DEFINE n == d.extIds[x]
<1>1. n \in DOMAIN d.nodes /\ d.nodes[n].ext = x /\ Resolves(d, d.nodes[n].type)
  BY DEF Good, DbInv, NodesNamed
<1>2. n \in DOMAIN e.nodes /\ e.nodes[n] = d.nodes[n]
  BY <1>1, KeepsParts DEF Kept
<1>3. x \in DOMAIN e.extIds /\ e.extIds[x] = n
  BY <1>1, <1>2 DEF Good, DbInv, NodesNamed
<1>4. StringOf(e, d.nodes[n].type) = StringOf(d, d.nodes[n].type)
  BY <1>1, StringKept
<1> QED
  BY <1>2, <1>3, <1>4 DEF View

\* What a reader sees of an edge that a call left alone, or closed.
LEMMA EdgeKeptInView ==
  ASSUME NEW d, NEW e, Good(d), Good(e), Keeps(d, e), NEW i \in DOMAIN d.edges
  PROVE  /\ i \in DOMAIN e.edges
         /\ ViewEdge(e, i) = [ViewEdge(d, i) EXCEPT !.vt = e.edges[i].vt]
<1> DEFINE f == d.edges[i]
           g == e.edges[i]
<1>1. i \in DOMAIN e.edges /\ Shortened(f, g)
  BY KeepsParts DEF EdgesKept
<1>2. f \in Edge /\ g \in Edge
  BY <1>1 DEF Good, IsDatabase, IsTable
<1>3. /\ g.from = f.from /\ g.to = f.to /\ g.type = f.type /\ g.source = f.source
      /\ g.vf = f.vf /\ g.supersedes = f.supersedes
  <2>1. [g EXCEPT !.vt = f.vt] = f
    BY <1>1 DEF Shortened
  <2> HIDE DEF f, g
  <2> QED
    BY <1>2, <2>1 DEF Edge
<1>4. /\ {f.from, f.to} \subseteq DOMAIN d.nodes
      /\ f.type \in DOMAIN d.strRev /\ f.type # Zero /\ Resolves(d, f.source)
  <2>1. DOMAIN d.strRev = 1..d.strCtr /\ d.strCtr \in Nat
    BY DEF Good, IsDatabase, DbInv, InternerBijective
  <2> QED
    BY <2>1 DEF Good, DbInv, EdgesResolve, Zero
<1>5. e.nodes[f.from] = d.nodes[f.from] /\ e.nodes[f.to] = d.nodes[f.to]
  BY <1>4, KeepsParts DEF Kept
<1>6. StringOf(e, f.source) = StringOf(d, f.source)
  BY <1>4, StringKept
<1>7. e.strRev[f.type] = d.strRev[f.type]
  BY <1>4, StringKept DEF StringOf, Resolves
<1> HIDE DEF f, g
<1>8. /\ ViewEdge(d, i) = [from |-> d.nodes[f.from].ext, to |-> d.nodes[f.to].ext,
                           type |-> d.strRev[f.type], source |-> StringOf(d, f.source),
                           vf |-> f.vf, vt |-> f.vt, revises |-> f.supersedes]
      /\ ViewEdge(e, i) = [from |-> e.nodes[g.from].ext, to |-> e.nodes[g.to].ext,
                           type |-> e.strRev[g.type], source |-> StringOf(e, g.source),
                           vf |-> g.vf, vt |-> g.vt, revises |-> g.supersedes]
  BY DEF ViewEdge, f, g
<1>9. e.edges[i].vt = g.vt
  BY DEF g
<1> QED
  BY <1>1, <1>3, <1>5, <1>6, <1>7, <1>8, <1>9

-----------------------------------------------------------------------------
(* Induction, in the form of sets: a set that holds 0 and every successor   *)
(* of its members holds every number, since else there were a least one.    *)

LEMMA NatSet ==
  ASSUME NEW S, 0 \in S, \A n \in Nat : n \in S => n + 1 \in S
  PROVE  Nat \subseteq S
<1> SUFFICES ASSUME Nat \ S # {} PROVE FALSE
  OBVIOUS
<1> DEFINE R == OpToRel(<, Nat)
<1>1. PICK x \in Nat \ S : \A y \in Nat \ S : <<y, x>> \notin R
  <2>1. IsWellFoundedOn(R, Nat)
    BY NatLessThanWellFounded
  <2> HIDE DEF R
  <2>2. Nat \ S \subseteq Nat
    OBVIOUS
  <2> QED
    BY <2>1, <2>2, WFMin
<1>2. \A y \in Nat \ S : ~(y < x)
  BY <1>1 DEF OpToRel
<1>3. x # 0 /\ x - 1 \in Nat /\ x - 1 < x /\ (x - 1) + 1 = x
  OBVIOUS
<1> QED
  BY <1>2, <1>3

-----------------------------------------------------------------------------
(* Scans *)

\* A range scan over an index that mirrors the edges by one of their endpoints
\* finds exactly the live edges with that endpoint.
LEMMA ScanExact ==
  ASSUME NEW d, NEW adj, NEW ends, NEW node, NEW t,
         DOMAIN adj = {<<ends[i], d.edges[i].vf, i>> : i \in DOMAIN d.edges}
  PROVE  ScanAdjacency(d, adj, node, t)
           = {i \in DOMAIN d.edges : ends[i] = node /\ LiveAt(d.edges[i], t)}
<1> DEFINE scan == ScanAdjacency(d, adj, node, t)
<1>1. ASSUME NEW i \in scan
      PROVE  i \in DOMAIN d.edges /\ ends[i] = node /\ LiveAt(d.edges[i], t)
  <2>1. PICK k \in DOMAIN adj : k[1] = node /\ k[2] <= t /\ k[3] = i
    BY DEF ScanAdjacency, AdjRange
  <2>2. PICK j \in DOMAIN d.edges : k = <<ends[j], d.edges[j].vf, j>>
    BY <2>1
  <2>3. j = i /\ ends[i] = node
    BY <2>1, <2>2
  <2> QED
    BY <2>3 DEF ScanAdjacency
<1>2. ASSUME NEW i \in DOMAIN d.edges, ends[i] = node, LiveAt(d.edges[i], t)
      PROVE  i \in scan
  <2> DEFINE k == <<ends[i], d.edges[i].vf, i>>
  <2>1. k \in DOMAIN adj /\ k[1] = node /\ k[2] = d.edges[i].vf /\ k[3] = i
    BY <1>2
  <2>2. k \in AdjRange(adj, node, t)
    BY <1>2, <2>1 DEF AdjRange, LiveAt
  <2> HIDE DEF k
  <2> QED
    BY <1>2, <2>1, <2>2 DEF ScanAdjacency
<1> QED
  BY <1>1, <1>2 DEF ScanAdjacency

\* In a finite total order a member's place is the number of those below it:
\* every place is taken, by one member each.
LEMMA PlacesTaken ==
  ASSUME NEW ids, IsFiniteSet(ids), NEW below,
         \A i \in ids : below[i] \subseteq ids /\ i \notin below[i],
         \A i, j \in ids : j \in below[i] => below[j] \subseteq below[i],
         \A i, j \in ids : i = j \/ i \in below[j] \/ j \in below[i]
  PROVE  /\ Cardinality(ids) \in Nat
         /\ \A i \in ids : Cardinality(below[i]) \in 0..(Cardinality(ids) - 1)
         /\ \A i, j \in ids : Cardinality(below[j]) < Cardinality(below[i]) => j \in below[i]
         /\ \A i, j \in ids : Cardinality(below[j]) = Cardinality(below[i]) => i = j
         /\ \A k \in 0..(Cardinality(ids) - 1) : \E i \in ids : Cardinality(below[i]) = k
<1> DEFINE n == Cardinality(ids)
           place == [i \in ids |-> Cardinality(below[i])]
<1>1. n \in Nat
  BY FS_CardinalityType
<1>2. ASSUME NEW i \in ids
      PROVE  IsFiniteSet(below[i]) /\ Cardinality(below[i]) \in 0..(n - 1)
  <2>1. below[i] \in SUBSET ids /\ below[i] # ids
    OBVIOUS
  <2>2. IsFiniteSet(below[i]) /\ Cardinality(below[i]) <= n /\ Cardinality(below[i]) # n
    BY <2>1, FS_Subset
  <2>3. Cardinality(below[i]) \in Nat
    BY <2>2, FS_CardinalityType
  <2> QED
    BY <1>1, <2>2, <2>3
<1>3. ASSUME NEW i \in ids, NEW j \in ids, j \in below[i]
      PROVE  Cardinality(below[j]) < Cardinality(below[i])
  <2>1. below[j] \in SUBSET below[i] /\ below[j] # below[i]
    BY <1>3
  <2>2. /\ Cardinality(below[j]) <= Cardinality(below[i])
        /\ Cardinality(below[i]) # Cardinality(below[j])
    BY <1>2, <2>1, FS_Subset
  <2> QED
    BY <1>1, <1>2, <2>2
<1>4. \A i, j \in ids : Cardinality(below[j]) = Cardinality(below[i]) => i = j
  BY <1>1, <1>2, <1>3
<1>5. ASSUME NEW i \in ids, NEW j \in ids, Cardinality(below[j]) < Cardinality(below[i])
      PROVE  j \in below[i]
  <2>1. i # j /\ i \notin below[j]
    BY <1>1, <1>2, <1>3, <1>5
  <2> QED
    BY <2>1
<1>6. place \in Injection(ids, 0..(n - 1))
  <2>1. place \in [ids -> 0..(n - 1)]
    BY <1>2
  <2>2. \A i \in ids : place[i] = Cardinality(below[i])
    OBVIOUS
  <2> HIDE DEF place, n
  <2> QED
    BY <1>4, <2>1, <2>2 DEF Injection, IsInjective
<1>7. IsFiniteSet(0..(n - 1)) /\ Cardinality(0..(n - 1)) = n
  BY <1>1, FS_Interval
<1>8. place \in Surjection(ids, 0..(n - 1))
  BY <1>6, <1>7, FS_Injection
<1>9. \A k \in 0..(n - 1) : \E i \in ids : Cardinality(below[i]) = k
  BY <1>8 DEF Surjection
<1> QED
  BY <1>1, <1>2, <1>4, <1>5, <1>9

\* Edge i comes before edge j in an adjacency index.
Earlier(d, i, j) == \/ d.edges[i].vf < d.edges[j].vf
                    \/ d.edges[i].vf = d.edges[j].vf /\ i < j

\* scan_adjacency lists each id it finds once, in the order of the index.
LEMMA ScanListed ==
  ASSUME NEW d, Good(d), NEW adj, NEW node, NEW t
  PROVE  LET ids == ScanAdjacency(d, adj, node, t)
             s   == ScanInOrder(d, adj, node, t)
         IN /\ ids \subseteq DOMAIN d.edges
            /\ Cardinality(ids) \in Nat
            /\ DOMAIN s = 1..Cardinality(ids) /\ s = [k \in DOMAIN s |-> s[k]]
            /\ {s[k] : k \in DOMAIN s} = ids
            /\ \A j, k \in DOMAIN s : j < k => Earlier(d, s[j], s[k])
            /\ \A j, k \in DOMAIN s : s[j] = s[k] => j = k
<1> DEFINE ids == ScanAdjacency(d, adj, node, t)
           s   == ScanInOrder(d, adj, node, t)
           Below(i) == {j \in ids : Earlier(d, j, i)}
           below == [i \in ids |-> Below(i)]
           n == Cardinality(ids)
<1>1. ids \subseteq DOMAIN d.edges
  BY DEF ScanAdjacency
<1>2. d.edgeCtr \in Nat /\ DOMAIN d.edges \subseteq 1..d.edgeCtr
  BY DEF Good, IsDatabase, DbInv, EdgesResolve
<1>3. IsFiniteSet(ids)
  <2>1. IsFiniteSet(1..d.edgeCtr)
    <3> DEFINE m == d.edgeCtr
    <3>1. m \in Int
      BY <1>2
    <3> HIDE DEF m
    <3>2. IsFiniteSet(1..m)
      BY <3>1, FS_Interval
    <3> QED
      BY <3>2 DEF m
  <2> QED
    BY <1>1, <1>2, <2>1, FS_Subset
<1>4. \A i \in DOMAIN d.edges : d.edges[i].vf \in Int /\ i \in Int
  <2>1. \A i \in DOMAIN d.edges : d.edges[i] \in Edge
    BY DEF Good, IsDatabase, IsTable
  <2>2. \A e \in Edge : e.vf \in Int
    BY TimeAssumption DEF Edge
  <2>3. DOMAIN d.edges \subseteq Int
    BY <1>2
  <2> QED
    BY <2>1, <2>2, <2>3
<1>5. s = [k \in 1..n |-> CHOOSE i \in ids : Cardinality(Below(i)) = k - 1]
  BY DEF ScanInOrder, Earlier
<1> HIDE DEF ids, s
<1>18. s = [k \in DOMAIN s |-> s[k]]
  <2> DEFINE E(k) == CHOOSE i \in ids : Cardinality(Below(i)) = k - 1
  <2>1. s = [k \in 1..n |-> E(k)]
    BY <1>5
  <2> HIDE DEF E
  <2> QED
    BY <2>1
<1>6. \A i \in ids : below[i] \subseteq ids /\ i \notin below[i]
  BY <1>1, <1>4 DEF Earlier
<1>7. \A i, j \in ids : j \in below[i] => below[j] \subseteq below[i]
  BY <1>1, <1>4 DEF Earlier
<1>8. \A i, j \in ids : i = j \/ i \in below[j] \/ j \in below[i]
  BY <1>1, <1>4 DEF Earlier
<1>9. \A i, j \in ids : j \in below[i] => Earlier(d, j, i)
  OBVIOUS
<1>17. \A i \in ids : below[i] = Below(i)
  OBVIOUS
<1> HIDE DEF below, Below
<1>10. /\ n \in Nat
       /\ \A i \in ids : Cardinality(below[i]) \in 0..(n - 1)
       /\ \A i, j \in ids : Cardinality(below[j]) < Cardinality(below[i]) => j \in below[i]
       /\ \A i, j \in ids : Cardinality(below[j]) = Cardinality(below[i]) => i = j
       /\ \A k \in 0..(n - 1) : \E i \in ids : Cardinality(below[i]) = k
  BY <1>3, <1>6, <1>7, <1>8, PlacesTaken
<1> HIDE DEF n
<1>11. DOMAIN s = 1..n
  BY <1>5
<1>12. \A k \in 1..n : s[k] \in ids /\ Cardinality(below[s[k]]) = k - 1
  <2> TAKE k \in 1..n
  <2>1. k - 1 \in 0..(n - 1)
    BY <1>10
  <2>2. \E i \in ids : Cardinality(Below(i)) = k - 1
    BY <1>10, <1>17, <2>1
  <2>3. s[k] = CHOOSE i \in ids : Cardinality(Below(i)) = k - 1
    BY <1>5
  <2> QED
    BY <1>17, <2>2, <2>3
<1>13. \A i \in ids : \E k \in 1..n : s[k] = i
  <2> TAKE i \in ids
  <2> DEFINE k == Cardinality(below[i]) + 1
  <2>1. k \in 1..n /\ k - 1 = Cardinality(below[i])
    BY <1>10
  <2> QED
    BY <1>10, <1>12, <2>1
<1>14. \A j, k \in 1..n : j < k => Earlier(d, s[j], s[k])
  <2> TAKE j, k \in 1..n
  <2> HAVE j < k
  <2>1. s[j] \in ids /\ s[k] \in ids /\ Cardinality(below[s[j]]) < Cardinality(below[s[k]])
    BY <1>10, <1>12
  <2> QED
    BY <1>9, <1>10, <2>1
<1>15. \A j, k \in 1..n : s[j] = s[k] => j = k
  <2> TAKE j, k \in 1..n
  <2> HAVE s[j] = s[k]
  <2>1. j - 1 = k - 1
    BY <1>12
  <2> QED
    BY <1>10, <2>1
<1>16. {s[k] : k \in DOMAIN s} = ids
  BY <1>11, <1>12, <1>13
<1> QED
  BY <1>1, <1>10, <1>11, <1>14, <1>15, <1>16, <1>18 DEF ids, s, n

-----------------------------------------------------------------------------

\* A function on 1..n with values in S is a sequence of them.
LEMMA FunctionSeq ==
  ASSUME NEW S, NEW n \in Nat, NEW s, s = [k \in 1..n |-> s[k]], \A k \in 1..n : s[k] \in S
  PROVE  s \in Seq(S) /\ Len(s) = n
<1>1. s \in [1..n -> S]
  OBVIOUS
<1>2. s \in Seq(S)
  BY <1>1, SeqDef
<1>3. Len(s) \in Nat /\ 1..Len(s) = 1..n
  BY <1>1, <1>2, LenProperties
<1> QED
  BY <1>2, <1>3

-----------------------------------------------------------------------------
(* What a reader sees of the edge that add_edge stored *)

\* The id intern returns stands for the string it was given.
LEMMA InternMeans ==
  ASSUME NEW d, NEW s \in Text, IsDatabase(d), InternerBijective(d)
  PROVE  LET r == Intern(d, s) IN r.db.strRev[r.id] = s /\ r.id # Zero
<1> DEFINE r == Intern(d, s)
<1>1. r.db.strRev[r.id] = s
  <2>1. CASE s \in DOMAIN d.strFwd
    BY <2>1 DEF Intern, Ok, InternerBijective
  <2>2. CASE s \notin DOMAIN d.strFwd
    <3>1. r.db.strRev = Insert(d.strRev, r.id, s)
      BY <2>2, InternNew
    <3> HIDE DEF r
    <3> QED
      BY <3>1 DEF Insert
  <2> QED
    BY <2>1, <2>2
<1>2. r.id \in DOMAIN r.db.strRev /\ IsDatabase(r.db) /\ InternerBijective(r.db)
  BY InternCorrect
<1> HIDE DEF r
<1>3. r.id \in 1..r.db.strCtr
  BY <1>2 DEF InternerBijective
<1>4. r.id # Zero
  BY <1>3 DEF Zero
<1> QED
  BY <1>1, <1>4 DEF r

LEMMA InternOptionalMeans ==
  ASSUME NEW d, NEW s \in Text, IsDatabase(d), InternerBijective(d)
  PROVE  LET r == InternOptional(d, s) IN StringOf(r.db, r.id) = s
<1>1. CASE s = Empty
  BY <1>1 DEF InternOptional, Ok, StringOf
<1>2. CASE s # Empty
  BY <1>2, InternMeans DEF InternOptional, StringOf
<1> QED
  BY <1>1, <1>2

\* The node upsert_node returns has the name it was given.
LEMMA UpsertNodeNames ==
  ASSUME NEW d, NEW ext \in Text, NEW type \in Text, NEW now \in Time, Good(d)
  PROVE  LET r == UpsertNode(d, ext, type, now) IN r.ok => r.db.nodes[r.id].ext = ext
<1>1. CASE ext = Empty
  BY <1>1 DEF UpsertNode, Err
<1>2. CASE ext # Empty /\ ext \in DOMAIN d.extIds
  BY <1>2 DEF UpsertNode, Ok, Good, DbInv, NodesNamed
<1>3. CASE ext # Empty /\ ext \notin DOMAIN d.extIds
  <2> DEFINE t  == InternOptional(d, type)
             id == t.db.nodeCtr + 1
             n  == [ext |-> ext, type |-> t.id]
             e  == InsertNode(t.db, id, n)
             f  == AppendEvent(e, NodeAdded(n), now)
  <2>1. UpsertNode(d, ext, type, now) = Ok(f, id)
    BY <1>3 DEF UpsertNode
  <2>2. HasTables(t.db)
    BY InternOptionalCorrect DEF Good, DbInv, IsDatabase
  <2> HIDE DEF t
  <2>3. n.ext = ext
    OBVIOUS
  <2> HIDE DEF n, id
  <2>4. f.nodes = Insert(t.db.nodes, id, n)
    BY <2>2 DEF AppendEvent, InsertNode, HasTables
  <2>5. f.nodes[id] = n
    BY <2>4 DEF Insert
  <2> HIDE DEF f
  <2> QED
    BY <2>1, <2>3, <2>5 DEF Ok
<1> QED
  BY <1>1, <1>2, <1>3

\* Edge i of d is between these nodes and says what in says.
Stores(d, i, from, to, in) ==
  LET e == d.edges[i]
  IN /\ e.from = from /\ e.to = to /\ e.vf = in.vf /\ e.vt = in.vt
     /\ d.strRev[e.type] = in.type
     /\ StringOf(d, e.source) = in.source

\* add_edge_internal stores what it was given, under an id past all others.
LEMMA AddEdgeInternalStores ==
  ASSUME NEW d, NEW from \in DOMAIN d.nodes, NEW to \in DOMAIN d.nodes,
         NEW in \in EdgeInput, NEW old \in Nat, NEW now \in Time, Good(d)
  PROVE  LET r == AddEdgeInternal(d, from, to, in, old, now)
         IN r.ok => /\ Stores(r.db, r.id, from, to, in)
                    /\ r.id \in Nat
                    /\ \A i \in DOMAIN d.edges : i < r.id
<1> DEFINE t  == Intern(d, in.type)
           s  == InternOptional(t.db, in.source)
           id == s.db.edgeCtr + 1
           d1 == [s.db EXCEPT !.edgeCtr = id]
           e  == [from |-> from, to |-> to, type |-> t.id, source |-> s.id,
                  vf |-> in.vf, vt |-> in.vt, supersedes |-> old]
           g  == InsertEdge(d1, id, e)
           h  == AppendEvent(g, EdgeObserved(e), now)
<1> SUFFICES ASSUME AddEdgeInternal(d, from, to, in, old, now).ok
             PROVE  /\ Stores(h, id, from, to, in)
                    /\ id \in Nat
                    /\ \A i \in DOMAIN d.edges : i < id
  BY DEF AddEdgeInternal, Ok, Err
<1>1. in.type \in Text /\ in.source \in Text
  BY DEF EdgeInput
<1>2. IsDatabase(d) /\ InternerBijective(d)
  BY DEF Good, DbInv
<1>3. /\ IsDatabase(t.db) /\ InternerBijective(t.db)
      /\ t.id \in DOMAIN t.db.strRev /\ t.id # Zero /\ t.db.strRev[t.id] = in.type
      /\ DOMAIN d.strRev \subseteq DOMAIN t.db.strRev
      /\ SameNodes(d, t.db) /\ SameEdges(d, t.db) /\ SameLog(d, t.db)
  BY <1>1, <1>2, InternCorrect, InternMeans
<1> HIDE DEF t
<1>4. Good(t.db)
  BY <1>3, MoreStrings
<1>5. /\ IsDatabase(s.db) /\ InternerBijective(s.db)
      /\ DOMAIN t.db.strRev \subseteq DOMAIN s.db.strRev
      /\ SameNodes(t.db, s.db) /\ SameEdges(t.db, s.db) /\ SameLog(t.db, s.db)
  BY <1>1, <1>3, InternOptionalCorrect
<1>6. StringOf(s.db, s.id) = in.source /\ Keeps(t.db, s.db)
  BY <1>1, <1>3, <1>4, InternOptionalMeans, InternOptionalKeeps
<1> HIDE DEF s
<1>7. Good(s.db)
  BY <1>4, <1>5, MoreStrings
<1>8. s.db.strRev[t.id] = in.type
  BY <1>3, <1>4, <1>6, <1>7, StringKept DEF StringOf, Resolves
<1>9. id \in Nat /\ \A i \in DOMAIN d.edges : i < id
  BY <1>3, <1>5, <1>7 DEF Good, IsDatabase, DbInv, EdgesResolve, SameEdges
<1>10. /\ e.from = from /\ e.to = to /\ e.type = t.id /\ e.source = s.id
       /\ e.vf = in.vf /\ e.vt = in.vt
  OBVIOUS
<1> HIDE DEF e, id
<1>11. h.edges = Insert(s.db.edges, id, e) /\ h.strRev = s.db.strRev
  <2>1. HasTables(s.db)
    BY <1>5 DEF IsDatabase
  <2> QED
    BY <2>1 DEF AppendEvent, InsertEdge, HasTables
<1>12. h.edges[id] = e
  BY <1>11 DEF Insert
<1> HIDE DEF h
<1> QED
  BY <1>6, <1>8, <1>9, <1>10, <1>11, <1>12 DEF Stores, StringOf

\* What a reader of r.db sees of the edge add_edge stored, and that its id is
\* past those of the others.
LEMMA AddEdgeShows ==
  ASSUME NEW d, NEW in \in EdgeInput, NEW clk \in [1..3 -> Time], Good(d),
         AddEdge(d, in, clk).ok
  PROVE  LET r == AddEdge(d, in, clk)
             f == ViewEdge(r.db, r.id)
         IN /\ f.from = in.from /\ f.to = in.to /\ f.type = in.type
            /\ f.source = in.source /\ f.vf = in.vf /\ f.vt = in.vt
            /\ r.id \in Nat
            /\ \A i \in DOMAIN d.edges : i < r.id
<1> DEFINE f == UpsertNode(d, in.from, Empty, clk[1])
           t == UpsertNode(f.db, in.to, Empty, clk[2])
           n == AddEdgeInternal(t.db, f.id, t.id, in, Zero, clk[3])
<1>1. /\ in.from \in Text /\ in.to \in Text
      /\ clk[1] \in Time /\ clk[2] \in Time /\ clk[3] \in Time
  BY DEF EdgeInput
<1>2. AddEdge(d, in, clk) = n /\ f.ok /\ t.ok /\ n.ok
  BY DEF AddEdge, Err
<1>3. /\ Good(f.db) /\ f.id \in DOMAIN f.db.nodes
      /\ f.db.nodes[f.id].ext = in.from /\ SameEdges(d, f.db)
  <2>1. Good(f.db) /\ SameEdges(d, f.db) /\ f.id \in DOMAIN f.db.nodes
    BY <1>1, <1>2, TextAssumption, UpsertNodeGood
  <2>2. f.db.nodes[f.id].ext = in.from
    BY <1>1, <1>2, TextAssumption, UpsertNodeNames
  <2> QED
    BY <2>1, <2>2
<1> HIDE DEF f
<1>4. /\ Good(t.db) /\ t.id \in DOMAIN t.db.nodes
      /\ t.db.nodes[t.id].ext = in.to /\ SameEdges(f.db, t.db)
      /\ Keeps(f.db, t.db)
  <2>1. /\ Good(t.db) /\ SameEdges(f.db, t.db)
        /\ t.ok => t.id \in DOMAIN t.db.nodes
    <3>1. Good(f.db)
      BY <1>3
    <3> QED
      BY <1>1, <3>1, TextAssumption, UpsertNodeGood
  <2>2. t.ok => t.db.nodes[t.id].ext = in.to
    BY <1>1, <1>3, TextAssumption, UpsertNodeNames
  <2>3. Keeps(f.db, t.db)
    BY <1>1, <1>3, TextAssumption, UpsertNodeKeeps
  <2> QED
    BY <1>2, <2>1, <2>2, <2>3
<1> HIDE DEF t
<1>5. f.id \in DOMAIN t.db.nodes /\ t.db.nodes[f.id].ext = in.from
  BY <1>3, <1>4, KeepsParts DEF Kept
<1>6. Zero \in Nat /\ MayRevise(t.db, Zero, in.vf)
  BY DEF Zero, MayRevise
<1>7. SameNodes(t.db, n.db)
  BY <1>1, <1>4, <1>5, <1>6, AddEdgeInternalGood
<1>8. /\ Stores(n.db, n.id, f.id, t.id, in) /\ n.id \in Nat
      /\ \A i \in DOMAIN t.db.edges : i < n.id
  BY <1>1, <1>2, <1>4, <1>5, <1>6, AddEdgeInternalStores
<1> HIDE DEF n
<1> QED
  BY <1>2, <1>3, <1>4, <1>5, <1>7, <1>8 DEF Stores, ViewEdge, SameNodes, SameEdges

\* What a reader of r.db sees of the edge supersede_edge stored, that only the
\* edge it revises changed, and that this one has ended by the start of the new.
LEMMA SupersedeEdgeShows ==
  ASSUME NEW d, NEW old \in Nat, NEW in \in EdgeInput,
         NEW clk \in [1..5 -> Time], Good(d), SupersedeEdge(d, old, in, clk).ok
  PROVE  LET r == SupersedeEdge(d, old, in, clk)
             g == ViewEdge(r.db, r.id)
         IN /\ old \in DOMAIN d.edges
            /\ g.from = in.from /\ g.to = in.to /\ g.type = in.type
            /\ g.source = in.source /\ g.vf = in.vf /\ g.vt = in.vt
            /\ r.id \notin DOMAIN d.edges
            /\ DOMAIN r.db.edges = DOMAIN d.edges \cup {r.id}
            /\ \A i \in DOMAIN d.edges : i # old => r.db.edges[i] = d.edges[i]
            /\ r.db.edges[old].vt # NoTs /\ r.db.edges[old].vt <= in.vf
<1> DEFINE f == UpsertNode(d, in.from, Empty, clk[1])
           t == UpsertNode(f.db, in.to, Empty, clk[2])
           c == InvalidateEdge(t.db, old, in.vf, clk[3])
           n == AddEdgeInternal(c.db, f.id, t.id, in, old, clk[4])
           v == EdgeSuperseded(old, n.db.edges[n.id])
           h == AppendEvent(n.db, v, clk[5])
<1>1. /\ in.from \in Text /\ in.to \in Text /\ in.vf \in Time
      /\ clk[1] \in Time /\ clk[2] \in Time /\ clk[3] \in Time
      /\ clk[4] \in Time /\ clk[5] \in Time
  BY DEF EdgeInput
<1>2. /\ old \in DOMAIN d.edges /\ f.ok /\ t.ok /\ c.ok /\ n.ok
      /\ SupersedeEdge(d, old, in, clk) = Ok(h, n.id)
  BY DEF SupersedeEdge, Err
<1>3. /\ Good(f.db) /\ f.id \in DOMAIN f.db.nodes
      /\ f.db.nodes[f.id].ext = in.from /\ SameEdges(d, f.db)
  <2>1. Good(f.db) /\ SameEdges(d, f.db) /\ f.id \in DOMAIN f.db.nodes
    BY <1>1, <1>2, TextAssumption, UpsertNodeGood
  <2>2. f.db.nodes[f.id].ext = in.from
    BY <1>1, <1>2, TextAssumption, UpsertNodeNames
  <2> QED
    BY <2>1, <2>2
<1> HIDE DEF f
<1>4. /\ Good(t.db) /\ t.id \in DOMAIN t.db.nodes
      /\ t.db.nodes[t.id].ext = in.to /\ SameEdges(f.db, t.db)
      /\ Keeps(f.db, t.db)
  <2>1. /\ Good(t.db) /\ SameEdges(f.db, t.db)
        /\ t.ok => t.id \in DOMAIN t.db.nodes
    <3>1. Good(f.db)
      BY <1>3
    <3> QED
      BY <1>1, <3>1, TextAssumption, UpsertNodeGood
  <2>2. t.ok => t.db.nodes[t.id].ext = in.to
    BY <1>1, <1>3, TextAssumption, UpsertNodeNames
  <2>3. Keeps(f.db, t.db)
    BY <1>1, <1>3, TextAssumption, UpsertNodeKeeps
  <2> QED
    BY <1>2, <2>1, <2>2, <2>3
<1> HIDE DEF t
<1>5. f.id \in DOMAIN t.db.nodes /\ t.db.nodes[f.id].ext = in.from
  BY <1>3, <1>4, KeepsParts DEF Kept
<1>6. /\ Good(c.db) /\ SameNodes(t.db, c.db) /\ Spares(t.db, c.db, old)
      /\ old \in DOMAIN c.db.edges
      /\ c.db.edges[old].vt # NoTs /\ c.db.edges[old].vt <= in.vf
      /\ MayRevise(c.db, old, in.vf)
  BY <1>1, <1>2, <1>4, InvalidateEdgeGood DEF MayRevise
<1> HIDE DEF c
<1>7. /\ f.id \in DOMAIN c.db.nodes /\ c.db.nodes[f.id].ext = in.from
      /\ t.id \in DOMAIN c.db.nodes /\ c.db.nodes[t.id].ext = in.to
  BY <1>4, <1>5, <1>6 DEF SameNodes
<1>8. /\ Good(n.db) /\ SameNodes(c.db, n.db) /\ Adds(c.db, n)
      /\ n.id \in DOMAIN n.db.edges
  BY <1>1, <1>2, <1>6, <1>7, AddEdgeInternalGood
<1>9. Stores(n.db, n.id, f.id, t.id, in)
  BY <1>1, <1>2, <1>6, <1>7, AddEdgeInternalStores
<1> HIDE DEF n
<1>10. Good(h) /\ SameNodes(n.db, h) /\ SameEdges(n.db, h) /\ SameStrings(n.db, h)
  <2>1. n.db.edges[n.id] \in Edge
    BY <1>8 DEF Good, IsDatabase, IsTable
  <2>2. v \in Event
    BY <2>1 DEF EdgeSuperseded, Event
  <2> HIDE DEF v
  <2> QED
    BY <1>1, <1>8, <2>2, AppendGood
<1> HIDE DEF h
<1>11. Stores(h, n.id, f.id, t.id, in)
  BY <1>9, <1>10 DEF Stores, SameEdges, SameStrings, StringOf
<1>12. h.nodes[f.id].ext = in.from /\ h.nodes[t.id].ext = in.to
  BY <1>7, <1>8, <1>10 DEF SameNodes
<1>13. /\ n.id \notin DOMAIN c.db.edges
       /\ h.edges = Insert(c.db.edges, n.id, h.edges[n.id])
  BY <1>2, <1>8, <1>10 DEF Adds, SameEdges
<1>14. DOMAIN c.db.edges = DOMAIN d.edges /\ \A i \in DOMAIN d.edges : i # old => c.db.edges[i] = d.edges[i]
  BY <1>3, <1>4, <1>6 DEF Spares, SameEdges
<1>15. /\ n.id \notin DOMAIN d.edges /\ DOMAIN h.edges = DOMAIN d.edges \cup {n.id}
       /\ \A i \in DOMAIN d.edges : h.edges[i] = c.db.edges[i]
  BY <1>13, <1>14 DEF Insert
<1> QED
  BY <1>2, <1>6, <1>11, <1>12, <1>14, <1>15 DEF Stores, ViewEdge, Ok

=============================================================================
