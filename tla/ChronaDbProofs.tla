---------------------------- MODULE ChronaDbProofs ----------------------------
(***************************************************************************)
(* The invariants of ChronaDb, what its verifier says of the files it      *)
(* writes, what it never rewrites and the graph it implements: for every   *)
(* set of strings, times, inputs and clock readings, every way callers     *)
(* treat errors and every bound.                                           *)
(***************************************************************************)
EXTENDS ChronaRefinement, ChronaStoreProofs

\* The inductive invariant.  Every part of DbInv is needed for another: the
\* adjacency keys for the reads, the counters for the fresh ids, the fresh ids
\* for the indexes and the order of revisions.
IndInv == /\ Good(committed)
          /\ Good(txn)
          /\ phase \in {"idle", "open", "failed"}

\* A call that returns a consistent database preserves the invariant.
LEMMA ReturnsInductive ==
  ASSUME NEW r, IndInv, r.ok \in BOOLEAN, Good(r.db), Returns(r)
  PROVE  IndInv'
  BY DEF IndInv, Returns

LEMMA InitIndInv == Init => IndInv
  BY EmptyDbGood DEF Init, IndInv

LEMMA NextIndInv == IndInv /\ [Next]_vars => IndInv'
<1> SUFFICES ASSUME IndInv, [Next]_vars
             PROVE  IndInv'
  OBVIOUS
<1> USE InputAssumption, TextAssumption
<1>1. CASE BeginWrite
  BY <1>1 DEF BeginWrite, IndInv
<1>2. CASE CallUpsertNode
  <2>1. PICK in \in NodeInputs, now \in Clock :
          Returns(UpsertNode(txn, in.ext, in.type, now))
    BY <1>2 DEF CallUpsertNode
  <2> DEFINE r == UpsertNode(txn, in.ext, in.type, now)
  <2>2. in.ext \in Text /\ in.type \in Text /\ now \in Time
    BY DEF NodeInput
  <2>3. r.ok \in BOOLEAN /\ Good(r.db)
    BY <2>2, UpsertNodeGood DEF IndInv
  <2> QED
    BY <2>1, <2>3, ReturnsInductive
<1>3. CASE CallAddEdge
  <2>1. PICK in \in EdgeInputs, clk \in Readings(3) : Returns(AddEdge(txn, in, clk))
    BY <1>3 DEF CallAddEdge
  <2> DEFINE r == AddEdge(txn, in, clk)
  <2>2. in \in EdgeInput /\ clk \in [1..3 -> Time]
    BY DEF Readings
  <2>3. r.ok \in BOOLEAN /\ Good(r.db)
    BY <2>2, AddEdgeGood DEF IndInv
  <2> QED
    BY <2>1, <2>3, ReturnsInductive
<1>4. CASE CallInvalidateEdge
  <2>1. PICK id \in 1..(txn.edgeCtr + 1), at \in Time, now \in Clock :
          Returns(InvalidateEdge(txn, id, at, now))
    BY <1>4 DEF CallInvalidateEdge
  <2> DEFINE r == InvalidateEdge(txn, id, at, now)
  <2>2. r.ok \in BOOLEAN /\ Good(r.db)
    BY InvalidateEdgeGood DEF IndInv
  <2> QED
    BY <2>1, <2>2, ReturnsInductive
<1>5. CASE CallSupersedeEdge
  <2>1. PICK old \in 1..(txn.edgeCtr + 1), in \in EdgeInputs, clk \in Readings(5) :
          Returns(SupersedeEdge(txn, old, in, clk))
    BY <1>5 DEF CallSupersedeEdge
  <2> DEFINE r == SupersedeEdge(txn, old, in, clk)
  <2>2. in \in EdgeInput /\ clk \in [1..5 -> Time]
    BY DEF Readings
  <2>3. old \in Nat
    BY DEF IndInv, Good, IsDatabase
  <2>4. r.ok \in BOOLEAN /\ Good(r.db)
    BY <2>2, <2>3, SupersedeEdgeGood DEF IndInv
  <2> QED
    BY <2>1, <2>4, ReturnsInductive
<1>6. CASE Commit
  BY <1>6 DEF Commit, IndInv
<1>7. CASE Rollback
  BY <1>7 DEF Rollback, IndInv
<1>8. CASE UNCHANGED vars
  BY <1>8 DEF vars, IndInv
<1> QED
  BY <1>1, <1>2, <1>3, <1>4, <1>5, <1>6, <1>7, <1>8 DEF Next, Call

LEMMA SpecIndInv == Spec => []IndInv
  BY InitIndInv, NextIndInv, PTL DEF Spec

-----------------------------------------------------------------------------

\* Every table always has keys and rows of its type, whatever calls failed.
THEOREM TypeCorrect == Spec => []TypeOK
<1>1. IndInv => TypeOK
  BY DEF IndInv, Good, TypeOK
<1> QED
  BY <1>1, SpecIndInv, PTL

\* The interner is always a bijection with gapless ids (strings::intern).
THEOREM StringsCorrect == Spec => []StringsOK
<1>1. IndInv => StringsOK
  BY DEF IndInv, Good, DbInv, StringsOK
<1> QED
  BY <1>1, SpecIndInv, PTL

\* External ids and nodes always correspond one to one (upsert_node_full).
THEOREM NodesCorrect == Spec => []NodesOK
<1>1. IndInv => NodesOK
  BY DEF IndInv, Good, DbInv, NodesOK
<1> QED
  BY <1>1, SpecIndInv, PTL

\* No edge ever dangles, also after add_edge or supersede_edge failed half way.
THEOREM EdgesCorrect == Spec => []EdgesOK
<1>1. IndInv => EdgesOK
  BY DEF IndInv, Good, DbInv, EdgesOK
<1> QED
  BY <1>1, SpecIndInv, PTL

\* The four secondary indexes always mirror the edges table
\* (add_edge_internal, invalidate_edge).
THEOREM IndexesCorrect == Spec => []IndexesOK
<1>1. IndInv => IndexesOK
  BY DEF IndInv, Good, DbInv, IndexesOK
<1> QED
  BY <1>1, SpecIndInv, PTL

\* A revised edge has always ended by the time its revision starts
\* (supersede_edge, invalidate_edge).
THEOREM RevisionsCorrect == Spec => []RevisionsOK
<1>1. IndInv => RevisionsOK
  BY DEF IndInv, Good, DbInv, RevisionsOK
<1> QED
  BY <1>1, SpecIndInv, PTL

\* No event is ever overwritten, however the wall clock behaves (append_event).
THEOREM LogCorrect == Spec => []LogOK
<1>1. IndInv => LogOK
  BY DEF IndInv, Good, DbInv, LogOK
<1> QED
  BY <1>1, SpecIndInv, PTL

-----------------------------------------------------------------------------
(* Reads *)

\* neighbors_as_of and reverse_neighbors_as_of always return exactly the live
\* edges of the node, though they read only a range of an index.
THEOREM ReadsCorrect == Spec => []ReadsExact
<1>1. IndInv => ReadsExact
  <2> SUFFICES ASSUME IndInv, NEW node \in 1..(committed.nodeCtr + 1), NEW t \in Time
               PROVE  /\ ScanAdjacency(committed, committed.fwdAdj, node, t)
                           = {i \in Starts(committed, node) : LiveAt(committed.edges[i], t)}
                      /\ ScanAdjacency(committed, committed.revAdj, node, t)
                           = {i \in Ends(committed, node) : LiveAt(committed.edges[i], t)}
    BY DEF ReadsExact, ScansExact
  <2> DEFINE d  == committed
             fs == [i \in DOMAIN d.edges |-> d.edges[i].from]
             ts == [i \in DOMAIN d.edges |-> d.edges[i].to]
  <2>1. /\ DOMAIN d.fwdAdj = {<<fs[i], d.edges[i].vf, i>> : i \in DOMAIN d.edges}
        /\ DOMAIN d.revAdj = {<<ts[i], d.edges[i].vf, i>> : i \in DOMAIN d.edges}
    BY DEF IndInv, Good, DbInv, IndexesMirrorEdges
  <2>2. ScanAdjacency(d, d.fwdAdj, node, t)
          = {i \in DOMAIN d.edges : fs[i] = node /\ LiveAt(d.edges[i], t)}
    <3> HIDE DEF fs, d
    <3> QED
      BY <2>1, ScanExact
  <2>3. ScanAdjacency(d, d.revAdj, node, t)
          = {i \in DOMAIN d.edges : ts[i] = node /\ LiveAt(d.edges[i], t)}
    <3> HIDE DEF ts, d
    <3> QED
      BY <2>1, ScanExact
  <2> QED
    BY <2>2, <2>3 DEF Starts, Ends
<1> QED
  BY <1>1, SpecIndInv, PTL

-----------------------------------------------------------------------------
(* The verifier *)

\* A finite set and its image under a function that merges nothing.
LEMMA ImageSize ==
  ASSUME NEW A, IsFiniteSet(A), NEW B, NEW f \in [A -> B],
         \A x, y \in A : f[x] = f[y] => x = y,
         \A y \in B : \E x \in A : f[x] = y
  PROVE  IsFiniteSet(B) /\ Cardinality(B) = Cardinality(A)
<1>1. f \in Bijection(A, B)
  BY DEF Bijection, Injection, Surjection, IsInjective
<1>2. ExistsBijection(A, B)
  BY <1>1 DEF ExistsBijection
<1> QED
  BY <1>2, FS_Bijection

\* An adjacency table has as many rows as there are edges.
LEMMA AdjacencySize ==
  ASSUME NEW d, NEW ends, IsFiniteSet(DOMAIN d.edges),
         NEW keys, keys = {<<ends[i], d.edges[i].vf, i>> : i \in DOMAIN d.edges}
  PROVE  IsFiniteSet(keys) /\ Cardinality(keys) = Cardinality(DOMAIN d.edges)
<1> DEFINE f == [i \in DOMAIN d.edges |-> <<ends[i], d.edges[i].vf, i>>]
<1>1. f \in [DOMAIN d.edges -> keys]
  OBVIOUS
<1>2. \A x, y \in DOMAIN d.edges : f[x] = f[y] => x = y
  OBVIOUS
<1>3. \A k \in keys : \E x \in DOMAIN d.edges : f[x] = k
  OBVIOUS
<1> HIDE DEF f
<1> QED
  BY <1>1, <1>2, <1>3, ImageSize

\* The sizes the verifier compares are finite and equal.
LEMMA SizesAgree ==
  ASSUME NEW d, Good(d)
  PROVE  /\ IsFiniteSet(DOMAIN d.strFwd) /\ IsFiniteSet(DOMAIN d.strRev)
         /\ IsFiniteSet(DOMAIN d.edges)
         /\ IsFiniteSet(DOMAIN d.fwdAdj) /\ IsFiniteSet(DOMAIN d.revAdj)
         /\ Cardinality(DOMAIN d.strFwd) = Cardinality(DOMAIN d.strRev)
         /\ Cardinality(DOMAIN d.fwdAdj) = Cardinality(DOMAIN d.edges)
         /\ Cardinality(DOMAIN d.revAdj) = Cardinality(DOMAIN d.edges)
<1>1. IsFiniteSet(DOMAIN d.strRev)
  BY FS_Interval DEF Good, IsDatabase, DbInv, InternerBijective
<1>2. IsFiniteSet(DOMAIN d.edges)
  <2>1. DOMAIN d.edges \in SUBSET (1..d.edgeCtr) /\ d.edgeCtr \in Int
    BY DEF Good, IsDatabase, DbInv, EdgesResolve
  <2> QED
    BY <2>1, FS_Interval, FS_Subset
<1>3. /\ IsFiniteSet(DOMAIN d.strFwd)
      /\ Cardinality(DOMAIN d.strFwd) = Cardinality(DOMAIN d.strRev)
  <2> DEFINE f == [i \in DOMAIN d.strRev |-> d.strRev[i]]
  <2>1. f \in [DOMAIN d.strRev -> DOMAIN d.strFwd]
    BY DEF Good, DbInv, InternerBijective
  <2>2. \A x, y \in DOMAIN d.strRev : f[x] = f[y] => x = y
    BY DEF Good, DbInv, InternerBijective
  <2>3. \A s \in DOMAIN d.strFwd : \E x \in DOMAIN d.strRev : f[x] = s
    BY DEF Good, DbInv, InternerBijective
  <2> HIDE DEF f
  <2> QED
    BY <1>1, <2>1, <2>2, <2>3, ImageSize
<1>4. /\ IsFiniteSet(DOMAIN d.fwdAdj)
      /\ Cardinality(DOMAIN d.fwdAdj) = Cardinality(DOMAIN d.edges)
  <2> DEFINE ends == [i \in DOMAIN d.edges |-> d.edges[i].from]
  <2>1. DOMAIN d.fwdAdj = {<<ends[i], d.edges[i].vf, i>> : i \in DOMAIN d.edges}
    BY DEF Good, DbInv, IndexesMirrorEdges
  <2> HIDE DEF ends
  <2> QED
    BY <1>2, <2>1, AdjacencySize
<1>5. /\ IsFiniteSet(DOMAIN d.revAdj)
      /\ Cardinality(DOMAIN d.revAdj) = Cardinality(DOMAIN d.edges)
  <2> DEFINE ends == [i \in DOMAIN d.edges |-> d.edges[i].to]
  <2>1. DOMAIN d.revAdj = {<<ends[i], d.edges[i].vf, i>> : i \in DOMAIN d.edges}
    BY DEF Good, DbInv, IndexesMirrorEdges
  <2> HIDE DEF ends
  <2> QED
    BY <1>2, <2>1, AdjacencySize
<1> QED
  BY <1>1, <1>2, <1>3, <1>4, <1>5

\* No false alarm: tables that agree have a clean report.
LEMMA GoodIsClean ==
  ASSUME NEW d, Good(d)
  PROVE  IsClean(d)
<1>1. InternerFindings(d) = {}
  <2>1. \A s \in DOMAIN d.strFwd :
          /\ d.strFwd[s] \in DOMAIN d.strRev
          /\ d.strRev[d.strFwd[s]] = s
          /\ ~(d.strFwd[s] > d.strCtr)
    BY DEF Good, IsDatabase, DbInv, InternerBijective
  <2> QED
    BY <2>1, SizesAgree DEF InternerFindings
<1>2. NodeFindings(d) = {}
  BY DEF NodeFindings, Good, DbInv, NodesNamed
<1>3. EdgeFindings(d) = {}
  <2>1. \A i \in DOMAIN d.edges : d.edges[i] \in Edge
    BY DEF Good, IsDatabase, IsTable
  <2>2. \A i \in DOMAIN d.edges :
          d.edges[i].vf \in Int /\ (d.edges[i].vt # NoTs => d.edges[i].vt \in Int)
    BY <2>1, TimeAssumption DEF Edge
  <2>3. \A i \in DOMAIN d.edges :
          /\ d.edges[i].from \in DOMAIN d.nodes
          /\ d.edges[i].to \in DOMAIN d.nodes
          /\ ~(d.edges[i].vt # NoTs /\ d.edges[i].vt < d.edges[i].vf)
    BY <2>2 DEF Good, DbInv, EdgesResolve
  <2> QED
    BY <2>3 DEF EdgeFindings
<1>4. AdjacencyFindings(d) = {}
  BY SizesAgree DEF AdjacencyFindings
<1> QED
  BY <1>1, <1>2, <1>3, <1>4 DEF IsClean, VerifyReport, EventFindings

\* A table that lost one row is smaller.
LEMMA WithoutSmaller ==
  ASSUME NEW t, IsFiniteSet(DOMAIN t), NEW k \in DOMAIN t
  PROVE  Cardinality(DOMAIN Without(t, k)) # Cardinality(DOMAIN t)
<1>1. DOMAIN Without(t, k) = DOMAIN t \ {k}
  BY DEF Without
<1>2. /\ Cardinality(DOMAIN t \ {k}) = Cardinality(DOMAIN t) - 1
      /\ Cardinality(DOMAIN t) \in Nat
  BY FS_RemoveElement, FS_CardinalityType
<1> QED
  BY <1>1, <1>2

\* No loss goes unnoticed: a row missing from one of the mirrored tables shows
\* in the report.
LEMMA LossIsReported ==
  ASSUME NEW d, Good(d), NEW e \in LostRow(d)
  PROVE  ~IsClean(e)
<1> USE DEF Good, IsDatabase
<1>1. HasTables(d)
  OBVIOUS
<1>2. CASE \E k \in DOMAIN d.strFwd : e = [d EXCEPT !.strFwd = Without(@, k)]
  <2>1. PICK k \in DOMAIN d.strFwd : e = [d EXCEPT !.strFwd = Without(@, k)]
    BY <1>2
  <2>2. e.strFwd = Without(d.strFwd, k) /\ e.strRev = d.strRev
    BY <1>1, <2>1 DEF HasTables
  <2>3. Cardinality(DOMAIN e.strFwd) # Cardinality(DOMAIN e.strRev)
    BY <2>2, SizesAgree, WithoutSmaller
  <2> QED
    BY <2>3 DEF IsClean, VerifyReport, InternerFindings
<1>3. CASE \E k \in DOMAIN d.strRev : e = [d EXCEPT !.strRev = Without(@, k)]
  <2>1. PICK k \in DOMAIN d.strRev : e = [d EXCEPT !.strRev = Without(@, k)]
    BY <1>3
  <2>2. e.strRev = Without(d.strRev, k) /\ e.strFwd = d.strFwd
    BY <1>1, <2>1 DEF HasTables
  <2>3. Cardinality(DOMAIN e.strFwd) # Cardinality(DOMAIN e.strRev)
    BY <2>2, SizesAgree, WithoutSmaller
  <2> QED
    BY <2>3 DEF IsClean, VerifyReport, InternerFindings
<1>4. CASE \E k \in DOMAIN d.extIds : e = [d EXCEPT !.extIds = Without(@, k)]
  <2>1. PICK k \in DOMAIN d.extIds : e = [d EXCEPT !.extIds = Without(@, k)]
    BY <1>4
  <2>2. e.extIds = Without(d.extIds, k) /\ e.nodes = d.nodes
    BY <1>1, <2>1 DEF HasTables
  <2>3. d.extIds[k] \in DOMAIN e.nodes /\ e.nodes[d.extIds[k]].ext \notin DOMAIN e.extIds
    BY <2>2 DEF DbInv, NodesNamed, Without
  <2>4. Finding("ext_ids", d.extIds[k]) \in NodeFindings(e)
    BY <2>3 DEF NodeFindings
  <2> QED
    BY <2>4 DEF IsClean, VerifyReport
<1>5. CASE \E k \in DOMAIN d.edges : e = [d EXCEPT !.edges = Without(@, k)]
  <2>1. PICK k \in DOMAIN d.edges : e = [d EXCEPT !.edges = Without(@, k)]
    BY <1>5
  <2>2. e.edges = Without(d.edges, k) /\ e.fwdAdj = d.fwdAdj
    BY <1>1, <2>1 DEF HasTables
  <2>3. Cardinality(DOMAIN e.fwdAdj) # Cardinality(DOMAIN e.edges)
    BY <2>2, SizesAgree, WithoutSmaller
  <2> QED
    BY <2>3 DEF IsClean, VerifyReport, AdjacencyFindings
<1>6. CASE \E k \in DOMAIN d.fwdAdj : e = [d EXCEPT !.fwdAdj = Without(@, k)]
  <2>1. PICK k \in DOMAIN d.fwdAdj : e = [d EXCEPT !.fwdAdj = Without(@, k)]
    BY <1>6
  <2>2. e.fwdAdj = Without(d.fwdAdj, k) /\ e.edges = d.edges
    BY <1>1, <2>1 DEF HasTables
  <2>3. Cardinality(DOMAIN e.fwdAdj) # Cardinality(DOMAIN e.edges)
    BY <2>2, SizesAgree, WithoutSmaller
  <2> QED
    BY <2>3 DEF IsClean, VerifyReport, AdjacencyFindings
<1>7. CASE \E k \in DOMAIN d.revAdj : e = [d EXCEPT !.revAdj = Without(@, k)]
  <2>1. PICK k \in DOMAIN d.revAdj : e = [d EXCEPT !.revAdj = Without(@, k)]
    BY <1>7
  <2>2. e.revAdj = Without(d.revAdj, k) /\ e.edges = d.edges
    BY <1>1, <2>1 DEF HasTables
  <2>3. Cardinality(DOMAIN e.revAdj) # Cardinality(DOMAIN e.edges)
    BY <2>2, SizesAgree, WithoutSmaller
  <2> QED
    BY <2>3 DEF IsClean, VerifyReport, AdjacencyFindings
<1> QED
  BY <1>2, <1>3, <1>4, <1>5, <1>6, <1>7 DEF LostRow

\* Snapshot::verify never reports an error of a file that calls, failed ones
\* included, have written.
THEOREM VerifyCorrect == Spec => []VerifyAccepts
<1>1. IndInv => VerifyAccepts
  BY GoodIsClean DEF IndInv, VerifyAccepts
<1> QED
  BY <1>1, SpecIndInv, PTL

\* It reports every file of that kind from which a mirrored row is lost.
THEOREM VerifyNotices == Spec => []LostRowsReported
<1>1. IndInv => LostRowsReported
  BY LossIsReported DEF IndInv, LostRowsReported
<1> QED
  BY <1>1, SpecIndInv, PTL

-----------------------------------------------------------------------------
(* What was committed stays *)

\* Between the first call and the commit the writer's copy keeps the history.
HistoryInv == IndInv /\ (phase # "idle" => Keeps(committed, txn))

\* A call returned r, whose tables keep the rows of the writer's copy.
LEMMA ReturnsKeeps ==
  ASSUME NEW r, HistoryInv, Good(r.db), Keeps(txn, r.db), Returns(r)
  PROVE  Keeps(committed, txn') /\ UNCHANGED committed
<1>1. txn' = r.db /\ phase = "open" /\ UNCHANGED committed
  BY DEF Returns
<1>2. Keeps(committed, r.db)
  BY <1>1, KeepsTransitive DEF HistoryInv, IndInv, Good
<1> QED
  BY <1>1, <1>2

LEMMA InitHistory == Init => HistoryInv
  BY InitIndInv DEF Init, HistoryInv

\* What a step does to the committed tables, and to the copy.
LEMMA NextKeeps ==
  ASSUME HistoryInv, [Next]_vars
  PROVE  /\ phase' # "idle" => Keeps(committed', txn')
         /\ Keeps(committed, committed')
<1> USE InputAssumption, TextAssumption
<1>1. Good(committed) /\ Good(txn) /\ Keeps(committed, committed) /\ Keeps(txn, txn)
  BY KeepsReflexive DEF HistoryInv, IndInv, Good
<1>2. CASE BeginWrite
  BY <1>1, <1>2 DEF BeginWrite
<1>3. CASE CallUpsertNode
  <2>1. PICK in \in NodeInputs, now \in Clock :
          Returns(UpsertNode(txn, in.ext, in.type, now))
    BY <1>3 DEF CallUpsertNode
  <2> DEFINE r == UpsertNode(txn, in.ext, in.type, now)
  <2>2. in.ext \in Text /\ in.type \in Text /\ now \in Time
    BY DEF NodeInput
  <2>3. Good(r.db) /\ Keeps(txn, r.db)
    BY <1>1, <2>2, UpsertNodeGood, UpsertNodeKeeps
  <2> HIDE DEF r
  <2> QED
    BY <1>1, <2>1, <2>3, ReturnsKeeps DEF r
<1>4. CASE CallAddEdge
  <2>1. PICK in \in EdgeInputs, clk \in Readings(3) : Returns(AddEdge(txn, in, clk))
    BY <1>4 DEF CallAddEdge
  <2> DEFINE r == AddEdge(txn, in, clk)
  <2>2. in \in EdgeInput /\ clk \in [1..3 -> Time]
    BY DEF Readings
  <2>3. Good(r.db) /\ Keeps(txn, r.db)
    BY <1>1, <2>2, AddEdgeGood, AddEdgeKeeps
  <2> HIDE DEF r
  <2> QED
    BY <1>1, <2>1, <2>3, ReturnsKeeps DEF r
<1>5. CASE CallInvalidateEdge
  <2>1. PICK id \in 1..(txn.edgeCtr + 1), at \in Time, now \in Clock :
          Returns(InvalidateEdge(txn, id, at, now))
    BY <1>5 DEF CallInvalidateEdge
  <2> DEFINE r == InvalidateEdge(txn, id, at, now)
  <2>2. Good(r.db) /\ Keeps(txn, r.db)
    BY <1>1, InvalidateEdgeGood, InvalidateEdgeKeeps
  <2> HIDE DEF r
  <2> QED
    BY <1>1, <2>1, <2>2, ReturnsKeeps DEF r
<1>6. CASE CallSupersedeEdge
  <2>1. PICK old \in 1..(txn.edgeCtr + 1), in \in EdgeInputs, clk \in Readings(5) :
          Returns(SupersedeEdge(txn, old, in, clk))
    BY <1>6 DEF CallSupersedeEdge
  <2> DEFINE r == SupersedeEdge(txn, old, in, clk)
  <2>2. in \in EdgeInput /\ clk \in [1..5 -> Time]
    BY DEF Readings
  <2>3. old \in Nat
    BY <1>1 DEF Good, IsDatabase
  <2>4. Good(r.db) /\ Keeps(txn, r.db)
    BY <1>1, <2>2, <2>3, SupersedeEdgeGood, SupersedeEdgeKeeps
  <2> HIDE DEF r
  <2> QED
    BY <1>1, <2>1, <2>4, ReturnsKeeps DEF r
<1>7. CASE Commit
  BY <1>7 DEF Commit, HistoryInv
<1>8. CASE Rollback
  BY <1>1, <1>8 DEF Rollback
<1>9. CASE UNCHANGED vars
  BY <1>1, <1>9 DEF vars, HistoryInv
<1> QED
  BY <1>2, <1>3, <1>4, <1>5, <1>6, <1>7, <1>8, <1>9 DEF Next, Call

\* Whatever calls fail, commit, are rolled back or die: of what was committed no
\* string, node or event is ever lost or rewritten, and of an edge only the end
\* moves, and only to an earlier time (every writer in db.rs, commit, abort).
THEOREM HistoryCorrect == Spec => HistoryPreserved
<1>1. HistoryInv /\ [Next]_vars => HistoryInv'
  BY NextIndInv, NextKeeps DEF HistoryInv
<1>2. HistoryInv /\ [Next]_vars => [Keeps(committed, committed')]_vars
  BY NextKeeps
<1> QED
  BY InitHistory, <1>1, <1>2, PTL DEF Spec, HistoryPreserved

-----------------------------------------------------------------------------
(* One call, seen by a reader *)

\* The facts a call has added, and those it has closed.
New(d, e) == DOMAIN e.edges \ DOMAIN d.edges
Touched(d, e) == {i \in DOMAIN d.edges : e.edges[i] # d.edges[i]}

Single(s) == \A i, j \in s : i = j

\* A fact that was closed has ended, or ended earlier.
LEMMA ClosedInView ==
  ASSUME NEW d, NEW e, Good(d), Good(e), Keeps(d, e), NEW i \in DOMAIN d.edges,
         View(e).facts[i] # View(d).facts[i]
  PROVE  i \in Touched(d, e) /\ Graph!EndsEarlier(View(d).facts[i], View(e).facts[i])
<1> DEFINE f == ViewEdge(d, i)
           g == ViewEdge(e, i)
<1>1. i \in DOMAIN e.edges /\ g = [f EXCEPT !.vt = e.edges[i].vt]
  BY EdgeKeptInView
<1>2. View(d).facts[i] = f /\ View(e).facts[i] = g
  BY <1>1 DEF View
<1>3. /\ f.vf = d.edges[i].vf /\ f.vt = d.edges[i].vt
      /\ g.vf = e.edges[i].vf /\ g.vt = e.edges[i].vt
  BY DEF ViewEdge
<1>4. f = [f EXCEPT !.vt = f.vt]
  BY DEF ViewEdge
<1>5. d.edges[i].vt # e.edges[i].vt
  BY <1>1, <1>2, <1>3, <1>4
<1>6. Shortened(d.edges[i], e.edges[i])
  BY KeepsParts DEF EdgesKept
<1>7. /\ e.edges[i].vt # NoTs /\ e.edges[i].vf <= e.edges[i].vt
      /\ d.edges[i].vt # NoTs => e.edges[i].vt < d.edges[i].vt
  BY <1>1, <1>5, <1>6 DEF Shortened, Good, DbInv, EdgesResolve
<1> HIDE DEF f, g
<1>8. Graph!EndsEarlier(f, g)
  BY <1>1, <1>3, <1>7 DEF Graph!EndsEarlier, Graph!Closed, Graph!WellFormed
<1> QED
  BY <1>2, <1>5, <1>8 DEF Touched

\* A stored edge is a fact that may be recorded.
LEMMA RecordedInView ==
  ASSUME NEW e, Good(e), NEW i \in DOMAIN e.edges
  PROVE  Graph!Recorded(View(e), i)
<1> DEFINE g == e.edges[i]
           f == ViewEdge(e, i)
<1>1. /\ View(e).facts[i] = f /\ DOMAIN View(e).facts = DOMAIN e.edges
      /\ DOMAIN View(e).nodes = DOMAIN e.extIds
  BY DEF View
<1>2. /\ f.from = e.nodes[g.from].ext /\ f.to = e.nodes[g.to].ext
      /\ f.vf = g.vf /\ f.vt = g.vt /\ f.revises = g.supersedes
  BY DEF ViewEdge
<1>3. f.from \in DOMAIN e.extIds /\ f.to \in DOMAIN e.extIds
  <2>1. g.from \in DOMAIN e.nodes /\ g.to \in DOMAIN e.nodes
    BY DEF Good, DbInv, EdgesResolve
  <2> QED
    BY <1>2, <2>1 DEF Good, DbInv, NodesNamed
<1>4. g.vt # NoTs => g.vf <= g.vt
  BY DEF Good, DbInv, EdgesResolve
<1>5. ASSUME g.supersedes # 0
      PROVE  LET o == g.supersedes
             IN /\ o \in DOMAIN e.edges \ {i}
                /\ View(e).facts[o].vt # NoTs
                /\ View(e).facts[o].vt <= g.vf
  <2> DEFINE o == g.supersedes
  <2>1. /\ o \in DOMAIN e.edges /\ o < i
        /\ e.edges[o].vt # NoTs /\ e.edges[o].vt <= g.vf
    BY <1>5 DEF Good, DbInv, RevisionsOrdered, Zero
  <2>2. View(e).facts[o].vt = e.edges[o].vt
    BY <2>1 DEF View, ViewEdge
  <2>3. o # i
    <3>1. i \in Nat
      BY DEF Good, IsDatabase, IsTable
    <3> QED
      BY <2>1, <3>1
  <2> QED
    BY <2>1, <2>2, <2>3
<1> HIDE DEF g, f
<1> QED
  BY <1>1, <1>2, <1>3, <1>4, <1>5 DEF Graph!Recorded, Graph!WellFormed, Graph!Closed

\* A call that kept the rows, added one edge at most and closed one at most is
\* one change of the graph.
LEMMA CallEvolves ==
  ASSUME NEW d, NEW e, Good(d), Good(e), Keeps(d, e), Empty \notin DOMAIN e.extIds,
         Single(New(d, e)), Single(Touched(d, e))
  PROVE  Graph!Evolves(View(d), View(e))
<1>1. /\ DOMAIN View(d).nodes = DOMAIN d.extIds /\ DOMAIN View(e).nodes = DOMAIN e.extIds
      /\ DOMAIN View(d).facts = DOMAIN d.edges /\ DOMAIN View(e).facts = DOMAIN e.edges
  BY DEF View
<1>2. DOMAIN e.extIds \subseteq Text \ {Empty}
  BY DEF Good, IsDatabase, IsTable
<1>3. \A x \in DOMAIN d.extIds : /\ x \in DOMAIN e.extIds
                                 /\ View(e).nodes[x] = View(d).nodes[x]
  BY NodesKeptInView
<1>4. DOMAIN d.edges \subseteq DOMAIN e.edges
  BY KeepsParts DEF EdgesKept
<1>5. \A i, j \in DOMAIN e.edges \ DOMAIN d.edges : i = j
  BY DEF Single, New
<1>6. \A i \in DOMAIN e.edges : Graph!Recorded(View(e), i)
  BY RecordedInView
<1>7. \A i \in DOMAIN d.edges : View(e).facts[i] # View(d).facts[i]
        => i \in Touched(d, e) /\ Graph!EndsEarlier(View(d).facts[i], View(e).facts[i])
  BY ClosedInView
<1>8. \A i, j \in Touched(d, e) : i = j
  BY DEF Single
<1> QED
  BY <1>1, <1>2, <1>3, <1>4, <1>5, <1>6, <1>7, <1>8 DEF Graph!Evolves

-----------------------------------------------------------------------------
(* How many edges a call adds and closes *)

LEMMA OneClosed ==
  ASSUME NEW d, NEW e, NEW k, Spares(d, e, k)
  PROVE  New(d, e) = {} /\ Single(Touched(d, e))
  BY DEF Spares, New, Touched, Single

LEMMA OneClosedOneAdded ==
  ASSUME NEW d, NEW m, NEW r, NEW k, r.ok \in BOOLEAN, Spares(d, m, k), Adds(m, r)
  PROVE  /\ Single(New(d, r.db)) /\ Single(Touched(d, r.db))
         /\ ~r.ok => New(d, r.db) = {}
<1>1. CASE r.ok
  <2>1. r.id \notin DOMAIN m.edges /\ r.db.edges = Insert(m.edges, r.id, r.db.edges[r.id])
    BY <1>1 DEF Adds
  <2>2. /\ DOMAIN r.db.edges = DOMAIN m.edges \cup {r.id}
        /\ \A i \in DOMAIN m.edges : r.db.edges[i] = m.edges[i]
    BY <2>1 DEF Insert
  <2> QED
    BY <1>1, <2>2 DEF Spares, New, Touched, Single
<1>2. CASE ~r.ok
  BY <1>2 DEF Adds, Spares, New, Touched, Single
<1> QED
  BY <1>1, <1>2

LEMMA NoneClosed == ASSUME NEW d PROVE Spares(d, d, Zero)
  BY DEF Spares

-----------------------------------------------------------------------------
(* The steps of ChronaDb *)

RefinementInv == /\ IndInv
                 /\ Empty \notin DOMAIN committed.extIds
                 /\ Empty \notin DOMAIN txn.extIds

\* What is needed of a call that answers r.
OneChange(r) == /\ r.ok \in BOOLEAN /\ Good(r.db) /\ Keeps(txn, r.db)
                /\ Empty \notin DOMAIN r.db.extIds
                /\ Single(New(txn, r.db)) /\ Single(Touched(txn, r.db))
                /\ ~r.ok => New(txn, r.db) = {}

LEMMA ReturnsRefines ==
  ASSUME NEW r, RefinementInv, OneChange(r), Returns(r)
  PROVE  Graph!Next /\ Empty \notin DOMAIN txn'.extIds /\ UNCHANGED committed
<1>1. txn' = r.db /\ phase = "open" /\ UNCHANGED committed
  BY DEF Returns
<1>2. View(txn)' = View(r.db) /\ View(committed)' = View(committed)
  BY <1>1
<1>3. Graph!Evolves(View(txn), View(r.db))
  BY CallEvolves DEF RefinementInv, IndInv, OneChange
<1>4. CASE phase' = "open"
  BY <1>1, <1>2, <1>3, <1>4 DEF Graph!Next, Graph!Change, OneChange
<1>5. CASE phase' = "failed" /\ ~r.ok
  <2>1. DOMAIN r.db.edges = DOMAIN txn.edges
    BY <1>5, KeepsParts DEF OneChange, New, EdgesKept
  <2>2. DOMAIN View(r.db).facts = DOMAIN View(txn).facts
    BY <2>1 DEF View
  <2> QED
    BY <1>1, <1>2, <1>3, <1>5, <2>2 DEF Graph!Next, Graph!Fail, OneChange
<1> QED
  BY <1>1, <1>4, <1>5 DEF Returns, OneChange

LEMMA CallRefines ==
  ASSUME RefinementInv, Call
  PROVE  Graph!Next /\ Empty \notin DOMAIN txn'.extIds /\ UNCHANGED committed
<1> USE InputAssumption, TextAssumption
<1>1. Good(txn) /\ Empty \notin DOMAIN txn.extIds
  BY DEF RefinementInv, IndInv
<1>2. CASE CallUpsertNode
  <2>1. PICK in \in NodeInputs, now \in Clock :
          Returns(UpsertNode(txn, in.ext, in.type, now))
    BY <1>2 DEF CallUpsertNode
  <2> DEFINE r == UpsertNode(txn, in.ext, in.type, now)
  <2>2. in.ext \in Text /\ in.type \in Text /\ now \in Time
    BY DEF NodeInput
  <2>3. /\ r.ok \in BOOLEAN /\ Good(r.db) /\ Empty \notin DOMAIN r.db.extIds
        /\ SameEdges(txn, r.db)
    BY <1>1, <2>2, UpsertNodeGood
  <2>4. Keeps(txn, r.db)
    BY <1>1, <2>2, UpsertNodeKeeps
  <2> HIDE DEF r
  <2>5. New(txn, r.db) = {} /\ Single(Touched(txn, r.db))
    BY <2>3, NoneClosed, OneClosed DEF SameEdges, Spares
  <2>6. OneChange(r)
    BY <2>3, <2>4, <2>5 DEF OneChange, Single
  <2> QED
    BY <2>1, <2>6, ReturnsRefines DEF r
<1>3. CASE CallAddEdge
  <2>1. PICK in \in EdgeInputs, clk \in Readings(3) : Returns(AddEdge(txn, in, clk))
    BY <1>3 DEF CallAddEdge
  <2> DEFINE r == AddEdge(txn, in, clk)
  <2>2. in \in EdgeInput /\ clk \in [1..3 -> Time]
    BY DEF Readings
  <2>3. /\ r.ok \in BOOLEAN /\ Good(r.db) /\ Empty \notin DOMAIN r.db.extIds
        /\ Adds(txn, r)
    BY <1>1, <2>2, AddEdgeGood
  <2>4. Keeps(txn, r.db)
    BY <1>1, <2>2, AddEdgeKeeps
  <2> HIDE DEF r
  <2>5. OneChange(r)
    BY <2>3, <2>4, NoneClosed, OneClosedOneAdded DEF OneChange
  <2> QED
    BY <2>1, <2>5, ReturnsRefines DEF r
<1>4. CASE CallInvalidateEdge
  <2>1. PICK id \in 1..(txn.edgeCtr + 1), at \in Time, now \in Clock :
          Returns(InvalidateEdge(txn, id, at, now))
    BY <1>4 DEF CallInvalidateEdge
  <2> DEFINE r == InvalidateEdge(txn, id, at, now)
  <2>2. /\ r.ok \in BOOLEAN /\ Good(r.db) /\ SameNodes(txn, r.db)
        /\ Spares(txn, r.db, id)
    BY <1>1, InvalidateEdgeGood
  <2>3. Keeps(txn, r.db)
    BY <1>1, InvalidateEdgeKeeps
  <2> HIDE DEF r
  <2>4. OneChange(r)
    BY <1>1, <2>2, <2>3, OneClosed DEF OneChange, SameNodes, Single
  <2> QED
    BY <2>1, <2>4, ReturnsRefines DEF r
<1>5. CASE CallSupersedeEdge
  <2>1. PICK old \in 1..(txn.edgeCtr + 1), in \in EdgeInputs, clk \in Readings(5) :
          Returns(SupersedeEdge(txn, old, in, clk))
    BY <1>5 DEF CallSupersedeEdge
  <2> DEFINE r == SupersedeEdge(txn, old, in, clk)
  <2>2. in \in EdgeInput /\ clk \in [1..5 -> Time]
    BY DEF Readings
  <2>3. old \in Nat
    BY <1>1 DEF Good, IsDatabase
  <2>4. /\ r.ok \in BOOLEAN /\ Good(r.db) /\ Empty \notin DOMAIN r.db.extIds
        /\ \E m : Spares(txn, m, old) /\ Adds(m, r)
    BY <1>1, <2>2, <2>3, SupersedeEdgeGood
  <2>5. Keeps(txn, r.db)
    BY <1>1, <2>2, <2>3, SupersedeEdgeKeeps
  <2> HIDE DEF r
  <2>6. OneChange(r)
    BY <2>4, <2>5, OneClosedOneAdded DEF OneChange
  <2> QED
    BY <2>1, <2>6, ReturnsRefines DEF r
<1> QED
  BY <1>2, <1>3, <1>4, <1>5 DEF Call

LEMMA InitRefines == Init => RefinementInv /\ Graph!Init
<1> SUFFICES ASSUME Init PROVE RefinementInv /\ Graph!Init
  OBVIOUS
<1>1. DOMAIN EmptyDb.extIds = {} /\ DOMAIN EmptyDb.edges = {}
  BY DEF EmptyDb, NoRows
<1>2. View(EmptyDb) = Graph!EmptyGraph
  <2>1. /\ [x \in DOMAIN EmptyDb.extIds |-> StringOf(EmptyDb, EmptyDb.nodes[EmptyDb.extIds[x]].type)]
             = [x \in {} |-> Empty]
        /\ [i \in DOMAIN EmptyDb.edges |-> ViewEdge(EmptyDb, i)] = [i \in {} |-> 0]
    BY <1>1
  <2> QED
    BY <2>1 DEF View, Graph!EmptyGraph
<1> QED
  BY <1>1, <1>2, InitIndInv DEF Init, RefinementInv, Graph!Init

LEMMA NextRefines ==
  ASSUME RefinementInv, [Next]_vars
  PROVE  RefinementInv' /\ [Graph!Next]_(Graph!vars)
<1>1. IndInv'
  BY NextIndInv DEF RefinementInv
<1>2. CASE BeginWrite
  BY <1>1, <1>2 DEF BeginWrite, RefinementInv, Graph!Next, Graph!Begin
<1>3. CASE Call
  BY <1>1, <1>3, CallRefines DEF RefinementInv
<1>4. CASE Commit
  BY <1>1, <1>4 DEF Commit, RefinementInv, Graph!Next, Graph!Publish
<1>5. CASE Rollback
  BY <1>1, <1>5 DEF Rollback, RefinementInv, Graph!Next, Graph!Discard
<1>6. CASE UNCHANGED vars
  BY <1>1, <1>6 DEF vars, RefinementInv, Graph!vars
<1> QED
  BY <1>2, <1>3, <1>4, <1>5, <1>6 DEF Next

\* Every behaviour of the tables is, behind ids, interner, indexes and log, a
\* behaviour of a graph of named nodes and facts that transactions change at
\* once or not at all; a call that fails half way does it no harm.
THEOREM StoreImplementsGraph == Spec => ImplementsTemporalGraph
<1>1. RefinementInv /\ [Next]_vars => RefinementInv'
  BY NextRefines
<1>2. RefinementInv /\ [Next]_vars => [Graph!Next]_(Graph!vars)
  BY NextRefines
<1> QED
  BY InitRefines, <1>1, <1>2, PTL DEF Spec, ImplementsTemporalGraph, Graph!Spec

=============================================================================
