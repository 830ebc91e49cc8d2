----------------------------- MODULE ChronaQuery -----------------------------
(***************************************************************************)
(* A query from its text to its answer: parse (ChronaText), then           *)
(* execute(snapshot, query) of chrona-query (exec.rs, filter.rs): resolve  *)
(* the names and the time, read or search, resolve the rows, filter them   *)
(* and cut them to the limit.  The searches are those of ChronaTraverse,   *)
(* step by step, over the adjacency scans of the snapshot.                 *)
(*                                                                         *)
(* Two fields of an edge that the model of the store leaves out, as it     *)
(* only hands them through, are given here for any snapshot.               *)
(***************************************************************************)
EXTENDS ChronaRead, ChronaDiff, ChronaText

CONSTANTS Suites,      \* [databases, texts]: snapshots, and the texts queried on each:
                       \* [text, asked] with the tree meant, or NoQuery
          NodeIds,     \* enough internal ids for every snapshot
          Now,         \* what Ts::now() says
          Never,       \* Ts::MAX, later than every time
          Order,       \* strings |-> their place in the order of their bytes
          Confidence, ObservedAt,  \* edge ids |-> a number's place, an instant
          AsF32        \* number literals |-> the place of what they round to

\* A snapshot is what writes left (ChronaDb), and a number in a text is written
\* with digits alone.
ASSUME SuiteAssumption ==
  /\ IsFiniteSet(NodeIds)
  /\ \A s \in Suites :
       /\ \A d \in s.databases : /\ IsDatabase(d) /\ DbInv(d)
                                 /\ DOMAIN d.nodes \subseteq NodeIds
       /\ \A x \in s.texts :
            /\ Len(x.text) \in Nat /\ DOMAIN x.text = 1..Len(x.text)
            /\ \A k \in DOMAIN x.text : x.text[k][1] = "digits" => x.text[k][2] \in Nat

VARIABLES db, text, asked, query,
          job, scan, queue, cur, pending, visited, seen, found, parent, pc,
          stage,       \* "start", "rows", "done", "none" or "error"
          rows,        \* edge ids read, before the filter
          answer       \* edge ids or the summary the caller gets

searchVars == <<job, scan, queue, cur, pending, visited, seen, found, parent, pc>>
vars == <<db, text, asked, query, searchVars, stage, rows, answer>>

Search == INSTANCE ChronaTraverse WITH Nodes <- NodeIds, Scans <- {}, Jobs <- {}

-----------------------------------------------------------------------------
(* Names and times *)

Ranged(q) == q.shape \in {"diff", "changed"}

\* The names a query resolves; diff takes a node and ignores it.
Named(q) == CASE Ranged(q) -> {}
              [] q.shape = "path" -> {q.node, q.to}
              [] OTHER -> {q.node}

\* The strings Ts::parse is given, those of Time being the ones it accepts.
Timed(q) == (IF q.clause = <<>> THEN {} ELSE {q.clause[2]})
              \cup (IF Ranged(q) THEN {q.until} ELSE {})

Parsed == query # NoQuery

Resolvable(d, q) == q # NoQuery /\ Named(q) \subseteq DOMAIN d.extIds /\ Timed(q) \subseteq Time

\* AT, BEFORE and AFTER are treated alike.
AsOf(q) == IF q.clause = <<>> THEN Now ELSE q.clause[2]

-----------------------------------------------------------------------------
(* Reading *)

\* What Snapshot answers as an EdgeScanner.
Scanner(d, t) ==
  [n \in NodeIds |->
     LET ids == ScanInOrder(d, d.fwdAdj, n, t)
     IN [k \in DOMAIN ids |-> [id |-> ids[k], from |-> n, to |-> d.edges[ids[k]].to]]]

JobOf(d, q) ==
  IF q.shape = "hops" THEN [algo |-> "hops", src |-> d.extIds[q.node], hops |-> q.hops]
  ELSE [algo |-> "path", src |-> d.extIds[q.node], dst |-> d.extIds[q.to]]

Searches(q) == q.shape \in {"hops", "path"}

\* The text is parsed and the search laid out before the first step, as neither
\* the snapshot nor the query changes.
Init ==
  /\ \E s \in Suites : /\ db \in s.databases
                      /\ \E x \in s.texts : text = x.text /\ asked = x.asked
  /\ query = Parse(text)
  /\ stage = "start"
  /\ rows = <<>>
  /\ answer = <<>>
  /\ IF Searches(query) /\ Resolvable(db, query)
     THEN Search!Start(JobOf(db, query), Scanner(db, AsOf(query)))
     ELSE Search!Start([algo |-> "hops", src |-> Zero, hops |-> 0], <<>>)

\* parse fails, resolve_node finds no such node, or Ts::parse fails.
Refuse ==
  /\ stage = "start" /\ ~Resolvable(db, query)
  /\ stage' = "error"
  /\ UNCHANGED <<db, text, asked, query, searchVars, rows, answer>>

ReadNeighbors ==
  /\ stage = "start" /\ query.shape = "neighbors" /\ Resolvable(db, query)
  /\ rows' = ScanInOrder(db, db.fwdAdj, db.extIds[query.node], AsOf(query))
  /\ stage' = "rows"
  /\ UNCHANGED <<db, text, asked, query, searchVars, answer>>

ReadConnected ==
  /\ stage = "start" /\ query.shape = "who" /\ Resolvable(db, query)
  /\ LET n == db.extIds[query.node] IN
       rows' = ScanInOrder(db, db.fwdAdj, n, AsOf(query))
                 \o ScanInOrder(db, db.revAdj, n, AsOf(query))
  /\ stage' = "rows"
  /\ UNCHANGED <<db, text, asked, query, searchVars, answer>>

SearchStep ==
  /\ stage = "start" /\ Searches(query) /\ Resolvable(db, query)
  /\ Search!Next
  /\ UNCHANGED <<db, text, asked, query, stage, rows, answer>>

EndSearch ==
  /\ stage = "start" /\ Searches(query) /\ Resolvable(db, query)
  /\ pc \in {"done", "nopath"}
  /\ IF pc = "nopath" THEN stage' = "none" /\ UNCHANGED rows
     ELSE /\ stage' = "rows"
          /\ rows' = [k \in DOMAIN found |-> found[k].id]
  /\ UNCHANGED <<db, text, asked, query, searchVars, answer>>

ReadDiff ==
  /\ stage = "start" /\ Ranged(query) /\ Resolvable(db, query)
  /\ answer' = DiffBetween(db, AsOf(query), query.until)
  /\ stage' = "done"
  /\ UNCHANGED <<db, text, asked, query, searchVars, rows>>

-----------------------------------------------------------------------------
(* Rows to answer *)

Compare(op, x, y) == CASE op = "="  -> x = y
                       [] op = "!=" -> x # y
                       [] op = ">"  -> x > y
                       [] op = ">=" -> x >= y
                       [] op = "<"  -> x < y
                       [] op = "<=" -> x <= y

\* The columns of a row that a filter may name; an open edge ends at Ts::MAX.
Columns(d, i) ==
  LET v == ViewEdge(d, i)
  IN [type       |-> Order[v.type],
      edge_type  |-> Order[v.type],
      source     |-> Order[v.source],
      confidence |-> Confidence[i],
      valid_from |-> v.vf,
      valid_to   |-> IF v.vt = NoTs THEN Never ELSE v.vt,
      observed_at |-> ObservedAt[i]]

TextFields == {"type", "edge_type", "source"}
TimeFields == {"valid_from", "valid_to", "observed_at"}

\* matches_term answers Err whatever the row: an unknown field, or a literal
\* that is no string, no number or no time where the field is one.
Malformed(term) ==
  LET kind == term.value[1]
  IN CASE term.field \in TextFields   -> kind # "STRING"
       [] term.field \in TimeFields   -> kind # "STRING" \/ term.value[2] \notin Time
       [] term.field = "confidence"   -> kind = "STRING"
       [] OTHER                       -> TRUE

\* What a column is compared with: a confidence as an f32, like the stored one.
Threshold(term) ==
  CASE term.field \in TextFields -> Order[term.value[2]]
    [] term.field = "confidence" -> AsF32[term.value]
    [] OTHER                     -> term.value[2]

Holds(term, row) == Compare(term.op, row[term.field], Threshold(term))

\* matches: the terms from left to right up to the first that is false.
Reached(filter, row) == {k \in DOMAIN filter :
                           \A j \in 1..(k - 1) : ~Malformed(filter[j]) /\ Holds(filter[j], row)}

FilterFails(filter, row) == \E k \in Reached(filter, row) : Malformed(filter[k])

Matches(filter, row) == \A k \in DOMAIN filter : /\ k \in Reached(filter, row)
                                                 /\ ~Malformed(filter[k])
                                                 /\ Holds(filter[k], row)

\* apply_filter.
Filtered(d, filter, ids) ==
  LET kept[k \in 0..Len(ids)] ==
        IF k = 0 THEN <<>>
        ELSE IF Matches(filter, Columns(d, ids[k])) THEN Append(kept[k - 1], ids[k])
        ELSE kept[k - 1]
  IN kept[Len(ids)]

\* apply_limit.
Limited(ids, limit) ==
  IF limit = NoLimit \/ limit >= Len(ids) THEN ids ELSE SubSeq(ids, 1, limit)

\* materialize_edges or apply_filter meets an error.
Fails(d, q, ids) ==
  \E k \in DOMAIN ids : \/ Dangling(d, ids[k])
                        \/ FilterFails(q.filter, Columns(d, ids[k]))

\* Mutant: the limit is applied before the filter.
AnswerOfLimitedFirst(d, q, ids) == Filtered(d, q.filter, Limited(ids, q.limit))

AnswerOf(d, q, ids) == Limited(Filtered(d, q.filter, ids), q.limit)

Deliver ==
  /\ stage = "rows"
  /\ IF Fails(db, query, rows) THEN stage' = "error" /\ UNCHANGED answer
     ELSE stage' = "done" /\ answer' = AnswerOf(db, query, rows)
  /\ UNCHANGED <<db, text, asked, query, searchVars, rows>>

Next == \/ Refuse \/ ReadNeighbors \/ ReadConnected \/ SearchStep \/ EndSearch
        \/ ReadDiff \/ Deliver

Spec == Init /\ [][Next]_vars

-----------------------------------------------------------------------------
(* What a query means, from the edges table alone *)

Live(d, t) == {i \in DOMAIN d.edges : LiveAt(d.edges[i], t)}

\* The nodes at most k live edges away.
Ball(k) ==
  LET ball[i \in 0..k] ==
        IF i = 0 THEN {db.extIds[query.node]}
        ELSE ball[i - 1] \cup {db.edges[e].to : e \in {x \in Live(db, AsOf(query)) :
                                                db.edges[x].from \in ball[i - 1]}}
  IN ball[k]

Scope ==
  LET node == db.extIds[query.node]
      live == Live(db, AsOf(query))
  IN CASE query.shape = "neighbors" -> {i \in live : db.edges[i].from = node}
       [] query.shape = "who"  -> {i \in live : node \in {db.edges[i].from, db.edges[i].to}}
       [] query.shape = "hops" -> {i \in live : /\ query.hops > 0
                                                /\ db.edges[i].from \in Ball(query.hops - 1)}

Answered(shapes) == stage = "done" /\ query.shape \in shapes

Listed == {answer[k] : k \in DOMAIN answer}

\* A list holds only live edges in the scope of the query that pass every term
\* of the filter, and all of them unless the limit is reached.
ListsExact ==
  Answered({"neighbors", "who", "hops"}) =>
    LET wanted == {i \in Scope : \A k \in DOMAIN query.filter :
                                   Holds(query.filter[k], Columns(db, i))}
    IN /\ Listed \subseteq wanted
       /\ query.limit = NoLimit \/ Len(answer) < query.limit => Listed = wanted
       /\ query.limit # NoLimit => Len(answer) <= query.limit

\* FIND n HOPS lists nearer edges first, so that a limit drops the farthest.
HopsNearestFirst ==
  Answered({"hops"}) =>
    \A i, j \in DOMAIN answer, k \in 0..query.hops :
      i < j /\ db.edges[answer[j]].from \in Ball(k)
        => db.edges[answer[i]].from \in Ball(k)

\* SHOW PATH without filter and limit is a shortest live path from one name to
\* the other, and None exactly if there is none.
PathsExact ==
  /\ Answered({"path"}) /\ query.filter = <<>> /\ query.limit = NoLimit =>
       /\ Listed \subseteq Live(db, AsOf(query))
       /\ \A k \in 1..(Len(answer) - 1) :
            db.edges[answer[k]].to = db.edges[answer[k + 1]].from
       /\ IF answer = <<>> THEN query.node = query.to
          ELSE /\ ViewEdge(db, answer[1]).from = query.node
               /\ ViewEdge(db, answer[Len(answer)]).to = query.to
               /\ db.extIds[query.to] \notin Ball(Len(answer) - 1)
  /\ stage = "none" => db.extIds[query.to] \notin Ball(Cardinality(NodeIds))

\* A query fails only by its own text, or by a name that is not stored, never
\* by what the snapshot holds (Error::Internal of view_edge).
ErrorsAreTheCallers ==
  stage = "error" => \/ ~Resolvable(db, query)
                     \/ \E k \in DOMAIN query.filter : Malformed(query.filter[k])

Finished == stage \in {"done", "none", "error"}

-----------------------------------------------------------------------------
(* What the text of a query means *)

\* A text that is accepted says, piece by piece, what the tree says: nothing of
\* it is dropped, wrapped or given to another clause.
ParsedAsWritten == Finished /\ Parsed => Plain(text) = Written(query)

\* A query written by the documented grammar, in any case of the keywords and
\* with any white space, is read as it is meant.
WrittenIsParsed == asked # NoQuery => query = asked

\* docs/query-language.md:46 "FIND NEIGHBORS OF "x" - every outgoing edge from
\* x": a stored name that a query quotes is found.
StoredNamesAreFound ==
  stage = "error" /\ Parsed /\ query.shape = "neighbors" /\ query.filter = <<>>
    => \E k \in DOMAIN text : text[k][1] = "quoted" /\ text[k][2] \notin DOMAIN db.extIds

=============================================================================
