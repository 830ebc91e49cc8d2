----------------------------- MODULE ChronaStore -----------------------------
(***************************************************************************)
(* The tables of one .chrona file and the operations of a write            *)
(* transaction on them (crates/chrona-core: db.rs, storage/, graph/).      *)
(*                                                                         *)
(* A database value d is a record with one field per redb table and one    *)
(* per id counter of the meta table.  A table is a function whose domain   *)
(* is the set of keys present.  Every operation of WriteTxn is an operator *)
(* from a database to a reply [ok, db, id]: db is what the tables hold     *)
(* when the call returns, WHETHER OR NOT it returns an error, because      *)
(* nothing undoes the writes a failing call has already made.              *)
(*                                                                         *)
(* Data left out: properties, observed_at, created_at, and the value of    *)
(* the confidence, of which only whether it lies in [0,1] decides          *)
(* anything.  I/O errors of redb are left out: they poison the             *)
(* transaction, which can then only be dropped.                            *)
(***************************************************************************)
EXTENDS Integers

CONSTANTS Text,     \* the strings callers pass: external ids, types, sources
          Empty,    \* the empty string
          Time,     \* timestamps (nanoseconds, an i64 in the code)
          NoTs      \* valid_to of an open-ended edge (None)

ASSUME TimeAssumption == Time \subseteq Int /\ NoTs \notin Int
ASSUME TextAssumption == Empty \in Text

Zero == 0           \* NodeId::ZERO, EdgeId::ZERO, StringId::ZERO, also None

-----------------------------------------------------------------------------
(* Records *)

Node == [ext : Text, type : Nat]

Edge == [from : Nat, to : Nat, type : Nat, source : Nat,
         vf : Time, vt : Time \cup {NoTs}, supersedes : Nat]

\* What a caller passes to add_edge and supersede_edge.
EdgeInput == [from : Text, to : Text, type : Text, source : Text,
              vf : Time, vt : Time \cup {NoTs}, confident : BOOLEAN]

NodeInput == [ext : Text, type : Text]

\* Payloads carry the record without the id it is stored under.
NodeAdded(n)          == [kind |-> "NodeAdded", node |-> n]
EdgeObserved(e)       == [kind |-> "EdgeObserved", edge |-> e]
EdgeInvalidated(i, t) == [kind |-> "EdgeInvalidated", id |-> i, at |-> t]
EdgeSuperseded(i, e)  == [kind |-> "EdgeSuperseded", old |-> i, edge |-> e]

Event == [kind : {"NodeAdded"}, node : Node]
           \cup [kind : {"EdgeObserved"}, edge : Edge]
           \cup [kind : {"EdgeInvalidated"}, id : Nat, at : Time]
           \cup [kind : {"EdgeSuperseded"}, old : Nat, edge : Edge]

-----------------------------------------------------------------------------
(* Tables *)

Insert(t, k, v) == [x \in DOMAIN t \cup {k} |-> IF x = k THEN v ELSE t[x]]

\* t is a table with keys in K and values in V.
IsTable(t, K, V) == DOMAIN t \subseteq K /\ t \in [DOMAIN t -> V]

AdjKey == Nat \X Time \X Nat        \* (node, valid_from, edge)

NoRows == [k \in {} |-> Zero]       \* a table just created

\* initialize_new: every table empty, every counter zero.
EmptyDb == [nodes     |-> NoRows, extIds  |-> NoRows,
            edges     |-> NoRows, fwdAdj  |-> NoRows, revAdj |-> NoRows,
            temporal  |-> {},     superIdx |-> {},
            events    |-> NoRows,
            strFwd    |-> NoRows, strRev  |-> NoRows,
            nodeCtr   |-> 0, edgeCtr |-> 0, eventCtr |-> 0, strCtr |-> 0]

\* d is a record with exactly the tables and counters of EmptyDb.
HasTables(d) ==
  d \in [nodes    : {d.nodes},    extIds   : {d.extIds},
         edges    : {d.edges},    fwdAdj   : {d.fwdAdj}, revAdj : {d.revAdj},
         temporal : {d.temporal}, superIdx : {d.superIdx},
         events   : {d.events},
         strFwd   : {d.strFwd},   strRev   : {d.strRev},
         nodeCtr  : {d.nodeCtr},  edgeCtr  : {d.edgeCtr},
         eventCtr : {d.eventCtr}, strCtr   : {d.strCtr}]

IsDatabase(d) ==
  /\ HasTables(d)
  /\ IsTable(d.nodes, Nat, Node)
  /\ IsTable(d.extIds, Text, Nat)
  /\ IsTable(d.edges, Nat, Edge)
  /\ IsTable(d.fwdAdj, AdjKey, Nat)
  /\ IsTable(d.revAdj, AdjKey, Nat)
  /\ d.temporal \subseteq Time \X Nat
  /\ d.superIdx \subseteq Nat \X Nat
  /\ IsTable(d.events, Time \X Nat, Event)
  /\ IsTable(d.strFwd, Text, Nat)
  /\ IsTable(d.strRev, Nat, Text)
  /\ {d.nodeCtr, d.edgeCtr, d.eventCtr, d.strCtr} \subseteq Nat

-----------------------------------------------------------------------------
(* Replies *)

Ok(d, id) == [ok |-> TRUE,  db |-> d, id |-> id]
Err(d)    == [ok |-> FALSE, db |-> d, id |-> Zero]

-----------------------------------------------------------------------------
(* The string interner and the event log *)

\* Mutant: the reverse row is forgotten.
InternOneWay(d, s) ==
  IF s \in DOMAIN d.strFwd
  THEN Ok(d, d.strFwd[s])
  ELSE LET id == d.strCtr + 1
       IN Ok([d EXCEPT !.strCtr = id, !.strFwd = Insert(@, s, id)], id)

Intern(d, s) ==
  IF s \in DOMAIN d.strFwd
  THEN Ok(d, d.strFwd[s])
  ELSE LET id == d.strCtr + 1
       IN Ok([d EXCEPT !.strCtr = id,
                       !.strFwd = Insert(@, s, id),
                       !.strRev = Insert(@, id, s)], id)

\* The node type and the source are optional: "" is not interned, its id is 0.
InternOptional(d, s) == IF s = Empty THEN Ok(d, Zero) ELSE Intern(d, s)

\* Mutant: the parts of the key are swapped.
AppendEventSwapsKey(d, ev, now) ==
  LET id == d.eventCtr + 1
  IN [d EXCEPT !.eventCtr = id, !.events = Insert(@, <<id, now>>, ev)]

\* Mutant: the key is the time alone, as if the clock never repeated itself.
AppendEventByTime(d, ev, now) ==
  [d EXCEPT !.eventCtr = @ + 1, !.events = Insert(@, <<now, now>>, ev)]

\* now is the reading of the wall clock, which need not move forward.
AppendEvent(d, ev, now) ==
  LET id == d.eventCtr + 1
  IN [d EXCEPT !.eventCtr = id, !.events = Insert(@, <<now, id>>, ev)]

-----------------------------------------------------------------------------
(* Operations of WriteTxn *)

\* Mutant: the external id is not indexed.
InsertNodeUnnamed(d, id, n) == [d EXCEPT !.nodeCtr = id,
                                         !.nodes   = Insert(@, id, n)]

\* The record of a new node and its entry in ext_ids.
InsertNode(d, id, n) == [d EXCEPT !.nodeCtr = id,
                                  !.nodes  = Insert(@, id, n),
                                  !.extIds = Insert(@, n.ext, id)]

\* Mutant: a node that exists is given the type of the call.
UpsertNodeRetypes(d, ext, type, now) ==
  IF ext = Empty THEN Err(d)
  ELSE LET t  == InternOptional(d, type)
           id == IF ext \in DOMAIN d.extIds THEN d.extIds[ext]
                 ELSE t.db.nodeCtr + 1
           n  == [ext |-> ext, type |-> t.id]
       IN IF ext \in DOMAIN d.extIds
          THEN Ok([t.db EXCEPT !.nodes = Insert(@, id, n)], id)
          ELSE Ok(AppendEvent(InsertNode(t.db, id, n), NodeAdded(n), now), id)

UpsertNode(d, ext, type, now) ==
  IF ext = Empty THEN Err(d)
  ELSE IF ext \in DOMAIN d.extIds THEN Ok(d, d.extIds[ext])
  ELSE LET t  == InternOptional(d, type)
           id == t.db.nodeCtr + 1
           n  == [ext |-> ext, type |-> t.id]
       IN Ok(AppendEvent(InsertNode(t.db, id, n), NodeAdded(n), now), id)

\* Mutant: the interval is not checked.
ValidEdgeAnyInterval(e) == e.from # Zero /\ e.to # Zero

ValidEdge(e) == /\ e.vt # NoTs => e.vf <= e.vt
                /\ e.from # Zero
                /\ e.to # Zero

\* Mutant: the reverse adjacency row is filed under the source node.
InsertEdgeMisfiled(d, id, e) ==
  [d EXCEPT !.edges    = Insert(@, id, e),
            !.fwdAdj   = Insert(@, <<e.from, e.vf, id>>, e.to),
            !.revAdj   = Insert(@, <<e.from, e.vf, id>>, e.to),
            !.temporal = @ \cup {<<e.vf, id>>},
            !.superIdx = IF e.supersedes = Zero THEN @
                         ELSE @ \cup {<<e.supersedes, id>>}]

\* The canonical record and the four secondary indexes of a new edge.
InsertEdge(d, id, e) ==
  [d EXCEPT !.edges    = Insert(@, id, e),
            !.fwdAdj   = Insert(@, <<e.from, e.vf, id>>, e.to),
            !.revAdj   = Insert(@, <<e.to, e.vf, id>>, e.from),
            !.temporal = @ \cup {<<e.vf, id>>},
            !.superIdx = IF e.supersedes = Zero THEN @
                         ELSE @ \cup {<<e.supersedes, id>>}]

\* The strings are interned and the id is taken before the edge is validated.
AddEdgeInternal(d, from, to, in, old, now) ==
  LET t  == Intern(d, in.type)
      s  == InternOptional(t.db, in.source)
      id == s.db.edgeCtr + 1
      d1 == [s.db EXCEPT !.edgeCtr = id]
      e  == [from |-> from, to |-> to, type |-> t.id, source |-> s.id,
             vf |-> in.vf, vt |-> in.vt, supersedes |-> old]
  IN IF in.confident /\ ValidEdge(e)
     THEN Ok(AppendEvent(InsertEdge(d1, id, e), EdgeObserved(e), now), id)
     ELSE Err(d1)

\* Mutant: without a second endpoint the first is stored alone.
AddEdgeHalf(d, in, clk) ==
  IF in.type = Empty \/ (in.from = in.to /\ in.from = Empty) THEN Err(d)
  ELSE LET f == UpsertNode(d, in.from, Empty, clk[1])
           t == UpsertNode(f.db, in.to, Empty, clk[2])
       IN IF ~f.ok THEN f
          ELSE IF ~t.ok THEN Ok(t.db, Zero)
          ELSE AddEdgeInternal(t.db, f.id, t.id, in, Zero, clk[3])

\* clk[1], clk[2], ... are the clock readings of one call, in order.
AddEdge(d, in, clk) ==
  IF in.type = Empty \/ (in.from = in.to /\ in.from = Empty) THEN Err(d)
  ELSE LET f == UpsertNode(d, in.from, Empty, clk[1])
           t == UpsertNode(f.db, in.to, Empty, clk[2])
       IN IF ~f.ok THEN f
          ELSE IF ~t.ok THEN t
          ELSE AddEdgeInternal(t.db, f.id, t.id, in, Zero, clk[3])

\* Mutant: an edge that has ended may be given a later end.
InvalidateEdgeReopens(d, id, at, now) ==
  IF id \notin DOMAIN d.edges THEN Err(d)
  ELSE LET u == [d.edges[id] EXCEPT !.vt = at]
       IN IF ~ValidEdge(u) THEN Err(d)
          ELSE Ok(AppendEvent([d EXCEPT !.edges = Insert(@, id, u)],
                              EdgeInvalidated(id, at), now), id)

\* Mutant: the closing of an edge is not logged.
InvalidateEdgeSilently(d, id, at, now) ==
  IF id \notin DOMAIN d.edges THEN Err(d)
  ELSE LET e == d.edges[id]
           u == [e EXCEPT !.vt = at]
       IN IF e.vt # NoTs /\ e.vt <= at THEN Ok(d, id)
          ELSE IF ~ValidEdge(u) THEN Err(d)
          ELSE Ok([d EXCEPT !.edges = Insert(@, id, u)], id)

InvalidateEdge(d, id, at, now) ==
  IF id \notin DOMAIN d.edges THEN Err(d)
  ELSE LET e == d.edges[id]
           u == [e EXCEPT !.vt = at]
       IN IF e.vt # NoTs /\ e.vt <= at THEN Ok(d, id)
          ELSE IF ~ValidEdge(u) THEN Err(d)
          ELSE Ok(AppendEvent([d EXCEPT !.edges = Insert(@, id, u)],
                              EdgeInvalidated(id, at), now), id)

\* Mutant: an error of invalidate_edge is ignored.
SupersedeEdgeRegardless(d, old, in, clk) ==
  IF old \notin DOMAIN d.edges THEN Err(d)
  ELSE LET f == UpsertNode(d, in.from, Empty, clk[1])
           t == UpsertNode(f.db, in.to, Empty, clk[2])
           c == InvalidateEdge(t.db, old, in.vf, clk[3])
       IN IF ~f.ok THEN f
          ELSE IF ~t.ok THEN t
          ELSE AddEdgeInternal(c.db, f.id, t.id, in, old, clk[4])

SupersedeEdge(d, old, in, clk) ==
  IF old \notin DOMAIN d.edges THEN Err(d)
  ELSE LET f == UpsertNode(d, in.from, Empty, clk[1])
           t == UpsertNode(f.db, in.to, Empty, clk[2])
           c == InvalidateEdge(t.db, old, in.vf, clk[3])
           n == AddEdgeInternal(c.db, f.id, t.id, in, old, clk[4])
       IN IF ~f.ok THEN f
          ELSE IF ~t.ok THEN t
          ELSE IF ~c.ok THEN c
          ELSE IF ~n.ok THEN n
          ELSE Ok(AppendEvent(n.db, EdgeSuperseded(old, n.db.edges[n.id]),
                              clk[5]), n.id)

-----------------------------------------------------------------------------
(* Reads *)

LiveAt(e, t) == e.vf <= t /\ (e.vt # NoTs => t < e.vt)

\* Mutant: the upper bound of the range excludes as_of.
AdjRangeBefore(adj, node, asOf) == {k \in DOMAIN adj : k[1] = node /\ k[2] < asOf}

\* Keys of an adjacency table in (node, MIN, 0) .. (node, as_of, MAX).
AdjRange(adj, node, asOf) == {k \in DOMAIN adj : k[1] = node /\ k[2] <= asOf}

\* scan_adjacency: the ids of the edges neighbors_as_of returns.
ScanAdjacency(d, adj, node, asOf) ==
  {id \in {k[3] : k \in AdjRange(adj, node, asOf)} :
      id \in DOMAIN d.edges /\ LiveAt(d.edges[id], asOf)}

=============================================================================
