------------------------------ MODULE ChronaRead ------------------------------
(***************************************************************************)
(* How readers of a snapshot turn ids into what clients see (db.rs).       *)
(***************************************************************************)
EXTENDS ChronaInvariants

\* resolve_string; id 0 is "no string".
StringOf(d, i) == IF i = Zero THEN Empty ELSE d.strRev[i]

\* view_edge: an edge with its ids replaced by what they stand for.
ViewEdge(d, i) ==
  LET e == d.edges[i]
  IN [from    |-> d.nodes[e.from].ext,
      to      |-> d.nodes[e.to].ext,
      type    |-> d.strRev[e.type],
      source  |-> StringOf(d, e.source),
      vf      |-> e.vf,
      vt      |-> e.vt,
      revises |-> e.supersedes]

\* What get_node_by_ext_id and all_edges_view show of a database.
View(d) ==
  [nodes |-> [x \in DOMAIN d.extIds |-> StringOf(d, d.nodes[d.extIds[x]].type)],
   facts |-> [i \in DOMAIN d.edges |-> ViewEdge(d, i)]]

\* Mutant: an edge without a source is looked up, too.
DanglingUnsourced(d, i) ==
  \/ ~({d.edges[i].type, d.edges[i].source} \subseteq DOMAIN d.strRev)
  \/ ~({d.edges[i].from, d.edges[i].to} \subseteq DOMAIN d.nodes)

\* view_edge meets an id that nothing is stored under: Error::Internal.
Dangling(d, i) ==
  \/ d.edges[i].type \notin DOMAIN d.strRev
  \/ ~Resolves(d, d.edges[i].source)
  \/ ~({d.edges[i].from, d.edges[i].to} \subseteq DOMAIN d.nodes)

\* scan_adjacency in the order of the index: by valid_from, then edge id.
ScanInOrder(d, adj, node, t) ==
  LET ids == ScanAdjacency(d, adj, node, t)
      Before(i, j) == \/ d.edges[i].vf < d.edges[j].vf
                      \/ d.edges[i].vf = d.edges[j].vf /\ i < j
  IN [k \in 1..Cardinality(ids) |->
        CHOOSE i \in ids : Cardinality({j \in ids : Before(j, i)}) = k - 1]

=============================================================================
