----------------------------- MODULE ChronaVerify -----------------------------
(***************************************************************************)
(* Snapshot::verify (crates/chrona-core/src/verify.rs): the errors it      *)
(* reports of a database, as a set of named findings.                      *)
(*                                                                         *)
(* A file that was opened has its meta keys, and every record decodes to   *)
(* what was encoded, so that check_meta and the decode errors have nothing *)
(* to report; a stored confidence was checked by Edge::validate.           *)
(***************************************************************************)
EXTENDS ChronaInvariants

Finding(what, where) == [what |-> what, where |-> where]

\* One error per row of strings_fwd, in the order the code looks for them.
InternerFindings(d) ==
  (IF Cardinality(DOMAIN d.strFwd) = Cardinality(DOMAIN d.strRev) THEN {}
   ELSE {Finding("interner size", Zero)})
  \cup {Finding("strings_rev missing", d.strFwd[s]) :
          s \in {x \in DOMAIN d.strFwd : d.strFwd[x] \notin DOMAIN d.strRev}}
  \cup {Finding("strings disagree", d.strFwd[s]) :
          s \in {x \in DOMAIN d.strFwd : /\ d.strFwd[x] \in DOMAIN d.strRev
                                         /\ d.strRev[d.strFwd[x]] # x}}
  \cup {Finding("string id exceeds counter", d.strFwd[s]) :
          s \in {x \in DOMAIN d.strFwd : /\ d.strFwd[x] \in DOMAIN d.strRev
                                         /\ d.strFwd[x] > d.strCtr}}

\* Only from nodes to ext_ids; a row of ext_ids that no node has goes unseen.
NodeFindings(d) ==
  {Finding("ext_ids", i) :
     i \in {j \in DOMAIN d.nodes : \/ d.nodes[j].ext \notin DOMAIN d.extIds
                                   \/ d.extIds[d.nodes[j].ext] # j}}

EdgeFindings(d) ==
  {Finding("missing from-node", i) :
     i \in {j \in DOMAIN d.edges : d.edges[j].from \notin DOMAIN d.nodes}}
  \cup {Finding("missing to-node", i) :
          i \in {j \in DOMAIN d.edges : d.edges[j].to \notin DOMAIN d.nodes}}
  \cup {Finding("valid_to < valid_from", i) :
          i \in {j \in DOMAIN d.edges : /\ d.edges[j].vt # NoTs
                                        /\ d.edges[j].vt < d.edges[j].vf}}

\* check_events walks the table in key order, in which no key repeats or goes
\* back: it counts and reports nothing.
EventFindings(d) == {}

\* Mutant: only one of the two adjacency tables is counted.
AdjacencyFindingsForward(d) ==
  IF Cardinality(DOMAIN d.fwdAdj) = Cardinality(DOMAIN d.edges) THEN {}
  ELSE {Finding("fwd_adj count", Zero)}

\* check_adjacency_counts compares sizes, not rows.
AdjacencyFindings(d) ==
  (IF Cardinality(DOMAIN d.fwdAdj) = Cardinality(DOMAIN d.edges) THEN {}
   ELSE {Finding("fwd_adj count", Zero)})
  \cup (IF Cardinality(DOMAIN d.revAdj) = Cardinality(DOMAIN d.edges) THEN {}
        ELSE {Finding("rev_adj count", Zero)})

VerifyReport(d) == InternerFindings(d) \cup NodeFindings(d) \cup EdgeFindings(d)
                     \cup EventFindings(d) \cup AdjacencyFindings(d)

IsClean(d) == VerifyReport(d) = {}

-----------------------------------------------------------------------------
(* What a clean report is worth *)

Without(t, k) == [x \in DOMAIN t \ {k} |-> t[x]]

\* d after the loss of one row of a table that another one mirrors.
LostRow(d) ==
  {[d EXCEPT !.strFwd = Without(@, k)] : k \in DOMAIN d.strFwd}
  \cup {[d EXCEPT !.strRev = Without(@, k)] : k \in DOMAIN d.strRev}
  \cup {[d EXCEPT !.extIds = Without(@, k)] : k \in DOMAIN d.extIds}
  \cup {[d EXCEPT !.edges  = Without(@, k)] : k \in DOMAIN d.edges}
  \cup {[d EXCEPT !.fwdAdj = Without(@, k)] : k \in DOMAIN d.fwdAdj}
  \cup {[d EXCEPT !.revAdj = Without(@, k)] : k \in DOMAIN d.revAdj}

=============================================================================
