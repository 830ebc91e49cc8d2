--------------------------- MODULE ChronaInvariants ---------------------------
(***************************************************************************)
(* What the tables of one database promise one another, as predicates on a *)
(* database value.  ARCHITECTURE.md 7.1 lists some of them in words; the   *)
(* rest are what the readers in db.rs rely on.                             *)
(***************************************************************************)
EXTENDS ChronaStore, FiniteSets, Sequences

\* strings_fwd and strings_rev are inverses, and the ids in use are exactly
\* those the counter has handed out: no id is lost and none is ahead of it.
InternerBijective(d) ==
  /\ DOMAIN d.strRev = 1..d.strCtr
  /\ \A s \in DOMAIN d.strFwd : /\ d.strFwd[s] \in DOMAIN d.strRev
                                /\ d.strRev[d.strFwd[s]] = s
  /\ \A i \in DOMAIN d.strRev : /\ d.strRev[i] \in DOMAIN d.strFwd
                                /\ d.strFwd[d.strRev[i]] = i

\* A string id stored in a record: 0 stands for "none".
Resolves(d, i) == i = Zero \/ i \in DOMAIN d.strRev

\* ext_ids is a bijection onto the nodes, whose ids have no gap, and the type
\* of a node resolves.
NodesNamed(d) ==
  /\ DOMAIN d.nodes = 1..d.nodeCtr
  /\ \A x \in DOMAIN d.extIds : /\ d.extIds[x] \in DOMAIN d.nodes
                                /\ d.nodes[d.extIds[x]].ext = x
  /\ \A i \in DOMAIN d.nodes : /\ d.nodes[i].ext \in DOMAIN d.extIds
                               /\ d.extIds[d.nodes[i].ext] = i
                               /\ Resolves(d, d.nodes[i].type)

\* view_edge never meets a dangling id, and the stored interval is well formed.
EdgesResolve(d) ==
  /\ DOMAIN d.edges \subseteq 1..d.edgeCtr
  /\ \A i \in DOMAIN d.edges :
       /\ {d.edges[i].from, d.edges[i].to} \subseteq DOMAIN d.nodes
       /\ d.edges[i].type \in DOMAIN d.strRev
       /\ Resolves(d, d.edges[i].source)
       /\ d.edges[i].vt # NoTs => d.edges[i].vf <= d.edges[i].vt

\* Each index holds exactly one row per edge (and superseding edge), under the
\* key and with the value that the canonical record dictates.
IndexesMirrorEdges(d) ==
  /\ DOMAIN d.fwdAdj = {<<d.edges[i].from, d.edges[i].vf, i>> : i \in DOMAIN d.edges}
  /\ DOMAIN d.revAdj = {<<d.edges[i].to, d.edges[i].vf, i>> : i \in DOMAIN d.edges}
  /\ \A i \in DOMAIN d.edges :
       /\ d.fwdAdj[<<d.edges[i].from, d.edges[i].vf, i>>] = d.edges[i].to
       /\ d.revAdj[<<d.edges[i].to, d.edges[i].vf, i>>] = d.edges[i].from
  /\ d.temporal = {<<d.edges[i].vf, i>> : i \in DOMAIN d.edges}
  /\ d.superIdx = {<<d.edges[i].supersedes, i>> :
                     i \in {j \in DOMAIN d.edges : d.edges[j].supersedes # Zero}}

\* A revision points back to an older edge that stopped being valid no later
\* than the revision starts, whatever was invalidated since.
RevisionsOrdered(d) ==
  \A i \in DOMAIN d.edges :
    LET o == d.edges[i].supersedes
    IN o # Zero => /\ o \in DOMAIN d.edges
                   /\ o < i
                   /\ d.edges[o].vt # NoTs
                   /\ d.edges[o].vt <= d.edges[i].vf

\* Event ids are 1..event_id_counter, each used once.
LogNumbered(d) ==
  /\ \A k \in DOMAIN d.events : k[2] \in 1..d.eventCtr
  /\ \A i \in 1..d.eventCtr : \E k \in DOMAIN d.events : k[2] = i
  /\ \A j, k \in DOMAIN d.events : j[2] = k[2] => j = k

DbInv(d) ==
  /\ InternerBijective(d)
  /\ NodesNamed(d)
  /\ EdgesResolve(d)
  /\ IndexesMirrorEdges(d)
  /\ RevisionsOrdered(d)
  /\ LogNumbered(d)

-----------------------------------------------------------------------------
(* The event log against the canonical tables *)

Closings(d, i) == {k \in DOMAIN d.events :
                     /\ d.events[k].kind = "EdgeInvalidated"
                     /\ d.events[k].id = i}

\* The stored valid_to is the one logged last, every earlier closing of the
\* edge was later in valid time, and an edge never closed is as observed.
LogExplainsValidity(d) ==
  \A i \in DOMAIN d.edges :
    IF Closings(d, i) = {}
    THEN \E k \in DOMAIN d.events : d.events[k] = EdgeObserved(d.edges[i])
    ELSE \E k \in Closings(d, i) :
           /\ d.events[k].at = d.edges[i].vt
           /\ \A j \in Closings(d, i) \ {k} : /\ j[2] < k[2]
                                              /\ d.events[j].at > d.events[k].at

EventById(d, i) == d.events[CHOOSE k \in DOMAIN d.events : k[2] = i]

\* Payloads carry no id of their own, so a replayed record gets the next id, as
\* the writer gave it.
Appended(t, e) == Insert(t, Cardinality(DOMAIN t) + 1, e)

Ended(t, i, at) == IF i \in DOMAIN t THEN Insert(t, i, [t[i] EXCEPT !.vt = at]) ELSE t

\* The effect of an event on the edges, as ARCHITECTURE.md 3.5 gives it.
Replayed(t, ev) ==
  CASE ev.kind = "EdgeObserved"    -> Appended(t, ev.edge)
    [] ev.kind = "EdgeInvalidated" -> Ended(t, ev.id, ev.at)
    [] ev.kind = "EdgeSuperseded"  -> Ended(Appended(t, ev.edge), ev.old, ev.edge.vf)
    [] OTHER                       -> t

EdgeEvents == {"EdgeObserved", "EdgeInvalidated", "EdgeSuperseded"}

Applied(t, ev, kinds) == IF ev.kind \in kinds THEN Replayed(t, ev) ELSE t

\* The fold of the events of some kinds in event-id order.
ReplayEdges(d, kinds) ==
  LET fold[i \in 0..d.eventCtr] ==
        IF i = 0 THEN NoRows ELSE Applied(fold[i - 1], EventById(d, i), kinds)
  IN fold[d.eventCtr]

\* Edge ids have no gap and each interned string names something: neither an id
\* nor a string was taken for a record that was not stored.
NoResidue(d) ==
  /\ DOMAIN d.edges = 1..d.edgeCtr
  /\ DOMAIN d.strRev = ({d.nodes[i].type : i \in DOMAIN d.nodes}
                        \cup {d.edges[i].type : i \in DOMAIN d.edges}
                        \cup {d.edges[i].source : i \in DOMAIN d.edges}) \ {Zero}

\* Every node is the end of an edge, unless it has one of the given names.
NodesServe(d, given) ==
  \A n \in DOMAIN d.nodes :
    \/ d.nodes[n].ext \in given
    \/ \E i \in DOMAIN d.edges : n \in {d.edges[i].from, d.edges[i].to}

-----------------------------------------------------------------------------
(* What readers see *)

Starts(d, node) == {i \in DOMAIN d.edges : d.edges[i].from = node}
Ends(d, node)   == {i \in DOMAIN d.edges : d.edges[i].to = node}

\* The range scans over the adjacency tables return exactly the live edges a
\* scan of the whole edges table would, in both directions, at every time.
ScansExact(d) ==
  \A node \in 1..(d.nodeCtr + 1), t \in Time :
    /\ ScanAdjacency(d, d.fwdAdj, node, t)
         = {i \in Starts(d, node) : LiveAt(d.edges[i], t)}
    /\ ScanAdjacency(d, d.revAdj, node, t)
         = {i \in Ends(d, node) : LiveAt(d.edges[i], t)}

\* revision_chain: the edges reached from i along supersedes, i first.
RevisionChain(d, i) ==
  LET walk[j \in 0..i] == IF j \notin DOMAIN d.edges THEN <<>>
                          ELSE <<j>> \o walk[d.edges[j].supersedes]
  IN walk[i]

\* At no time are two revisions of one chain live.
OneLiveRevision(d) ==
  \A i \in DOMAIN d.edges, t \in Time :
    LET chain == RevisionChain(d, i)
    IN \A m, n \in DOMAIN chain :
         LiveAt(d.edges[chain[m]], t) /\ LiveAt(d.edges[chain[n]], t) => m = n

-----------------------------------------------------------------------------
(* What a later database still holds *)

\* Every row of t is in u.
Kept(t, u) == \A k \in DOMAIN t : k \in DOMAIN u /\ u[k] = t[k]

\* later keeps every row of d; an edge may only lose validity at its end.
Keeps(d, later) ==
  /\ Kept(d.strFwd, later.strFwd) /\ Kept(d.nodes, later.nodes)
  /\ Kept(d.events, later.events)
  /\ \A i \in DOMAIN d.edges :
       /\ i \in DOMAIN later.edges
       /\ LET e == d.edges[i]
              f == later.edges[i]
          IN /\ [f EXCEPT !.vt = e.vt] = e
             /\ \/ f.vt = e.vt
                \/ f.vt # NoTs /\ (e.vt # NoTs => f.vt < e.vt)

=============================================================================
