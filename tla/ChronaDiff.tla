------------------------------ MODULE ChronaDiff ------------------------------
(***************************************************************************)
(* events_between and diff_between (db.rs, temporal/diff.rs): a summary of *)
(* the events whose wall-clock key lies in [t1, t2], both ends included.   *)
(* The list of entries is left out: the ids in it are placeholders.        *)
(***************************************************************************)
EXTENDS ChronaInvariants

\* Mutant: the upper bound of the range is the first key at t2.
EventsUpTo(d, t1, t2) == {k \in DOMAIN d.events : t1 <= k[1] /\ k[1] < t2}

\* Mutant: the lower bound of the range is forgotten.
EventsSince(d, t1, t2) == {k \in DOMAIN d.events : k[1] <= t2}

\* Keys of the event table in (t1, 0) .. (t2, MAX).
EventsBetween(d, t1, t2) == {k \in DOMAIN d.events : t1 <= k[1] /\ k[1] <= t2}

CountOf(d, keys, kind) == Cardinality({k \in keys : d.events[k].kind = kind})

\* DiffSummary::push over the events of the range.  No writer emits NodeRemoved
\* or PropertySet.
DiffBetween(d, t1, t2) ==
  LET keys == EventsBetween(d, t1, t2)
  IN [nodes_added       |-> CountOf(d, keys, "NodeAdded"),
      edges_added       |-> CountOf(d, keys, "EdgeObserved"),
      edges_invalidated |-> CountOf(d, keys, "EdgeInvalidated"),
      edges_superseded  |-> CountOf(d, keys, "EdgeSuperseded")]

\* What two consecutive diffs report together.
Sum(r, s) == [f \in DOMAIN r |-> r[f] + s[f]]

\* Edges whose stored record is none that was ever observed: they have been
\* given an end since.
EndedSince(d) ==
  {i \in DOMAIN d.edges : \A k \in DOMAIN d.events : d.events[k] # EdgeObserved(d.edges[i])}

\* The ends an edge can have been given, one after the other, down to its last.
PossibleEnds(d) ==
  {p \in (DOMAIN d.edges) \X Time : /\ d.edges[p[1]].vt # NoTs
                                    /\ d.edges[p[1]].vt <= p[2]}

\* The summary s of the whole log agrees with the tables: every node and edge
\* was added once and every revision superseded once; an edge that ended since
\* it was observed was invalidated, and none was given the same end twice, nor
\* one before the end it has.
DiffTellsTables(d, s) ==
  /\ s.nodes_added = Cardinality(DOMAIN d.nodes)
  /\ s.edges_added = Cardinality(DOMAIN d.edges)
  /\ s.edges_superseded = Cardinality(d.superIdx)
  /\ s.edges_invalidated >= Cardinality(EndedSince(d))
  /\ s.edges_invalidated <= Cardinality(PossibleEnds(d))

=============================================================================
