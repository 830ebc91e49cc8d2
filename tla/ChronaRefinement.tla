--------------------------- MODULE ChronaRefinement ---------------------------
(***************************************************************************)
(* ChronaDb implements TemporalGraph.  The mapping is the reader's: it     *)
(* resolves a database the way Snapshot::view_edge does (ChronaRead).      *)
(***************************************************************************)
EXTENDS ChronaDb, ChronaRead

Graph == INSTANCE TemporalGraph WITH graph <- View(committed), draft <- View(txn)

\* Behind ids, interner, indexes and log, clients see named nodes and facts
\* that keep their meaning, changed by atomic transactions.
ImplementsTemporalGraph == Graph!Spec

=============================================================================
