------------------------------- MODULE ChronaDb -------------------------------
(***************************************************************************)
(* A database handle (Db) with the transactions clients run on it, over    *)
(* the tables of ChronaStore.                                              *)
(*                                                                         *)
(* redb lets one write transaction exist at a time, works on a private     *)
(* copy of the tables, publishes it atomically on commit and forgets it    *)
(* otherwise; a snapshot is a copy of the committed tables.  So the state  *)
(* is the committed database, the writer's copy and what the writer may    *)
(* still do.  A caller meets an error from a call in one of two ways:      *)
(*   "propagate"  the error leaves the closure given to Db::write, which   *)
(*                drops the transaction (also `?` in user code);           *)
(*   "tolerate"   the caller notes the error and goes on to commit, as the *)
(*                CLI's import loops do for each rejected row.             *)
(***************************************************************************)
EXTENDS ChronaVerify, ChronaDiff

CONSTANTS EdgeInputs,   \* the arguments add_edge and supersede_edge get
          NodeInputs,   \* the arguments upsert_node gets
          ErrorPolicy,  \* how callers treat errors, see above
          Clock,        \* the values Ts::now() may return, in any order
          MaxEdgeId,    \* bounds on the counters, for model checking only
          MaxEventId

ASSUME InputAssumption ==
  /\ EdgeInputs \subseteq EdgeInput
  /\ NodeInputs \subseteq NodeInput
  /\ Clock \subseteq Time
  /\ ErrorPolicy \subseteq {"propagate", "tolerate"}

VARIABLES committed,    \* the tables every new snapshot sees
          txn,          \* the writer's copy; equal to committed when idle
          phase         \* "idle", "open", or "failed": only a drop can follow

vars == <<committed, txn, phase>>

\* The clock readings of one call, at most five events long.
Readings(n) == [1..n -> Clock]

-----------------------------------------------------------------------------

Init ==
  /\ committed = EmptyDb
  /\ txn = EmptyDb
  /\ phase = "idle"

BeginWrite ==
  /\ phase = "idle"
  /\ phase' = "open"
  /\ txn' = committed
  /\ UNCHANGED committed

\* Mutant: the error of a call is dropped and the transaction goes on.
ReturnsIgnoringError(r) ==
  /\ phase = "open"
  /\ r.db.edgeCtr <= MaxEdgeId
  /\ r.db.eventCtr <= MaxEventId
  /\ txn' = r.db
  /\ UNCHANGED <<committed, phase>>

\* A call of the open transaction has returned r.
Returns(r) ==
  /\ phase = "open"
  /\ r.db.edgeCtr <= MaxEdgeId
  /\ r.db.eventCtr <= MaxEventId
  /\ txn' = r.db
  /\ \/ r.ok  /\ phase' = "open"
     \/ ~r.ok /\ "tolerate" \in ErrorPolicy /\ phase' = "open"
     \/ ~r.ok /\ "propagate" \in ErrorPolicy /\ phase' = "failed"
  /\ UNCHANGED committed

CallUpsertNode ==
  \E in \in NodeInputs, now \in Clock :
    Returns(UpsertNode(txn, in.ext, in.type, now))

CallAddEdge ==
  \E in \in EdgeInputs, clk \in Readings(3) : Returns(AddEdge(txn, in, clk))

CallInvalidateEdge ==
  \E id \in 1..(txn.edgeCtr + 1), at \in Time, now \in Clock :
    Returns(InvalidateEdge(txn, id, at, now))

CallSupersedeEdge ==
  \E old \in 1..(txn.edgeCtr + 1), in \in EdgeInputs, clk \in Readings(5) :
    Returns(SupersedeEdge(txn, old, in, clk))

Commit ==
  /\ phase = "open"
  /\ committed' = txn
  /\ phase' = "idle"
  /\ UNCHANGED txn

\* Mutant: the writes of a dropped transaction outlive it.
RollbackKeepsWrites ==
  /\ phase # "idle"
  /\ phase' = "idle"
  /\ UNCHANGED <<committed, txn>>

\* abort(), a drop without commit, or a crash of the process and a reopen:
\* redb comes back with the last committed tables in all three.
Rollback ==
  /\ phase # "idle"
  /\ txn' = committed
  /\ phase' = "idle"
  /\ UNCHANGED committed

Call == CallUpsertNode \/ CallAddEdge \/ CallInvalidateEdge \/ CallSupersedeEdge

Next == BeginWrite \/ Call \/ Commit \/ Rollback

Spec == Init /\ [][Next]_vars

-----------------------------------------------------------------------------
(* Invariants.  A writer may commit after any call, also a failed one, so   *)
(* they hold of its copy after every call and not only at commit.           *)

\* Types of the three variables.
TypeOK ==
  /\ IsDatabase(committed)
  /\ IsDatabase(txn)
  /\ phase \in {"idle", "open", "failed"}

\* strings::intern keeps strings_fwd and strings_rev inverse to each other.
StringsOK == InternerBijective(txn) /\ InternerBijective(committed)

\* upsert_node keeps one node per external id, under gapless ids.
NodesOK == NodesNamed(txn) /\ NodesNamed(committed)

\* No edge dangles, whichever call failed half way before the commit.
EdgesOK == EdgesResolve(txn) /\ EdgesResolve(committed)

\* The four indexes agree with the edges table, also after a failed call and
\* after invalidate_edge rewrote a record.
IndexesOK == IndexesMirrorEdges(txn) /\ IndexesMirrorEdges(committed)

\* supersede_edge closes the old edge no later than the new one starts, and
\* no later call reopens it.
RevisionsOK == RevisionsOrdered(txn) /\ RevisionsOrdered(committed)

\* append_event never overwrites an event, though wall-clock keys may repeat
\* or go back.
LogOK == LogNumbered(txn) /\ LogNumbered(committed)

\* The event log accounts for every valid_to in the edges table.
LogExplainsState == LogExplainsValidity(txn)

\* neighbors_as_of and reverse_neighbors_as_of miss nothing and invent nothing.
ReadsExact == ScansExact(committed)

\* Snapshot::verify raises no false alarm: whatever calls failed before the
\* commit, its report of the file is clean.
VerifyAccepts == IsClean(txn) /\ IsClean(committed)

\* Snapshot::verify notices when any row is gone from the edges, their
\* adjacency tables, ext_ids or the two halves of the interner.
LostRowsReported == \A d \in LostRow(committed) : ~IsClean(d)

\* At most one revision of a chain is live at any time.
ChainsExclusive == OneLiveRevision(committed)

\* Under Db::write with errors propagated, no failed call has left anything in
\* what is committed: no edge id or string (add_edge_internal takes both before
\* it validates), and no node that neither upsert_node was asked for nor an edge
\* needs (add_edge creates the first endpoint before the second is refused).  An
\* old edge that a failed supersede_edge has closed comes with a lost edge id.
CommitsHoldNoResidue ==
  /\ NoResidue(committed)
  /\ NodesServe(committed, {in.ext : in \in NodeInputs})

\* The documented fold: every event of the committed log has the effect that
\* ARCHITECTURE.md 3.5 gives its kind, and the result is the edges table.
ReplayRebuildsEdges == ReplayEdges(committed, EdgeEvents) = committed.edges

\* What holds of the log instead: it rebuilds the edges table if EdgeSuperseded
\* is taken for a note (db.rs: "for audit/diff") next to the EdgeObserved and
\* EdgeInvalidated of the same call; the documented fold does as long as nothing
\* was superseded, and never after, because it stores each revision twice.
LogRebuildsEdges ==
  /\ ReplayEdges(committed, EdgeEvents \ {"EdgeSuperseded"}) = committed.edges
  /\ ReplayRebuildsEdges <=> committed.superIdx = {}

\* A diff over a range with every clock reading in it agrees with the committed
\* tables, whatever the order in which the clock gave the events their keys; and
\* so do two diffs over the parts of such a range together: what lies on a bound
\* is in the one part or the other, and in no more than one.
DiffsAccount ==
  \A t1, t2 \in Time :
    (\A now \in Clock : t1 <= now /\ now <= t2) =>
      /\ DiffTellsTables(committed, DiffBetween(committed, t1, t2))
      /\ \A t \in Time : t1 <= t /\ t < t2 =>
           DiffTellsTables(committed, Sum(DiffBetween(committed, t1, t),
                                          DiffBetween(committed, t + 1, t2)))

-----------------------------------------------------------------------------
(* What no step may do *)

\* What was committed is never lost or rewritten: strings, nodes and events
\* stay as they are, and of an edge only valid_to moves, and only earlier.
HistoryPreserved == [][Keeps(committed, committed')]_vars

=============================================================================
