# A TLA+ model of ChronaDB

ChronaDB is an embedded temporal graph database in Rust. A file holds named
nodes and *edges*: facts that were valid over an interval `[valid_from,
valid_to)`, were observed by a source, and may supersede older facts. This
directory holds a model of it in TLA+, TLC configurations that check the model
on small instances, and proofs checked by TLAPS. Paths below are relative to
the repository; `core/` abbreviates `crates/chrona-core/src/`.

## 1. Inventory

| Component | State | Operations | What makes it correct |
|---|---|---|---|
| Store: `core/storage/`, `core/graph/`, writers of `core/db.rs` | ten redb tables and four id counters (`nodes`, `ext_ids`, `edges`, `fwd_adj`, `rev_adj`, `temporal_idx`, `supersedes_idx`, `events`, `strings_fwd/rev`) | `upsert_node`, `add_edge`, `invalidate_edge`, `supersede_edge` | tables agree with one another after *every* call, failed ones included; ids are fresh; the log explains the edges |
| Transactions: `Db`, `WriteTxn` | committed tables, the writer's private copy | `begin_write`, `commit`, `abort`, drop, `Db::write`; crash and reopen | all or nothing; history only grows |
| Snapshot reads: readers of `core/db.rs` | a frozen copy of the committed tables | point reads, `neighbors_as_of`, `reverse_neighbors_as_of`, `view_edge`, `revision_chain`, `all_edges_view`, `events_between` | range scans miss nothing and invent nothing; no dangling id |
| Opening: `core/storage/mod.rs` | the file | `open_or_create`, `initialize_new`, `verify_existing` | a file is usable after a crash at any point |
| Traversal: `core/temporal/traverse.rs` | queue, visited set, parents | `n_hops`, `shortest_path` | edges within the hop budget, shortest paths |
| Diff: `core/temporal/diff.rs` | summary lists | `push` per event | the summary tells what changed |
| Verifier: `core/verify.rs` | report | the checks of FORMAT.md 8 | each check reports what it claims to |
| Query text: `crates/chrona-query` (`lexer.rs`, `parser.rs`) | tokens, a position | `tokenize`, `parse` | a text is read as written or refused |
| Queries: `exec.rs`, `filter.rs` of the same crate | rows | `execute`, filters, limit | an answer is what the query says |
| Python: `crates/chrona-py` | handle mutex, transaction cell, GIL | `Db.write/read/query`, `WriteTxn` methods, context manager | no operation blocks forever |
| CLI: `crates/chrona-cli/src/main.rs` | none of its own | `init`, `import`, and commands that open and read | the file holds the lines reported as imported, no more and no fewer |
| Demo and browser: `demo.rs`, `tui.rs` of the same crate | selection, time cursor, modes, query line, panes | `seed`; one handler per key | the panes show what the selection, the cursor and the query line say |

Interaction: the CLI and the bindings call `Db`; `Db` hands out one `WriteTxn`
at a time (redb's writer lock) and any number of snapshots; queries, traversal,
diff, verify and the browser only read a snapshot. Nothing is asynchronous inside the core:
the hard behaviours are calls that fail half way while the caller goes on,
transactions that end in a commit, a drop or a crash, long sequences of
invalidations and supersessions, a wall clock that is not monotone, and (in the
bindings) locks taken in an order nobody wrote down. `PROJECT.json` lists these
hazards at their lines.

## 2. Modules

- **ChronaStore** — the tables as functions, one record per database value, and
  every operation of `WriteTxn` as an operator from a database to a *reply*
  `[ok, db, id]`. `db` is what the tables hold when the call returns, with or
  without an error: nothing in the code undoes the writes a failing call has
  made. The order of checks and writes is the code's: strings are interned and
  the edge id is taken before the edge is validated, both endpoints are created
  before either, `supersede_edge` closes the old edge before it adds the new.
- **ChronaInvariants** — what the tables promise one another, as predicates on a
  database value.
- **ChronaDb** — the state machine: `committed`, the writer's copy `txn`, and
  `phase`. `BeginWrite`, one action per `WriteTxn` method, `Commit`, and
  `Rollback` (abort, drop, or crash and reopen, which redb makes the same). A
  caller meets an error in one of two ways (`ErrorPolicy`): it propagates it, so
  that `Db::write` drops the transaction, or tolerates it and may commit, as the
  CLI's import loops do (`crates/chrona-cli/src/main.rs:536-552`, `567-581`).
- **TemporalGraph** — the abstract specification: named nodes and facts, changed
  by transactions, with no id tables, interner, indexes or log.
- **ChronaRead** — how a reader turns ids into what clients see (`view_edge`,
  `resolve_string`, `all_edges_view`).
- **ChronaRefinement** — `ChronaDb` implements `TemporalGraph` under that mapping.
- **ChronaVerify** — `Snapshot::verify` as the set of errors it reports of a database,
  and what a clean report is worth. It checks less than FORMAT.md 8 lists: of the
  counters only the string ids', of the adjacency tables only the sizes, nothing of
  `supersedes_idx` and the temporal index.
- **ChronaDiff** — `events_between` and the counts of `diff_between`. The entries of a
  summary are left out; most of the ids in them are placeholders. Ranges that end
  before they start are not asked for.
- **ChronaTraverse** — `n_hops` and `shortest_path` as a machine with one step per turn
  of their loops (`HopsExpand`/`PathExpand` pop the queue, `HopsEdge`/`PathEdge` take
  one edge, `PathBack` follows the parents). What an `EdgeScanner` answers is the
  function `scan`. The comment of `shortest_path` calls it bidirectional; it searches
  forwards only.
- **ChronaText** — `tokenize` and `parse`, from a text in pieces (words, quoted strings,
  numbers, single characters) to the tree of `ast.rs`, with every refusal: unknown
  characters, numbers beyond `u8`, `u32` and `u64`, missing words, leftovers. Its last
  part writes a tree by the grammar of `docs/query-language.md`, for the properties.
- **ChronaQuery** — a query from its text to its answer. `Parse` makes the tree;
  then names and times are resolved, rows read by index scan or
  by the steps of `ChronaTraverse` (`INSTANCE`) over the scans of the snapshot, then
  filtered and limited. A snapshot does not change, so that the search can be laid out
  in the initial state. A filter may name every field `filter.rs` knows; what the store
  only hands through, `confidence` and `observed_at`, are functions of the edge id, and
  a number in a text is compared as the `f32` it rounds to.
- **ChronaImport** — what `parse_csv_line` and `parse_jsonl_line` make of a line: missing
  columns, defaults, values that do not parse, and JSON values of another type.
- **ChronaOpen** — command line processes on one file. `CheckVacant` is the refusal of
  `init` and `demo` to touch a file that exists; then `path.exists()`,
  `Database::create`, and `initialize_new` or `verify_existing`, each a step of
  its own, with a crash possible after any. What is at the path is one of six
  kinds (nothing, an empty file, another program's file, a redb container
  without `meta`, one of a newer version, a readable database). An opened process
  imports: `BeginImport`, one `ImportLine` for each line that decodes (through `AddEdge`
  of `ChronaStore`, whether it then succeeds or not), `CommitImport` — the loops of
  `main.rs:524-557` and `559-586`. The other commands open, read and `Close`.
- **ChronaDemo** — the six transactions of `chrona demo`, through the operations of
  `ChronaStore`; the command can die between any two, or stop at an error.
- **ChronaBrowser** — `chrona tui` on the demo's file: one action per key, what
  `refresh` and `refresh_edges` put into the panes, `run_query`, and a clock that moves
  either way meanwhile. It extends `ChronaDemo`, so that it browses what was seeded.
- **ChronaPy** — threads of a Python program that share a `chrona.Db`. The state
  is who holds the GIL, the mutex around the handle and the core's writer lock,
  where each thread is in a call, and what its `WriteTxn` cell holds: `CommitTxn`
  empties it inside the `with` block, `LeaveTxn` is `__exit__` or the drop. What is
  stored is `ChronaDb`'s matter.
- **ChronaStoreProofs**, **ChronaDbProofs**, **ChronaLogProofs**, **ChronaOpenProofs**,
  **ChronaPyProofs**, **ChronaTraverseProofs**, **ChronaQueryProofs**,
  **ChronaBrowserProofs** — the proofs (section 5).
- **MCChronaDb**, **MCChronaTraverse**, **MCChronaQuery**, **MCChronaOpen**,
  **MCChronaBrowser** — the values TLC uses for the store, the searches, the queries,
  the imports and the browser. `ChronaPy` takes its own from the configurations.

Each definition is mapped to its lines in `PROJECT.json`. Operators commented
`Mutant:` are wrong versions of the definition that follows them; they are used
only to show that the properties can fail.

**Data left out.** Properties, `observed_at`, `created_at`, and the value of the
confidence, of which only "is in [0,1]" decides anything (`confident`). Record
bytes are left out: a record is what it holds. `0` is the code's `ZERO` and also
`None`, which the encoders keep apart from real ids. Errors of redb itself (I/O,
corruption) are left out; they leave a transaction that can only be dropped,
which `Rollback` covers.

**redb** is external: one writer at a time, a private copy, atomic publication at
commit, snapshots that do not change. `BeginWrite`, `Commit` and `Rollback` are
that contract as `core/db.rs` uses it.

## 3. Runs

The runs of the store use two external ids `a`, `b`, one type `T`, one source `S`
and the empty string. Bounds: `MaxEdgeId` and `MaxEventId` cap the counters (a
call that would pass them is not taken); `Clock` is the set of values `Ts::now()`
may return at any call, in any order.

| Run | Instance | Shows |
|---|---|---|
| `store` | times 0..1, well-formed and rejected inputs, 2 edge ids, both error policies | types, interner, nodes, edges, indexes and reads stay consistent after failed calls; history is only added to; the verifier reports losses and nothing else; `TemporalGraph!Spec` |
| `propagate` | errors propagated, `Clock = {0,1}`, 2 edge ids, 6 events | event keys never collide though the clock repeats and steps back between the events of a call; a diff agrees with the tables, and so do the diffs of the two parts of a span together; a commit holds no id, string or node of a failed call; the log rebuilds the edges, if `EdgeSuperseded` is taken for a note |
| `chains` | times 0..2, one endpoint, 3 edge ids, 8 events | the order within revision chains, at most one live revision, the log explains each `valid_to` |
| `traverse` | every multigraph of 3 nodes and 4 edges, hop budgets 0..3 | `n_hops` returns exactly the edges within the budget, once each; paths are shortest; "no path" is right; every search ends |
| `query` | every database of four `add_edge` calls from a fixed set, with and without an invalidation, and a graph whose branches differ in length; 59 queries on each, the same in other letters and spacing on one graph, and every text one edit away from seven further queries | a text means what is written or is refused; what the grammar allows is read as meant; lists, paths and errors against the edges table alone; limits drop the farthest |
| `open` | two processes, one of which may start before there is a file; all six kinds of file; imports of six kinds of line, 3 edge ids | no interleaving of checks, creates, imports and crashes initializes a database twice; its edges are the lines of the committed imports, in order; it stays readable |
| `py_one_writer` | three threads, one of which writes | the order in which the locks are held, and their end with a commit, exit or drop; every call returns and snapshots run beside a writer, unless the writer calls `write()` inside its own transaction |
| `browser` | the demo's graph after any number of its transactions, ten instants and one at either side, a line of at most one character (two accepted, one refused, a blank) | the panes agree with selection, cursor and the query entered last after any keys; nobody in the seeded history is at two places at once; Esc leads out |
| `doc_*` | small | statements of docs and comments that the code does not keep (below) |

Two ids of edges are enough for an edge and its revision or a burned id followed
by a stored edge; three for a chain of two revisions and for a branch. Three
times are the fewest in which an edge can be closed, closed earlier and
superseded strictly between. The widths of integers in texts are scaled down (`MaxU8`
3, `MaxU32` 5, `MaxU64` 9), so that every check of a range meets a number just within
and one just beyond it. Two processes are enough for a race between the check
and the creation of the file; three threads for one that owns the writer lock, one
that waits and one that reads. Deadlock is checked in the runs of the store and of
opening: an idle handle can always begin, a closed process can always open. The
searches, the queries and the browser stop, so that `traverse`, `query` and `browser` do
not check it; that a search stops with an answer is `Terminates`, that the browser can be
left is `EscLeaves`. `py_one_writer` does not check it either, since a thread that calls
`write()` inside its own transaction stops the program (`SelfBlocked`, divergence 4);
that nothing else does is `CallsReturn`.

**Divergences found** (each a run that TLC must find violated):

1. After a tolerated failure the fold of the log does not give the edges table
   (`doc_fold`): the failed call has taken an edge id, and payloads name no id. The run
   is bounded to three events, too few for a revision, to show this alone. With
   errors propagated the fold does give the edges until the first
   `supersede_edge`, and never after (below, *Store*; `LogRebuildsEdges`).
2. A query does not find a stored name that is not ASCII: `tokenize` takes each byte of
   a string literal for a character (`doc_text`).
3. Two processes that race to *create* a file: the slower one initializes what the
   faster one has already imported into, and the counters restart at zero below the
   ids in use; `verify`, which should compare them, reports nothing
   (`doc_open_race`). With a file in place, or one creator, it cannot happen (`open`,
   and for any number of processes `OpenKeepsStoreConsistent`).
4. With two writing Python threads, `db.write()` waits for the writer lock with
   the GIL held; the owner of the lock cannot run to end its transaction, nor can
   any reader (`doc_py_writers`). A single thread does the same to itself when it
   calls `db.write()` again before its transaction ends: it waits in `begin_write`
   (`crates/chrona-py/src/lib.rs:461`) for the lock it holds. The properties
   except this case, which any reader of the code sees, so that the run shows the other.

Others are plain from the code next to its comment or documentation, without a run:

- *Store.* ARCHITECTURE.md:176 gives `EdgeSuperseded` the effect of inserting the new
  edge and ending the old at its start. But `supersede_edge` logs an `EdgeObserved` for the
  new edge and an `EdgeInvalidated` for the old one as well (`core/db.rs:558-577`), so that the fold
  of item 6 (line 378) stores each revision twice; and it would move an end which
  `invalidate_edge` leaves where it is because it is earlier (`core/db.rs:529-532`).
  `LogRebuildsEdges`, of the run `propagate`, says what does hold: the fold that passes
  over `EdgeSuperseded` rebuilds the edges table, the documented one does as long as
  nothing has been superseded, and no longer. After `invalidate_edge` a stored record
  differs from the one in its
  `EdgeObserved` event, which FORMAT.md 8 calls never a legal state.
  `invalidate_edge` on an edge with a smaller `valid_to` returns `Ok` where its comment
  (`core/db.rs:525`) says it fails; for the same reason `supersede_edge` leaves the
  `valid_to` of an edge that had already ended (`core/db.rs:548`; what does hold, that
  it is never later than the start of the revision, is `RevisionsOK`). Superseding an
  edge twice makes a branch where ARCHITECTURE.md:293 says chains are never trees
  (along each path at most one revision is live all the same, `ChainsExclusive`; two
  branches may be live together). `supersede_edge` accepts the empty edge type that
  `add_edge` refuses (`core/db.rs:439`).
- *Opening.* A crash between `Database::create` and the commit of `initialize_new`
  leaves a container without a `meta` table, which no later open accepts, as FORMAT.md:381
  demands; `core/db.rs:31` promises that the file is created if it is missing.
  Commands that only read create the file, too.
- *Queries.* `WHO WAS CONNECTED` lists an edge from a node to itself twice where the
  documentation says union (`ListsExact` compares sets). `SHOW PATH` with `WHERE` or
  `LIMIT` may return a part of a path. A malformed filter is an error only if a row
  reaches it. `DIFF` and `WHAT CHANGED` are documented to ignore `LIMIT`; the parser
  refuses it. A number may end in its point, `3.`.
- *Command line.* A `valid_from` or `source` of a JSON line that is not a string, or a
  `confidence` that is not a number, is taken for absent and replaced by the default;
  JSON strings are read byte by byte, with the effect of item 2. The help of the browser
  offers `{` and `}` for 30 days where the code expects a shifted bracket; `r` cannot see
  anything new while the browser holds the file's lock.

## 4. Fairness

`ChronaDb`, `ChronaOpen`, `ChronaQuery` and `ChronaBrowser` state none: the code has no
background activity, so what happens next is up to callers and users, and their
properties are safety properties. `EscLeaves` brings its own premise, a user who from
some time on presses Esc again and again and no other key.

`ChronaPy` assumes of every thread:
- weak fairness of `LockForWrite`, `BeginWrite` and `Read`: native code that can go
  on does, as the thread is runnable and waits for nothing else;
- strong fairness of `YieldGil` and `TakeGil`: the interpreter makes a thread that
  runs Python code release the GIL after its switch interval, and hands it to one
  that waits, so that no thread is passed over for ever;
- strong fairness of `LeaveTxn`: a program leaves its `with` block if it gets to run.

Nothing is assumed of calls: a thread need not make any, nor commit, and may call
`write()` while its own transaction is open; `CallsReturn` and `SnapshotsRun` say what then
happens by an alternative of their own (`SelfBlocked`), not by an assumption. Strong fairness of
`LeaveTxn` is an assumption about the caller, not about the code; without it a
second writer could wait for ever whatever the bindings do. The violated run
`doc_py_writers` has the same fairness.

`ChronaTraverse` assumes weak fairness of `Next`: it is the computation of one thread,
which waits for nothing.

## 5. Proofs

Every theorem holds for all values of the constants that meet the assumptions named
with them in the modules: timestamps are integers and "no end" is not one
(`TimeAssumption`), the empty string is a string (`TextAssumption`), inputs have the types
of their Rust structs (`InputAssumption`, `LineAssumption`, `CellAssumption`), a scanner
answers for finitely many nodes, with edges of that node that have ids of their own
(`ScanAssumption`), asks start at a node (`JobAssumption`), queries are texts of
finitely many pieces on snapshots that meet `DbInv`, which is what the store is proved to
leave (`SuiteAssumption`), the names and dates written in `demo.rs` are strings and
times (`DemoAssumption`), and the clock of the browser reads times in the range of its cursor
(`BrowserAssumption`).

**One operation at a time.** `ChronaStoreProofs` has one lemma for each operation of the
store: it takes a `Good` database — well typed, with all six parts of `DbInv` — to a
`Good` one *whether it succeeds or fails*, with what its callers need (an upserted id
is that of a stored node; a successful invalidation has ended the edge by the time given).
The parts need one another: ids are fresh only because every table is bounded by
its counter; the indexes mirror the edges only because the id of a new edge is fresh;
a revision starts after its predecessor ended only because `invalidate_edge` never
moves an end to a later time. The same module has for each operation that the database
after it `Keeps` every row of the one before, an open edge at most having got its end.

**Transactions** (`ChronaDbProofs`). The inductive invariant `IndInv` says that the
committed tables and the writer's copy are both `Good`. It gives `TypeCorrect`,
`StringsCorrect`, `NodesCorrect`, `EdgesCorrect`, `IndexesCorrect`, `RevisionsCorrect` and
`LogCorrect`; `ReadsCorrect` follows through `ScanExact` of `ChronaStoreProofs` (an index
scan finds what the edges table holds); `VerifyCorrect` and `VerifyNotices` by counting: the mirrored tables
are images of one another under functions that merge nothing, so that a clean file has
equal sizes and a lost row makes them differ. `HistoryCorrect` is the action property
`HistoryPreserved`; it needs one more conjunct, that between begin and commit the
writer's copy keeps the committed rows. `StoreImplementsGraph` is the refinement of
`TemporalGraph`. `CallEvolves` is its heart: a call that keeps the rows, adds at most one
edge and closes at most one changes the views as the abstract graph may evolve, since an
id once given keeps its string and its node.

**The event log** (`ChronaLogProofs`). Every operation is shown to be a sequence of four
effects — a node added, an edge added, a revision added, an edge closed, each with its
event — with a *residue* after a failure (strings, a burned id). What the log says is
then shown to survive each effect once. `LogExplains`: the stored end of an edge is the
one logged last. `DiffsCorrect`: a diff over all clock readings counts each row, and two diffs over
the parts of such a span count it once between them. It needs that the events
of a kind are as many as the rows, by bijections that each effect extends; of the
invalidations, which may be several for one edge, that they are at least the edges whose record
is no longer the one observed, and at most the ends these can have been given one after
the other (`EndedSinceCounted`, `ClosingsBounded`; for the second, instants are taken to be
finitely many, as `Ts` is an `i64`). `CommitsClean` and `ReplayCorrect` hold where errors propagate out of
`Db::write` (`"tolerate" \notin ErrorPolicy`; `doc_fold` is the counterexample
without); the fold of the log is a recursive function, and one more event at its end is one
more step of the fold. `CommitsClean` also needs of each call that, if it succeeds, the nodes it
has added are ends of the edge it has added (`AddEdgeServes`, `SupersedeEdgeServes`);
`ReplayCorrect` that the fold with `EdgeSuperseded` has one edge more for each revision
(`Doubled`). `ChainsCorrect`: along a chain every revision starts no earlier
than its predecessor ended, hence no instant lies in two.

**Opening** (`ChronaOpenProofs`). For any number of processes, lines and crashes, `OpenKeepsStoreConsistent`, `OpenKeepsNames`, `OpenKeepsReadable` and
`OpenKeepsFacts` under `NoRace`: at most one process (`Starters`) may start before there is
a file. `doc_open_race` shows that the condition is needed. The invariant says that an
importer holds the lock and nobody else's copy differs from the file; that a process
which saw no file and has not initialized one yet is the starter, while there is still no
database; and, for `FactsExact`, that the file lists the rows acknowledged so far, and the copy of
an importer those and the rows of its own lines, each read back through the strings
and nodes it names. `OpenTypeCorrect` needs no condition: types survive races, too.

**Searches** (`ChronaTraverseProofs`). The argument for a breadth-first search on any finite
multigraph, with distances stated by `Within`: the queue holds the visited nodes not yet
expanded, in two adjacent layers; whatever was expanded is `Covered` (each of its edges
met); each visited node has a chain of parents of the length of its distance. This gives
`HopsCorrect` (exactly the edges within the budget, once each), `PathCorrect` (a walk,
none shorter, and none at all when the answer is none) and `SearchTypeCorrect`. `Nearest`,
preserved beside it, says that `found` grows from near to far.

**Queries** (`ChronaQueryProofs`). From any text to the answer, on any snapshot the store can
leave. `ParseTyped`: what the parser accepts is a tree, whose filter is a sequence and whose
numbers are what the digits say. `ScanListed`: a scan lists each edge once, as an index in
the order of start and id does. So the scans of a snapshot are a scanner in the sense
of `ScanAssumption` and a query lays out a job in the sense of `JobAssumption`
(`ScannerTyped`, `JobTyped`), and the proofs about searches apply by `INSTANCE`: `QueryInv`
carries `SearchInv` and `Nearest` through the steps of the search, with the rows and the
answer of each stage. `FilteredKeeps` and `LimitedPrefix` say what filter and limit leave;
`MatchesHolds` that a filter that meets no malformed term on a row keeps it exactly if
every term holds, although it stops at the first that does not. This gives
`ListsCorrect`, `HopsOrdered`, `ShowPathCorrect` and `QueryErrors`; the last through
`EdgesResolve`, by which no row that was read names an id nothing is stored under.

**Query text** (same module). `ParseFaithful` is `ParsedAsWritten` for texts of any length: the
tree of a text that is accepted is written, piece by piece, as the text is. `OrdinaryTexts`
says of a text what the doc takes for granted: what it quotes is ASCII (`doc_text` is the
counterexample without) and a decimal has no sign of its own. The argument follows the
code. *Lexer*: from each piece on, the tokens still to come spell the pieces still to
come, blanks left out (`TextSpelt`, an induction from the last piece back). *Parser*: a
part that succeeds `Takes` the tokens from where it began to where it says it stopped, and
they are those the grammar writes for the value it returns; a filter by induction on
its terms, and the parts of a query in turn (`TextRead`).

`GrammarAccepted` is the other direction, `WrittenIsParsed`: what the grammar writes is
accepted, as the tree it was written from. `WrittenTexts` says what that means — the tree is
one of the six shapes with numbers that fit their fields and no field named like a keyword
(`IsQuestion`), and the text is its sentence, with white space anywhere but inside an
operator or after a minus sign (`IsTight`) and keywords in any case (`CapitalKeywords`: upper
case leaves a word in capitals alone; `WidthsGrow`: u8, u32 and u64 hold more and more).
The lexer again from the last piece back: if the pieces to come spell the tokens from
the k-th on, it finds just these (`Fits`, `SentenceTokenized`), because no two tokens begin
alike and after `>` or `<` comes a literal, never `=`. The parser clause by clause, each
stopped by the first word of the next (`TimeKept`, `FilterKept`, `LimitKept`, `TextKept`).
`WellWritten` in `MCChronaQuery` has TLC evaluate `OrdinaryTexts` and these hypotheses on all the
texts of run `query`: they hold.

**Locks** (`ChronaPyProofs`). `LocksCorrect` for any number of threads and writers; it is
what makes the deadlock of divergence 4 unavoidable, since whoever waits for the writer lock
is shown to hold the GIL.

**The browser and its demo** (`ChronaBrowserProofs`). `BrowserInv`: the file is `Good`, the panes are
empty or hold what a scan at the cursor or the clock found, and status and output are those
of the query `asked` last. It gives `BrowserTypeCorrect`, `PaneCorrect` and `OutputCorrect`;
the scans are exact by `ScanExact`, on whatever prefix of the demo's transactions
reached the file. `DemoOneAtATime` is about the seed itself: in no prefix
of it is a person at two employers at one instant. Its invariant `Story(d, k)` says what
the first `k` transactions have told: every pair of jobs of one person is apart
in time (`AllApart`), and what the coming ones rely on (`Foretold`) — which jobs are
open, since when, and that the people they name exist. A job change first ends the open
job, which `invalidate_edge` has to *find*: it is found because it has been open since
January, and it is the right one because two open jobs of one person would not be apart.

**Induction.** The library's induction theorems take an operator as a parameter, which the
installed provers cannot instantiate. `NatSet` is induction in the form of a set: one that holds 0
and every successor of its members holds every number, from the well-foundedness of `<`.
A recursive function is a `CHOOSE` of a function with the recursive equation; that
one exists and is unique is shown by `NatSet` (`ReplayExists`, `WalkExists`,
`BallExists`, `KeptExists`, `RestExists`, `TermsExist`, `FlatExists`), which makes the equation usable.

**Only model-checked.** Liveness (`Terminates`, `CallsReturn`, `SnapshotsRun`, `EscLeaves`):
temporal properties under fairness are out of the prover's reach.

## 6. Plan

Done: the store, the transactions, their abstract specification, opening and imports,
the bindings' locks, the verifier, diffs, searches, query text and queries, the demo and
the browser, and the proofs above. Nothing of the plan is left.

## 7. Not modelled

- **Query output** (`format.rs`): a pure function of an answer, about layout alone.
- **Codecs** (`codec.rs`, `props.rs`, `time.rs`): byte layouts and the syntax of dates;
  no property here depends on a byte, and records are modelled by what they hold. That
  keys order edges by their start rests on the encoding of times, which is assumed.
- **Command line**: argument parsing, printing, the quoting rules of CSV and the bytes of
  JSON, imported properties. A line is modelled from its columns on.
- **Browser**: drawing, the highlighted row of the right pane (always the first), the
  counts in the header, colours.
- **`Snapshot::stats`**: it counts rows and changes nothing.
- **Errors of the disk** and of redb: see section 2.
- **The string counter at its limit**: 2^32 strings are beyond any instance, and with
  `u32` scaled down every other property of the store would have to be restated for the
  wrapped ids.

`PROJECT.json` lists each component with its status.
