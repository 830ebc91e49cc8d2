------------------------------ MODULE ChronaOpen ------------------------------
(***************************************************************************)
(* Processes of the command line on one file (main.rs, storage/mod.rs,     *)
(* Db::open): they race for it, open it, read it or import into it, fail,  *)
(* crash and start again.                                                  *)
(*                                                                         *)
(* redb is external: Database::create makes an empty container of a file   *)
(* that is absent or has no bytes, opens a container that is there, fails  *)
(* on anything else, and holds an exclusive lock on the file until the     *)
(* handle is dropped or the process dies.                                  *)
(***************************************************************************)
EXTENDS ChronaVerify, ChronaImport

CONSTANTS Proc, NoProc,
          Starters,     \* the processes that may start before there is a file
          Clock,        \* what Ts::now() says, in any order
          MaxEdges,     \* bound on the edge ids given out
          FirstFiles    \* what may be at the path in the beginning

FileKind == {"absent", "blank",    \* no file; a file without bytes
             "alien",              \* not a redb container
             "container",          \* a container without the meta table
             "newer",              \* one with a version or feature we lack
             "chrona"}             \* one this version reads and writes

ASSUME OpenAssumption == /\ Starters \subseteq Proc
                         /\ FirstFiles \subseteq FileKind
                         /\ Clock \subseteq Time
                         /\ NoProc \notin Proc

VARIABLES kind,    \* what is at the path
          db,      \* its committed tables
          lock,    \* the process that has the container open
          pc,      \* where a process is in its command
          saw,     \* what path.exists() told Db::open
          txn,     \* the importer's copy of the tables; db when nobody imports
          rows,    \* the lines it has added
          acked    \* the lines of the imports that were committed

fileVars == <<kind, db, lock>>
vars == <<fileVars, pc, saw, txn, rows, acked>>

-----------------------------------------------------------------------------

Init ==
  /\ kind \in FirstFiles
  /\ db = EmptyDb
  /\ lock = NoProc
  /\ pc = [p \in Proc |-> "closed"]
  /\ saw = [p \in Proc |-> FALSE]
  /\ txn = EmptyDb /\ rows = <<>> /\ acked = <<>>

Moves(p, from, to) == pc[p] = from /\ pc' = [pc EXCEPT ![p] = to]

\* `init` and `demo` start only where there is no file.
CheckVacant(p) ==
  /\ kind = "absent" /\ p \in Starters
  /\ Moves(p, "closed", "vacant")
  /\ UNCHANGED <<fileVars, saw, txn, rows, acked>>

\* The other commands go straight to Db::open, which looks for the file again.
CheckExists(p) ==
  /\ kind = "absent" => p \in Starters
  /\ Moves(p, "closed", "checked") \/ Moves(p, "vacant", "checked")
  /\ saw' = [saw EXCEPT ![p] = kind # "absent"]
  /\ UNCHANGED <<fileVars, txn, rows, acked>>

\* Mutant: the file is truncated, as with File::create.
CreateTruncates(p) ==
  /\ lock = NoProc
  /\ kind # "alien"
  /\ Moves(p, "checked", "created")
  /\ lock' = p
  /\ kind' = "container"
  /\ UNCHANGED <<db, saw, txn, rows, acked>>

Create(p) ==
  /\ lock = NoProc
  /\ kind # "alien"
  /\ Moves(p, "checked", "created")
  /\ lock' = p
  /\ kind' = IF kind \in {"absent", "blank"} THEN "container" ELSE kind
  /\ UNCHANGED <<db, saw, txn, rows, acked>>

CreateFails(p) ==
  /\ lock # NoProc \/ kind = "alien"
  /\ Moves(p, "checked", "closed")
  /\ UNCHANGED <<fileVars, saw, txn, rows, acked>>

\* initialize_new stamps version and counters over whatever is there; tables
\* that exist keep their rows.
Stamped(d) == [d EXCEPT !.nodeCtr = 0, !.edgeCtr = 0, !.eventCtr = 0, !.strCtr = 0]

\* Mutant: initialize_new runs whether or not the file was there.
InitializeAnyway(p) ==
  /\ Moves(p, "created", "open")
  /\ kind' = "chrona"
  /\ db' = Stamped(db) /\ txn' = Stamped(db)
  /\ UNCHANGED <<lock, saw, rows, acked>>

Initialize(p) ==
  /\ ~saw[p]
  /\ Moves(p, "created", "open")
  /\ kind' = "chrona"
  /\ db' = Stamped(db) /\ txn' = Stamped(db)
  /\ UNCHANGED <<lock, saw, rows, acked>>

\* verify_existing: the meta table, its magic, version and features.
Verify(p) ==
  /\ saw[p]
  /\ kind = "chrona"
  /\ Moves(p, "created", "open")
  /\ UNCHANGED <<fileVars, saw, txn, rows, acked>>

VerifyFails(p) ==
  /\ saw[p]
  /\ kind # "chrona"
  /\ Moves(p, "created", "closed")
  /\ lock' = NoProc
  /\ UNCHANGED <<kind, db, saw, txn, rows, acked>>

-----------------------------------------------------------------------------
(* import_csv and import_jsonl: all lines in one Db::write; a line that is   *)
(* refused is reported and the next one read.                                *)

BeginImport(p) ==
  /\ Moves(p, "open", "importing")
  /\ UNCHANGED <<fileVars, saw, txn, rows, acked>>

\* A line that does not decode leaves the transaction as it is.
ImportLine(p) ==
  \E line \in Lines, now \in Clock :
    LET r == AddEdge(txn, Decode(line, now), [k \in 1..3 |-> now]) IN
    /\ Moves(p, "importing", "importing")
    /\ Decodes(line)
    /\ r.db.edgeCtr <= MaxEdges
    /\ txn' = r.db
    /\ rows' = IF r.ok THEN Append(rows, line) ELSE rows
    /\ UNCHANGED <<fileVars, saw, acked>>

CommitImport(p) ==
  /\ Moves(p, "importing", "open")
  /\ db' = txn
  /\ acked' = acked \o rows
  /\ rows' = <<>>
  /\ UNCHANGED <<kind, lock, saw, txn>>

\* The command ends: it has imported or read, or the file to import is missing.
Close(p) ==
  /\ Moves(p, "open", "closed")
  /\ lock' = NoProc
  /\ UNCHANGED <<kind, db, saw, txn, rows, acked>>

\* Mutant: the lines added so far survive the importer.
CrashHalfway(p) ==
  /\ pc[p] # "closed"
  /\ pc' = [pc EXCEPT ![p] = "closed"]
  /\ lock' = IF lock = p THEN NoProc ELSE lock
  /\ db' = txn /\ rows' = <<>>
  /\ UNCHANGED <<kind, saw, txn, acked>>

\* The process dies.  Its lock goes with it, and so does what it has not
\* committed; in the middle of Database::create it may leave an empty file.
Crash(p) ==
  /\ pc[p] # "closed"
  /\ pc' = [pc EXCEPT ![p] = "closed"]
  /\ \/ lock = p /\ lock' = NoProc /\ txn' = db /\ rows' = <<>>
     \/ lock # p /\ UNCHANGED <<lock, txn, rows>>
  /\ \/ UNCHANGED kind
     \/ pc[p] = "checked" /\ kind = "absent" /\ kind' = "blank"
  /\ UNCHANGED <<db, saw, acked>>

Next == \E p \in Proc :
  \/ CheckVacant(p) \/ CheckExists(p) \/ Create(p) \/ CreateFails(p)
  \/ Initialize(p) \/ Verify(p) \/ VerifyFails(p)
  \/ BeginImport(p) \/ ImportLine(p) \/ CommitImport(p)
  \/ Close(p) \/ Crash(p)

Spec == Init /\ [][Next]_vars

-----------------------------------------------------------------------------

TypeOK ==
  /\ kind \in FileKind
  /\ IsDatabase(db) /\ IsDatabase(txn)
  /\ lock \in Proc \cup {NoProc}
  /\ pc \in [Proc -> {"closed", "vacant", "checked", "created", "open", "importing"}]
  /\ saw \in [Proc -> BOOLEAN]
  /\ rows \in Seq(Lines) /\ acked \in Seq(Lines)

\* Whoever opened the file, and wherever others crashed, its tables agree; in
\* particular its counters are not behind the ids in use.
StoreConsistent == DbInv(db)

\* The names of a line that was imported are found ever after.
NamesKept ==
  \A k \in DOMAIN acked : \A x \in {acked[k]["from"], acked[k]["to"]} :
    /\ x \in DOMAIN db.extIds
    /\ db.extIds[x] \in DOMAIN db.nodes
    /\ db.nodes[db.extIds[x]].ext = x

\* In the order of their ids the edges of the file are the lines that imports
\* reported as imported, one for one: nothing of an import that died, no line
\* that was refused, none twice, and none lost to a later command.
FactsExact ==
  LET ids == DOMAIN db.edges
  IN /\ Cardinality(ids) = Len(acked)
     /\ \A i \in ids : Says(ViewEdge(db, i), acked[Cardinality({j \in ids : j <= i})])

\* Once an import was committed, no start, race or crash makes of the file one
\* that Db::open refuses.
CommittedStaysReadable == acked # <<>> => kind = "chrona"

\* FORMAT.md:396: "node_id_counter >= max(NodeId in nodes) and similar for edges
\* and events".
CountersCover ==
  /\ \A i \in DOMAIN db.nodes : i <= db.nodeCtr
  /\ \A i \in DOMAIN db.edges : i <= db.edgeCtr
  /\ \A k \in DOMAIN db.events : k[2] <= db.eventCtr

\* FORMAT.md:396: verify "confirms" the counters: no file with a clean report
\* has a counter behind the ids in use.
CleanMeansCounters == kind = "chrona" /\ IsClean(db) => CountersCover

=============================================================================
