--------------------------- MODULE ChronaOpenProofs ---------------------------
(***************************************************************************)
(* Opening is safe when at most one process may start before the file is   *)
(* there: then initialize_new meets no rows, for any number of processes,  *)
(* lines, imports and crashes.                                             *)
(***************************************************************************)
EXTENDS ChronaOpen, ChronaStoreProofs

\* No other process can create the file between path.exists() and create().
NoRace == \A p, q \in Starters : p = q

Named(line, d) == {line["from"], line["to"]} \subseteq DOMAIN d.extIds

\* One process has the container open, and there is a second copy of the tables
\* only while it imports.
LockInv ==
  /\ \A p \in Proc : pc[p] \in {"created", "open", "importing"} <=> lock = p
  /\ \A p \in Proc : pc[p] \in {"open", "importing"} => kind = "chrona"
  /\ (\A p \in Proc : pc[p] # "importing") => txn = db /\ rows = <<>>

\* Only a chrona file has rows, and a process about to initialize the file is
\* not wrong about it.
FileInv ==
  /\ kind # "chrona" => db = EmptyDb /\ acked = <<>>
  /\ \A p \in Proc : pc[p] \in {"checked", "created"} /\ ~saw[p]
       => p \in Starters /\ kind # "chrona"
  /\ \A p \in Proc : pc[p] = "vacant" => p \in Starters

NamesInv ==
  /\ DOMAIN db.extIds \subseteq DOMAIN txn.extIds
  /\ \A k \in DOMAIN acked : Named(acked[k], db)
  /\ \A k \in DOMAIN rows : Named(rows[k], txn)

IndInv == TypeOK /\ Good(db) /\ Good(txn) /\ LockInv /\ FileInv /\ NamesInv

LEMMA StampedEmpty == Stamped(EmptyDb) = EmptyDb
<1> DEFINE d == EmptyDb
           e == Stamped(EmptyDb)
<1>1. HasTables(d) /\ d.nodeCtr = 0 /\ d.edgeCtr = 0 /\ d.eventCtr = 0 /\ d.strCtr = 0
  BY DEF EmptyDb, HasTables
<1> HIDE DEF d
<1>2. e = [d EXCEPT !.nodeCtr = 0, !.edgeCtr = 0, !.eventCtr = 0, !.strCtr = 0]
  BY DEF Stamped, d
<1>3. e = d
  BY <1>1, <1>2 DEF HasTables
<1> QED
  BY <1>3 DEF d

LEMMA InitOpen == Init => IndInv
<1> SUFFICES ASSUME Init PROVE IndInv
  OBVIOUS
<1>1. Good(db) /\ IsDatabase(db) /\ txn = db
  BY EmptyDbGood DEF Init, Good
<1>2. TypeOK
  BY <1>1, OpenAssumption DEF Init, TypeOK
<1>3. LockInv /\ FileInv /\ NamesInv
  BY <1>1, OpenAssumption DEF Init, LockInv, FileInv, NamesInv
<1> QED
  BY <1>1, <1>2, <1>3 DEF IndInv

\* A line that decodes is an argument add_edge can be given.
LEMMA DecodeInput ==
  ASSUME NEW line \in Lines, NEW now \in Time, Decodes(line)
  PROVE  /\ Decode(line, now) \in EdgeInput
         /\ Decode(line, now).from = line["from"]
         /\ Decode(line, now).to = line["to"]
<1>1. /\ line["from"] \in Text /\ line["to"] \in Text /\ line["edge_type"] \in Text
      /\ Default(line, "source", Empty) \in Text
  BY LineAssumption, TextAssumption DEF Decodes, Default, Filled, Has, Names
<1>2. /\ Default(line, "valid_from", now) \in Time
      /\ Default(line, "valid_to", NoTs) \in Time \cup {NoTs}
  BY DEF Decodes, Default, Times
<1>3. Default(line, "confidence", TRUE) \in BOOLEAN
  BY DEF Decodes, Default
<1> QED
  BY <1>1, <1>2, <1>3 DEF Decode, EdgeInput

LEMMA AppendedRow ==
  ASSUME NEW rs \in Seq(Lines), NEW line \in Lines
  PROVE  /\ Append(rs, line) \in Seq(Lines)
         /\ \A k \in DOMAIN Append(rs, line) :
              (k \in DOMAIN rs /\ Append(rs, line)[k] = rs[k]) \/ Append(rs, line)[k] = line
  OBVIOUS

LEMMA JoinedRows ==
  ASSUME NEW rs \in Seq(Lines), NEW qs \in Seq(Lines)
  PROVE  /\ rs \o qs \in Seq(Lines)
         /\ \A k \in DOMAIN (rs \o qs) :
              \/ k \in DOMAIN rs /\ (rs \o qs)[k] = rs[k]
              \/ \E j \in DOMAIN qs : (rs \o qs)[k] = qs[j]
<1>1. rs \o qs \in Seq(Lines)
  OBVIOUS
<1>2. ASSUME NEW k \in DOMAIN (rs \o qs), k \notin DOMAIN rs
      PROVE  \E j \in DOMAIN qs : (rs \o qs)[k] = qs[j]
  <2>1. k - Len(rs) \in DOMAIN qs /\ (rs \o qs)[k] = qs[k - Len(rs)]
    BY <1>2
  <2> QED
    BY <2>1
<1> QED
  BY <1>1, <1>2

\* What a line does to the invariant.
LEMMA ImportLineOpen ==
  ASSUME IndInv, NEW p \in Proc, ImportLine(p)
  PROVE  IndInv'
<1> USE OpenAssumption
<1>1. PICK line \in Lines, now \in Clock :
        LET r == AddEdge(txn, Decode(line, now), [k \in 1..3 |-> now]) IN
        /\ Moves(p, "importing", "importing")
        /\ Decodes(line)
        /\ txn' = r.db
        /\ rows' = IF r.ok THEN Append(rows, line) ELSE rows
        /\ UNCHANGED <<fileVars, saw, acked>>
  BY DEF ImportLine
<1> DEFINE in  == Decode(line, now)
           clk == [k \in 1..3 |-> now]
           r   == AddEdge(txn, in, clk)
<1>2. in \in EdgeInput /\ in.from = line["from"] /\ in.to = line["to"]
  BY <1>1, DecodeInput
<1>3. clk \in [1..3 -> Time]
  OBVIOUS
<1>4. /\ r.ok \in BOOLEAN /\ Good(r.db)
      /\ DOMAIN txn.extIds \subseteq DOMAIN r.db.extIds
      /\ r.ok => {in.from, in.to} \subseteq DOMAIN r.db.extIds
  <2> HIDE DEF in, clk
  <2> QED
    BY <1>2, <1>3, AddEdgeGood DEF IndInv
<1>5. /\ txn' = r.db
      /\ rows' = IF r.ok THEN Append(rows, line) ELSE rows
      /\ pc' = pc /\ pc[p] = "importing"
      /\ UNCHANGED <<fileVars, saw, acked>>
  BY <1>1 DEF Moves, IndInv, TypeOK
<1> HIDE DEF r, in
<1>6. r.ok => Named(line, r.db)
  BY <1>2, <1>4 DEF Named
<1>7. rows' \in Seq(Lines)
  BY <1>5, AppendedRow DEF IndInv, TypeOK
<1>8. NamesInv'
  <2>1. \A k \in DOMAIN rows : Named(rows[k], txn')
    BY <1>4, <1>5 DEF IndInv, NamesInv, Named
  <2>2. \A k \in DOMAIN rows' : Named(rows'[k], txn')
    <3>1. CASE r.ok
      BY <3>1, <1>5, <1>6, <2>1, AppendedRow DEF IndInv, TypeOK
    <3>2. CASE ~r.ok
      BY <3>2, <1>5, <2>1
    <3> QED
      BY <3>1, <3>2
  <2> QED
    BY <1>4, <1>5, <2>2 DEF IndInv, NamesInv, Named, fileVars
<1>9. TypeOK' /\ Good(db)' /\ Good(txn)'
  BY <1>4, <1>5, <1>7 DEF IndInv, TypeOK, Good, fileVars
<1>10. LockInv' /\ FileInv'
  BY <1>5 DEF IndInv, LockInv, FileInv, fileVars
<1> QED
  BY <1>8, <1>9, <1>10 DEF IndInv

LEMMA CommitImportOpen ==
  ASSUME IndInv, NEW p \in Proc, CommitImport(p)
  PROVE  IndInv'
<1>1. /\ pc[p] = "importing" /\ pc' = [pc EXCEPT ![p] = "open"]
      /\ db' = txn /\ acked' = acked \o rows /\ rows' = <<>>
      /\ UNCHANGED <<kind, lock, saw, txn>>
  BY DEF CommitImport, Moves
<1>2. acked' \in Seq(Lines) /\ rows' \in Seq(Lines)
  BY <1>1, JoinedRows DEF IndInv, TypeOK
<1>3. TypeOK' /\ Good(db)' /\ Good(txn)'
  BY <1>1, <1>2 DEF IndInv, TypeOK, Good
<1>4. \A k \in DOMAIN acked : Named(acked[k], txn)
  BY DEF IndInv, NamesInv, Named
<1>5. \A k \in DOMAIN acked' : Named(acked'[k], db')
  BY <1>1, <1>4, JoinedRows DEF IndInv, TypeOK, NamesInv
<1>6. NamesInv'
  BY <1>1, <1>5 DEF NamesInv
<1>7. LockInv'
  BY <1>1 DEF IndInv, TypeOK, LockInv
<1>8. FileInv'
  BY <1>1 DEF IndInv, TypeOK, LockInv, FileInv
<1> QED
  BY <1>3, <1>6, <1>7, <1>8 DEF IndInv

LEMMA InitializeOpen ==
  ASSUME IndInv, NoRace, NEW p \in Proc, Initialize(p)
  PROVE  IndInv'
<1>1. /\ pc[p] = "created" /\ pc' = [pc EXCEPT ![p] = "open"] /\ ~saw[p]
      /\ kind' = "chrona" /\ db' = Stamped(db) /\ txn' = Stamped(db)
      /\ UNCHANGED <<lock, saw, rows, acked>>
  BY DEF Initialize, Moves
<1>2. /\ kind # "chrona" /\ db = EmptyDb /\ acked = <<>>
      /\ lock = p /\ \A q \in Proc : pc[q] = "importing" => q = p
      /\ \A q \in Starters : q = p
  BY <1>1 DEF IndInv, LockInv, FileInv, NoRace
<1>3. rows = <<>> /\ txn = db /\ db' = db /\ txn' = db
  BY <1>1, <1>2, StampedEmpty DEF IndInv, LockInv
<1>4. TypeOK' /\ Good(db)' /\ Good(txn)'
  BY <1>1, <1>3 DEF IndInv, TypeOK, Good, FileKind
<1>5. LockInv'
  BY <1>1, <1>2, <1>3 DEF IndInv, TypeOK, LockInv
<1>6. FileInv'
  BY <1>1, <1>2, <1>3 DEF IndInv, TypeOK, FileInv
<1>7. NamesInv'
  BY <1>1, <1>3 DEF IndInv, NamesInv
<1> QED
  BY <1>4, <1>5, <1>6, <1>7 DEF IndInv

\* The other steps of one process leave the committed tables and lines alone.
LEMMA ProcessOpen ==
  ASSUME IndInv, NEW p \in Proc,
         \/ CheckVacant(p) \/ CheckExists(p) \/ Create(p) \/ CreateFails(p)
         \/ Verify(p) \/ VerifyFails(p) \/ BeginImport(p) \/ Close(p) \/ Crash(p)
  PROVE  IndInv'
<1> USE OpenAssumption
<1>1. CASE CheckVacant(p)
  BY <1>1 DEF CheckVacant, Moves, fileVars, IndInv, TypeOK, LockInv, FileInv, NamesInv
<1>2. CASE CheckExists(p)
  BY <1>2 DEF CheckExists, Moves, fileVars, IndInv, TypeOK, LockInv, FileInv, NamesInv
<1>3. CASE Create(p)
  BY <1>3 DEF Create, Moves, IndInv, TypeOK, FileKind, LockInv, FileInv, NamesInv
<1>4. CASE CreateFails(p)
  BY <1>4 DEF CreateFails, Moves, fileVars, IndInv, TypeOK, LockInv, FileInv, NamesInv
<1>5. CASE Verify(p)
  BY <1>5 DEF Verify, Moves, fileVars, IndInv, TypeOK, LockInv, FileInv, NamesInv
<1>6. CASE VerifyFails(p)
  BY <1>6 DEF VerifyFails, Moves, IndInv, TypeOK, LockInv, FileInv, NamesInv
<1>7. CASE BeginImport(p)
  BY <1>7 DEF BeginImport, Moves, fileVars, IndInv, TypeOK, LockInv, FileInv, NamesInv
<1>8. CASE Close(p)
  BY <1>8 DEF Close, Moves, IndInv, TypeOK, LockInv, FileInv, NamesInv
<1>9. CASE Crash(p)
  <2>1. /\ pc' = [pc EXCEPT ![p] = "closed"]
        /\ UNCHANGED <<db, saw, acked>>
        /\ kind' = kind \/ (kind = "absent" /\ kind' = "blank")
    BY <1>9 DEF Crash
  <2>2. CASE lock = p /\ lock' = NoProc /\ txn' = db /\ rows' = <<>>
    BY <2>1, <2>2 DEF IndInv, TypeOK, FileKind, LockInv, FileInv, NamesInv, Good
  <2>3. CASE lock # p /\ UNCHANGED <<lock, txn, rows>>
    BY <2>1, <2>3 DEF IndInv, TypeOK, FileKind, LockInv, FileInv, NamesInv, Good
  <2> QED
    BY <1>9, <2>2, <2>3 DEF Crash
<1> QED
  BY <1>1, <1>2, <1>3, <1>4, <1>5, <1>6, <1>7, <1>8, <1>9

LEMMA NextOpen == ASSUME NoRace PROVE IndInv /\ [Next]_vars => IndInv'
<1> SUFFICES ASSUME IndInv, [Next]_vars
             PROVE  IndInv'
  OBVIOUS
<1>1. CASE UNCHANGED vars
  BY <1>1 DEF vars, fileVars, IndInv, TypeOK, Good, LockInv, FileInv, NamesInv
<1>2. CASE Next
  BY <1>2, ImportLineOpen, CommitImportOpen, InitializeOpen, ProcessOpen DEF Next
<1> QED
  BY <1>1, <1>2

LEMMA SpecOpen == ASSUME NoRace PROVE Spec => []IndInv
  BY InitOpen, NextOpen, PTL DEF Spec

-----------------------------------------------------------------------------

\* Without a race at creation, the tables agree whatever process crashed where
\* (open_or_create, initialize_new, verify_existing).
THEOREM OpenKeepsStoreConsistent == ASSUME NoRace PROVE Spec => []StoreConsistent
<1>1. IndInv => StoreConsistent
  BY DEF IndInv, Good, StoreConsistent
<1> QED
  BY <1>1, SpecOpen, PTL

\* Without a race at creation, the names of an imported line are found ever
\* after (upsert_node, one Db::write per import).
THEOREM OpenKeepsNames == ASSUME NoRace PROVE Spec => []NamesKept
<1>1. IndInv => NamesKept
  <2> SUFFICES ASSUME IndInv, NEW k \in DOMAIN acked,
                      NEW x \in {acked[k]["from"], acked[k]["to"]}
               PROVE  /\ x \in DOMAIN db.extIds
                      /\ db.extIds[x] \in DOMAIN db.nodes
                      /\ db.nodes[db.extIds[x]].ext = x
    BY DEF NamesKept
  <2>1. x \in DOMAIN db.extIds
    BY DEF IndInv, NamesInv, Named
  <2> QED
    BY <2>1 DEF IndInv, Good, DbInv, NodesNamed
<1> QED
  BY <1>1, SpecOpen, PTL

\* Without a race at creation, a file with committed imports is never one that
\* Db::open refuses (open_or_create, verify_existing).
THEOREM OpenKeepsReadable == ASSUME NoRace PROVE Spec => []CommittedStaysReadable
<1>1. IndInv => CommittedStaysReadable
  BY DEF IndInv, FileInv, CommittedStaysReadable
<1> QED
  BY <1>1, SpecOpen, PTL

-----------------------------------------------------------------------------
(* The edges of a database against the lines that were imported *)

\* The place of id i among ids.
Place(ids, i) == Cardinality({j \in ids : j <= i})

\* In the order of their ids the edges of d are the lines ls, one for one.
Listed(d, ls) ==
  /\ IsFiniteSet(DOMAIN d.edges)
  /\ Cardinality(DOMAIN d.edges) = Len(ls)
  /\ \A i \in DOMAIN d.edges : Says(ViewEdge(d, i), ls[Place(DOMAIN d.edges, i)])

\* The edges of the file are the lines whose import was committed, those of the
\* importer's copy are these and the lines it has added.
FactsInv == Listed(db, acked) /\ Listed(txn, acked \o rows)

LEMMA PlaceInRange ==
  ASSUME NEW ids, IsFiniteSet(ids), ids \subseteq Nat, NEW i \in ids
  PROVE  Place(ids, i) \in 1..Cardinality(ids)
<1> DEFINE s == {j \in ids : j <= i}
<1>1. s \subseteq ids /\ i \in s
  OBVIOUS
<1>2. IsFiniteSet(s) /\ Cardinality(s) <= Cardinality(ids)
  BY <1>1, FS_Subset
<1>3. Cardinality(s) \in Nat /\ Cardinality(ids) \in Nat /\ Cardinality(s) # 0
  BY <1>1, <1>2, FS_CardinalityType, FS_EmptySet
<1> QED
  BY <1>2, <1>3 DEF Place

\* An id past all others comes last and moves none.
LEMMA LastPlace ==
  ASSUME NEW ids, IsFiniteSet(ids), ids \subseteq Nat, NEW id \in Nat,
         \A i \in ids : i < id
  PROVE  LET more == ids \cup {id}
         IN /\ IsFiniteSet(more) /\ Cardinality(more) = Cardinality(ids) + 1
            /\ Place(more, id) = Cardinality(ids) + 1
            /\ \A i \in ids : Place(more, i) = Place(ids, i)
<1> DEFINE more == ids \cup {id}
<1>1. id \notin ids
  OBVIOUS
<1>2. IsFiniteSet(more) /\ Cardinality(more) = Cardinality(ids) + 1
  BY <1>1, FS_AddElement
<1>3. {j \in more : j <= id} = more
  <2>1. \A j \in more : j <= id
    OBVIOUS
  <2> QED
    BY <2>1
<1>4. ASSUME NEW i \in ids
      PROVE  {j \in more : j <= i} = {j \in ids : j <= i}
  OBVIOUS
<1> QED
  BY <1>2, <1>3, <1>4 DEF Place

\* What a line that decodes says is what add_edge is given.
LEMMA DecodeSays ==
  ASSUME NEW line \in Lines, NEW now \in Time, NEW fact,
         LET in == Decode(line, now)
         IN /\ fact.from = in.from /\ fact.to = in.to /\ fact.type = in.type
            /\ fact.source = in.source /\ fact.vf = in.vf /\ fact.vt = in.vt
  PROVE  Says(fact, line)
  BY DEF Decode, Default, Says

\* An edge stored past the others, which says what the line says, is listed
\* after them.
LEMMA OneMoreListed ==
  ASSUME NEW d, NEW e, NEW ls \in Seq(Lines), NEW line \in Lines, NEW id \in Nat,
         Listed(d, ls), Good(d), Good(e), Keeps(d, e),
         \A i \in DOMAIN d.edges : i < id,
         e.edges = Insert(d.edges, id, e.edges[id]),
         Says(ViewEdge(e, id), line)
  PROVE  Listed(e, Append(ls, line))
<1> DEFINE ids == DOMAIN d.edges
           n   == Len(ls)
           ms  == Append(ls, line)
<1>1. ids \subseteq Nat /\ \A i \in ids : i < id
  BY DEF Good, IsDatabase, IsTable
<1>2. IsFiniteSet(ids) /\ Cardinality(ids) = n /\ n \in Nat
  BY DEF Listed
<1>3. /\ DOMAIN e.edges = ids \cup {id}
      /\ \A i \in ids : e.edges[i] = d.edges[i]
  <2>1. id \notin ids
    BY <1>1
  <2> QED
    BY <2>1 DEF Insert
<1>4. /\ IsFiniteSet(DOMAIN e.edges) /\ Cardinality(DOMAIN e.edges) = n + 1
      /\ Place(DOMAIN e.edges, id) = n + 1
      /\ \A i \in ids : Place(DOMAIN e.edges, i) = Place(ids, i)
  <2> HIDE DEF ids, n
  <2>1. /\ IsFiniteSet(ids \cup {id}) /\ Cardinality(ids \cup {id}) = Cardinality(ids) + 1
        /\ Place(ids \cup {id}, id) = Cardinality(ids) + 1
        /\ \A i \in ids : Place(ids \cup {id}, i) = Place(ids, i)
    BY <1>1, <1>2, LastPlace
  <2> QED
    BY <1>2, <1>3, <2>1
<1>5. /\ Len(ms) = n + 1 /\ ms[n + 1] = line
      /\ \A k \in 1..n : ms[k] = ls[k]
  OBVIOUS
<1>6. ASSUME NEW i \in ids
      PROVE  Says(ViewEdge(e, i), ms[Place(DOMAIN e.edges, i)])
  <2>1. ViewEdge(e, i) = [ViewEdge(d, i) EXCEPT !.vt = d.edges[i].vt]
    BY <1>3, EdgeKeptInView
  <2>2. ViewEdge(e, i) = ViewEdge(d, i)
    BY <2>1 DEF ViewEdge
  <2>3. Place(ids, i) \in 1..n
    BY <1>1, <1>2, PlaceInRange
  <2>4. Says(ViewEdge(d, i), ls[Place(ids, i)])
    BY DEF Listed
  <2> QED
    BY <1>4, <1>5, <2>2, <2>3, <2>4
<1> HIDE DEF ms
<1>7. ASSUME NEW i \in DOMAIN e.edges
      PROVE  Says(ViewEdge(e, i), ms[Place(DOMAIN e.edges, i)])
  <2>1. CASE i = id
    BY <2>1, <1>4, <1>5
  <2>2. CASE i # id
    BY <2>2, <1>3, <1>6
  <2> QED
    BY <2>1, <2>2
<1> QED
  BY <1>4, <1>5, <1>7 DEF Listed, ms

LEMMA ImportLineFacts ==
  ASSUME IndInv, FactsInv, NEW p \in Proc, ImportLine(p)
  PROVE  FactsInv'
<1> USE OpenAssumption
<1>1. PICK line \in Lines, now \in Clock :
        LET r == AddEdge(txn, Decode(line, now), [k \in 1..3 |-> now]) IN
        /\ Decodes(line)
        /\ txn' = r.db
        /\ rows' = IF r.ok THEN Append(rows, line) ELSE rows
        /\ UNCHANGED <<fileVars, saw, acked>>
  BY DEF ImportLine
<1> DEFINE in  == Decode(line, now)
           clk == [k \in 1..3 |-> now]
           r   == AddEdge(txn, in, clk)
<1>2. in \in EdgeInput /\ clk \in [1..3 -> Time] /\ Good(txn)
  BY <1>1, DecodeInput DEF IndInv
<1>3. /\ txn' = r.db
      /\ rows' = IF r.ok THEN Append(rows, line) ELSE rows
      /\ db' = db /\ acked' = acked
  BY <1>1 DEF fileVars
<1> HIDE DEF clk
<1>4. Listed(db, acked)'
  BY <1>3 DEF FactsInv
<1>5. /\ r.ok \in BOOLEAN /\ Good(r.db) /\ Adds(txn, r) /\ Keeps(txn, r.db)
  <2> HIDE DEF in
  <2> QED
    BY <1>2, AddEdgeGood, AddEdgeKeeps
<1>6. CASE r.ok
  <2>1. LET f == ViewEdge(r.db, r.id)
        IN /\ f.from = in.from /\ f.to = in.to /\ f.type = in.type
           /\ f.source = in.source /\ f.vf = in.vf /\ f.vt = in.vt
           /\ r.id \in Nat
           /\ \A i \in DOMAIN txn.edges : i < r.id
    <3> HIDE DEF in
    <3> QED
      BY <1>2, <1>6, AddEdgeShows
  <2>2. Says(ViewEdge(r.db, r.id), line)
    <3> HIDE DEF r
    <3> QED
      BY <2>1, DecodeSays
  <2> HIDE DEF r, in
  <2>3. r.db.edges = Insert(txn.edges, r.id, r.db.edges[r.id])
    BY <1>5, <1>6 DEF Adds
  <2>4. acked \o rows \in Seq(Lines) /\ acked \in Seq(Lines) /\ rows \in Seq(Lines)
    BY JoinedRows DEF IndInv, TypeOK
  <2>5. Listed(r.db, Append(acked \o rows, line))
    <3> DEFINE ls == acked \o rows
    <3>1. ls \in Seq(Lines) /\ Listed(txn, ls)
      BY <2>4 DEF FactsInv
    <3> HIDE DEF ls
    <3>2. Listed(r.db, Append(ls, line))
      BY <1>2, <1>5, <2>1, <2>2, <2>3, <3>1, OneMoreListed
    <3> QED
      BY <3>2 DEF ls
  <2>6. Append(acked \o rows, line) = acked \o Append(rows, line)
    BY <2>4
  <2> QED
    BY <1>3, <1>4, <1>6, <2>5, <2>6 DEF FactsInv
<1>7. CASE ~r.ok
  <2> HIDE DEF r
  <2>1. DOMAIN r.db.edges = DOMAIN txn.edges
    BY <1>5, <1>7 DEF Adds
  <2>2. ASSUME NEW i \in DOMAIN txn.edges
        PROVE  ViewEdge(r.db, i) = ViewEdge(txn, i)
    <3>1. ViewEdge(r.db, i) = [ViewEdge(txn, i) EXCEPT !.vt = txn.edges[i].vt]
      BY <1>2, <1>5, <1>7, EdgeKeptInView DEF Adds
    <3> QED
      BY <3>1 DEF ViewEdge
  <2>3. Listed(r.db, acked \o rows)
    BY <2>1, <2>2 DEF FactsInv, Listed
  <2> QED
    BY <1>3, <1>4, <1>7, <2>3 DEF FactsInv
<1> QED
  BY <1>5, <1>6, <1>7

\* The other steps that write, and those that do not.
LEMMA NextFacts ==
  ASSUME NoRace, IndInv, FactsInv, [Next]_vars
  PROVE  FactsInv'
<1>1. acked \o <<>> = acked /\ acked \in Seq(Lines) /\ rows \in Seq(Lines)
  BY DEF IndInv, TypeOK
<1>2. CASE UNCHANGED <<db, txn, rows, acked>>
  BY <1>2 DEF FactsInv
<1>3. ASSUME NEW p \in Proc, ImportLine(p) PROVE FactsInv'
  BY <1>3, ImportLineFacts
<1>4. ASSUME NEW p \in Proc, CommitImport(p) PROVE FactsInv'
  <2>1. db' = txn /\ acked' = acked \o rows /\ rows' = <<>> /\ txn' = txn
    BY <1>4 DEF CommitImport
  <2>2. acked' \o rows' = acked \o rows
    BY <2>1, <1>1
  <2> QED
    BY <2>1, <2>2 DEF FactsInv
<1>5. ASSUME NEW p \in Proc, Initialize(p) PROVE FactsInv'
  <2>1. /\ pc[p] = "created" /\ ~saw[p] /\ db' = Stamped(db) /\ txn' = Stamped(db)
        /\ UNCHANGED <<rows, acked>>
    BY <1>5 DEF Initialize, Moves
  <2>2. /\ kind # "chrona" /\ db = EmptyDb
        /\ lock = p /\ \A q \in Proc : pc[q] = "importing" => q = p
    BY <2>1 DEF IndInv, LockInv, FileInv
  <2>3. rows = <<>> /\ txn = db /\ db' = db /\ txn' = txn
    BY <2>1, <2>2, StampedEmpty DEF IndInv, LockInv
  <2> QED
    BY <2>1, <2>3 DEF FactsInv
<1>6. ASSUME NEW p \in Proc, Crash(p) PROVE FactsInv'
  <2>1. CASE lock = p /\ lock' = NoProc /\ txn' = db /\ rows' = <<>>
    <3>1. db' = db /\ acked' = acked /\ acked' \o rows' = acked
      BY <1>1, <1>6, <2>1 DEF Crash
    <3> QED
      BY <2>1, <3>1 DEF FactsInv
  <2>2. CASE lock # p /\ UNCHANGED <<lock, txn, rows>>
    BY <1>2, <1>6, <2>2 DEF Crash
  <2> QED
    BY <1>6, <2>1, <2>2 DEF Crash
<1>7. CASE UNCHANGED vars
  BY <1>2, <1>7 DEF vars, fileVars
<1>8. ASSUME NEW p \in Proc,
             \/ CheckVacant(p) \/ CheckExists(p) \/ Create(p) \/ CreateFails(p)
             \/ Verify(p) \/ VerifyFails(p) \/ BeginImport(p) \/ Close(p)
      PROVE  UNCHANGED <<db, txn, rows, acked>>
  BY <1>8 DEF CheckVacant, CheckExists, Create, CreateFails, Verify, VerifyFails,
              BeginImport, Close, fileVars
<1> QED
  BY <1>2, <1>3, <1>4, <1>5, <1>6, <1>7, <1>8 DEF Next

LEMMA InitFacts == Init => FactsInv
<1> SUFFICES ASSUME Init PROVE FactsInv
  OBVIOUS
<1>1. db = EmptyDb /\ txn = EmptyDb /\ acked = <<>> /\ acked \o rows = <<>>
  BY DEF Init
<1>2. DOMAIN EmptyDb.edges = {}
  BY DEF EmptyDb, NoRows
<1> QED
  BY <1>1, <1>2, FS_EmptySet DEF FactsInv, Listed

\* Without a race at creation, the edges of the file are, one for one and in
\* the order of their ids, the lines that committed imports reported as
\* imported, whatever was refused and whoever died (import_csv, import_jsonl,
\* add_edge, one Db::write per import).
THEOREM OpenKeepsFacts == ASSUME NoRace PROVE Spec => []FactsExact
<1>1. FactsInv => FactsExact
  BY DEF FactsInv, Listed, Place, FactsExact
<1>2. IndInv /\ FactsInv /\ [Next]_vars => IndInv' /\ FactsInv'
  BY NextOpen, NextFacts
<1> QED
  BY <1>1, <1>2, InitOpen, InitFacts, PTL DEF Spec

-----------------------------------------------------------------------------
(* Types, which survive even a race: initialize_new may leave counters that  *)
(* are behind the rows, but every table keeps keys and rows of its type.     *)

LEMMA InternTyped ==
  ASSUME NEW d, NEW s \in Text, IsDatabase(d)
  PROVE  IsDatabase(Intern(d, s).db) /\ Intern(d, s).id \in Nat
<1> DEFINE r == Intern(d, s)
<1>1. CASE s \in DOMAIN d.strFwd
  BY <1>1 DEF Intern, Ok, IsDatabase, IsTable
<1>2. CASE s \notin DOMAIN d.strFwd
  <2>1. /\ r.id = d.strCtr + 1 /\ r.db.strCtr = r.id
        /\ r.db.strFwd = Insert(d.strFwd, s, r.id)
        /\ r.db.strRev = Insert(d.strRev, r.id, s)
        /\ HasTables(r.db)
        /\ SameNodes(d, r.db) /\ SameEdges(d, r.db) /\ SameLog(d, r.db)
    BY <1>2, InternNew
  <2>2. r.id \in Nat /\ IsTable(d.strFwd, Text, Nat) /\ IsTable(d.strRev, Nat, Text)
    BY <2>1 DEF IsDatabase
  <2> HIDE DEF r
  <2>3. IsTable(r.db.strFwd, Text, Nat) /\ IsTable(r.db.strRev, Nat, Text)
    BY <2>1, <2>2, InsertTable
  <2> QED
    BY <2>1, <2>2, <2>3 DEF IsDatabase, SameNodes, SameEdges, SameLog, r
<1> QED
  BY <1>1, <1>2

LEMMA InternOptionalTyped ==
  ASSUME NEW d, NEW s \in Text, IsDatabase(d)
  PROVE  IsDatabase(InternOptional(d, s).db) /\ InternOptional(d, s).id \in Nat
  BY InternTyped DEF InternOptional, Ok, Zero

LEMMA AppendEventTyped ==
  ASSUME NEW d, NEW ev \in Event, NEW now \in Time, IsDatabase(d)
  PROVE  IsDatabase(AppendEvent(d, ev, now))
<1> DEFINE e  == AppendEvent(d, ev, now)
           id == d.eventCtr + 1
<1>1. /\ e.eventCtr = id /\ e.events = Insert(d.events, <<now, id>>, ev)
      /\ HasTables(e)
      /\ SameStrings(d, e) /\ SameNodes(d, e) /\ SameEdges(d, e)
  BY DEF AppendEvent, IsDatabase, HasTables, SameStrings, SameNodes, SameEdges
<1>2. id \in Nat /\ <<now, id>> \in Time \X Nat /\ IsTable(d.events, Time \X Nat, Event)
  BY DEF IsDatabase
<1> HIDE DEF e, id
<1>3. IsTable(e.events, Time \X Nat, Event)
  BY <1>1, <1>2, InsertTable
<1> QED
  BY <1>1, <1>2, <1>3 DEF IsDatabase, SameStrings, SameNodes, SameEdges, e

LEMMA UpsertNodeTyped ==
  ASSUME NEW d, NEW ext \in Text, NEW type \in Text, NEW now \in Time, IsDatabase(d)
  PROVE  LET r == UpsertNode(d, ext, type, now) IN IsDatabase(r.db) /\ r.id \in Nat
<1>1. CASE ext = Empty
  BY <1>1 DEF UpsertNode, Err, Zero
<1>2. CASE ext # Empty /\ ext \in DOMAIN d.extIds
  BY <1>2 DEF UpsertNode, Ok, IsDatabase, IsTable
<1>3. CASE ext # Empty /\ ext \notin DOMAIN d.extIds
  <2> DEFINE t  == InternOptional(d, type)
             id == t.db.nodeCtr + 1
             n  == [ext |-> ext, type |-> t.id]
             e  == InsertNode(t.db, id, n)
             f  == AppendEvent(e, NodeAdded(n), now)
  <2>1. UpsertNode(d, ext, type, now) = Ok(f, id)
    BY <1>3 DEF UpsertNode
  <2>2. IsDatabase(t.db) /\ t.id \in Nat
    BY InternOptionalTyped
  <2> HIDE DEF t
  <2>3. id \in Nat /\ n \in Node /\ n.ext = ext
    BY <2>2 DEF IsDatabase, Node
  <2> HIDE DEF n, id
  <2>4. /\ e.nodeCtr = id /\ e.nodes = Insert(t.db.nodes, id, n)
        /\ e.extIds = Insert(t.db.extIds, ext, id)
        /\ HasTables(e)
        /\ SameStrings(t.db, e) /\ SameEdges(t.db, e) /\ SameLog(t.db, e)
    BY <2>2, <2>3 DEF InsertNode, IsDatabase, HasTables, SameStrings, SameEdges, SameLog
  <2>5. IsTable(t.db.nodes, Nat, Node) /\ IsTable(t.db.extIds, Text, Nat)
    BY <2>2 DEF IsDatabase
  <2> HIDE DEF e
  <2>6. IsTable(e.nodes, Nat, Node) /\ IsTable(e.extIds, Text, Nat)
    BY <2>3, <2>4, <2>5, InsertTable
  <2>7. IsDatabase(e)
    BY <2>2, <2>3, <2>4, <2>6 DEF IsDatabase, SameStrings, SameEdges, SameLog
  <2>8. NodeAdded(n) \in Event
    BY <2>3 DEF NodeAdded, Event
  <2>9. IsDatabase(f)
    BY <2>7, <2>8, AppendEventTyped
  <2> HIDE DEF f
  <2> QED
    BY <2>1, <2>3, <2>9 DEF Ok
<1> QED
  BY <1>1, <1>2, <1>3

LEMMA InsertEdgeTyped ==
  ASSUME NEW d, NEW e \in Edge, NEW id \in Nat, IsDatabase(d)
  PROVE  IsDatabase(InsertEdge(d, id, e))
<1> DEFINE g  == InsertEdge(d, id, e)
           fk == <<e.from, e.vf, id>>
           rk == <<e.to, e.vf, id>>
<1>1. /\ g.edges = Insert(d.edges, id, e)
      /\ g.fwdAdj = Insert(d.fwdAdj, fk, e.to) /\ g.revAdj = Insert(d.revAdj, rk, e.from)
      /\ g.temporal = d.temporal \cup {<<e.vf, id>>}
      /\ g.superIdx = IF e.supersedes = Zero THEN d.superIdx
                      ELSE d.superIdx \cup {<<e.supersedes, id>>}
      /\ g.edgeCtr = d.edgeCtr
      /\ HasTables(g)
      /\ SameStrings(d, g) /\ SameNodes(d, g) /\ SameLog(d, g)
  BY DEF InsertEdge, IsDatabase, HasTables, SameStrings, SameNodes, SameLog
<1>2. /\ e.from \in Nat /\ e.to \in Nat /\ e.vf \in Time /\ e.supersedes \in Nat
      /\ fk \in AdjKey /\ rk \in AdjKey
  BY DEF Edge, AdjKey
<1>3. /\ IsTable(d.edges, Nat, Edge)
      /\ IsTable(d.fwdAdj, AdjKey, Nat) /\ IsTable(d.revAdj, AdjKey, Nat)
  BY DEF IsDatabase
<1> HIDE DEF g, fk, rk
<1>4. /\ IsTable(g.edges, Nat, Edge)
      /\ IsTable(g.fwdAdj, AdjKey, Nat) /\ IsTable(g.revAdj, AdjKey, Nat)
  <2>1. IsTable(Insert(d.edges, id, e), Nat, Edge)
    BY <1>3, InsertTable
  <2>2. IsTable(Insert(d.fwdAdj, fk, e.to), AdjKey, Nat)
    BY <1>2, <1>3, InsertTable
  <2>3. IsTable(Insert(d.revAdj, rk, e.from), AdjKey, Nat)
    BY <1>2, <1>3, InsertTable
  <2> QED
    BY <1>1, <2>1, <2>2, <2>3
<1>5. g.temporal \subseteq Time \X Nat /\ g.superIdx \subseteq Nat \X Nat
  BY <1>1, <1>2 DEF IsDatabase
<1> QED
  BY <1>1, <1>4, <1>5 DEF IsDatabase, SameStrings, SameNodes, SameLog, g

LEMMA AddEdgeInternalTyped ==
  ASSUME NEW d, NEW from \in Nat, NEW to \in Nat, NEW in \in EdgeInput,
         NEW old \in Nat, NEW now \in Time, IsDatabase(d)
  PROVE  IsDatabase(AddEdgeInternal(d, from, to, in, old, now).db)
<1> DEFINE t  == Intern(d, in.type)
           s  == InternOptional(t.db, in.source)
           id == s.db.edgeCtr + 1
           d1 == [s.db EXCEPT !.edgeCtr = id]
           e  == [from |-> from, to |-> to, type |-> t.id, source |-> s.id,
                  vf |-> in.vf, vt |-> in.vt, supersedes |-> old]
           g  == InsertEdge(d1, id, e)
           h  == AppendEvent(g, EdgeObserved(e), now)
<1>1. /\ in.type \in Text /\ in.source \in Text
      /\ in.vf \in Time /\ in.vt \in Time \cup {NoTs}
  BY DEF EdgeInput
<1>2. AddEdgeInternal(d, from, to, in, old, now)
        = IF in.confident /\ ValidEdge(e) THEN Ok(h, id) ELSE Err(d1)
  BY DEF AddEdgeInternal
<1>3. IsDatabase(t.db) /\ t.id \in Nat
  BY <1>1, InternTyped
<1> HIDE DEF t
<1>4. IsDatabase(s.db) /\ s.id \in Nat
  BY <1>1, <1>3, InternOptionalTyped
<1> HIDE DEF s
<1>5. id \in Nat
  BY <1>4 DEF IsDatabase
<1>6. IsDatabase(d1)
  <2>1. /\ HasTables(d1) /\ d1.edgeCtr = id
        /\ d1.edges = s.db.edges /\ d1.fwdAdj = s.db.fwdAdj /\ d1.revAdj = s.db.revAdj
        /\ d1.temporal = s.db.temporal /\ d1.superIdx = s.db.superIdx
        /\ SameStrings(s.db, d1) /\ SameNodes(s.db, d1) /\ SameLog(s.db, d1)
    BY <1>4 DEF IsDatabase, HasTables, SameStrings, SameNodes, SameLog
  <2> HIDE DEF d1, id
  <2> QED
    BY <2>1, <1>4, <1>5 DEF IsDatabase, SameStrings, SameNodes, SameLog
<1>7. e \in Edge
  BY <1>1, <1>3, <1>4 DEF Edge
<1> HIDE DEF e, d1, id
<1>8. IsDatabase(g) /\ EdgeObserved(e) \in Event
  BY <1>5, <1>6, <1>7, InsertEdgeTyped DEF EdgeObserved, Event
<1> HIDE DEF g
<1>9. IsDatabase(h)
  BY <1>8, AppendEventTyped
<1> HIDE DEF h
<1> QED
  BY <1>2, <1>6, <1>9 DEF Ok, Err

LEMMA AddEdgeTyped ==
  ASSUME NEW d, NEW in \in EdgeInput, NEW clk \in [1..3 -> Time], IsDatabase(d)
  PROVE  LET r == AddEdge(d, in, clk) IN IsDatabase(r.db) /\ r.ok \in BOOLEAN
<1> DEFINE f == UpsertNode(d, in.from, Empty, clk[1])
           t == UpsertNode(f.db, in.to, Empty, clk[2])
           n == AddEdgeInternal(t.db, f.id, t.id, in, Zero, clk[3])
<1>1. /\ in.from \in Text /\ in.to \in Text
      /\ clk[1] \in Time /\ clk[2] \in Time /\ clk[3] \in Time
  BY DEF EdgeInput
<1>2. f.ok \in BOOLEAN /\ t.ok \in BOOLEAN /\ n.ok \in BOOLEAN
  BY DEF UpsertNode, AddEdgeInternal, Ok, Err
<1>3. AddEdge(d, in, clk) = Err(d) \/ AddEdge(d, in, clk) \in {f, t, n}
  BY DEF AddEdge
<1>4. IsDatabase(f.db) /\ f.id \in Nat
  BY <1>1, TextAssumption, UpsertNodeTyped
<1> HIDE DEF f
<1>5. IsDatabase(t.db) /\ t.id \in Nat
  BY <1>1, <1>4, TextAssumption, UpsertNodeTyped
<1> HIDE DEF t
<1>6. IsDatabase(n.db)
  BY <1>1, <1>4, <1>5, AddEdgeInternalTyped DEF Zero
<1> HIDE DEF n
<1>7. ASSUME NEW r \in {f, t, n} PROVE IsDatabase(r.db) /\ r.ok \in BOOLEAN
  BY <1>2, <1>4, <1>5, <1>6
<1>8. IsDatabase(Err(d).db) /\ Err(d).ok \in BOOLEAN
  BY DEF Err
<1> QED
  BY <1>3, <1>7, <1>8

LEMMA StampedTyped == ASSUME NEW d, IsDatabase(d) PROVE IsDatabase(Stamped(d))
<1> DEFINE e == Stamped(d)
<1>1. /\ HasTables(e)
      /\ e.nodes = d.nodes /\ e.extIds = d.extIds /\ e.edges = d.edges
      /\ e.fwdAdj = d.fwdAdj /\ e.revAdj = d.revAdj
      /\ e.temporal = d.temporal /\ e.superIdx = d.superIdx /\ e.events = d.events
      /\ e.strFwd = d.strFwd /\ e.strRev = d.strRev
      /\ e.nodeCtr = 0 /\ e.edgeCtr = 0 /\ e.eventCtr = 0 /\ e.strCtr = 0
  BY DEF Stamped, IsDatabase, HasTables
<1> HIDE DEF e
<1> QED
  BY <1>1 DEF IsDatabase, e

\* Whatever processes race, crash and start again, every table holds keys and
\* rows of its type and every process is where a command can be
\* (open_or_create, initialize_new, import_csv, import_jsonl).
THEOREM OpenTypeCorrect == Spec => []TypeOK
<1> USE OpenAssumption
<1>1. Init => TypeOK
  <2>1. IsDatabase(EmptyDb)
    BY EmptyDbGood DEF Good
  <2> QED
    BY <2>1 DEF Init, TypeOK
<1>2. TypeOK /\ [Next]_vars => TypeOK'
  <2> SUFFICES ASSUME TypeOK, [Next]_vars PROVE TypeOK'
    OBVIOUS
  <2>1. CASE UNCHANGED vars
    BY <2>1 DEF vars, fileVars, TypeOK
  <2> SUFFICES ASSUME NEW p \in Proc,
                      \/ CheckVacant(p) \/ CheckExists(p) \/ Create(p) \/ CreateFails(p)
                      \/ Initialize(p) \/ Verify(p) \/ VerifyFails(p)
                      \/ BeginImport(p) \/ ImportLine(p) \/ CommitImport(p)
                      \/ Close(p) \/ Crash(p)
               PROVE  TypeOK'
    BY <2>1 DEF Next
  <2>2. CASE CheckVacant(p)
    BY <2>2 DEF CheckVacant, Moves, fileVars, TypeOK
  <2>3. CASE CheckExists(p)
    BY <2>3 DEF CheckExists, Moves, fileVars, TypeOK
  <2>4. CASE Create(p)
    BY <2>4 DEF Create, Moves, TypeOK, FileKind
  <2>5. CASE CreateFails(p)
    BY <2>5 DEF CreateFails, Moves, fileVars, TypeOK
  <2>6. CASE Initialize(p)
    BY <2>6, StampedTyped DEF Initialize, Moves, TypeOK, FileKind
  <2>7. CASE Verify(p) \/ VerifyFails(p)
    BY <2>7 DEF Verify, VerifyFails, Moves, fileVars, TypeOK
  <2>8. CASE BeginImport(p) \/ Close(p)
    BY <2>8 DEF BeginImport, Close, Moves, fileVars, TypeOK
  <2>9. CASE ImportLine(p)
    <3>1. PICK line \in Lines, now \in Clock :
            LET r == AddEdge(txn, Decode(line, now), [k \in 1..3 |-> now]) IN
            /\ Moves(p, "importing", "importing")
            /\ Decodes(line)
            /\ txn' = r.db
            /\ rows' = IF r.ok THEN Append(rows, line) ELSE rows
            /\ UNCHANGED <<fileVars, saw, acked>>
      BY <2>9 DEF ImportLine
    <3> DEFINE in  == Decode(line, now)
               clk == [k \in 1..3 |-> now]
               r   == AddEdge(txn, in, clk)
    <3>2. in \in EdgeInput /\ clk \in [1..3 -> Time] /\ IsDatabase(txn)
      BY <3>1, DecodeInput DEF TypeOK
    <3>3. /\ txn' = r.db
          /\ rows' = IF r.ok THEN Append(rows, line) ELSE rows
          /\ pc' = [pc EXCEPT ![p] = "importing"]
          /\ UNCHANGED <<kind, db, lock, saw, acked>>
      BY <3>1 DEF Moves, fileVars
    <3> HIDE DEF in, clk
    <3>4. IsDatabase(r.db)
      BY <3>2, AddEdgeTyped
    <3> HIDE DEF r
    <3>5. rows' \in Seq(Lines)
      BY <3>3, AppendedRow DEF TypeOK
    <3> QED
      BY <3>3, <3>4, <3>5 DEF TypeOK
  <2>10. CASE CommitImport(p)
    <3>1. acked' \in Seq(Lines) /\ rows' \in Seq(Lines)
      BY <2>10, JoinedRows DEF CommitImport, TypeOK
    <3> QED
      BY <2>10, <3>1 DEF CommitImport, Moves, TypeOK
  <2>11. CASE Crash(p)
    <3>1. /\ pc' = [pc EXCEPT ![p] = "closed"]
          /\ UNCHANGED <<db, saw, acked>>
          /\ kind' = kind \/ kind' = "blank"
      BY <2>11 DEF Crash
    <3>2. \/ lock' = NoProc /\ txn' = db /\ rows' = <<>>
          \/ UNCHANGED <<lock, txn, rows>>
      BY <2>11 DEF Crash
    <3>3. rows' \in Seq(Lines)
      <4>1. <<>> \in Seq(Lines) /\ rows \in Seq(Lines)
        BY DEF TypeOK
      <4>2. rows' = <<>> \/ rows' = rows
        BY <3>2
      <4> QED
        BY <4>1, <4>2
    <3>4. lock' \in Proc \cup {NoProc} /\ IsDatabase(txn)'
      BY <3>2 DEF TypeOK
    <3>5. IsDatabase(db)' /\ kind' \in FileKind
      BY <3>1 DEF TypeOK, FileKind
    <3> QED
      BY <3>1, <3>3, <3>4, <3>5 DEF TypeOK
  <2> QED
    BY <2>2, <2>3, <2>4, <2>5, <2>6, <2>7, <2>8, <2>9, <2>10, <2>11
<1> QED
  BY <1>1, <1>2, PTL DEF Spec

=============================================================================
