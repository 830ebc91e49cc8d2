-------------------------- MODULE ChronaBrowserProofs --------------------------
(***************************************************************************)
(* What the seeding of the demo leaves is a consistent file in which nobody *)
(* is at two places, and whatever keys are pressed the browser's panes say  *)
(* what that file says.                                                     *)
(***************************************************************************)
EXTENDS ChronaBrowser, ChronaStoreProofs

-----------------------------------------------------------------------------
(* Db::write of a list of calls *)

Calls == [op : {"upsert"}, ext : Text, type : Text]
          \cup [op : {"add"}, in : EdgeInput]
          \cup [op : {"supersede"}, old : Nat, in : EdgeInput]
          \cup [op : {"invalidate"}, id : Nat, at : Time]

\* f are the replies to the first n calls.
IsRun(f, d, calls, now, n) ==
  f = [k \in 0..n |-> IF k = 0 THEN Ok(d, Zero)
                      ELSE IF ~f[k - 1].ok THEN f[k - 1]
                      ELSE Reply(f[k - 1].db, calls[k], now)]

LEMMA WriteIsRun ==
  ASSUME NEW d, NEW calls, NEW now
  PROVE  LET f == CHOOSE f : IsRun(f, d, calls, now, Len(calls))
             r == f[Len(calls)]
         IN Write(d, calls, now) = IF r.ok THEN r ELSE Err(d)
  BY DEF Write, IsRun

LEMMA RunExists ==
  ASSUME NEW d, NEW calls, NEW now
  PROVE  \A n \in Nat : \E f : IsRun(f, d, calls, now, n)
<1> DEFINE S == {n \in Nat : \E f : IsRun(f, d, calls, now, n)}
           Step(f, k) == IF ~f[k - 1].ok THEN f[k - 1] ELSE Reply(f[k - 1].db, calls[k], now)
<1>1. 0 \in S
  <2>1. IsRun([k \in 0..0 |-> Ok(d, Zero)], d, calls, now, 0)
    BY DEF IsRun
  <2> QED
    BY <2>1
<1>2. ASSUME NEW n \in Nat, n \in S PROVE n + 1 \in S
  <2>1. PICK f : IsRun(f, d, calls, now, n)
    BY <1>2
  <2> DEFINE g == [k \in 0..(n + 1) |-> IF k = n + 1 THEN Step(f, n + 1) ELSE f[k]]
  <2>2. \A k \in 0..n : f[k] = IF k = 0 THEN Ok(d, Zero) ELSE Step(f, k)
    BY <2>1 DEF IsRun
  <2>3. /\ \A k \in 0..n : g[k] = f[k]
        /\ g[n + 1] = Step(f, n + 1)
        /\ DOMAIN g = 0..(n + 1) /\ g = [k \in 0..(n + 1) |-> g[k]]
    OBVIOUS
  <2>4. ASSUME NEW k \in 0..(n + 1)
        PROVE  g[k] = IF k = 0 THEN Ok(d, Zero) ELSE Step(g, k)
    <3> HIDE DEF g
    <3>1. CASE k = n + 1
      <4>1. k # 0 /\ k - 1 = n /\ n \in 0..n
        BY <3>1
      <4>2. g[k - 1] = f[n] /\ f[k - 1] = f[n]
        BY <2>3, <4>1
      <4> QED
        BY <2>3, <3>1, <4>1, <4>2
    <3>2. CASE k # n + 1 /\ k # 0
      <4>1. k \in 0..n /\ k - 1 \in 0..n
        BY <3>2
      <4> QED
        BY <2>2, <2>3, <3>2, <4>1
    <3>3. CASE k = 0
      <4>1. f[0] = Ok(d, Zero) /\ 0 \in 0..n
        BY <2>2
      <4> QED
        BY <2>3, <3>3, <4>1
    <3> QED
      BY <3>1, <3>2, <3>3
  <2> HIDE DEF g
  <2>5. IsRun(g, d, calls, now, n + 1)
    BY <2>3, <2>4 DEF IsRun
  <2> QED
    BY <2>5
<1> HIDE DEF S
<1>3. Nat \subseteq S
  BY <1>1, <1>2, NatSet
<1> QED
  BY <1>3 DEF S

\* The replies to the calls one after the other, until the first error.
LEMMA WriteSteps ==
  ASSUME NEW d, NEW calls, NEW now, Len(calls) \in Nat
  PROVE  \E f : /\ f[0] = Ok(d, Zero)
                /\ \A k \in 1..Len(calls) :
                     f[k] = IF ~f[k - 1].ok THEN f[k - 1] ELSE Reply(f[k - 1].db, calls[k], now)
                /\ Write(d, calls, now) = IF f[Len(calls)].ok THEN f[Len(calls)] ELSE Err(d)
<1> DEFINE n == Len(calls)
           f == CHOOSE f : IsRun(f, d, calls, now, n)
<1>1. IsRun(f, d, calls, now, n)
  BY RunExists
<1>2. Write(d, calls, now) = IF f[n].ok THEN f[n] ELSE Err(d)
  BY WriteIsRun
<1> HIDE DEF f
<1>3. f[0] = Ok(d, Zero)
  BY <1>1 DEF IsRun
<1>4. ASSUME NEW k \in 1..n
      PROVE  f[k] = IF ~f[k - 1].ok THEN f[k - 1] ELSE Reply(f[k - 1].db, calls[k], now)
  <2>1. k \in 0..n /\ k # 0
    OBVIOUS
  <2> QED
    BY <1>1, <2>1 DEF IsRun
<1> QED
  BY <1>2, <1>3, <1>4

\* AddEdge reads its clock three times.
LEMMA AddReply ==
  ASSUME NEW d, NEW in, NEW now
  PROVE  Reply(d, Add(in), now) = AddEdge(d, in, [k \in 1..3 |-> now])
<1> DEFINE five == [k \in 1..5 |-> now]
           three == [k \in 1..3 |-> now]
<1>1. Reply(d, Add(in), now) = AddEdge(d, in, five)
  BY DEF Reply, Add
<1>2. five[1] = three[1] /\ five[2] = three[2] /\ five[3] = three[3]
  OBVIOUS
<1> HIDE DEF five, three
<1>3. AddEdge(d, in, five) = AddEdge(d, in, three)
  BY <1>2 DEF AddEdge
<1> QED
  BY <1>1, <1>3 DEF three

\* Every call keeps a consistent database consistent, and its rows.
LEMMA ReplyGood ==
  ASSUME NEW d, NEW c \in Calls, NEW now \in Time, Good(d)
  PROVE  LET r == Reply(d, c, now) IN r.ok \in BOOLEAN /\ Good(r.db) /\ Keeps(d, r.db)
<1> DEFINE clk == [k \in 1..5 |-> now]
           three == [k \in 1..3 |-> now]
<1>1. CASE c.op = "upsert"
  <2>1. c.ext \in Text /\ c.type \in Text /\ Reply(d, c, now) = UpsertNode(d, c.ext, c.type, now)
    BY <1>1 DEF Calls, Reply
  <2> QED
    BY <2>1, UpsertNodeGood, UpsertNodeKeeps
<1>2. CASE c.op = "add"
  <2>1. c.in \in EdgeInput /\ c = Add(c.in)
    BY <1>2 DEF Calls, Add
  <2>2. Reply(d, c, now) = AddEdge(d, c.in, three)
    BY <2>1, AddReply
  <2>3. three \in [1..3 -> Time]
    OBVIOUS
  <2> HIDE DEF three
  <2> DEFINE r == AddEdge(d, c.in, three)
  <2>4. r.ok \in BOOLEAN /\ Good(r.db)
    BY <2>1, <2>3, AddEdgeGood
  <2>5. Keeps(d, r.db)
    BY <2>1, <2>3, AddEdgeKeeps
  <2> HIDE DEF r, clk
  <2> QED
    BY <2>2, <2>4, <2>5 DEF r
<1>3. CASE c.op = "supersede"
  <2>1. c.in \in EdgeInput /\ c.old \in Nat /\ Reply(d, c, now) = SupersedeEdge(d, c.old, c.in, clk)
    BY <1>3 DEF Calls, Reply
  <2>2. clk \in [1..5 -> Time]
    OBVIOUS
  <2> HIDE DEF clk
  <2> DEFINE r == SupersedeEdge(d, c.old, c.in, clk)
  <2>3. r.ok \in BOOLEAN /\ Good(r.db)
    BY <2>1, <2>2, SupersedeEdgeGood
  <2>4. Keeps(d, r.db)
    BY <2>1, <2>2, SupersedeEdgeKeeps
  <2> HIDE DEF r
  <2> QED
    BY <2>1, <2>3, <2>4 DEF r
<1>4. CASE c.op = "invalidate"
  <2>1. c.at \in Time /\ Reply(d, c, now) = InvalidateEdge(d, c.id, c.at, now)
    BY <1>4 DEF Calls, Reply
  <2> QED
    BY <2>1, InvalidateEdgeGood, InvalidateEdgeKeeps
<1> QED
  BY <1>1, <1>2, <1>3, <1>4 DEF Calls

\* Db::write keeps a consistent database consistent, and its rows.
LEMMA WriteGood ==
  ASSUME NEW d, NEW calls \in Seq(Calls), NEW now \in Time, Good(d)
  PROVE  LET r == Write(d, calls, now) IN r.ok \in BOOLEAN /\ Good(r.db) /\ Keeps(d, r.db)
<1> DEFINE n == Len(calls)
<1>0. n \in Nat /\ \A k \in 1..n : calls[k] \in Calls
  BY LenProperties, ElementOfSeq
<1>1. PICK f : /\ f[0] = Ok(d, Zero)
               /\ \A k \in 1..n :
                     f[k] = IF ~f[k - 1].ok THEN f[k - 1] ELSE Reply(f[k - 1].db, calls[k], now)
               /\ Write(d, calls, now) = IF f[n].ok THEN f[n] ELSE Err(d)
  BY <1>0, WriteSteps
<1> DEFINE P(k) == f[k].ok \in BOOLEAN /\ Good(f[k].db) /\ Keeps(d, f[k].db)
           S == {k \in Nat : k <= n => P(k)}
<1>2. 0 \in S
  <2>1. f[0].ok = TRUE /\ f[0].db = d
    BY <1>1 DEF Ok
  <2> QED
    BY <2>1, KeepsReflexive DEF Good
<1>3. ASSUME NEW k \in Nat, k \in S PROVE k + 1 \in S
  <2> SUFFICES ASSUME k + 1 <= n PROVE P(k + 1)
    OBVIOUS
  <2>1. P(k) /\ k + 1 \in 1..n /\ (k + 1) - 1 = k
    BY <1>0, <1>3
  <2>2. f[k + 1] = IF ~f[k].ok THEN f[k] ELSE Reply(f[k].db, calls[k + 1], now)
    BY <1>1, <2>1
  <2>3. CASE ~f[k].ok
    BY <2>1, <2>2, <2>3
  <2>4. CASE f[k].ok
    <3> DEFINE r == Reply(f[k].db, calls[k + 1], now)
    <3>1. r.ok \in BOOLEAN /\ Good(r.db) /\ Keeps(f[k].db, r.db)
      BY <1>0, <2>1, ReplyGood
    <3>2. f[k + 1] = r
      BY <2>2, <2>4
    <3> HIDE DEF r
    <3>3. Keeps(d, r.db)
      BY <2>1, <3>1, KeepsTransitive DEF Good
    <3> QED
      BY <3>1, <3>2, <3>3
  <2> QED
    BY <2>3, <2>4
<1> HIDE DEF S
<1>4. n \in S
  BY <1>0, <1>2, <1>3, NatSet
<1>5. P(n)
  BY <1>0, <1>4 DEF S
<1>6. Err(d).ok = FALSE /\ Err(d).db = d /\ Keeps(d, d)
  BY KeepsReflexive DEF Err, Good
<1>7. CASE f[n].ok
  BY <1>1, <1>5, <1>7
<1>8. CASE ~f[n].ok
  BY <1>1, <1>6, <1>8
<1> QED
  BY <1>7, <1>8

-----------------------------------------------------------------------------
(* The calls of the six transactions *)

LEMMA FactInput ==
  ASSUME NEW from \in Text, NEW type \in Text, NEW to \in Text, NEW t \in Time,
         NEW source \in Text
  PROVE  Fact(from, type, to, t, source) \in EdgeInput
  BY DEF Fact, EdgeInput

LEMMA AddCall == ASSUME NEW in \in EdgeInput PROVE Add(in) \in Calls
  BY DEF Add, Calls

LEMMA DemoTyped ==
  /\ {Jan, JanReports, JanCollab, Feb, JustBefore, Reorg, AliceLeaves, AliceJoins,
      Pluto, Quasar} \subseteq Time
  /\ Names \subseteq Text
  /\ {"person", "org", "project"} \subseteq Text
  /\ \A a, b \in Names, t \in Time :
       /\ WorksAt(a, b, t, "hr") \in EdgeInput /\ WorksAt(a, b, t, "linkedin") \in EdgeInput
       /\ ReportsTo(a, b, t) \in EdgeInput /\ WorksWith(a, b, t) \in EdgeInput
       /\ WorksOn(a, b, t) \in EdgeInput
<1>1. /\ Jan \in 0..9 /\ JanReports \in 0..9 /\ JanCollab \in 0..9 /\ Feb \in 0..9
      /\ JustBefore \in 0..9 /\ Reorg \in 0..9 /\ AliceLeaves \in 0..9
      /\ AliceJoins \in 0..9 /\ Pluto \in 0..9 /\ Quasar \in 0..9
      /\ Jan .. Quasar = 0..9
  BY DEF Jan, JanReports, JanCollab, Feb, JustBefore, Reorg, AliceLeaves, AliceJoins, Pluto, Quasar
<1>2. ASSUME NEW a \in Names, NEW b \in Names, NEW t \in Time
      PROVE  /\ WorksAt(a, b, t, "hr") \in EdgeInput /\ WorksAt(a, b, t, "linkedin") \in EdgeInput
             /\ ReportsTo(a, b, t) \in EdgeInput /\ WorksWith(a, b, t) \in EdgeInput
             /\ WorksOn(a, b, t) \in EdgeInput
  <2>1. /\ a \in Text /\ b \in Text
        /\ "hr" \in Text /\ "linkedin" \in Text /\ "slack" \in Text /\ "github" \in Text
        /\ "WORKS_AT" \in Text /\ "REPORTS_TO" \in Text
        /\ "WORKS_WITH" \in Text /\ "WORKS_ON" \in Text
    BY DemoAssumption
  <2> QED
    BY <2>1, FactInput DEF WorksAt, ReportsTo, WorksWith, WorksOn
<1> QED
  BY <1>1, <1>2, DemoAssumption

\* The calls of January, one by one.
LEMMA JanuaryCalls ==
  LET s == SeedJanuary
  IN /\ Len(s) = 10 /\ DOMAIN s = 1..10 /\ s = [k \in 1..10 |-> s[k]]
     /\ s[1] = Add(WorksAt("alice", "acme", Jan, "hr"))
     /\ s[2] = Add(WorksAt("bob", "acme", Jan, "hr"))
     /\ s[3] = Add(WorksAt("carol", "acme", Jan, "hr"))
     /\ s[4] = Add(WorksAt("dan", "acme", Jan, "hr"))
     /\ s[5] = Add(ReportsTo("bob", "alice", JanReports))
     /\ s[6] = Add(ReportsTo("carol", "alice", JanReports))
     /\ s[7] = Add(WorksWith("alice", "bob", JanCollab))
     /\ s[8] = Add(WorksWith("alice", "carol", JanCollab))
     /\ s[9] = Add(WorksWith("bob", "carol", JanCollab))
     /\ s[10] = Add(WorksWith("carol", "dan", JanCollab))
<1> DEFINE a == Each(<<"alice", "bob", "carol", "dan">>, LAMBDA x : Add(WorksAt(x, "acme", Jan, "hr")))
           b == Each(<<"bob", "carol">>, LAMBDA x : Add(ReportsTo(x, "alice", JanReports)))
           c == Each(<< <<"alice", "bob">>, <<"alice", "carol">>, <<"bob", "carol">>, <<"carol", "dan">> >>,
                     LAMBDA x : Add(WorksWith(x[1], x[2], JanCollab)))
<1>2. a = <<Add(WorksAt("alice", "acme", Jan, "hr")), Add(WorksAt("bob", "acme", Jan, "hr")),
            Add(WorksAt("carol", "acme", Jan, "hr")), Add(WorksAt("dan", "acme", Jan, "hr"))>>
  BY DEF Each
<1>3. b = <<Add(ReportsTo("bob", "alice", JanReports)), Add(ReportsTo("carol", "alice", JanReports))>>
  BY DEF Each
<1>4. c = <<Add(WorksWith("alice", "bob", JanCollab)), Add(WorksWith("alice", "carol", JanCollab)),
            Add(WorksWith("bob", "carol", JanCollab)), Add(WorksWith("carol", "dan", JanCollab))>>
  BY DEF Each
<1>5. SeedJanuary = a \o b \o c
  BY DEF SeedJanuary
<1> HIDE DEF a, b, c
<1> QED
  BY <1>2, <1>3, <1>4, <1>5

\* The calls of April, one by one.
LEMMA AprilCalls ==
  LET s == SeedApril
  IN /\ Len(s) = 6 /\ DOMAIN s = 1..6 /\ s = [k \in 1..6 |-> s[k]]
     /\ s[1] = Add(WorksOn("alice", "pluto", Pluto))
     /\ s[2] = Add(WorksOn("bob", "pluto", Pluto))
     /\ s[3] = Add(WorksOn("carol", "pluto", Pluto))
     /\ s[4] = Add(WorksAt("frank", "acme", Quasar, "hr"))
     /\ s[5] = Add(WorksOn("dan", "quasar", Quasar))
     /\ s[6] = Add(WorksOn("frank", "quasar", Quasar))
<1> DEFINE a == Each(<<"alice", "bob", "carol">>, LAMBDA x : Add(WorksOn(x, "pluto", Pluto)))
           b == <<Add(WorksAt("frank", "acme", Quasar, "hr"))>>
           c == Each(<<"dan", "frank">>, LAMBDA x : Add(WorksOn(x, "quasar", Quasar)))
<1>1. a = <<Add(WorksOn("alice", "pluto", Pluto)), Add(WorksOn("bob", "pluto", Pluto)),
            Add(WorksOn("carol", "pluto", Pluto))>>
  BY DEF Each
<1>2. c = <<Add(WorksOn("dan", "quasar", Quasar)), Add(WorksOn("frank", "quasar", Quasar))>>
  BY DEF Each
<1>3. SeedApril = a \o b \o c
  BY DEF SeedApril
<1> HIDE DEF a, c
<1> QED
  BY <1>1, <1>2, <1>3

\* The nodes, one by one.
LEMMA NodeCalls ==
  LET s == SeedNodes
  IN /\ Len(s) = 10 /\ DOMAIN s = 1..10 /\ s = [k \in 1..10 |-> s[k]]
     /\ \A k \in 1..10 : \E x \in Names, t \in {"person", "org", "project"} : s[k] = Upsert(x, t)
     /\ \A x \in Names : \E k \in 1..10 : s[k].ext = x
<1> DEFINE a == Each(People, LAMBDA x : Upsert(x, "person"))
           b == Each(<<"acme", "beta_labs">>, LAMBDA x : Upsert(x, "org"))
           c == Each(<<"pluto", "quasar">>, LAMBDA x : Upsert(x, "project"))
<1>1. a = <<Upsert("alice", "person"), Upsert("bob", "person"), Upsert("carol", "person"),
            Upsert("dan", "person"), Upsert("eve", "person"), Upsert("frank", "person")>>
  BY DEF Each, People
<1>2. b = <<Upsert("acme", "org"), Upsert("beta_labs", "org")>>
  BY DEF Each
<1>3. c = <<Upsert("pluto", "project"), Upsert("quasar", "project")>>
  BY DEF Each
<1>4. SeedNodes = a \o b \o c
  BY DEF SeedNodes
<1> HIDE DEF a, b, c
<1>5. LET s == SeedNodes
      IN /\ Len(s) = 10 /\ DOMAIN s = 1..10 /\ s = [k \in 1..10 |-> s[k]]
         /\ s[1] = Upsert("alice", "person") /\ s[2] = Upsert("bob", "person")
         /\ s[3] = Upsert("carol", "person") /\ s[4] = Upsert("dan", "person")
         /\ s[5] = Upsert("eve", "person") /\ s[6] = Upsert("frank", "person")
         /\ s[7] = Upsert("acme", "org") /\ s[8] = Upsert("beta_labs", "org")
         /\ s[9] = Upsert("pluto", "project") /\ s[10] = Upsert("quasar", "project")
  BY <1>1, <1>2, <1>3, <1>4
<1>6. ASSUME NEW k \in 1..10
      PROVE  \E x \in Names, t \in {"person", "org", "project"} : SeedNodes[k] = Upsert(x, t)
  <2>1. \/ k = 1 \/ k = 2 \/ k = 3 \/ k = 4 \/ k = 5
        \/ k = 6 \/ k = 7 \/ k = 8 \/ k = 9 \/ k = 10
    OBVIOUS
  <2>2. {"alice", "bob", "carol", "dan", "eve", "frank",
         "acme", "beta_labs", "pluto", "quasar"} \subseteq Names
    BY DEF Names
  <2> QED
    BY <1>5, <2>1, <2>2
<1>7. ASSUME NEW x \in Names PROVE \E k \in 1..10 : SeedNodes[k].ext = x
  <2> DEFINE s == SeedNodes
  <2>1. /\ s[1].ext = "alice" /\ s[2].ext = "bob" /\ s[3].ext = "carol" /\ s[4].ext = "dan"
        /\ s[5].ext = "eve" /\ s[6].ext = "frank" /\ s[7].ext = "acme"
        /\ s[8].ext = "beta_labs" /\ s[9].ext = "pluto" /\ s[10].ext = "quasar"
    BY <1>5 DEF Upsert
  <2> HIDE DEF s
  <2> QED
    BY <2>1 DEF Names, s
<1> QED
  BY <1>5, <1>6, <1>7

\* A set of naturals that is not empty has a least member.
LEMMA NatLeast ==
  ASSUME NEW T, T \subseteq Nat, T # {}
  PROVE  \E k \in T : \A j \in T : k <= j
<1> DEFINE S == {n \in Nat : (\E k \in T : k <= n) => \E k \in T : \A j \in T : k <= j}
<1>1. 0 \in S
  OBVIOUS
<1>2. ASSUME NEW n \in Nat, n \in S PROVE n + 1 \in S
  <2> SUFFICES ASSUME NEW m \in T, m <= n + 1, ~(\E k \in T : k <= n)
               PROVE  \E k \in T : \A j \in T : k <= j
    BY <1>2
  <2>1. ASSUME NEW j \in T PROVE m <= j
    OBVIOUS
  <2> QED
    BY <2>1
<1>3. PICK k \in T : TRUE
  OBVIOUS
<1> HIDE DEF S
<1>4. k \in S
  BY <1>1, <1>2, NatSet
<1> QED
  BY <1>4 DEF S

LEMMA LocatedIsId ==
  ASSUME NEW d, NEW from, NEW type, NEW to, NEW t, Good(d),
         Located(d, from, type, to, t) # Zero
  PROVE  LET i == Located(d, from, type, to, t)
         IN /\ i \in ScanAdjacency(d, d.fwdAdj, d.extIds[from], t)
            /\ i \in DOMAIN d.edges /\ i \in Nat
            /\ ViewEdge(d, i).type = type /\ ViewEdge(d, i).to = to
<1> DEFINE ids  == ScanInOrder(d, d.fwdAdj, d.extIds[from], t)
           hits == {k \in DOMAIN ids : /\ ViewEdge(d, ids[k]).type = type
                                       /\ ViewEdge(d, ids[k]).to = to}
           first == CHOOSE k \in hits : \A j \in hits : k <= j
           found == ScanAdjacency(d, d.fwdAdj, d.extIds[from], t)
<1>1. hits # {} /\ Located(d, from, type, to, t) = ids[first]
  BY DEF Located
<1>2. /\ found \subseteq DOMAIN d.edges
      /\ Cardinality(found) \in Nat
      /\ DOMAIN ids = 1..Cardinality(found)
      /\ {ids[k] : k \in DOMAIN ids} = found
  BY ScanListed
<1> HIDE DEF ids, found
<1>3. \E k \in hits : \A j \in hits : k <= j
  <2>1. hits \subseteq Nat
    BY <1>2
  <2> HIDE DEF hits
  <2> QED
    BY <1>1, <2>1, NatLeast
<1>4. first \in hits
  BY <1>3
<1> HIDE DEF first
<1>5. DOMAIN d.edges \subseteq Nat
  BY DEF Good, IsDatabase, IsTable
<1> QED
  BY <1>1, <1>2, <1>4, <1>5 DEF found

LEMMA LocatedFinds ==
  ASSUME NEW d, NEW from, NEW type, NEW to, NEW t, Good(d),
         NEW i \in ScanAdjacency(d, d.fwdAdj, d.extIds[from], t),
         ViewEdge(d, i).type = type, ViewEdge(d, i).to = to
  PROVE  Located(d, from, type, to, t) # Zero
<1> DEFINE ids  == ScanInOrder(d, d.fwdAdj, d.extIds[from], t)
           hits == {k \in DOMAIN ids : /\ ViewEdge(d, ids[k]).type = type
                                       /\ ViewEdge(d, ids[k]).to = to}
           first == CHOOSE k \in hits : \A j \in hits : k <= j
           found == ScanAdjacency(d, d.fwdAdj, d.extIds[from], t)
<1>1. /\ found \subseteq DOMAIN d.edges
      /\ Cardinality(found) \in Nat
      /\ DOMAIN ids = 1..Cardinality(found)
      /\ {ids[k] : k \in DOMAIN ids} = found
  BY ScanListed
<1>2. Located(d, from, type, to, t) = IF hits = {} THEN Zero ELSE ids[first]
  BY DEF Located
<1>3. i \in found
  OBVIOUS
<1> HIDE DEF ids, found
<1>4. hits # {} /\ hits \subseteq Nat
  BY <1>1, <1>3
<1>5. first \in hits
  <2> HIDE DEF hits
  <2> QED
    BY <1>4, NatLeast
<1> HIDE DEF first
<1>6. DOMAIN d.edges \subseteq 1..d.edgeCtr /\ d.edgeCtr \in Nat
  BY DEF Good, DbInv, EdgesResolve, IsDatabase
<1>7. ids[first] \in DOMAIN d.edges
  BY <1>1, <1>5
<1> QED
  BY <1>2, <1>4, <1>6, <1>7 DEF Zero

LEMMA LocatedTyped ==
  ASSUME NEW d, NEW from, NEW type, NEW to, NEW t, Good(d)
  PROVE  Located(d, from, type, to, t) \in Nat
  BY LocatedIsId DEF Zero

LEMMA ReorgCalls ==
  ASSUME NEW d, Good(d)
  PROVE  LET s   == SeedReorg(d)
             old == Located(d, "carol", "REPORTS_TO", "alice", JustBefore)
         IN /\ Len(s) = 1 /\ s = [k \in 1..1 |-> s[k]] /\ s[1] \in Calls
            /\ s[1] = Supersede(old, ReportsTo("carol", "bob", Reorg))
<1> DEFINE old == Located(d, "carol", "REPORTS_TO", "alice", JustBefore)
<1>1. SeedReorg(d) = <<Supersede(old, ReportsTo("carol", "bob", Reorg))>>
  BY DEF SeedReorg
<1>2. old \in Nat
  BY LocatedTyped
<1>3. ReportsTo("carol", "bob", Reorg) \in EdgeInput
  BY DemoTyped DEF Names
<1> HIDE DEF old
<1>4. Supersede(old, ReportsTo("carol", "bob", Reorg)) \in Calls
  BY <1>2, <1>3 DEF Supersede, Calls
<1> QED
  BY <1>1, <1>4 DEF old

LEMMA JobChangeCalls ==
  ASSUME NEW d, Good(d)
  PROVE  LET s   == SeedJobChange(d)
             old == Located(d, "alice", "WORKS_AT", "acme", AliceLeaves)
             new == Add(WorksAt("alice", "beta_labs", AliceJoins, "linkedin"))
         IN /\ new \in Calls
            /\ Len(s) = (IF old = Zero THEN 1 ELSE 2)
            /\ s = [k \in 1..Len(s) |-> s[k]] /\ s[Len(s)] = new
            /\ old # Zero => s[1] = Invalidate(old, AliceLeaves) /\ s[1] \in Calls
<1> DEFINE old == Located(d, "alice", "WORKS_AT", "acme", AliceLeaves)
           new == Add(WorksAt("alice", "beta_labs", AliceJoins, "linkedin"))
<1>1. SeedJobChange(d) = Ending(old, AliceLeaves) \o <<new>>
  BY DEF SeedJobChange
<1>2. old \in Nat
  BY LocatedTyped
<1>3. new \in Calls
  BY AddCall, DemoTyped DEF Names
<1> HIDE DEF old, new
<1>4. Invalidate(old, AliceLeaves) \in Calls
  BY <1>2, DemoTyped DEF Invalidate, Calls
<1>5. CASE old = Zero
  <2>1. SeedJobChange(d) = <<>> \o <<new>>
    BY <1>1, <1>5 DEF Ending
  <2>2. SeedJobChange(d) = <<new>>
    BY <2>1
  <2> QED
    BY <1>3, <1>5, <2>2 DEF old, new
<1>6. CASE old # Zero
  <2>1. SeedJobChange(d) = <<Invalidate(old, AliceLeaves)>> \o <<new>>
    BY <1>1, <1>6 DEF Ending
  <2> DEFINE first == Invalidate(old, AliceLeaves)
  <2> HIDE DEF first
  <2>2. LET s == SeedJobChange(d)
        IN Len(s) = 2 /\ s = [k \in 1..2 |-> s[k]] /\ s[1] = first /\ s[2] = new
    BY <2>1 DEF first
  <2> QED
    BY <1>3, <1>4, <1>6, <2>2 DEF old, new, first
<1> QED
  BY <1>5, <1>6

LEMMA SeedTyped ==
  ASSUME NEW d, Good(d), NEW k \in 1..6
  PROVE  SeedCalls(d, k) \in Seq(Calls)
<1>1. CASE k = 1
  <2>1. \A j \in 1..10 : SeedNodes[j] \in Calls
    BY NodeCalls, DemoTyped DEF Upsert, Calls
  <2>2. SeedNodes = [j \in 1..10 |-> SeedNodes[j]]
    BY NodeCalls
  <2>3. SeedNodes \in Seq(Calls)
    BY <2>1, <2>2, FunctionSeq
  <2> QED
    BY <1>1, <2>3 DEF SeedCalls
<1>2. CASE k = 2
  <2>1. \A j \in 1..10 : SeedJanuary[j] \in Calls
    <3>1. /\ "alice" \in Names /\ "bob" \in Names /\ "carol" \in Names /\ "dan" \in Names
          /\ "acme" \in Names
      BY DEF Names
    <3>2. /\ SeedJanuary[1] \in Calls /\ SeedJanuary[2] \in Calls /\ SeedJanuary[3] \in Calls
          /\ SeedJanuary[4] \in Calls /\ SeedJanuary[5] \in Calls /\ SeedJanuary[6] \in Calls
          /\ SeedJanuary[7] \in Calls /\ SeedJanuary[8] \in Calls /\ SeedJanuary[9] \in Calls
          /\ SeedJanuary[10] \in Calls
      BY <3>1, JanuaryCalls, DemoTyped, AddCall
    <3> QED
      BY <3>2
  <2>2. SeedJanuary = [j \in 1..10 |-> SeedJanuary[j]]
    BY JanuaryCalls
  <2>3. SeedJanuary \in Seq(Calls)
    BY <2>1, <2>2, FunctionSeq
  <2> QED
    BY <1>2, <2>3 DEF SeedCalls
<1>3. CASE k = 3
  <2>1. /\ Add(WorksAt("eve", "acme", Feb, "hr")) \in Calls
        /\ Add(ReportsTo("eve", "alice", Feb)) \in Calls
    BY DemoTyped, AddCall DEF Names
  <2> QED
    BY <1>3, <2>1 DEF SeedCalls, SeedFebruary
<1>4. CASE k = 4
  <2>1. SeedReorg(d) \in Seq(Calls)
    BY ReorgCalls, FunctionSeq
  <2> QED
    BY <1>4, <2>1 DEF SeedCalls
<1>5. CASE k = 5
  <2> DEFINE s == SeedJobChange(d)
  <2>1. Len(s) \in {1, 2} /\ s = [j \in 1..Len(s) |-> s[j]] /\ \A j \in 1..Len(s) : s[j] \in Calls
    BY JobChangeCalls
  <2> HIDE DEF s
  <2>2. s \in Seq(Calls)
    BY <2>1, FunctionSeq
  <2> QED
    BY <1>5, <2>2 DEF SeedCalls, s
<1>6. CASE k = 6
  <2>1. \A j \in 1..6 : SeedApril[j] \in Calls
    <3>1. /\ "alice" \in Names /\ "bob" \in Names /\ "carol" \in Names /\ "dan" \in Names
          /\ "frank" \in Names /\ "acme" \in Names /\ "pluto" \in Names /\ "quasar" \in Names
      BY DEF Names
    <3>2. /\ SeedApril[1] \in Calls /\ SeedApril[2] \in Calls /\ SeedApril[3] \in Calls
          /\ SeedApril[4] \in Calls /\ SeedApril[5] \in Calls /\ SeedApril[6] \in Calls
      BY <3>1, AprilCalls, DemoTyped, AddCall
    <3> QED
      BY <3>2
  <2>2. SeedApril = [j \in 1..6 |-> SeedApril[j]]
    BY AprilCalls
  <2>3. SeedApril \in Seq(Calls)
    BY <2>1, <2>2, FunctionSeq
  <2> QED
    BY <1>6, <2>3 DEF SeedCalls
<1> QED
  BY <1>1, <1>2, <1>3, <1>4, <1>5, <1>6

-----------------------------------------------------------------------------
(* What the panes hold *)

Filled == \E t \in Time : /\ IF cursor = NoTs THEN t \in Ticks ELSE t = cursor
                          /\ edges = ScanInOrder(db, db.fwdAdj, db.extIds[nodes[sel]], t)

\* The panes are empty, or list every node and the edges of the selected one.
ListsInv ==
  \/ nodes = <<>> /\ sel = 0 /\ edges = <<>>
  \/ nodes = AllNodes /\ sel \in 1..db.nodeCtr /\ Filled

StateInv == /\ phase \in {"seeding", "browsing", "quit"} /\ seeded \in 0..6
            /\ clock \in Ticks /\ cursor \in Time \cup {NoTs}

LineInv == /\ mode \in {"normal", "query"} /\ help \in BOOLEAN
           /\ input \in Seq(Typed) /\ Len(input) <= MaxInput
           /\ status \in {"none", "empty", "error", "lines"}
           /\ shown \in Accepted \cup {<<>>}
           /\ OutputAnswers

BrowserInv == /\ Good(db) /\ StateInv /\ ListsInv /\ LineInv
              /\ phase = "seeding" => BeforeOpen

\* all_nodes lists the nodes by id.
LEMMA AllNodesByID ==
  ASSUME Good(db)
  PROVE  /\ db.nodeCtr \in Nat
         /\ AllNodes = [k \in 1..db.nodeCtr |-> db.nodes[k].ext]
         /\ Len(AllNodes) = db.nodeCtr
         /\ AllNodes = <<>> <=> db.nodeCtr = 0
<1> DEFINE n == db.nodeCtr
           ids == DOMAIN db.nodes
           Nth(k) == CHOOSE i \in ids : Cardinality({j \in ids : j < i}) = k - 1
<1>1. n \in Nat /\ ids = 1..n
  BY DEF Good, IsDatabase, DbInv, NodesNamed
<1> HIDE DEF n, ids
<1>2. Cardinality(ids) = n
  BY <1>1, FS_Interval
<1>3. ASSUME NEW i \in 1..n
      PROVE  Cardinality({j \in ids : j < i}) = i - 1
  <2> DEFINE m == i - 1
  <2>1. m \in Nat /\ m = i - 1 /\ {j \in ids : j < i} = 1..m
    BY <1>1
  <2> HIDE DEF m
  <2>2. Cardinality(1..m) = m
    BY <2>1, FS_Interval
  <2> QED
    BY <2>1, <2>2
<1>4. ASSUME NEW k \in 1..n PROVE Nth(k) = k
  <2>1. k \in ids /\ Cardinality({j \in ids : j < k}) = k - 1
    BY <1>1, <1>3
  <2>2. ASSUME NEW i \in ids, Cardinality({j \in ids : j < i}) = k - 1
        PROVE  i = k
    BY <1>1, <1>3, <2>2
  <2> QED
    BY <2>1, <2>2
<1>5. AllNodes = [k \in 1..Cardinality(ids) |-> db.nodes[Nth(k)].ext]
  BY DEF AllNodes, ids
<1> HIDE DEF Nth
<1>6. AllNodes = [k \in 1..n |-> db.nodes[k].ext]
  BY <1>2, <1>4, <1>5
<1>7. Len(AllNodes) = n
  <2>1. \A k \in 1..n : AllNodes[k] \in {db.nodes[i].ext : i \in 1..n}
    BY <1>6
  <2>2. AllNodes = [k \in 1..n |-> AllNodes[k]]
    BY <1>6
  <2> QED
    BY <1>1, <2>1, <2>2, FunctionSeq
<1>8. AllNodes = <<>> <=> n = 0
  <2>1. CASE n = 0
    <3>1. 1..n = {}
      BY <2>1
    <3> QED
      BY <1>6, <2>1, <3>1
  <2>2. CASE n # 0
    <3>1. 1 \in DOMAIN AllNodes
      BY <1>1, <1>6, <2>2
    <3> QED
      BY <2>2, <3>1
  <2> QED
    BY <2>1, <2>2
<1> QED
  BY <1>1, <1>6, <1>7, <1>8 DEF n

\* The pane of a row is filled by a scan at the cursor or, when live, at the clock.
LEMMA EdgesOfRow ==
  ASSUME Good(db), StateInv, NEW row \in 1..db.nodeCtr, NEW at \in Time \cup {NoTs}
  PROVE  \E t \in Time :
           /\ IF at = NoTs THEN t \in Ticks ELSE t = at
           /\ EdgesOf(AllNodes, row, at)
                = ScanInOrder(db, db.fwdAdj, db.extIds[AllNodes[row]], t)
<1> DEFINE t == IF at = NoTs THEN clock ELSE at
<1>1. db.nodeCtr \in Nat /\ AllNodes[row] = db.nodes[row].ext
  BY AllNodesByID
<1>2. row # 0 /\ row \in DOMAIN db.nodes
  BY <1>1 DEF Good, DbInv, NodesNamed
<1>3. AllNodes[row] \in DOMAIN db.extIds
  BY <1>1, <1>2 DEF Good, DbInv, NodesNamed
<1>4. t \in Time /\ (IF at = NoTs THEN t \in Ticks ELSE t = at)
  BY BrowserAssumption DEF StateInv
<1>5. EdgesOf(AllNodes, row, at) = ScanInOrder(db, db.fwdAdj, db.extIds[AllNodes[row]], t)
  BY <1>2, <1>3 DEF EdgesOf
<1> QED
  BY <1>4, <1>5

LEMMA NodesUnchanged ==
  ASSUME db' = db
  PROVE  AllNodes' = AllNodes /\ (Good(db) => Good(db)')
  BY DEF AllNodes

\* Any selection of a row and any cursor leave the panes filled, once the edges
\* are read again.
LEMMA Refilled ==
  ASSUME BrowserInv, UNCHANGED db, nodes' = AllNodes, sel' \in 1..db.nodeCtr,
         cursor' \in Time \cup {NoTs},
         edges' = EdgesOf(AllNodes, sel', cursor')
  PROVE  ListsInv'
<1>1. Good(db) /\ StateInv
  BY DEF BrowserInv
<1>2. \E t \in Time :
         /\ IF cursor' = NoTs THEN t \in Ticks ELSE t = cursor'
         /\ edges' = ScanInOrder(db, db.fwdAdj, db.extIds[AllNodes[sel']], t)
  BY <1>1, EdgesOfRow
<1>3. Filled'
  BY <1>2 DEF Filled
<1>4. AllNodes' = AllNodes
  BY NodesUnchanged
<1> QED
  BY <1>3, <1>4 DEF ListsInv

LEMMA ListsUnchanged ==
  ASSUME ListsInv, UNCHANGED <<db, listVars>>
  PROVE  ListsInv'
<1>1. AllNodes' = AllNodes
  BY NodesUnchanged
<1> QED
  BY <1>1 DEF ListsInv, Filled, listVars

-----------------------------------------------------------------------------
(* The steps of the browser *)

LEMMA InitBrowser == Init => BrowserInv
<1> SUFFICES ASSUME Init PROVE BrowserInv
  OBVIOUS
<1>1. Good(db)
  BY EmptyDbGood DEF Init
<1>2. <<>> \in Seq(Typed) /\ Len(<<>>) = 0
  BY EmptySeq
<1>3. MaxInput \in Nat /\ Ticks \subseteq Time
  BY BrowserAssumption
<1>4. StateInv
  BY DEF Init, BeforeOpen, StateInv
<1>5. ListsInv /\ BeforeOpen
  BY DEF Init, BeforeOpen, ListsInv
<1>6. LineInv
  <2>1. /\ mode = "normal" /\ help = FALSE /\ input = <<>>
        /\ status = "none" /\ shown = <<>> /\ asked = {}
    BY DEF Init, BeforeOpen
  <2>2. OutputAnswers
    BY <2>1 DEF OutputAnswers
  <2>3. input \in Seq(Typed) /\ Len(input) <= MaxInput
    BY <1>2, <1>3, <2>1
  <2> QED
    BY <2>1, <2>2, <2>3 DEF LineInv
<1> QED
  BY <1>1, <1>4, <1>5, <1>6 DEF BrowserInv

LEMMA SeedBrowser == ASSUME BrowserInv, SeedNext PROVE BrowserInv'
<1> DEFINE r == Write(db, SeedCalls(db, seeded + 1), clock)
<1>1. /\ phase = "seeding" /\ seeded < 6 /\ db' = r.db /\ BeforeOpen
      /\ IF r.ok THEN seeded' = seeded + 1 /\ UNCHANGED phase
         ELSE phase' = "quit" /\ UNCHANGED seeded
      /\ UNCHANGED <<clock, listVars, mode, help, queryVars>>
  BY DEF BrowserInv, SeedNext, Seed
<1>2. seeded + 1 \in 1..6 /\ seeded \in 0..6 /\ clock \in Time /\ Good(db)
  <2>1. seeded \in 0..6 /\ clock \in Ticks /\ Ticks \subseteq Time /\ Good(db)
    BY BrowserAssumption DEF BrowserInv, StateInv
  <2> QED
    BY <1>1, <2>1
<1>3. SeedCalls(db, seeded + 1) \in Seq(Calls)
  BY <1>2, SeedTyped
<1>4. r.ok \in BOOLEAN /\ Good(r.db)
  BY <1>2, <1>3, WriteGood
<1> HIDE DEF r
<1>5. StateInv'
  BY <1>1, <1>2 DEF BrowserInv, StateInv, listVars
<1>6. BeforeOpen' /\ ListsInv'
  BY <1>1 DEF BeforeOpen, ListsInv, listVars, queryVars
<1>7. LineInv'
  BY <1>1 DEF BrowserInv, LineInv, OutputAnswers, queryVars
<1> QED
  BY <1>1, <1>4, <1>5, <1>6, <1>7 DEF BrowserInv

LEMMA RefreshBrowser ==
  ASSUME BrowserInv, UNCHANGED db, Refresh
  PROVE  ListsInv' /\ cursor' = cursor
<1>1. /\ db.nodeCtr \in Nat /\ Len(AllNodes) = db.nodeCtr
      /\ AllNodes = <<>> <=> db.nodeCtr = 0
      /\ AllNodes' = AllNodes
  BY AllNodesByID, NodesUnchanged DEF BrowserInv
<1>2. sel = 0 \/ sel \in 1..db.nodeCtr
  BY DEF BrowserInv, ListsInv
<1>3. CASE AllNodes = <<>>
  BY <1>3 DEF Refresh, EdgesOf, ListsInv
<1>4. CASE AllNodes # <<>>
  <2>1. sel' \in 1..db.nodeCtr
    BY <1>1, <1>2, <1>4 DEF Refresh
  <2>2. /\ nodes' = AllNodes /\ cursor' = cursor /\ cursor' \in Time \cup {NoTs}
        /\ edges' = EdgesOf(AllNodes, sel', cursor')
    BY DEF Refresh, BrowserInv, StateInv
  <2> QED
    BY <2>1, <2>2, Refilled
<1> QED
  BY <1>3, <1>4 DEF Refresh

LEMMA OpenBrowser == ASSUME BrowserInv, Open PROVE BrowserInv'
<1>1. ListsInv' /\ cursor' = cursor
  BY RefreshBrowser DEF Open, demoVars
<1>2. Good(db)' /\ StateInv' /\ phase' # "seeding"
  BY <1>1, NodesUnchanged DEF BrowserInv, StateInv, Open, demoVars
<1>3. LineInv'
  BY DEF BrowserInv, LineInv, OutputAnswers, Open, queryVars
<1> QED
  BY <1>1, <1>2, <1>3 DEF BrowserInv

LEMMA TickBrowser == ASSUME BrowserInv, Tick PROVE BrowserInv'
<1>1. ListsInv'
  BY ListsUnchanged DEF BrowserInv, Tick, demoVars
<1>2. Good(db)' /\ StateInv' /\ phase' # "seeding"
  BY NodesUnchanged DEF BrowserInv, StateInv, Tick, demoVars, listVars
<1>3. LineInv'
  BY DEF BrowserInv, LineInv, OutputAnswers, Tick, queryVars
<1> QED
  BY <1>1, <1>2, <1>3 DEF BrowserInv

\* A row is selected among those that are listed.
LEMMA SelectBrowser ==
  ASSUME BrowserInv, UNCHANGED db, NEW row, nodes # <<>>, row \in 1..Len(nodes), Select(row)
  PROVE  ListsInv' /\ cursor' = cursor
<1>1. nodes = AllNodes /\ Len(nodes) = db.nodeCtr
  BY AllNodesByID DEF BrowserInv, ListsInv
<1> QED
  BY <1>1, Refilled DEF Select, BrowserInv, StateInv

LEMMA MoveInRange ==
  ASSUME NEW n \in Nat, n # 0, NEW s \in 0..n, NEW delta \in {-1, 1}
  PROVE  ((s - 1 + delta) % n) + 1 \in 1..n
<1> DEFINE x == s - 1 + delta
<1>1. x \in Int /\ n > 0
  OBVIOUS
<1> HIDE DEF x
<1>2. x % n \in 0..(n - 1)
  BY <1>1
<1> QED
  BY <1>2 DEF x

LEMMA PointBrowser ==
  ASSUME BrowserInv, UNCHANGED db, NEW t \in Time \cup {NoTs}, PointTo(t)
  PROVE  ListsInv' /\ cursor' \in Time \cup {NoTs}
<1>1. CASE sel = 0
  <2>1. nodes = <<>>
    BY <1>1, AllNodesByID DEF BrowserInv, ListsInv
  <2> QED
    BY <1>1, <2>1 DEF PointTo, EdgesOf, ListsInv
<1>2. CASE sel # 0
  <2>1. nodes = AllNodes /\ sel \in 1..db.nodeCtr
    BY <1>2 DEF BrowserInv, ListsInv
  <2> QED
    BY <2>1, Refilled DEF PointTo
<1> QED
  BY <1>1, <1>2

LEMMA BumpedInTime ==
  ASSUME StateInv, NEW delta \in Int
  PROVE  Bumped(delta) \in Time
<1>1. /\ FirstTs \in Int /\ LastTs \in Int /\ Time = FirstTs .. LastTs
      /\ clock \in Time /\ (cursor # NoTs => cursor \in Time)
  BY BrowserAssumption DEF StateInv
<1> DEFINE from == IF cursor = NoTs THEN clock ELSE cursor
<1>2. from \in FirstTs .. LastTs
  BY <1>1
<1>3. Bumped(delta) = IF from + delta < FirstTs THEN FirstTs
                      ELSE IF from + delta > LastTs THEN LastTs ELSE from + delta
  BY DEF Bumped
<1> HIDE DEF from
<1> QED
  BY <1>1, <1>2, <1>3

LEMMA PressNormalBrowser ==
  ASSUME BrowserInv, UNCHANGED db, NEW key, PressNormal(key)
  PROVE  ListsInv' /\ LineInv' /\ cursor' \in Time \cup {NoTs}
<1>1. /\ {Day, Week, Month} \subseteq Nat
      /\ StateInv /\ ListsInv /\ LineInv /\ cursor \in Time \cup {NoTs}
  BY BrowserAssumption DEF BrowserInv, StateInv
<1>2. CASE Help \/ Focus
  <2>1. UNCHANGED listVars /\ ListsInv'
    BY <1>1, <1>2, ListsUnchanged DEF Help, Focus
  <2>2. LineInv'
    BY <1>1, <1>2 DEF Help, Focus, LineInv, OutputAnswers, queryVars
  <2> QED
    BY <1>1, <2>1, <2>2 DEF listVars
<1>3. CASE Reload
  <2>1. ListsInv' /\ cursor' = cursor
    BY <1>3, RefreshBrowser DEF Reload
  <2>2. LineInv'
    BY <1>1, <1>3 DEF Reload, LineInv, OutputAnswers, queryVars
  <2> QED
    BY <1>1, <2>1, <2>2
<1>4. ASSUME NEW row \in 1..Len(nodes), nodes # <<>>, Select(row)
      PROVE  ListsInv' /\ LineInv' /\ cursor' \in Time \cup {NoTs}
  <2>1. ListsInv' /\ cursor' = cursor
    BY <1>4, SelectBrowser
  <2>2. LineInv'
    BY <1>1, <1>4 DEF Select, LineInv, OutputAnswers, queryVars
  <2> QED
    BY <1>1, <2>1, <2>2
<1>5. ASSUME NEW t \in Time \cup {NoTs}, PointTo(t)
      PROVE  ListsInv' /\ LineInv' /\ cursor' \in Time \cup {NoTs}
  <2>1. ListsInv' /\ cursor' \in Time \cup {NoTs}
    BY <1>5, PointBrowser
  <2>2. LineInv'
    BY <1>1, <1>5 DEF PointTo, LineInv, OutputAnswers, queryVars
  <2> QED
    BY <2>1, <2>2
<1>6. ASSUME nodes # <<>> PROVE Len(nodes) \in Nat \ {0} /\ sel \in 0..Len(nodes)
  BY <1>1, <1>6, AllNodesByID DEF BrowserInv, ListsInv
<1>7. ASSUME NEW delta \in {-1, 1}, Move(delta)
      PROVE  ListsInv' /\ LineInv' /\ cursor' \in Time \cup {NoTs}
  <2>1. nodes # <<>> /\ Select(((sel - 1 + delta) % Len(nodes)) + 1)
    BY <1>7 DEF Move
  <2>2. ((sel - 1 + delta) % Len(nodes)) + 1 \in 1..Len(nodes)
    BY <1>6, <2>1, MoveInRange
  <2> QED
    BY <1>4, <2>1, <2>2
<1>8. CASE Top \/ Bottom
  <2>1. nodes # <<>> /\ (Select(1) \/ Select(Len(nodes)))
    BY <1>8 DEF Top, Bottom
  <2>2. 1 \in 1..Len(nodes) /\ Len(nodes) \in 1..Len(nodes)
    BY <1>6, <2>1
  <2> QED
    BY <1>4, <2>1, <2>2
<1>9. ASSUME NEW delta \in Int, Bump(delta)
      PROVE  ListsInv' /\ LineInv' /\ cursor' \in Time \cup {NoTs}
  BY <1>1, <1>5, <1>9, BumpedInTime DEF Bump
<1>10. /\ Day \in Int /\ -Day \in Int /\ Week \in Int /\ -Week \in Int
       /\ Month \in Int /\ -Month \in Int /\ NoTs \in Time \cup {NoTs}
       /\ 1 \in {-1, 1} /\ -1 \in {-1, 1}
  BY <1>1
<1> QED
  BY <1>2, <1>3, <1>5, <1>7, <1>8, <1>9, <1>10 DEF PressNormal

\* A query that is run leaves its own output, or none under an error.
LEMMA PressQueryBrowser ==
  ASSUME BrowserInv, UNCHANGED db, NEW key, PressQuery(key)
  PROVE  ListsInv' /\ LineInv' /\ cursor' = cursor
<1>1. ListsInv' /\ cursor' = cursor /\ help' = help /\ LineInv
  BY ListsUnchanged DEF BrowserInv, PressQuery, listVars
<1>2. CASE LeaveLine
  BY <1>1, <1>2 DEF LeaveLine, LineInv, OutputAnswers, queryVars
<1>3. CASE RunQuery
  <2> DEFINE q == Trim(input)
  <2>1. /\ \/ q = <<>> /\ status' = "empty" /\ shown' = <<>> /\ UNCHANGED mode
           \/ q # <<>> /\ q \in Accepted /\ status' = "lines" /\ shown' = q /\ mode' = "normal"
           \/ /\ q # <<>> /\ q \notin Accepted
              /\ status' = "error" /\ shown' = <<>> /\ UNCHANGED mode
        /\ asked' = {q} /\ UNCHANGED input
    BY <1>3, BrowserAssumption DEF RunQuery
  <2> HIDE DEF q
  <2>2. OutputAnswers'
    BY <2>1 DEF OutputAnswers
  <2> QED
    BY <1>1, <2>1, <2>2 DEF LineInv
<1>4. ASSUME NEW text \in Seq(Typed), Len(text) <= MaxInput, Edit(text)
      PROVE  LineInv'
  BY <1>1, <1>4 DEF Edit, LineInv, OutputAnswers
<1>5. input \in Seq(Typed) /\ Len(input) \in Nat /\ Len(input) <= MaxInput /\ MaxInput \in Nat
  BY <1>1, LenProperties, BrowserAssumption DEF LineInv
<1>6. ASSUME input # <<>>
      PROVE  /\ SubSeq(input, 1, Len(input) - 1) \in Seq(Typed)
             /\ Len(SubSeq(input, 1, Len(input) - 1)) <= MaxInput
  <2>1. Len(input) # 0
    BY <1>5, <1>6, EmptySeq
  <2> DEFINE m == Len(input) - 1
  <2>2. m \in Nat /\ m <= Len(input) /\ m <= MaxInput
    BY <1>5, <2>1
  <2>3. \A k \in 1..m : k \in 1..Len(input) /\ input[k] \in Typed
    BY <1>5, <2>2, ElementOfSeq
  <2> HIDE DEF m
  <2>4. SubSeq(input, 1, m) \in Seq(Typed) /\ Len(SubSeq(input, 1, m)) = m
    BY <1>5, <2>2, <2>3, SubSeqProperties
  <2> QED
    BY <2>2, <2>4 DEF m
<1>7. ASSUME key \in Typed, Len(input) < MaxInput
      PROVE  Append(input, key) \in Seq(Typed) /\ Len(Append(input, key)) <= MaxInput
  BY <1>5, <1>7, AppendProperties
<1> QED
  BY <1>1, <1>2, <1>3, <1>4, <1>6, <1>7 DEF PressQuery

LEMMA PressBrowser == ASSUME BrowserInv, NEW key, Press(key) PROVE BrowserInv'
<1>1. /\ db' = db /\ UNCHANGED <<seeded, clock>> /\ phase = "browsing"
      /\ phase' \in {"browsing", "quit"}
  BY DEF Press, demoVars
<1>2. /\ Good(db)' /\ Good(db) /\ StateInv /\ ListsInv /\ LineInv
      /\ cursor \in Time \cup {NoTs}
  BY <1>1, NodesUnchanged DEF BrowserInv, StateInv
<1>3. ListsInv' /\ LineInv' /\ cursor' \in Time \cup {NoTs}
  <2>1. CASE help' = FALSE /\ UNCHANGED <<phase, listVars, mode, queryVars>>
    <3>1. ListsInv' /\ cursor' = cursor
      BY <1>1, <1>2, <2>1, ListsUnchanged DEF listVars
    <3>2. LineInv'
      BY <1>2, <2>1 DEF LineInv, OutputAnswers, queryVars
    <3> QED
      BY <1>2, <3>1, <3>2
  <2>2. CASE UNCHANGED <<listVars, mode, help, queryVars>>
    <3>1. ListsInv' /\ cursor' = cursor
      BY <1>1, <1>2, <2>2, ListsUnchanged DEF listVars
    <3>2. LineInv'
      BY <1>2, <2>2 DEF LineInv, OutputAnswers, queryVars
    <3> QED
      BY <1>2, <3>1, <3>2
  <2>3. CASE PressNormal(key)
    BY <1>1, <2>3, PressNormalBrowser
  <2>4. CASE PressQuery(key)
    BY <1>1, <1>2, <2>4, PressQueryBrowser
  <2> QED
    BY <2>1, <2>2, <2>3, <2>4 DEF Press
<1>4. StateInv'
  BY <1>1, <1>2, <1>3 DEF StateInv
<1> QED
  BY <1>1, <1>2, <1>3, <1>4 DEF BrowserInv

LEMMA NextBrowser == BrowserInv /\ [Next]_vars => BrowserInv'
<1> SUFFICES ASSUME BrowserInv, [Next]_vars PROVE BrowserInv'
  OBVIOUS
<1>1. CASE UNCHANGED vars
  <2>1. UNCHANGED <<db, seeded, phase, clock, listVars, mode, help, queryVars>>
    BY <1>1 DEF vars, demoVars
  <2>2. Good(db)' /\ ListsInv'
    BY <2>1, NodesUnchanged, ListsUnchanged DEF BrowserInv
  <2>3. StateInv' /\ LineInv' /\ (phase' = "seeding" => BeforeOpen')
    BY <2>1 DEF BrowserInv, StateInv, LineInv, OutputAnswers, BeforeOpen, listVars, queryVars
  <2> QED
    BY <2>2, <2>3 DEF BrowserInv
<1> QED
  BY <1>1, SeedBrowser, OpenBrowser, PressBrowser, TickBrowser DEF Next

LEMMA SpecBrowser == Spec => []BrowserInv
  BY InitBrowser, NextBrowser, PTL DEF Spec

-----------------------------------------------------------------------------
(* The theorems *)

\* What a scan lists is what is live, in the order of its start.
LEMMA FilledShows ==
  ASSUME Good(db), NEW row \in DOMAIN db.nodes, NEW t \in Time,
         sel # 0, nodes[sel] = db.nodes[row].ext,
         edges = ScanInOrder(db, db.fwdAdj, db.extIds[nodes[sel]], t)
  PROVE  ShowsLive(t) /\ \A k \in DOMAIN edges : edges[k] \in DOMAIN db.edges
<1> DEFINE name == nodes[sel]
           ids  == ScanAdjacency(db, db.fwdAdj, row, t)
           ends == [i \in DOMAIN db.edges |-> db.edges[i].from]
           live == {i \in DOMAIN db.edges : /\ LiveAt(db.edges[i], t)
                                            /\ ViewEdge(db, i).from = name}
<1>1. db.extIds[name] = row /\ name = db.nodes[row].ext
  BY DEF Good, DbInv, NodesNamed
<1>2. ids = {i \in DOMAIN db.edges : db.edges[i].from = row /\ LiveAt(db.edges[i], t)}
  <2>1. DOMAIN db.fwdAdj = {<<ends[i], db.edges[i].vf, i>> : i \in DOMAIN db.edges}
    BY DEF Good, DbInv, IndexesMirrorEdges
  <2>2. ids = {i \in DOMAIN db.edges : ends[i] = row /\ LiveAt(db.edges[i], t)}
    <3> HIDE DEF ends
    <3> QED
      BY <2>1, ScanExact
  <2> QED
    BY <2>2
<1>3. ASSUME NEW i \in DOMAIN db.edges
      PROVE  db.edges[i].from = row <=> ViewEdge(db, i).from = name
  <2>1. db.edges[i].from \in DOMAIN db.nodes
    BY DEF Good, DbInv, EdgesResolve
  <2>2. ViewEdge(db, i).from = db.nodes[db.edges[i].from].ext
    BY DEF ViewEdge
  <2> QED
    BY <1>1, <2>1, <2>2 DEF Good, DbInv, NodesNamed
<1> HIDE DEF name
<1>4. ids = live
  BY <1>2, <1>3
<1>5. /\ ids \subseteq DOMAIN db.edges
      /\ Cardinality(ids) \in Nat
      /\ DOMAIN edges = 1..Cardinality(ids) /\ edges = [k \in DOMAIN edges |-> edges[k]]
      /\ {edges[k] : k \in DOMAIN edges} = ids
      /\ \A j, k \in DOMAIN edges : j < k => Earlier(db, edges[j], edges[k])
  BY <1>1, ScanListed DEF name
<1> HIDE DEF ids, live
<1>6. \A k \in DOMAIN edges : edges[k] \in DOMAIN db.edges
  BY <1>5
<1>7. Len(edges) = Cardinality(ids)
  <2> DEFINE n == Cardinality(ids)
  <2>1. n \in Nat /\ edges = [k \in 1..n |-> edges[k]] /\ \A k \in 1..n : edges[k] \in ids
    BY <1>5
  <2> HIDE DEF n
  <2>2. Len(edges) = n
    BY <2>1, FunctionSeq
  <2> QED
    BY <2>2 DEF n
<1>8. ASSUME NEW j \in DOMAIN edges, NEW k \in DOMAIN edges, j < k
      PROVE  db.edges[edges[j]].vf <= db.edges[edges[k]].vf
  <2>1. Earlier(db, edges[j], edges[k])
    BY <1>5, <1>8
  <2>2. db.edges[edges[j]].vf \in Int /\ db.edges[edges[k]].vf \in Int
    BY <1>6, TimeAssumption DEF Good, IsDatabase, IsTable, Edge
  <2> QED
    BY <2>1, <2>2 DEF Earlier
<1> QED
  BY <1>4, <1>5, <1>6, <1>7, <1>8 DEF ShowsLive, live, name

PaneLive == \E t \in Time : /\ IF cursor = NoTs THEN t \in Ticks ELSE t = cursor
                            /\ ShowsLive(t)

LEMMA FilledIsLive ==
  ASSUME BrowserInv, sel # 0
  PROVE  /\ PaneLive
         /\ \A k \in DOMAIN edges : edges[k] \in DOMAIN db.edges
<1>1. Good(db) /\ nodes = AllNodes /\ sel \in 1..db.nodeCtr /\ Filled
  BY DEF BrowserInv, ListsInv
<1>2. nodes[sel] = db.nodes[sel].ext /\ sel \in DOMAIN db.nodes
  BY <1>1, AllNodesByID DEF Good, DbInv, NodesNamed
<1>3. PICK t \in Time : /\ IF cursor = NoTs THEN t \in Ticks ELSE t = cursor
                        /\ edges = ScanInOrder(db, db.fwdAdj, db.extIds[nodes[sel]], t)
  BY <1>1 DEF Filled
<1>4. ShowsLive(t) /\ \A k \in DOMAIN edges : edges[k] \in DOMAIN db.edges
  BY <1>1, <1>2, <1>3, FilledShows
<1> QED
  BY <1>3, <1>4 DEF PaneLive

\* Whatever keys are pressed, the highlighted row is one of those listed, the
\* edges shown are in the file and no more is typed than the line holds
\* (handle_key, move_selection, bump_time, run_query).
THEOREM BrowserTypeCorrect == Spec => []TypeOK
<1>1. BrowserInv => TypeOK
  <2> SUFFICES ASSUME BrowserInv PROVE TypeOK
    OBVIOUS
  <2>1. sel \in 0..Len(nodes) /\ (sel = 0 <=> nodes = <<>>)
    <3>1. CASE nodes = <<>> /\ sel = 0
      BY <3>1, EmptySeq
    <3>2. CASE nodes = AllNodes /\ sel \in 1..db.nodeCtr
      <4>1. /\ db.nodeCtr \in Nat /\ Len(AllNodes) = db.nodeCtr
            /\ AllNodes = <<>> <=> db.nodeCtr = 0
        BY AllNodesByID DEF BrowserInv
      <4> QED
        BY <3>2, <4>1
    <3> QED
      BY <3>1, <3>2 DEF BrowserInv, ListsInv
  <2>2. \A k \in DOMAIN edges : edges[k] \in DOMAIN db.edges
    <3>1. CASE sel # 0
      BY <3>1, FilledIsLive
    <3>2. CASE sel = 0
      <4>1. edges = <<>>
        BY <3>2, AllNodesByID DEF BrowserInv, ListsInv
      <4> QED
        BY <4>1
    <3> QED
      BY <3>1, <3>2
  <2> QED
    BY <2>1, <2>2 DEF BrowserInv, StateInv, LineInv, TypeOK
<1> QED
  BY <1>1, SpecBrowser, PTL

\* After any keys the right pane lists exactly the edges of the highlighted node
\* that are live at the cursor, each once and in order of their start; live, at
\* what the clock said at an earlier key (refresh_edges).
THEOREM PaneCorrect == Spec => []PaneExact
<1>1. BrowserInv => PaneExact
  <2> SUFFICES ASSUME BrowserInv, sel # 0
               PROVE  IF cursor = NoTs THEN \E t \in Ticks : ShowsLive(t) ELSE ShowsLive(cursor)
    BY DEF PaneExact
  <2>1. PICK t \in Time : /\ IF cursor = NoTs THEN t \in Ticks ELSE t = cursor
                          /\ ShowsLive(t)
    BY FilledIsLive DEF PaneLive
  <2> QED
    BY <2>1
<1> QED
  BY <1>1, SpecBrowser, PTL

\* Whatever keys are pressed, the query pane answers the query entered last: its
\* status is that of this query, and the output it shows is this query's, or none
\* when it was empty or failed (run_query).
THEOREM OutputCorrect == Spec => []OutputAnswers
<1>1. BrowserInv => OutputAnswers
  BY DEF BrowserInv, LineInv
<1> QED
  BY <1>1, SpecBrowser, PTL

-----------------------------------------------------------------------------
(* The story that the six transactions tell *)

Jobs == {"WORKS_AT", "REPORTS_TO"}

\* Two facts are never live at once, if they place or subordinate one person.
Apart(f, g) ==
  f.from = g.from /\ f.type = g.type /\ f.type \in Jobs
    => \A t \in Time : ~(LiveAt(f, t) /\ LiveAt(g, t))

AllApart(d) ==
  \A i, j \in DOMAIN d.edges : i # j => Apart(ViewEdge(d, i), ViewEdge(d, j))

\* What the transactions to come rely on: of the people they are about, nothing
\* is known that would stand beside what they are going to say.
Foretold(f, k) ==
  /\ k < 3 /\ f.from = "eve" => f.type \notin Jobs
  /\ k < 4 /\ f.from = "carol" /\ f.type = "REPORTS_TO"
       => f.to = "alice" /\ f.vf = JanReports /\ f.vt = NoTs
  /\ k < 5 /\ f.from = "alice" /\ f.type = "WORKS_AT"
       => f.to = "acme" /\ f.vf = Jan /\ f.vt = NoTs
  /\ k < 6 /\ f.from = "frank" => f.type # "WORKS_AT"

\* k transactions are committed.
Story(d, k) ==
  /\ AllApart(d)
  /\ k # 0 => Names \subseteq DOMAIN d.extIds
  /\ k < 2 => DOMAIN d.edges = {}
  /\ \A i \in DOMAIN d.edges : Foretold(ViewEdge(d, i), k)

Shows(f, in) == /\ f.from = in.from /\ f.to = in.to /\ f.type = in.type
                /\ f.vf = in.vf /\ f.vt = in.vt

LEMMA ShowsApart ==
  ASSUME NEW f, NEW g, NEW a, NEW b, Shows(f, a), Shows(g, b), Apart(a, b)
  PROVE  Apart(f, g)
  BY DEF Shows, Apart, LiveAt

LEMMA ShowsApartFrom ==
  ASSUME NEW f, NEW g, NEW b, Shows(g, b), Apart(f, b)
  PROVE  Apart(f, g)
  BY DEF Shows, Apart, LiveAt

LEMMA ApartSymmetric == ASSUME NEW f, NEW g, Apart(f, g) PROVE Apart(g, f)
  BY DEF Apart

LEMMA ShowsForetold ==
  ASSUME NEW f, NEW in, NEW k, Shows(f, in), Foretold(in, k)
  PROVE  Foretold(f, k)
  BY DEF Shows, Foretold

\* An edge that is kept as it was is seen as it was.
LEMMA SameEdgeSeen ==
  ASSUME NEW d, NEW e, Good(d), Good(e), Keeps(d, e), NEW i \in DOMAIN d.edges,
         e.edges[i] = d.edges[i]
  PROVE  i \in DOMAIN e.edges /\ ViewEdge(e, i) = ViewEdge(d, i)
<1>1. i \in DOMAIN e.edges /\ ViewEdge(e, i) = [ViewEdge(d, i) EXCEPT !.vt = e.edges[i].vt]
  BY EdgeKeptInView
<1>2. ViewEdge(d, i).vt = d.edges[i].vt
  BY DEF ViewEdge
<1> QED
  BY <1>1, <1>2 DEF ViewEdge

\* add_edge in a list of calls: one more fact, as the call says, the others as
\* they were.
LEMMA AddSeen ==
  ASSUME NEW d, NEW in \in EdgeInput, NEW now \in Time, Good(d), Reply(d, Add(in), now).ok
  PROVE  LET r == Reply(d, Add(in), now)
         IN /\ r.id \notin DOMAIN d.edges
            /\ DOMAIN r.db.edges = DOMAIN d.edges \cup {r.id}
            /\ \A i \in DOMAIN d.edges : ViewEdge(r.db, i) = ViewEdge(d, i)
            /\ Shows(ViewEdge(r.db, r.id), in)
<1> DEFINE three == [k \in 1..3 |-> now]
           r == Reply(d, Add(in), now)
<1>1. three \in [1..3 -> Time]
  OBVIOUS
<1>2. r = AddEdge(d, in, three)
  BY AddReply
<1> HIDE DEF three, r
<1>3. Good(r.db) /\ Keeps(d, r.db) /\ Adds(d, r)
  BY <1>1, <1>2, AddEdgeGood, AddEdgeKeeps
<1>4. Shows(ViewEdge(r.db, r.id), in)
  BY <1>1, <1>2, AddEdgeShows DEF Shows, r
<1>5. r.id \notin DOMAIN d.edges /\ r.db.edges = Insert(d.edges, r.id, r.db.edges[r.id])
  BY <1>3 DEF Adds, r
<1>6. /\ DOMAIN r.db.edges = DOMAIN d.edges \cup {r.id}
      /\ \A i \in DOMAIN d.edges : r.db.edges[i] = d.edges[i]
  BY <1>5 DEF Insert
<1>7. \A i \in DOMAIN d.edges : ViewEdge(r.db, i) = ViewEdge(d, i)
  BY <1>3, <1>6, SameEdgeSeen
<1> QED
  BY <1>4, <1>5, <1>6, <1>7 DEF r

\* Each fact of e is one of d, or what one of the first n calls says; no two are
\* what the same call says.
Told(d, e, calls, n, src) ==
  /\ \A i \in DOMAIN e.edges :
       /\ src[i] \in 0..n
       /\ src[i] = 0 => i \in DOMAIN d.edges /\ ViewEdge(e, i) = ViewEdge(d, i)
       /\ src[i] # 0 => Shows(ViewEdge(e, i), calls[src[i]].in)
  /\ \A i, j \in DOMAIN e.edges : src[i] = src[j] /\ src[i] # 0 => i = j

LEMMA OneMoreTold ==
  ASSUME NEW d, NEW e, NEW g, NEW calls, NEW n \in Nat, NEW src, Told(d, e, calls, n, src),
         NEW id, id \notin DOMAIN e.edges, DOMAIN g.edges = DOMAIN e.edges \cup {id},
         \A i \in DOMAIN e.edges : ViewEdge(g, i) = ViewEdge(e, i),
         Shows(ViewEdge(g, id), calls[n + 1].in)
  PROVE  \E more : Told(d, g, calls, n + 1, more)
<1> DEFINE more == [i \in DOMAIN g.edges |-> IF i = id THEN n + 1 ELSE src[i]]
<1>1. more[id] = n + 1 /\ \A i \in DOMAIN e.edges : more[i] = src[i] /\ src[i] \in 0..n
  BY DEF Told
<1> HIDE DEF more
<1>2. ASSUME NEW i \in DOMAIN g.edges
      PROVE  /\ more[i] \in 0..(n + 1)
             /\ more[i] = 0 => i \in DOMAIN d.edges /\ ViewEdge(g, i) = ViewEdge(d, i)
             /\ more[i] # 0 => Shows(ViewEdge(g, i), calls[more[i]].in)
  <2>1. CASE i = id
    BY <1>1, <2>1
  <2>2. CASE i # id
    <3>1. i \in DOMAIN e.edges /\ more[i] = src[i] /\ src[i] \in 0..n /\ ViewEdge(g, i) = ViewEdge(e, i)
      BY <1>1, <2>2
    <3>2. /\ src[i] = 0 => i \in DOMAIN d.edges /\ ViewEdge(e, i) = ViewEdge(d, i)
          /\ src[i] # 0 => Shows(ViewEdge(e, i), calls[src[i]].in)
      BY <3>1 DEF Told
    <3> QED
      BY <3>1, <3>2
  <2> QED
    BY <2>1, <2>2
<1>3. ASSUME NEW i \in DOMAIN g.edges, NEW j \in DOMAIN g.edges,
             more[i] = more[j], more[i] # 0
      PROVE  i = j
  <2>1. \A k \in DOMAIN e.edges : more[k] # n + 1
    BY <1>1
  <2>2. CASE i = id \/ j = id
    BY <1>1, <1>3, <2>1, <2>2
  <2>3. CASE i # id /\ j # id
    <3>1. i \in DOMAIN e.edges /\ j \in DOMAIN e.edges /\ src[i] = src[j] /\ src[i] # 0
      BY <1>1, <1>3, <2>3
    <3> QED
      BY <3>1 DEF Told
  <2> QED
    BY <2>2, <2>3
<1>4. Told(d, g, calls, n + 1, more)
  BY <1>2, <1>3 DEF Told
<1> QED
  BY <1>4

\* What Db::write of add_edge calls leaves when it returns without an error.
LEMMA AddsTold ==
  ASSUME NEW d, NEW calls, NEW n \in Nat, Len(calls) = n, NEW now \in Time, Good(d),
         \A k \in 1..n : calls[k].in \in EdgeInput /\ calls[k] = Add(calls[k].in),
         Write(d, calls, now).ok
  PROVE  \E src : Told(d, Write(d, calls, now).db, calls, n, src)
<1>1. PICK f : /\ f[0] = Ok(d, Zero)
               /\ \A k \in 1..n :
                     f[k] = IF ~f[k - 1].ok THEN f[k - 1] ELSE Reply(f[k - 1].db, calls[k], now)
               /\ Write(d, calls, now) = IF f[n].ok THEN f[n] ELSE Err(d)
  BY WriteSteps
<1> DEFINE P(k) == f[k].ok => Good(f[k].db) /\ \E src : Told(d, f[k].db, calls, k, src)
           S == {k \in Nat : k <= n => P(k)}
<1>2. 0 \in S
  <2>1. f[0].db = d
    BY <1>1 DEF Ok
  <2>2. Told(d, d, calls, 0, [i \in DOMAIN d.edges |-> 0])
    BY DEF Told
  <2> QED
    BY <2>1, <2>2
<1>3. ASSUME NEW k \in Nat, k \in S PROVE k + 1 \in S
  <2> SUFFICES ASSUME k + 1 <= n, f[k + 1].ok
               PROVE  Good(f[k + 1].db) /\ \E src : Told(d, f[k + 1].db, calls, k + 1, src)
    OBVIOUS
  <2> DEFINE e  == f[k].db
             in == calls[k + 1].in
             r  == Reply(e, Add(in), now)
  <2>1. k + 1 \in 1..n /\ (k + 1) - 1 = k /\ in \in EdgeInput /\ calls[k + 1] = Add(in)
    OBVIOUS
  <2>2. f[k + 1] = IF ~f[k].ok THEN f[k] ELSE Reply(f[k].db, calls[k + 1], now)
    BY <1>1, <2>1
  <2>3. f[k].ok /\ f[k + 1] = r
    BY <2>1, <2>2
  <2>4. Good(e) /\ \E src : Told(d, e, calls, k, src)
    BY <1>3, <2>1, <2>3
  <2>5. r.ok
    BY <2>3
  <2> HIDE DEF e, in, S
  <2>6. Good(r.db)
    <3>1. Add(in) \in Calls
      BY <2>1, AddCall
    <3> QED
      BY <2>4, <3>1, ReplyGood
  <2>7. /\ r.id \notin DOMAIN e.edges
        /\ DOMAIN r.db.edges = DOMAIN e.edges \cup {r.id}
        /\ \A i \in DOMAIN e.edges : ViewEdge(r.db, i) = ViewEdge(e, i)
        /\ Shows(ViewEdge(r.db, r.id), in)
    BY <2>1, <2>4, <2>5, AddSeen
  <2> HIDE DEF r
  <2>8. \E src : Told(d, r.db, calls, k + 1, src)
    BY <2>4, <2>7, OneMoreTold DEF in
  <2> QED
    BY <2>3, <2>6, <2>8
<1> HIDE DEF S
<1>4. n \in S
  BY <1>2, <1>3, NatSet
<1>5. f[n].ok /\ Write(d, calls, now) = f[n]
  <2>1. ~Err(d).ok
    BY DEF Err
  <2> QED
    BY <1>1, <2>1
<1>6. P(n)
  BY <1>4 DEF S
<1> QED
  BY <1>5, <1>6

\* Calls that say nothing that would stand beside another, or beside what is known,
\* leave everybody at one place.
LEMMA AddsApart ==
  ASSUME NEW d, NEW e, NEW calls, NEW n \in Nat, NEW src, Told(d, e, calls, n, src),
         AllApart(d),
         \A j, k \in 1..n : j # k => Apart(calls[j].in, calls[k].in),
         \A i \in DOMAIN d.edges, k \in 1..n : Apart(ViewEdge(d, i), calls[k].in)
  PROVE  AllApart(e)
<1> SUFFICES ASSUME NEW i \in DOMAIN e.edges, NEW j \in DOMAIN e.edges, i # j
             PROVE  Apart(ViewEdge(e, i), ViewEdge(e, j))
  BY DEF AllApart
<1> DEFINE f == ViewEdge(e, i)
           g == ViewEdge(e, j)
<1>1. /\ src[i] \in 0..n /\ src[j] \in 0..n
      /\ src[i] = 0 => i \in DOMAIN d.edges /\ f = ViewEdge(d, i)
      /\ src[j] = 0 => j \in DOMAIN d.edges /\ g = ViewEdge(d, j)
      /\ src[i] # 0 => src[i] \in 1..n /\ Shows(f, calls[src[i]].in)
      /\ src[j] # 0 => src[j] \in 1..n /\ Shows(g, calls[src[j]].in)
      /\ src[i] = src[j] => src[i] = 0
  BY DEF Told
<1> HIDE DEF f, g
<1>2. CASE src[i] = 0 /\ src[j] = 0
  BY <1>1, <1>2 DEF AllApart, f, g
<1>3. CASE src[i] = 0 /\ src[j] # 0
  <2>1. Apart(f, calls[src[j]].in)
    BY <1>1, <1>3
  <2> QED
    BY <1>1, <1>3, <2>1, ShowsApartFrom DEF f, g
<1>4. CASE src[i] # 0 /\ src[j] = 0
  <2>1. Apart(g, calls[src[i]].in)
    BY <1>1, <1>4
  <2>2. Apart(g, f)
    BY <1>1, <1>4, <2>1, ShowsApartFrom
  <2> QED
    BY <2>2, ApartSymmetric DEF f, g
<1>5. CASE src[i] # 0 /\ src[j] # 0
  <2>1. Apart(calls[src[i]].in, calls[src[j]].in)
    BY <1>1, <1>5
  <2> QED
    BY <1>1, <1>5, <2>1, ShowsApart DEF f, g
<1> QED
  BY <1>1, <1>2, <1>3, <1>4, <1>5

\* Db::write keeps every name.
LEMMA WriteNames ==
  ASSUME NEW d, NEW calls \in Seq(Calls), NEW now \in Time, Good(d)
  PROVE  DOMAIN d.extIds \subseteq DOMAIN Write(d, calls, now).db.extIds
  BY WriteGood, NodesKeptInView

\* Calls that fit the story so far continue it.
LEMMA AddsStory ==
  ASSUME NEW d, NEW calls \in Seq(Calls), NEW n \in Nat, Len(calls) = n, NEW now \in Time, Good(d),
         \A k \in 1..n : calls[k].in \in EdgeInput /\ calls[k] = Add(calls[k].in),
         Write(d, calls, now).ok,
         NEW m \in 2..6, AllApart(d), Names \subseteq DOMAIN d.extIds,
         \A j, k \in 1..n : j # k => Apart(calls[j].in, calls[k].in),
         \A i \in DOMAIN d.edges, k \in 1..n : Apart(ViewEdge(d, i), calls[k].in),
         \A i \in DOMAIN d.edges : Foretold(ViewEdge(d, i), m),
         \A k \in 1..n : Foretold(calls[k].in, m)
  PROVE  Story(Write(d, calls, now).db, m)
<1> DEFINE e == Write(d, calls, now).db
<1>1. PICK src : Told(d, e, calls, n, src)
  BY AddsTold
<1>2. Names \subseteq DOMAIN e.extIds
  BY WriteNames
<1> HIDE DEF e
<1>3. AllApart(e)
  BY <1>1, AddsApart
<1>4. ASSUME NEW i \in DOMAIN e.edges PROVE Foretold(ViewEdge(e, i), m)
  <2>1. /\ src[i] \in 0..n
        /\ src[i] = 0 => i \in DOMAIN d.edges /\ ViewEdge(e, i) = ViewEdge(d, i)
        /\ src[i] # 0 => src[i] \in 1..n /\ Shows(ViewEdge(e, i), calls[src[i]].in)
    BY <1>1 DEF Told
  <2> QED
    BY <2>1, ShowsForetold
<1> QED
  BY <1>2, <1>3, <1>4 DEF Story, e

-----------------------------------------------------------------------------
(* One transaction after the other *)

LEMMA OtherApart ==
  ASSUME NEW f, NEW g, f.from # g.from \/ f.type # g.type \/ f.type \notin Jobs
  PROVE  Apart(f, g)
  BY DEF Apart

LEMMA AnAdd ==
  ASSUME NEW in \in EdgeInput, NEW c, c = Add(in)
  PROVE  c.in \in EdgeInput /\ c = Add(c.in)
  BY DEF Add

LEMMA ForetoldLater ==
  ASSUME NEW f, NEW k \in Nat, Foretold(f, k)
  PROVE  Foretold(f, k + 1)
  BY DEF Foretold

\* Nothing is known when the nodes are created.
LEMMA NodesStory ==
  ASSUME NEW d, NEW now \in Time, Good(d), Story(d, 0), Write(d, SeedNodes, now).ok
  PROVE  Story(Write(d, SeedNodes, now).db, 1)
<1> DEFINE s == SeedNodes
<1>1. Len(s) = 10 /\ \A k \in 1..10 : \E x \in Names, t \in {"person", "org", "project"} : s[k] = Upsert(x, t)
  BY NodeCalls
<1>3. \A x \in Names : \E k \in 1..10 : s[k].ext = x
  BY NodeCalls
<1>0. Write(d, s, now).ok
  OBVIOUS
<1> HIDE DEF s
<1>2. PICK f : /\ f[0] = Ok(d, Zero)
               /\ \A k \in 1..10 :
                     f[k] = IF ~f[k - 1].ok THEN f[k - 1] ELSE Reply(f[k - 1].db, s[k], now)
               /\ Write(d, s, now) = IF f[10].ok THEN f[10] ELSE Err(d)
  <2>1. Len(s) \in Nat
    BY <1>1
  <2>2. \E f : /\ f[0] = Ok(d, Zero)
               /\ \A k \in 1..Len(s) :
                    f[k] = IF ~f[k - 1].ok THEN f[k - 1] ELSE Reply(f[k - 1].db, s[k], now)
               /\ Write(d, s, now) = IF f[Len(s)].ok THEN f[Len(s)] ELSE Err(d)
    BY <2>1, WriteSteps
  <2> QED
    BY <1>1, <2>2
<1> DEFINE P(k) == f[k].ok => /\ Good(f[k].db) /\ DOMAIN f[k].db.edges = {}
                              /\ \A j \in 1..k : s[j].ext \in DOMAIN f[k].db.extIds
           S == {k \in Nat : k <= 10 => P(k)}
<1>4. 0 \in S
  <2>1. f[0].db = d /\ DOMAIN d.edges = {}
    BY <1>2 DEF Ok, Story
  <2> QED
    BY <2>1
<1>5. ASSUME NEW k \in Nat, k \in S PROVE k + 1 \in S
  <2> SUFFICES ASSUME k + 1 <= 10, f[k + 1].ok PROVE P(k + 1)
    OBVIOUS
  <2> DEFINE e == f[k].db
             g == f[k + 1].db
  <2>1. k + 1 \in 1..10 /\ (k + 1) - 1 = k
    OBVIOUS
  <2>2. f[k + 1] = IF ~f[k].ok THEN f[k] ELSE Reply(f[k].db, s[k + 1], now)
    BY <1>2, <2>1
  <2>3. f[k].ok /\ f[k + 1] = Reply(e, s[k + 1], now)
    BY <2>2
  <2>4. P(k)
    BY <1>5, <2>1
  <2>5. PICK x \in Names, t \in {"person", "org", "project"} : s[k + 1] = Upsert(x, t)
    BY <1>1, <2>1
  <2>6. x \in Text /\ t \in Text /\ s[k + 1].ext = x /\ f[k + 1] = UpsertNode(e, x, t, now)
    BY <2>3, <2>5, DemoTyped DEF Reply, Upsert
  <2>7. Good(e) /\ DOMAIN e.edges = {} /\ \A j \in 1..k : s[j].ext \in DOMAIN e.extIds
    BY <2>3, <2>4
  <2> HIDE DEF e, S
  <2>8. /\ Good(g) /\ x \in DOMAIN g.extIds /\ DOMAIN e.extIds \subseteq DOMAIN g.extIds
        /\ g.edges = e.edges
    BY <2>6, <2>7, UpsertNodeGood DEF SameEdges
  <2>9. \A j \in 1..(k + 1) : j = k + 1 \/ j \in 1..k
    OBVIOUS
  <2> HIDE DEF g
  <2>10. Good(g) /\ DOMAIN g.edges = {} /\ \A j \in 1..(k + 1) : s[j].ext \in DOMAIN g.extIds
    BY <2>6, <2>7, <2>8, <2>9
  <2> QED
    BY <2>10 DEF g
<1> HIDE DEF S
<1>6. 10 \in S
  BY <1>4, <1>5, NatSet
<1> DEFINE e == Write(d, s, now).db
<1>7. f[10].ok /\ e = f[10].db
  <2>1. ~Err(d).ok
    BY DEF Err
  <2> QED
    BY <1>0, <1>2, <2>1
<1>8. DOMAIN e.edges = {} /\ Names \subseteq DOMAIN e.extIds
  BY <1>3, <1>6, <1>7 DEF S
<1> HIDE DEF e
<1> QED
  BY <1>8 DEF Story, AllApart, e, s

LEMMA JanuaryStory ==
  ASSUME NEW d, NEW now \in Time, Good(d), Story(d, 1), Write(d, SeedJanuary, now).ok
  PROVE  Story(Write(d, SeedJanuary, now).db, 2)
<1> DEFINE s == SeedJanuary
<1>0. Write(d, s, now).ok
  OBVIOUS
<1>1. s \in Seq(Calls)
  <2>1. 2 \in 1..6 /\ SeedCalls(d, 2) = s
    BY DEF SeedCalls
  <2> QED
    BY <2>1, SeedTyped
<1>2. /\ {"alice", "bob", "carol", "dan", "acme"} \subseteq Names
      /\ {Jan, JanReports, JanCollab} \subseteq Time
  BY DemoTyped DEF Names
<1>3. /\ Len(s) = 10
      /\ s[1] = Add(WorksAt("alice", "acme", Jan, "hr"))
      /\ s[2] = Add(WorksAt("bob", "acme", Jan, "hr"))
      /\ s[3] = Add(WorksAt("carol", "acme", Jan, "hr"))
      /\ s[4] = Add(WorksAt("dan", "acme", Jan, "hr"))
      /\ s[5] = Add(ReportsTo("bob", "alice", JanReports))
      /\ s[6] = Add(ReportsTo("carol", "alice", JanReports))
      /\ s[7] = Add(WorksWith("alice", "bob", JanCollab))
      /\ s[8] = Add(WorksWith("alice", "carol", JanCollab))
      /\ s[9] = Add(WorksWith("bob", "carol", JanCollab))
      /\ s[10] = Add(WorksWith("carol", "dan", JanCollab))
  BY JanuaryCalls
<1> HIDE DEF s
<1>4. \A k \in 1..10 : k \in {1, 2, 3, 4} \/ k \in {5, 6} \/ k \in {7, 8, 9, 10}
  OBVIOUS
<1>5. /\ \A k \in {1, 2, 3, 4} : s[k].in.type = "WORKS_AT" /\ s[k].in.to = "acme"
                                 /\ s[k].in.vf = Jan /\ s[k].in.vt = NoTs
      /\ \A k \in {5, 6} : s[k].in.type = "REPORTS_TO" /\ s[k].in.to = "alice"
                           /\ s[k].in.vf = JanReports /\ s[k].in.vt = NoTs
      /\ \A k \in {7, 8, 9, 10} : s[k].in.type = "WORKS_WITH"
      /\ \A k \in 1..10 : s[k].in.from \in {"alice", "bob", "carol", "dan"}
  BY <1>3, <1>4 DEF Add, WorksAt, ReportsTo, WorksWith, Fact
<1>6. /\ s[1].in.from = "alice" /\ s[2].in.from = "bob" /\ s[3].in.from = "carol"
      /\ s[4].in.from = "dan" /\ s[5].in.from = "bob" /\ s[6].in.from = "carol"
  BY <1>3 DEF Add, WorksAt, ReportsTo, Fact
<1>7. \A k \in 1..10 : s[k].in \in EdgeInput /\ s[k] = Add(s[k].in)
  <2> DEFINE P(k) == s[k].in \in EdgeInput /\ s[k] = Add(s[k].in)
  <2>1. P(1) /\ P(2) /\ P(3) /\ P(4) /\ P(5) /\ P(6) /\ P(7) /\ P(8) /\ P(9) /\ P(10)
    BY <1>2, <1>3, DemoTyped, AnAdd
  <2> QED
    BY <2>1
<1>8. ASSUME NEW j \in 1..10, NEW k \in 1..10, j # k
      PROVE  Apart(s[j].in, s[k].in)
  <2>1. \/ s[j].in.from # s[k].in.from \/ s[j].in.type # s[k].in.type
        \/ s[j].in.type \notin Jobs
    BY <1>4, <1>5, <1>6, <1>8 DEF Jobs
  <2> QED
    BY <2>1, OtherApart
<1>9. \A k \in 1..10 : Foretold(s[k].in, 2)
  BY <1>4, <1>5 DEF Foretold, Jobs
<1>10. AllApart(d) /\ DOMAIN d.edges = {} /\ Names \subseteq DOMAIN d.extIds
  BY DEF Story
<1>11. \A i \in DOMAIN d.edges : Foretold(ViewEdge(d, i), 2)
  BY <1>10
<1>12. \A i \in DOMAIN d.edges, k \in 1..10 : Apart(ViewEdge(d, i), s[k].in)
  BY <1>10
<1>13. Story(Write(d, s, now).db, 2)
  <2>1. Len(s) = 10 /\ 10 \in Nat /\ 2 \in 2..6
    BY <1>3
  <2> QED
    BY <1>0, <1>1, <1>7, <1>8, <1>9, <1>10, <1>11, <1>12, <2>1, AddsStory
<1> QED
  BY <1>13 DEF s

LEMMA FebruaryStory ==
  ASSUME NEW d, NEW now \in Time, Good(d), Story(d, 2), Write(d, SeedFebruary, now).ok
  PROVE  Story(Write(d, SeedFebruary, now).db, 3)
<1> DEFINE s == SeedFebruary
<1>1. s \in Seq(Calls)
  <2>1. 3 \in 1..6 /\ SeedCalls(d, 3) = s
    BY DEF SeedCalls
  <2> QED
    BY <2>1, SeedTyped
<1>2. /\ WorksAt("eve", "acme", Feb, "hr") \in EdgeInput
      /\ ReportsTo("eve", "alice", Feb) \in EdgeInput
  BY DemoTyped DEF Names
<1>3. /\ Len(s) = 2
      /\ s[1] = Add(WorksAt("eve", "acme", Feb, "hr"))
      /\ s[2] = Add(ReportsTo("eve", "alice", Feb))
  BY DEF SeedFebruary
<1> HIDE DEF s
<1>4. \A k \in 1..2 : k = 1 \/ k = 2
  OBVIOUS
<1>5. /\ s[1].in.from = "eve" /\ s[1].in.type = "WORKS_AT"
      /\ s[2].in.from = "eve" /\ s[2].in.type = "REPORTS_TO"
  BY <1>3 DEF Add, WorksAt, ReportsTo, Fact
<1>6. \A k \in 1..2 : s[k].in \in EdgeInput /\ s[k] = Add(s[k].in)
  BY <1>2, <1>3, <1>4 DEF Add
<1>7. \A j, k \in 1..2 : j # k => Apart(s[j].in, s[k].in)
  BY <1>4, <1>5, OtherApart
<1>8. \A k \in 1..2 : Foretold(s[k].in, 3)
  BY <1>4, <1>5 DEF Foretold
<1>9. /\ AllApart(d) /\ Names \subseteq DOMAIN d.extIds
      /\ \A i \in DOMAIN d.edges : Foretold(ViewEdge(d, i), 2)
  BY DEF Story
<1>10. \A i \in DOMAIN d.edges, k \in 1..2 : Apart(ViewEdge(d, i), s[k].in)
  <2> SUFFICES ASSUME NEW i \in DOMAIN d.edges, NEW k \in 1..2
               PROVE  Apart(ViewEdge(d, i), s[k].in)
    OBVIOUS
  <2>1. ViewEdge(d, i).from = "eve" => ViewEdge(d, i).type \notin Jobs
    BY <1>9 DEF Foretold
  <2> QED
    BY <1>4, <1>5, <2>1, OtherApart
<1>11. \A i \in DOMAIN d.edges : Foretold(ViewEdge(d, i), 3)
  <2>1. 2 \in Nat /\ 2 + 1 = 3
    OBVIOUS
  <2> QED
    BY <1>9, <2>1, ForetoldLater
<1> QED
  BY <1>1, <1>3, <1>6, <1>7, <1>8, <1>9, <1>10, <1>11, AddsStory DEF s

LEMMA AprilStory ==
  ASSUME NEW d, NEW now \in Time, Good(d), Story(d, 5), Write(d, SeedApril, now).ok
  PROVE  Story(Write(d, SeedApril, now).db, 6)
<1> DEFINE s == SeedApril
<1>0. Write(d, s, now).ok
  OBVIOUS
<1>1. s \in Seq(Calls)
  <2>1. 6 \in 1..6 /\ SeedCalls(d, 6) = s
    BY DEF SeedCalls
  <2> QED
    BY <2>1, SeedTyped
<1>2. /\ {"alice", "bob", "carol", "dan", "frank", "acme", "pluto", "quasar"} \subseteq Names
      /\ {Pluto, Quasar} \subseteq Time
  BY DemoTyped DEF Names
<1>3. /\ Len(s) = 6
      /\ s[1] = Add(WorksOn("alice", "pluto", Pluto))
      /\ s[2] = Add(WorksOn("bob", "pluto", Pluto))
      /\ s[3] = Add(WorksOn("carol", "pluto", Pluto))
      /\ s[4] = Add(WorksAt("frank", "acme", Quasar, "hr"))
      /\ s[5] = Add(WorksOn("dan", "quasar", Quasar))
      /\ s[6] = Add(WorksOn("frank", "quasar", Quasar))
  BY AprilCalls
<1> HIDE DEF s
<1>4. \A k \in 1..6 : k = 4 \/ k \in {1, 2, 3, 5, 6}
  OBVIOUS
<1>5. /\ s[4].in.type = "WORKS_AT" /\ s[4].in.from = "frank"
      /\ \A k \in {1, 2, 3, 5, 6} : s[k].in.type = "WORKS_ON"
  BY <1>3 DEF Add, WorksAt, WorksOn, Fact
<1>6. \A k \in 1..6 : s[k].in \in EdgeInput /\ s[k] = Add(s[k].in)
  <2> DEFINE P(k) == s[k].in \in EdgeInput /\ s[k] = Add(s[k].in)
  <2>1. P(1) /\ P(2) /\ P(3) /\ P(4) /\ P(5) /\ P(6)
    BY <1>2, <1>3, DemoTyped, AnAdd
  <2> QED
    BY <2>1
<1>7. \A j, k \in 1..6 : j # k => Apart(s[j].in, s[k].in)
  <2> SUFFICES ASSUME NEW j \in 1..6, NEW k \in 1..6, j # k PROVE Apart(s[j].in, s[k].in)
    OBVIOUS
  <2>1. s[j].in.type # s[k].in.type \/ s[j].in.type \notin Jobs
    BY <1>4, <1>5 DEF Jobs
  <2> QED
    BY <2>1, OtherApart
<1>8. \A k \in 1..6 : Foretold(s[k].in, 6)
  BY DEF Foretold
<1>9. /\ AllApart(d) /\ Names \subseteq DOMAIN d.extIds
      /\ \A i \in DOMAIN d.edges : Foretold(ViewEdge(d, i), 5)
  BY DEF Story
<1>10. \A i \in DOMAIN d.edges, k \in 1..6 : Apart(ViewEdge(d, i), s[k].in)
  <2> SUFFICES ASSUME NEW i \in DOMAIN d.edges, NEW k \in 1..6
               PROVE  Apart(ViewEdge(d, i), s[k].in)
    OBVIOUS
  <2>1. ViewEdge(d, i).from = "frank" => ViewEdge(d, i).type # "WORKS_AT"
    BY <1>9 DEF Foretold
  <2>2. \/ ViewEdge(d, i).from # s[k].in.from \/ ViewEdge(d, i).type # s[k].in.type
        \/ ViewEdge(d, i).type \notin Jobs
    BY <1>4, <1>5, <2>1 DEF Jobs
  <2> QED
    BY <2>2, OtherApart
<1>11. \A i \in DOMAIN d.edges : Foretold(ViewEdge(d, i), 6)
  BY DEF Foretold
<1>12. Story(Write(d, s, now).db, 6)
  <2>1. Len(s) = 6 /\ 6 \in Nat /\ 6 \in 2..6
    BY <1>3
  <2> QED
    BY <1>0, <1>1, <1>6, <1>7, <1>8, <1>9, <1>10, <1>11, <2>1, AddsStory
<1> QED
  BY <1>12 DEF s

LEMMA OneCall ==
  ASSUME NEW d, NEW calls, Len(calls) = 1, NEW now, Write(d, calls, now).ok
  PROVE  Reply(d, calls[1], now).ok /\ Write(d, calls, now) = Reply(d, calls[1], now)
<1>0. Len(calls) \in Nat
  OBVIOUS
<1>1. PICK f : /\ f[0] = Ok(d, Zero)
               /\ \A k \in 1..Len(calls) :
                     f[k] = IF ~f[k - 1].ok THEN f[k - 1] ELSE Reply(f[k - 1].db, calls[k], now)
               /\ Write(d, calls, now) = IF f[Len(calls)].ok THEN f[Len(calls)] ELSE Err(d)
  BY <1>0, WriteSteps
<1>2. f[0].ok /\ f[0].db = d /\ ~Err(d).ok
  BY <1>1 DEF Ok, Err
<1>3. f[1] = Reply(d, calls[1], now)
  <2>1. 1 \in 1..Len(calls) /\ 1 - 1 = 0
    OBVIOUS
  <2> QED
    BY <1>1, <1>2, <2>1
<1> QED
  BY <1>1, <1>2, <1>3

LEMMA TwoCalls ==
  ASSUME NEW d, NEW calls, Len(calls) = 2, NEW now, Write(d, calls, now).ok
  PROVE  LET r == Reply(d, calls[1], now)
         IN /\ r.ok /\ Reply(r.db, calls[2], now).ok
            /\ Write(d, calls, now) = Reply(r.db, calls[2], now)
<1> DEFINE r == Reply(d, calls[1], now)
           q == Reply(r.db, calls[2], now)
<1>0. Len(calls) \in Nat
  OBVIOUS
<1>1. PICK f : /\ f[0] = Ok(d, Zero)
               /\ \A k \in 1..Len(calls) :
                     f[k] = IF ~f[k - 1].ok THEN f[k - 1] ELSE Reply(f[k - 1].db, calls[k], now)
               /\ Write(d, calls, now) = IF f[Len(calls)].ok THEN f[Len(calls)] ELSE Err(d)
  BY <1>0, WriteSteps
<1>2. f[0].ok /\ f[0].db = d /\ ~Err(d).ok
  BY <1>1 DEF Ok, Err
<1>3. 1 \in 1..Len(calls) /\ 1 - 1 = 0 /\ 2 \in 1..Len(calls) /\ 2 - 1 = 1
  OBVIOUS
<1>4. f[1] = r
  BY <1>1, <1>2, <1>3
<1>5. f[2] = IF ~r.ok THEN r ELSE q
  BY <1>1, <1>3, <1>4
<1>6. Write(d, calls, now) = IF f[2].ok THEN f[2] ELSE Err(d)
  BY <1>1
<1> HIDE DEF r, q
<1>7. f[2].ok
  BY <1>2, <1>6
<1>8. r.ok
  BY <1>5, <1>7
<1> QED
  BY <1>5, <1>6, <1>7, <1>8 DEF r, q

\* A fact that has ended is not live when the one that replaces it starts.
LEMMA EndedApart ==
  ASSUME NEW f, NEW in \in EdgeInput, f.vt # NoTs, f.vt \in Time, f.vt <= in.vf
  PROVE  Apart(f, in)
<1>1. in.vf \in Int /\ f.vt \in Int
  BY TimeAssumption DEF EdgeInput
<1>2. ASSUME NEW t \in Time, LiveAt(f, t), LiveAt(in, t)
      PROVE  FALSE
  <2>1. t < f.vt /\ in.vf <= t /\ t \in Int
    BY <1>2, TimeAssumption DEF LiveAt
  <2> QED
    BY <1>1, <2>1
<1> QED
  BY <1>2 DEF Apart

\* What is known of d, with the one open fact of its kind ended and another added,
\* continues the story.
LEMMA EndedStory ==
  ASSUME NEW d, NEW e, NEW m \in 2..6, AllApart(d), Names \subseteq DOMAIN e.extIds,
         NEW old \in DOMAIN d.edges, NEW id, id \notin DOMAIN d.edges,
         DOMAIN e.edges = DOMAIN d.edges \cup {id},
         NEW in \in EdgeInput, Shows(ViewEdge(e, id), in), Foretold(in, m),
         NEW end \in Time, end # NoTs, end <= in.vf,
         ViewEdge(e, old) = [ViewEdge(d, old) EXCEPT !.vt = end],
         ViewEdge(d, old).vt = NoTs, Foretold(ViewEdge(e, old), m),
         \A i \in DOMAIN d.edges : i # old =>
            /\ ViewEdge(e, i) = ViewEdge(d, i)
            /\ Foretold(ViewEdge(d, i), m)
            /\ ViewEdge(d, i).from # in.from \/ ViewEdge(d, i).type # in.type
  PROVE  Story(e, m)
<1> DEFINE F(i) == ViewEdge(d, i)
           G(i) == ViewEdge(e, i)
<1>1. /\ G(old).vt = end /\ G(old).from = F(old).from /\ G(old).type = F(old).type
      /\ G(old).vf = F(old).vf
  BY DEF ViewEdge
<1>2. ASSUME NEW i \in DOMAIN d.edges, i # old
      PROVE  Apart(G(i), G(old)) /\ Apart(G(i), G(id))
  <2>1. Apart(F(i), F(old)) /\ G(i) = F(i)
    BY <1>2 DEF AllApart
  <2>2. \A t \in Time : LiveAt(G(old), t) => LiveAt(F(old), t)
    BY <1>1 DEF LiveAt
  <2>3. Apart(G(i), G(old))
    BY <1>1, <2>1, <2>2 DEF Apart
  <2>4. Apart(F(i), in)
    BY <1>2, OtherApart
  <2> QED
    BY <2>1, <2>3, <2>4, ShowsApartFrom
<1>3. Apart(G(old), G(id))
  <2>1. Apart(G(old), in)
    BY <1>1, EndedApart
  <2> QED
    BY <2>1, ShowsApartFrom
<1>4. ASSUME NEW i \in DOMAIN d.edges, NEW j \in DOMAIN d.edges, i # j, i # old, j # old
      PROVE  Apart(G(i), G(j))
  BY <1>4 DEF AllApart
<1>5. Foretold(G(id), m)
  BY ShowsForetold
<1>6. \A i \in DOMAIN d.edges : i # old => G(i) = F(i) /\ Foretold(F(i), m)
  OBVIOUS
<1>7. Foretold(G(old), m)
  OBVIOUS
<1> HIDE DEF F, G
<1>8. ASSUME NEW i \in DOMAIN e.edges, NEW j \in DOMAIN e.edges, i # j
      PROVE  Apart(G(i), G(j))
  <2>1. CASE i = id \/ j = id
    BY <1>2, <1>3, <1>8, <2>1, ApartSymmetric
  <2>2. CASE i # id /\ j # id /\ (i = old \/ j = old)
    BY <1>2, <1>8, <2>2, ApartSymmetric
  <2>3. CASE i # id /\ j # id /\ i # old /\ j # old
    BY <1>4, <1>8, <2>3
  <2> QED
    BY <2>1, <2>2, <2>3
<1>9. \A i \in DOMAIN e.edges : Foretold(G(i), m)
  BY <1>5, <1>6, <1>7
<1> QED
  BY <1>8, <1>9 DEF Story, AllApart, G

\* The edge that is looked up starts at the node looked under.
LEMMA LocatedFrom ==
  ASSUME NEW d, NEW from \in DOMAIN d.extIds, NEW type, NEW to, NEW t, Good(d),
         Located(d, from, type, to, t) # Zero
  PROVE  ViewEdge(d, Located(d, from, type, to, t)).from = from
<1> DEFINE i == Located(d, from, type, to, t)
           ends == [j \in DOMAIN d.edges |-> d.edges[j].from]
<1>1. i \in ScanAdjacency(d, d.fwdAdj, d.extIds[from], t) /\ i \in DOMAIN d.edges
  BY LocatedIsId
<1>2. DOMAIN d.fwdAdj = {<<ends[j], d.edges[j].vf, j>> : j \in DOMAIN d.edges}
  BY DEF Good, DbInv, IndexesMirrorEdges
<1> HIDE DEF i
<1>3. ends[i] = d.edges[i].from
  BY <1>1
<1> HIDE DEF ends
<1>4. ends[i] = d.extIds[from]
  BY <1>1, <1>2, ScanExact
<1> QED
  BY <1>3, <1>4 DEF ViewEdge, Good, DbInv, NodesNamed, i

\* A live edge between the two is found.
LEMMA LocatedLive ==
  ASSUME NEW d, NEW i \in DOMAIN d.edges, NEW t, Good(d), LiveAt(ViewEdge(d, i), t)
  PROVE  LET f == ViewEdge(d, i) IN Located(d, f.from, f.type, f.to, t) # Zero
<1> DEFINE ends == [j \in DOMAIN d.edges |-> d.edges[j].from]
           f == ViewEdge(d, i)
<1>1. DOMAIN d.fwdAdj = {<<ends[j], d.edges[j].vf, j>> : j \in DOMAIN d.edges}
  BY DEF Good, DbInv, IndexesMirrorEdges
<1>2. ends[i] = d.edges[i].from
  OBVIOUS
<1> HIDE DEF ends
<1>3. d.edges[i].from \in DOMAIN d.nodes
  BY DEF Good, DbInv, EdgesResolve
<1>4. d.extIds[f.from] = d.edges[i].from
  BY <1>3 DEF Good, DbInv, NodesNamed, ViewEdge
<1>5. LiveAt(d.edges[i], t)
  BY DEF LiveAt, ViewEdge
<1> HIDE DEF f
<1>6. i \in ScanAdjacency(d, d.fwdAdj, d.extIds[f.from], t)
  BY <1>1, <1>2, <1>4, <1>5, ScanExact
<1> QED
  BY <1>6, LocatedFinds DEF f

\* The reorganization: carol reports to bob, and no longer to alice.
LEMMA ReorgStory ==
  ASSUME NEW d, NEW now \in Time, Good(d), Story(d, 3), Write(d, SeedReorg(d), now).ok
  PROVE  Story(Write(d, SeedReorg(d), now).db, 4)
<1> DEFINE s   == SeedReorg(d)
           old == Located(d, "carol", "REPORTS_TO", "alice", JustBefore)
           in  == ReportsTo("carol", "bob", Reorg)
           clk == [k \in 1..5 |-> now]
           r   == SupersedeEdge(d, old, in, clk)
           e   == Write(d, s, now).db
           end == e.edges[old].vt
<1>1. s \in Seq(Calls)
  <2>1. 4 \in 1..6 /\ SeedCalls(d, 4) = s
    BY DEF SeedCalls
  <2> QED
    BY <2>1, SeedTyped
<1>2. Len(s) = 1 /\ s[1] = Supersede(old, in) /\ Write(d, s, now).ok
  BY ReorgCalls
<1>3. in \in EdgeInput /\ old \in Nat /\ clk \in [1..5 -> Time]
  BY DemoTyped, LocatedTyped DEF Names
<1>4. /\ in.from = "carol" /\ in.type = "REPORTS_TO" /\ in.vf = Reorg /\ in.vt = NoTs
  BY DEF ReportsTo, Fact
<1>5. AllApart(d) /\ Names \subseteq DOMAIN d.extIds /\ "carol" \in DOMAIN d.extIds
  BY DEF Story, Names
<1>6. \A i \in DOMAIN d.edges : Foretold(ViewEdge(d, i), 3)
  BY DEF Story
<1>7. old # Zero => /\ ViewEdge(d, old).type = "REPORTS_TO"
                    /\ ViewEdge(d, old).from = "carol"
  BY <1>5, LocatedIsId, LocatedFrom
<1> HIDE DEF s, old, in
<1>8. Reply(d, Supersede(old, in), now) = r
  BY DEF Reply, Supersede
<1> HIDE DEF clk
<1>9. r.ok /\ Write(d, s, now) = r
  BY <1>2, <1>8, OneCall
<1>10. Good(e) /\ Keeps(d, e)
  BY <1>1, WriteGood
<1>11. Names \subseteq DOMAIN e.extIds
  BY <1>1, <1>5, WriteNames
<1>12. /\ old \in DOMAIN d.edges
       /\ Shows(ViewEdge(e, r.id), in)
       /\ r.id \notin DOMAIN d.edges
       /\ DOMAIN e.edges = DOMAIN d.edges \cup {r.id}
       /\ \A i \in DOMAIN d.edges : i # old => e.edges[i] = d.edges[i]
       /\ end # NoTs /\ end <= in.vf
  BY <1>3, <1>9, SupersedeEdgeShows DEF Shows
<1> HIDE DEF e, r
<1>13. old # Zero
  BY <1>12 DEF Good, DbInv, EdgesResolve, Zero
<1>14. end \in Time
  <2>1. e.edges[old] \in Edge
    BY <1>10, <1>12 DEF Good, IsDatabase, IsTable
  <2> QED
    BY <1>12, <2>1 DEF Edge
<1>15. ViewEdge(e, old) = [ViewEdge(d, old) EXCEPT !.vt = end]
  BY <1>10, <1>12, EdgeKeptInView
<1> HIDE DEF end
<1>16. /\ ViewEdge(d, old).vt = NoTs /\ ViewEdge(d, old).vf = JanReports
       /\ Foretold(ViewEdge(e, old), 4) /\ Foretold(in, 4)
  <2>1. /\ ViewEdge(e, old).from = "carol" /\ ViewEdge(e, old).type = "REPORTS_TO"
    BY <1>7, <1>13, <1>15 DEF ViewEdge
  <2>2. ViewEdge(d, old).vt = NoTs /\ ViewEdge(d, old).vf = JanReports
    BY <1>6, <1>7, <1>12, <1>13 DEF Foretold
  <2> QED
    BY <1>4, <2>1, <2>2 DEF Foretold
<1>17. ASSUME NEW i \in DOMAIN d.edges, i # old
       PROVE  /\ ViewEdge(e, i) = ViewEdge(d, i)
              /\ Foretold(ViewEdge(d, i), 4)
              /\ ViewEdge(d, i).from # in.from \/ ViewEdge(d, i).type # in.type
  <2>1. ViewEdge(e, i) = ViewEdge(d, i)
    BY <1>10, <1>12, <1>17, SameEdgeSeen
  <2>2. Foretold(ViewEdge(d, i), 4)
    <3>1. 3 \in Nat /\ 3 + 1 = 4
      OBVIOUS
    <3> QED
      BY <1>6, <3>1, ForetoldLater
  <2>3. ASSUME ViewEdge(d, i).from = "carol", ViewEdge(d, i).type = "REPORTS_TO"
        PROVE  FALSE
    <3>1. ViewEdge(d, i).vf = JanReports /\ ViewEdge(d, i).vt = NoTs
      BY <1>6, <2>3 DEF Foretold
    <3>2. JanReports \in Time /\ JanReports <= JanReports
      BY DemoTyped DEF JanReports
    <3>3. LiveAt(ViewEdge(d, i), JanReports) /\ LiveAt(ViewEdge(d, old), JanReports)
      BY <1>16, <3>1, <3>2 DEF LiveAt
    <3>4. Apart(ViewEdge(d, i), ViewEdge(d, old))
      BY <1>5, <1>12, <1>17 DEF AllApart
    <3> QED
      BY <1>7, <1>13, <2>3, <3>2, <3>3, <3>4 DEF Apart, Jobs
  <2> QED
    BY <1>4, <2>1, <2>2, <2>3
<1>18. Story(e, 4)
  <2>1. 4 \in 2..6
    OBVIOUS
  <2> QED
    BY <1>3, <1>5, <1>11, <1>12, <1>14, <1>15, <1>16, <1>17, <2>1, EndedStory
<1> QED
  BY <1>18 DEF e, s

\* The job change, if alice has a job: it ends before the next one starts.
LEMMA LeavesStory ==
  ASSUME NEW d, NEW now \in Time, Good(d), Story(d, 4),
         NEW old \in DOMAIN d.edges,
         ViewEdge(d, old).from = "alice", ViewEdge(d, old).type = "WORKS_AT",
         NEW in \in EdgeInput, in.from = "alice", in.type = "WORKS_AT", AliceLeaves <= in.vf,
         LET c == Reply(d, Invalidate(old, AliceLeaves), now)
         IN c.ok /\ Reply(c.db, Add(in), now).ok
  PROVE  LET c == Reply(d, Invalidate(old, AliceLeaves), now)
         IN Names \subseteq DOMAIN Reply(c.db, Add(in), now).db.extIds
              => Story(Reply(c.db, Add(in), now).db, 5)
<1> DEFINE c == Reply(d, Invalidate(old, AliceLeaves), now)
           g == c.db
           r == Reply(g, Add(in), now)
           e == r.db
           end == g.edges[old].vt
<1>1. AliceLeaves \in Time /\ Invalidate(old, AliceLeaves) \in Calls
  <2>1. old \in Nat
    BY DEF Good, IsDatabase, IsTable
  <2>2. AliceLeaves \in Time
    BY DemoTyped
  <2> QED
    BY <2>1, <2>2 DEF Calls, Invalidate
<1>2. c = InvalidateEdge(d, old, AliceLeaves, now)
  BY DEF Reply, Invalidate
<1>3. Good(g) /\ Keeps(d, g) /\ c.ok
  BY <1>1, ReplyGood
<1>4. /\ Spares(d, g, old) /\ end # NoTs /\ end <= AliceLeaves
  BY <1>1, <1>2, <1>3, InvalidateEdgeGood
<1> HIDE DEF c, g
<1>5. /\ r.id \notin DOMAIN g.edges /\ DOMAIN e.edges = DOMAIN g.edges \cup {r.id}
      /\ \A i \in DOMAIN g.edges : ViewEdge(e, i) = ViewEdge(g, i)
      /\ Shows(ViewEdge(e, r.id), in)
  <2>1. r.ok
    BY DEF c, g
  <2> QED
    BY <1>3, <2>1, AddSeen
<1> HIDE DEF e, r
<1>6. /\ DOMAIN g.edges = DOMAIN d.edges
      /\ \A i \in DOMAIN d.edges : i # old => ViewEdge(e, i) = ViewEdge(d, i)
  <2>1. /\ DOMAIN g.edges = DOMAIN d.edges
        /\ \A i \in DOMAIN d.edges : i # old => g.edges[i] = d.edges[i]
    BY <1>4 DEF Spares
  <2>2. \A i \in DOMAIN d.edges : i # old => ViewEdge(g, i) = ViewEdge(d, i)
    BY <1>3, <2>1, SameEdgeSeen
  <2> QED
    BY <1>5, <2>1, <2>2
<1>7. ViewEdge(e, old) = [ViewEdge(d, old) EXCEPT !.vt = end]
  BY <1>3, <1>5, <1>6, EdgeKeptInView
<1>8. end \in Time /\ end <= in.vf
  <2>1. g.edges[old] \in Edge
    BY <1>3, <1>6 DEF Good, IsDatabase, IsTable
  <2>2. end \in Time
    BY <1>4, <2>1 DEF Edge
  <2>3. end \in Int /\ AliceLeaves \in Int /\ in.vf \in Int
    BY <1>1, <2>2, TimeAssumption DEF EdgeInput
  <2> QED
    BY <1>4, <2>2, <2>3
<1> HIDE DEF end
<1>9. \A i \in DOMAIN d.edges : Foretold(ViewEdge(d, i), 4)
  BY DEF Story
<1>10. /\ ViewEdge(d, old).vt = NoTs /\ ViewEdge(d, old).vf = Jan
       /\ Foretold(ViewEdge(e, old), 5) /\ Foretold(in, 5)
  <2>1. /\ ViewEdge(e, old).from = "alice" /\ ViewEdge(e, old).type = "WORKS_AT"
    BY <1>7 DEF ViewEdge
  <2>2. ViewEdge(d, old).vt = NoTs /\ ViewEdge(d, old).vf = Jan
    BY <1>9 DEF Foretold
  <2> QED
    BY <2>1, <2>2 DEF Foretold
<1>11. AllApart(d)
  BY DEF Story
<1>12. ASSUME NEW i \in DOMAIN d.edges, i # old
       PROVE  /\ ViewEdge(e, i) = ViewEdge(d, i)
              /\ Foretold(ViewEdge(d, i), 5)
              /\ ViewEdge(d, i).from # in.from \/ ViewEdge(d, i).type # in.type
  <2>1. ViewEdge(e, i) = ViewEdge(d, i)
    BY <1>6, <1>12
  <2>2. Foretold(ViewEdge(d, i), 5)
    <3>1. 4 \in Nat /\ 4 + 1 = 5
      OBVIOUS
    <3> QED
      BY <1>9, <3>1, ForetoldLater
  <2>3. ASSUME ViewEdge(d, i).from = "alice", ViewEdge(d, i).type = "WORKS_AT"
        PROVE  FALSE
    <3>1. ViewEdge(d, i).vf = Jan /\ ViewEdge(d, i).vt = NoTs
      BY <1>9, <2>3 DEF Foretold
    <3>2. Jan \in Time /\ Jan <= Jan
      BY DemoTyped DEF Jan
    <3>3. LiveAt(ViewEdge(d, i), Jan) /\ LiveAt(ViewEdge(d, old), Jan)
      BY <1>10, <3>1, <3>2 DEF LiveAt
    <3>4. Apart(ViewEdge(d, i), ViewEdge(d, old))
      BY <1>11, <1>12 DEF AllApart
    <3> QED
      BY <2>3, <3>2, <3>3, <3>4 DEF Apart, Jobs
  <2> QED
    BY <2>1, <2>2, <2>3
<1>13. ASSUME Names \subseteq DOMAIN e.extIds PROVE Story(e, 5)
  <2>1. 5 \in 2..6 /\ r.id \notin DOMAIN d.edges /\ DOMAIN e.edges = DOMAIN d.edges \cup {r.id}
    BY <1>5, <1>6
  <2> QED
    BY <1>4, <1>5, <1>7, <1>8, <1>10, <1>11, <1>12, <1>13, <2>1, EndedStory
<1> QED
  BY <1>13 DEF e, r, g, c

LEMMA JobChangeStory ==
  ASSUME NEW d, NEW now \in Time, Good(d), Story(d, 4), Write(d, SeedJobChange(d), now).ok
  PROVE  Story(Write(d, SeedJobChange(d), now).db, 5)
<1> DEFINE s   == SeedJobChange(d)
           old == Located(d, "alice", "WORKS_AT", "acme", AliceLeaves)
           in  == WorksAt("alice", "beta_labs", AliceJoins, "linkedin")
<1>1. s \in Seq(Calls)
  <2>1. 5 \in 1..6 /\ SeedCalls(d, 5) = s
    BY DEF SeedCalls
  <2> QED
    BY <2>1, SeedTyped
<1>2. /\ Len(s) = (IF old = Zero THEN 1 ELSE 2) /\ s[Len(s)] = Add(in)
      /\ old # Zero => s[1] = Invalidate(old, AliceLeaves)
      /\ Write(d, s, now).ok
  BY JobChangeCalls
<1>3. in \in EdgeInput
  BY DemoTyped DEF Names
<1>4. in.from = "alice" /\ in.type = "WORKS_AT" /\ AliceLeaves <= in.vf
  BY DEF WorksAt, Fact, AliceLeaves, AliceJoins
<1>5. /\ AllApart(d) /\ Names \subseteq DOMAIN d.extIds /\ "alice" \in DOMAIN d.extIds
      /\ \A i \in DOMAIN d.edges : Foretold(ViewEdge(d, i), 4)
  BY DEF Story, Names
<1>6. old # Zero => /\ old \in DOMAIN d.edges
                    /\ ViewEdge(d, old).type = "WORKS_AT" /\ ViewEdge(d, old).from = "alice"
  BY <1>5, LocatedIsId, LocatedFrom
<1>7. Names \subseteq DOMAIN Write(d, s, now).db.extIds
  BY <1>1, <1>5, WriteNames
<1>8. ASSUME NEW i \in DOMAIN d.edges,
             ViewEdge(d, i).from = "alice", ViewEdge(d, i).type = "WORKS_AT"
      PROVE  old # Zero
  <2>1. ViewEdge(d, i).to = "acme" /\ ViewEdge(d, i).vf = Jan /\ ViewEdge(d, i).vt = NoTs
    BY <1>5, <1>8 DEF Foretold
  <2>2. Jan <= AliceLeaves
    BY DEF Jan, AliceLeaves
  <2>3. LiveAt(ViewEdge(d, i), AliceLeaves)
    BY <2>1, <2>2 DEF LiveAt
  <2> QED
    BY <1>8, <2>1, <2>3, LocatedLive
<1> HIDE DEF s, old, in
<1>9. CASE old # Zero
  <2> DEFINE c == Reply(d, Invalidate(old, AliceLeaves), now)
  <2>1. Len(s) = 2 /\ s[1] = Invalidate(old, AliceLeaves) /\ s[2] = Add(in)
    BY <1>2, <1>9
  <2>2. /\ c.ok /\ Reply(c.db, Add(in), now).ok
        /\ Write(d, s, now) = Reply(c.db, Add(in), now)
    BY <1>2, <2>1, TwoCalls
  <2>3. Story(Reply(c.db, Add(in), now).db, 5)
    BY <1>3, <1>4, <1>6, <1>7, <1>9, <2>2, LeavesStory
  <2> HIDE DEF c
  <2> QED
    BY <2>2, <2>3 DEF s
<1>10. CASE old = Zero
  <2>1. Len(s) = 1 /\ s[1] = Add(in)
    BY <1>2, <1>10
  <2>2. s[1].in = in
    BY <2>1 DEF Add
  <2>3. 1 \in Nat /\ 5 \in 2..6 /\ \A k \in 1..1 : k = 1
    OBVIOUS
  <2>4. \A k \in 1..1 : s[k].in \in EdgeInput /\ s[k] = Add(s[k].in)
    BY <1>3, <2>1, <2>2, <2>3
  <2>5. \A j, k \in 1..1 : j # k => Apart(s[j].in, s[k].in)
    BY <2>3
  <2>6. \A i \in DOMAIN d.edges, k \in 1..1 : Apart(ViewEdge(d, i), s[k].in)
    BY <1>4, <1>8, <1>10, <2>2, <2>3, OtherApart
  <2>7. \A i \in DOMAIN d.edges : Foretold(ViewEdge(d, i), 5)
    <3>1. 4 \in Nat /\ 4 + 1 = 5
      OBVIOUS
    <3> QED
      BY <1>5, <3>1, ForetoldLater
  <2>8. \A k \in 1..1 : Foretold(s[k].in, 5)
    BY <1>4, <2>2, <2>3 DEF Foretold
  <2>9. Story(Write(d, s, now).db, 5)
    BY <1>1, <1>2, <1>5, <2>1, <2>3, <2>4, <2>5, <2>6, <2>7, <2>8, AddsStory
  <2> QED
    BY <2>9 DEF s
<1> QED
  BY <1>9, <1>10

\* Every transaction that is committed continues the story.
LEMMA SeedStory ==
  ASSUME NEW d, NEW k \in 0..5, NEW now \in Time, Good(d), Story(d, k),
         Write(d, SeedCalls(d, k + 1), now).ok
  PROVE  Story(Write(d, SeedCalls(d, k + 1), now).db, k + 1)
<1>1. CASE k = 0
  <2>1. k + 1 = 1 /\ SeedCalls(d, k + 1) = SeedNodes
    BY <1>1 DEF SeedCalls
  <2> QED
    BY <1>1, <2>1, NodesStory
<1>2. CASE k = 1
  <2>1. k + 1 = 2 /\ SeedCalls(d, k + 1) = SeedJanuary
    BY <1>2 DEF SeedCalls
  <2> QED
    BY <1>2, <2>1, JanuaryStory
<1>3. CASE k = 2
  <2>1. k + 1 = 3 /\ SeedCalls(d, k + 1) = SeedFebruary
    BY <1>3 DEF SeedCalls
  <2> QED
    BY <1>3, <2>1, FebruaryStory
<1>4. CASE k = 3
  <2>1. k + 1 = 4 /\ SeedCalls(d, k + 1) = SeedReorg(d)
    BY <1>4 DEF SeedCalls
  <2> QED
    BY <1>4, <2>1, ReorgStory
<1>5. CASE k = 4
  <2>1. k + 1 = 5 /\ SeedCalls(d, k + 1) = SeedJobChange(d)
    BY <1>5 DEF SeedCalls
  <2> QED
    BY <1>5, <2>1, JobChangeStory
<1>6. CASE k = 5
  <2>1. k + 1 = 6 /\ SeedCalls(d, k + 1) = SeedApril
    BY <1>6 DEF SeedCalls
  <2> QED
    BY <1>6, <2>1, AprilStory
<1> QED
  BY <1>1, <1>2, <1>3, <1>4, <1>5, <1>6

\* While the file is being seeded it tells the story so far.
StoryInv == phase = "seeding" => Story(db, seeded)

LEMMA SpecStory == Spec => []StoryInv
<1>1. Init => StoryInv
  BY DEF Init, StoryInv, Story, AllApart, EmptyDb, NoRows
<1>2. BrowserInv /\ StoryInv /\ [Next]_vars => StoryInv'
  <2> SUFFICES ASSUME BrowserInv, StoryInv, [Next]_vars, phase' = "seeding"
               PROVE  Story(db, seeded)'
    BY DEF StoryInv
  <2>1. CASE SeedNext
    <3>1. /\ phase = "seeding" /\ seeded \in 0..5 /\ seeded' = seeded + 1
          /\ db' = Write(db, SeedCalls(db, seeded + 1), clock).db
          /\ Write(db, SeedCalls(db, seeded + 1), clock).ok
      BY <2>1 DEF SeedNext, Seed, BrowserInv, StateInv
    <3>2. clock \in Time /\ Good(db)
      BY BrowserAssumption DEF BrowserInv, StateInv
    <3>3. Story(db', seeded')
      BY <3>1, <3>2, SeedStory DEF StoryInv
    <3> QED
      BY <3>3
  <2>2. CASE Open
    BY <2>2 DEF Open
  <2>3. ASSUME NEW key \in Keys, Press(key) PROVE FALSE
    BY <2>3 DEF Press
  <2>4. CASE Tick
    BY <2>4 DEF Tick
  <2>5. CASE UNCHANGED vars
    BY <2>5 DEF vars, demoVars, StoryInv
  <2> QED
    BY <2>1, <2>2, <2>3, <2>4, <2>5 DEF Next
<1> QED
  BY <1>1, <1>2, SpecBrowser, PTL DEF Spec

\* Wherever the seeding of the demo stops, nobody works at two places or reports
\* to two people at once (works_at, reports_to, the supersede_edge of the
\* reorganization and the invalidate_edge of the job change in demo.rs).
THEOREM DemoOneAtATime == Spec => []OneAtATime
<1>1. BrowserInv /\ StoryInv => OneAtATime
  <2> SUFFICES ASSUME BrowserInv, StoryInv, phase = "seeding",
                      NEW name \in DOMAIN db.extIds, NEW t \in Time, NEW type \in Jobs
               PROVE  Cardinality(LiveFrom(name, type, t)) <= 1
    BY DEF OneAtATime, Jobs
  <2> DEFINE live == LiveFrom(name, type, t)
  <2>1. ASSUME NEW i \in live, NEW j \in live PROVE i = j
    <3>1. /\ i \in DOMAIN db.edges /\ j \in DOMAIN db.edges
          /\ ViewEdge(db, i).from = name /\ ViewEdge(db, i).type = type
          /\ ViewEdge(db, j).from = name /\ ViewEdge(db, j).type = type
          /\ LiveAt(db.edges[i], t) /\ LiveAt(db.edges[j], t)
      BY <2>1 DEF LiveFrom
    <3>2. LiveAt(ViewEdge(db, i), t) /\ LiveAt(ViewEdge(db, j), t)
      BY <3>1 DEF LiveAt, ViewEdge
    <3>3. i # j => Apart(ViewEdge(db, i), ViewEdge(db, j))
      BY <3>1 DEF StoryInv, Story, AllApart
    <3> QED
      BY <3>1, <3>2, <3>3 DEF Apart
  <2> HIDE DEF live
  <2>2. live = {} \/ \E i \in live : live = {i}
    BY <2>1
  <2>3. Cardinality(live) \in {0, 1}
    BY <2>2, FS_EmptySet, FS_Singleton
  <2> QED
    BY <2>3 DEF live
<1> QED
  BY <1>1, SpecBrowser, SpecStory, PTL

=============================================================================
