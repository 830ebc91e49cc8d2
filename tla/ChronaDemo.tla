------------------------------ MODULE ChronaDemo ------------------------------
(***************************************************************************)
(* `chrona demo`: the graph that demo.rs seeds, one transaction after the  *)
(* other (Db::write).  A crash or an error leaves the file with the        *)
(* transactions before it.  The file is new: the command refuses a path    *)
(* that exists (see ChronaOpen).  An instant is its place among the        *)
(* instants of demo.rs; confidence is left out.                            *)
(***************************************************************************)
EXTENDS ChronaRead, Sequences

VARIABLES db,
          seeded,     \* how many transactions of seed are committed
          phase,      \* "seeding", "browsing" or "quit"
          clock       \* what Ts::now() says

Jan == 0   JanReports == 1   JanCollab == 2   Feb == 3   JustBefore == 4
Reorg == 5   AliceLeaves == 6   AliceJoins == 7   Pluto == 8   Quasar == 9

Names == {"alice", "bob", "carol", "dan", "eve", "frank",
          "acme", "beta_labs", "pluto", "quasar"}

\* The values written out in demo.rs are strings and timestamps.
ASSUME DemoAssumption ==
  /\ Jan .. Quasar \subseteq Time
  /\ Names \cup {"person", "org", "project", "hr", "slack", "github", "linkedin",
                 "WORKS_AT", "REPORTS_TO", "WORKS_WITH", "WORKS_ON"} \subseteq Text

\* works_at, reports_to, works_with, works_on.
Fact(from, type, to, t, source) ==
  [from |-> from, to |-> to, type |-> type, source |-> source,
   vf |-> t, vt |-> NoTs, confident |-> TRUE]

WorksAt(who, org, t, source) == Fact(who, "WORKS_AT", org, t, source)
ReportsTo(who, boss, t)      == Fact(who, "REPORTS_TO", boss, t, "hr")
WorksWith(a, b, t)           == Fact(a, "WORKS_WITH", b, t, "slack")
WorksOn(who, project, t)     == Fact(who, "WORKS_ON", project, t, "github")

-----------------------------------------------------------------------------
(* The calls of one transaction *)

Upsert(x, type)    == [op |-> "upsert", ext |-> x, type |-> type]
Add(in)            == [op |-> "add", in |-> in]
Supersede(old, in) == [op |-> "supersede", old |-> old, in |-> in]
Invalidate(id, at) == [op |-> "invalidate", id |-> id, at |-> at]

Reply(d, c, now) ==
  LET clk == [k \in 1..5 |-> now] IN
  CASE c.op = "upsert"     -> UpsertNode(d, c.ext, c.type, now)
    [] c.op = "add"        -> AddEdge(d, c.in, clk)
    [] c.op = "supersede"  -> SupersedeEdge(d, c.old, c.in, clk)
    [] c.op = "invalidate" -> InvalidateEdge(d, c.id, c.at, now)

\* Db::write of a closure that makes the calls and ends at the first error.
Write(d, calls, now) ==
  LET after[k \in 0..Len(calls)] ==
        IF k = 0 THEN Ok(d, Zero)
        ELSE IF ~after[k - 1].ok THEN after[k - 1]
        ELSE Reply(after[k - 1].db, calls[k], now)
  IN IF after[Len(calls)].ok THEN after[Len(calls)] ELSE Err(d)

Each(names, Call(_)) == [k \in DOMAIN names |-> Call(names[k])]

\* The first edge of that type between the two that a snapshot lists at t, Zero
\* if it lists none.
Located(d, from, type, to, t) ==
  LET ids  == ScanInOrder(d, d.fwdAdj, d.extIds[from], t)
      hits == {k \in DOMAIN ids : /\ ViewEdge(d, ids[k]).type = type
                                  /\ ViewEdge(d, ids[k]).to = to}
  IN IF hits = {} THEN Zero ELSE ids[CHOOSE k \in hits : \A j \in hits : k <= j]

People == <<"alice", "bob", "carol", "dan", "eve", "frank">>

SeedNodes == Each(People, LAMBDA x : Upsert(x, "person"))
               \o Each(<<"acme", "beta_labs">>, LAMBDA x : Upsert(x, "org"))
               \o Each(<<"pluto", "quasar">>, LAMBDA x : Upsert(x, "project"))

SeedJanuary ==
  Each(<<"alice", "bob", "carol", "dan">>, LAMBDA x : Add(WorksAt(x, "acme", Jan, "hr")))
    \o Each(<<"bob", "carol">>, LAMBDA x : Add(ReportsTo(x, "alice", JanReports)))
    \o Each(<< <<"alice", "bob">>, <<"alice", "carol">>, <<"bob", "carol">>, <<"carol", "dan">> >>,
            LAMBDA x : Add(WorksWith(x[1], x[2], JanCollab)))

SeedFebruary == <<Add(WorksAt("eve", "acme", Feb, "hr")), Add(ReportsTo("eve", "alice", Feb))>>

\* An edge that is not there ends the command, as supersede_edge of Zero does.
SeedReorg(d) ==
  <<Supersede(Located(d, "carol", "REPORTS_TO", "alice", JustBefore),
              ReportsTo("carol", "bob", Reorg))>>

Ending(old, at) == IF old = Zero THEN <<>> ELSE <<Invalidate(old, at)>>

\* Mutant: the job that is looked up, to be ended, is the new one.
SeedJobChangeLate(d) ==
  Ending(Located(d, "alice", "WORKS_AT", "beta_labs", AliceLeaves), AliceLeaves)
    \o <<Add(WorksAt("alice", "beta_labs", AliceJoins, "linkedin"))>>

SeedJobChange(d) ==
  Ending(Located(d, "alice", "WORKS_AT", "acme", AliceLeaves), AliceLeaves)
    \o <<Add(WorksAt("alice", "beta_labs", AliceJoins, "linkedin"))>>

SeedApril ==
  Each(<<"alice", "bob", "carol">>, LAMBDA x : Add(WorksOn(x, "pluto", Pluto)))
    \o <<Add(WorksAt("frank", "acme", Quasar, "hr"))>>
    \o Each(<<"dan", "frank">>, LAMBDA x : Add(WorksOn(x, "quasar", Quasar)))

SeedCalls(d, k) == CASE k = 1 -> SeedNodes     [] k = 2 -> SeedJanuary
                     [] k = 3 -> SeedFebruary  [] k = 4 -> SeedReorg(d)
                     [] k = 5 -> SeedJobChange(d) [] k = 6 -> SeedApril

\* One transaction of seed; its first error ends the command.
Seed ==
  /\ phase = "seeding" /\ seeded < 6
  /\ LET r == Write(db, SeedCalls(db, seeded + 1), clock) IN
       /\ db' = r.db
       /\ IF r.ok THEN seeded' = seeded + 1 /\ UNCHANGED phase
          ELSE phase' = "quit" /\ UNCHANGED seeded
  /\ UNCHANGED clock

-----------------------------------------------------------------------------

LiveFrom(name, type, t) ==
  {i \in DOMAIN db.edges : /\ LiveAt(db.edges[i], t)
                           /\ ViewEdge(db, i).from = name
                           /\ ViewEdge(db, i).type = type}

\* However far seed got, nobody works at two places or reports to two people at
\* once (the reorganization and the job change of demo.rs end what they replace).
OneAtATime ==
  phase = "seeding" =>
    \A name \in DOMAIN db.extIds, t \in Time :
      /\ Cardinality(LiveFrom(name, "WORKS_AT", t)) <= 1
      /\ Cardinality(LiveFrom(name, "REPORTS_TO", t)) <= 1

=============================================================================
