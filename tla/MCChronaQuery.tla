---------------------------- MODULE MCChronaQuery ----------------------------
(* Queries on every database that four add_edge calls among three names     *)
(* make, the first call fixed, with and without an invalidation of the edge *)
(* it adds, and on one graph whose branches differ in length.               *)
EXTENDS ChronaQueryProofs

CONSTANTS alice, bob, carol, dave,   \* names
          ghost,                     \* a name under which nothing is stored
          likes, knows,              \* types
          Garbled,                   \* a string that is no time
          zoe, mangled               \* a name that is not ASCII, and its bytes one by one

MCText    == {alice, bob, carol, dave, ghost, likes, knows, Empty, zoe}
MCNodeIds == 1..4

\* A route of one and one of two edges from alice to carol, and a loop at alice.
Fact(from, to, type, vf) ==
  [from |-> from, to |-> to, type |-> type, source |-> Empty,
   vf |-> vf, vt |-> NoTs, confident |-> TRUE]

Facts == {Fact(alice, bob, likes, 0), Fact(alice, bob, knows, 1),
          Fact(bob, carol, likes, 0), Fact(bob, carol, likes, 1),
          Fact(alice, carol, knows, 1), Fact(carol, alice, likes, 0),
          Fact(alice, alice, knows, 0)}

\* Two branches of different length, each leading back to alice: the nearer
\* edges have to be listed before the search goes down the longer branch.
Branches == <<Fact(alice, bob, likes, 0), Fact(alice, carol, likes, 0),
              Fact(carol, dave, likes, 0), Fact(dave, alice, likes, 0),
              Fact(bob, alice, likes, 0)>>

Stored(calls) ==
  LET d[k \in 0..Len(calls)] ==
        IF k = 0 THEN EmptyDb ELSE AddEdge(d[k - 1], calls[k], <<0, 0, 1>>).db
  IN d[Len(calls)]

MCDatabases ==
  LET open == {Stored(<<Fact(alice, carol, knows, 0)>> \o s) : s \in [1..3 -> Facts]}
  IN open \cup {InvalidateEdge(d, 1, 1, 1).db : d \in open} \cup {Stored(Branches)}

Ask(shape, node, clause, filter, limit) ==
  [NoQuery EXCEPT !.shape = shape, !.node = node, !.clause = clause, !.filter = filter,
                  !.limit = limit]

Hops(n, filter, limit) == [Ask("hops", alice, <<>>, filter, limit) EXCEPT !.hops = n]
Path(from, to, clause, filter, limit) == [Ask("path", from, clause, filter, limit) EXCEPT !.to = to]
Changes(shape, node, t1, t2) ==
  [Ask(shape, node, <<"BETWEEN", t1>>, <<>>, NoLimit) EXCEPT !.until = t2]

Term(field, op, value) == [field |-> field, op |-> op, value |-> <<"STRING", value>>]
Than(field, op, number) == [field |-> field, op |-> op, value |-> number]

Filters == {<<>>,
            <<Term("type", "=", likes), Term("valid_to", ">", 1)>>,
            <<Term("source", "!=", knows), Term("valid_to", "<=", Garbled)>>}

Lists ==
  {Ask("neighbors", alice, c, f, l) : c \in {<<>>, <<"AT", 0>>}, f \in Filters, l \in {NoLimit, 1}}
  \cup {Ask("who", alice, <<"ON", t>>, f, l) : t \in {0, 1}, f \in Filters, l \in {NoLimit, 1}}
  \cup {Hops(h, f, l) : h \in 1..3, f \in Filters, l \in {NoLimit, 2}}

Others ==
  {Path(alice, to, c, <<>>, NoLimit) : to \in {alice, bob, carol}, c \in {<<>>, <<"BEFORE", 0>>}}
  \cup {Path(alice, carol, <<"AFTER", 1>>, <<Term("type", "=", knows)>>, 1),
        Path(alice, ghost, <<>>, <<>>, NoLimit),
        Ask("neighbors", alice, <<"AT", Garbled>>, <<>>, NoLimit),
        Ask("neighbors", alice, <<>>, <<Term("valid_from", ">=", 1)>>, NoLimit),
        Ask("neighbors", alice, <<>>, <<Term("type", "<", likes)>>, NoLimit),
        Ask("neighbors", alice, <<>>, <<Than("confidence", ">=", <<"FLOAT", 2>>)>>, NoLimit),
        Ask("who", alice, <<"ON", 1>>, <<Than("confidence", "<", <<"INTEGER", 1>>),
                                         Term("observed_at", ">", 0)>>, 1),
        Hops(2, <<Term("observed_at", "!=", Garbled)>>, NoLimit),
        Hops(2, <<Term("confidence", "=", likes)>>, NoLimit),
        Changes("diff", None, 0, 1), Changes("changed", ghost, 1, 1)}

\* Queries that only the parser tells apart, and the largest numbers.
Spelled ==
  {Hops(0, <<Than("bogus", "<=", <<"FLOAT", -1>>)>>, 0),
   Hops(3, <<Term("type", "<=", likes), Term("edge_type", ">", likes)>>, 5),
   [Ask("who", bob, <<"ON", alice>>, <<>>, 5) EXCEPT
      !.filter = <<Than("confidence", "!=", <<"INTEGER", 9>>),
                   Than("TYPE", "<", <<"FLOAT", 1>>)>>],
   Changes("diff", bob, 0, Garbled), Changes("changed", None, bob, 0),
   Path(bob, bob, <<"AT", 0>>, <<Term("valid_to", "=", likes)>>, 1)}

-----------------------------------------------------------------------------
Small == {"find" , "Where" , "at"}

MCWords == Keywords \cup Small \cup {"type", "edge_type", "TYPE", "source", "valid_from",
                                     "valid_to", "observed_at", "confidence", "bogus"}
MCUpper == [w \in MCWords |->
              CASE w = "find" -> "FIND" [] w = "Where" -> "WHERE" [] w = "at" -> "AT"
                [] w = "type" -> "TYPE" [] OTHER -> w]

MCStrings == MCText \cup {0, 1, Garbled, zoe, mangled}
MCLatin1  == [s \in MCStrings |-> IF s = zoe THEN mangled ELSE s]
MCOrder   == LET row == <<Empty, 0, 1, knows, likes, alice, bob, carol, dave, ghost,
                          mangled, zoe, Garbled>>
             IN [s \in MCStrings |-> CHOOSE k \in DOMAIN row : row[k] = s]

\* Numbers by place: -1.0 and 0 are first, then a confidence of 0.9, to which two
\* literals round, and one of 1, the place of every larger number here.
MCConfidence == <<2, 3, 2, 2, 3>>
MCObservedAt == <<0, 1, 0, 1, 1>>
MCAsF32 == [lit \in {"INTEGER", "FLOAT"} \X (-2 .. 10) |->
              IF lit[2] <= 0 THEN lit[2]
              ELSE IF lit[1] = "FLOAT" /\ lit[2] <= 2 THEN 2 ELSE 3]

\* The same query in other letters and with white space wherever it may be.
Loosely(row) ==
  LET loose(x) == IF x[1] = "word" /\ \E w \in Small : MCUpper[w] = x[2]
                  THEN <<"word", CHOOSE w \in Small : MCUpper[w] = x[2]>> ELSE x
  IN FlattenSeq([k \in DOMAIN row |-> IF row[k][1] = "char" THEN <<row[k]>>
                                      ELSE <<Blank, loose(row[k]), Blank>>])

Pieces == {<<"word", "FIND">>, <<"word", "AND">>, <<"word", "LIMIT">>, <<"word", "at">>,
           <<"word", "type">>, <<"quoted", bob>>, <<"quoted", 0>>, <<"digits", 1>>,
           <<"digits", 4>>, <<"digits", 6>>, <<"digits", 10>>, <<"decimal", 1>>,
           <<"char", "=">>, <<"char", "<">>, <<"char", "-">>, <<"char", "#">>, Blank}

\* Texts one piece away from a query: one left out, one put in, one exchanged,
\* or the end missing.
Edited(row) ==
  {RemoveAt(row, k) : k \in DOMAIN row}
  \cup {SubSeq(row, 1, k) : k \in DOMAIN row}
  \cup {ReplaceAt(row, k, x) : k \in DOMAIN row, x \in Pieces}
  \cup {InsertAt(row, k, x) : k \in DOMAIN row, x \in Pieces}

OneDatabase == Stored(Branches)

Plainly(qs) == {[text |-> Written(q), asked |-> q] : q \in qs}

\* Every query on every database; every other text on one.
MCSuites ==
  {[databases |-> MCDatabases, texts |-> Plainly(Lists \cup Others)],
   [databases |-> {OneDatabase},
    texts |-> {[text |-> Loosely(Written(q)), asked |-> q] : q \in Lists \cup Others}
                \cup Plainly(Spelled)
                \cup {[text |-> x, asked |-> NoQuery] :
                        x \in UNION {Edited(Written(q)) :
                          q \in Spelled \cup {Ask("neighbors", alice, <<"AT", 0>>,
                                                  <<Term("valid_from", ">=", 0)>>, 1)}}}]}

\* A name that is not ASCII, stored and asked for.
MCForeign == {[databases |-> {Stored(<<Fact(zoe, alice, likes, 0)>>)},
               texts |-> Plainly({Ask("neighbors", zoe, <<>>, <<>>, NoLimit)})]}

\* What the theorems about texts assume holds of all of these.
ASSUME WellWritten ==
  Suites = MCSuites => OrdinaryTexts /\ WrittenTexts /\ WidthsGrow /\ CapitalKeywords

=============================================================================
