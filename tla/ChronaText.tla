------------------------------ MODULE ChronaText ------------------------------
(***************************************************************************)
(* From the text of a query to its syntax tree (chrona-query: lexer.rs,    *)
(* parser.rs, ast.rs), and the grammar the documentation gives.            *)
(*                                                                         *)
(* A text is a sequence of pieces: <<"word", w>>, <<"quoted", s>>,         *)
(* <<"digits", n>>, <<"decimal", x>> (a number with a point), and          *)
(* <<"char", c>> for what stands alone, a blank and the opening quote of   *)
(* an unclosed or wrongly escaped string included.  Words and numbers that *)
(* would run together are apart by a blank that is left out.               *)
(* A token is <<kind>> or <<kind, value>>, with the label of lexer.rs.     *)
(***************************************************************************)
EXTENDS Integers, SequencesExt

CONSTANTS Upper,      \* to_ascii_uppercase, on the words of the texts
          Latin1,     \* a string whose UTF-8 bytes are read one char each
          MaxU8, MaxU32, MaxU64,
          None        \* Option::None

NoLimit == -1

\* A query that has not been parsed; clause is <<>> or a keyword and a time.
NoQuery == [shape |-> "none", node |-> None, to |-> None, hops |-> 0,
            clause |-> <<>>, until |-> None, filter |-> <<>>, limit |-> NoLimit]

-----------------------------------------------------------------------------
(* tokenize *)

Keywords == {"FIND", "SHOW", "WHO", "DIFF", "WHAT", "NEIGHBORS", "HOPS", "PATH",
             "GRAPH", "WAS", "CHANGED", "NODE", "OF", "FROM", "TO", "CONNECTED",
             "ON", "BETWEEN", "AND", "FOR", "AT", "BEFORE", "AFTER", "WHERE", "LIMIT"}

Operators == {"=", "!=", ">", ">=", "<", "<="}

Blank == <<"char", " ">>
EqualSign == <<"char", "=">>

Ahead == {<<"char", "!">>, <<"char", ">">>, <<"char", "<">>}

\* Mutant: > and < without the look at the next byte.
TwoNever(text, i) == i < Len(text) /\ text[i] = <<"char", "!">> /\ text[i + 1] = EqualSign

\* The token at piece i takes the next piece, too.
Two(text, i) == /\ text[i][1] = "char" /\ i < Len(text)
                /\ \/ text[i] \in Ahead /\ text[i + 1] = EqualSign
                   \/ text[i] = <<"char", "-">> /\ text[i + 1][1] = "decimal"

\* The token that begins at piece i, or what ends tokenize with an error.
TokenAt(text, i) ==
  LET kind == text[i][1]
      v    == text[i][2]
      both == CASE v = "!" -> "!=" [] v = ">" -> ">=" [] v = "<" -> "<="
  IN
  CASE kind = "word" /\ Upper[v] \in Keywords    -> <<Upper[v]>>
    [] kind = "word" /\ Upper[v] \notin Keywords -> <<"IDENT", v>>
    [] kind = "quoted"                           -> <<"STRING", Latin1[v]>>
    [] kind = "digits" /\ v <= MaxU64            -> <<"INTEGER", v>>
    [] kind = "decimal"                          -> <<"FLOAT", v>>
    [] kind = "char" /\ Two(text, i) /\ v = "-"  -> <<"FLOAT", -text[i + 1][2]>>
    [] kind = "char" /\ Two(text, i) /\ v # "-"  -> <<both>>
    [] kind = "char" /\ ~Two(text, i) /\ v \in {"=", ">", "<"} -> <<v>>
    [] OTHER                                     -> <<"ERROR">>

Tokenize(text) ==
  LET rest[i \in 1..(Len(text) + 1)] ==
        IF i > Len(text) THEN << <<"EOF">> >>
        ELSE IF text[i] = Blank THEN rest[i + 1]
        ELSE <<TokenAt(text, i)>> \o rest[IF Two(text, i) THEN i + 2 ELSE i + 1]
  IN rest[1]

-----------------------------------------------------------------------------
(* The parser: each part takes the tokens and a position *)

Failed == [ok |-> FALSE]
Got(v, p) == [ok |-> TRUE, val |-> v, at |-> p]

\* peek, after the last token too, where advance stays.
Kind(ts, p) == ts[IF p < Len(ts) THEN p ELSE Len(ts)][1]

\* A row of expect, expect_string and expect_integer succeeds.
Expect(ts, p, kinds) == \A k \in DOMAIN kinds : Kind(ts, p + k - 1) = kinds[k]

ParseTimeClause(ts, p) ==
  IF Kind(ts, p) \notin {"AT", "BEFORE", "AFTER"} THEN Got(<<>>, p)
  ELSE IF Expect(ts, p + 1, <<"STRING">>) THEN Got(<<Kind(ts, p), ts[p + 1][2]>>, p + 2)
  ELSE Failed

ParseForNode(ts, p, q) ==
  CASE Kind(ts, p) # "FOR" -> Got(q, p)
    [] Expect(ts, p, <<"FOR", "NODE", "STRING">>) -> Got([q EXCEPT !.node = ts[p + 2][2]], p + 3)
    [] OTHER -> Failed

\* WHERE and terms apart by AND, until no AND follows.
ParseFilter(ts, p) ==
  LET terms[i \in DOMAIN ts] ==
        IF /\ Kind(ts, i) = "IDENT"
           /\ Kind(ts, i + 1) \in Operators
           /\ Kind(ts, i + 2) \in {"STRING", "INTEGER", "FLOAT"}
        THEN LET term == [field |-> ts[i][2], op |-> Kind(ts, i + 1), value |-> ts[i + 2]]
                 more == terms[i + 4]
             IN CASE Kind(ts, i + 3) # "AND" -> Got(<<term>>, i + 3)
                  [] Kind(ts, i + 3) = "AND" /\ more.ok -> Got(<<term>> \o more.val, more.at)
                  [] OTHER -> Failed
        ELSE Failed
  IN IF Kind(ts, p) = "WHERE" THEN terms[p + 1] ELSE Got(<<>>, p)

\* Mutant: `n as u32` without the check before it.
ParseLimitWraps(ts, p) ==
  IF Kind(ts, p) # "LIMIT" THEN Got(NoLimit, p)
  ELSE IF Expect(ts, p + 1, <<"INTEGER">>) THEN Got(ts[p + 1][2] % (MaxU32 + 1), p + 2)
  ELSE Failed

ParseLimit(ts, p) ==
  IF Kind(ts, p) # "LIMIT" THEN Got(NoLimit, p)
  ELSE IF Expect(ts, p + 1, <<"INTEGER">>) /\ ts[p + 1][2] <= MaxU32
       THEN Got(ts[p + 1][2], p + 2)
  ELSE Failed

\* The clauses at the end of a query that lists edges.
ParseClauses(ts, time, q) ==
  LET filter == IF time.ok THEN ParseFilter(ts, time.at) ELSE Failed
      limit  == IF filter.ok THEN ParseLimit(ts, filter.at) ELSE Failed
  IN IF limit.ok
     THEN Got([q EXCEPT !.clause = time.val, !.filter = filter.val, !.limit = limit.val],
              limit.at)
     ELSE Failed

ParseFind(ts) ==
  CASE Expect(ts, 2, <<"NEIGHBORS", "OF", "STRING">>) ->
         ParseClauses(ts, ParseTimeClause(ts, 5),
                      [NoQuery EXCEPT !.shape = "neighbors", !.node = ts[4][2]])
    [] Expect(ts, 2, <<"INTEGER", "HOPS", "FROM", "STRING">>) /\ ts[2][2] <= MaxU8 ->
         ParseClauses(ts, ParseTimeClause(ts, 6),
                      [NoQuery EXCEPT !.shape = "hops", !.hops = ts[2][2], !.node = ts[5][2]])
    [] OTHER -> Failed

ParseShow(ts) ==
  IF Expect(ts, 2, <<"PATH", "FROM", "STRING", "TO", "STRING">>)
  THEN ParseClauses(ts, ParseTimeClause(ts, 7),
                    [NoQuery EXCEPT !.shape = "path", !.node = ts[4][2], !.to = ts[6][2]])
  ELSE Failed

ParseWho(ts) ==
  IF Expect(ts, 2, <<"WAS", "CONNECTED", "TO", "STRING", "ON", "STRING">>)
  THEN ParseClauses(ts, Got(<<"ON", ts[7][2]>>, 8),
                    [NoQuery EXCEPT !.shape = "who", !.node = ts[5][2]])
  ELSE Failed

ParseRange(ts, shape, noun) ==
  IF Expect(ts, 2, <<noun, "BETWEEN", "STRING", "AND", "STRING">>)
  THEN ParseForNode(ts, 7, [NoQuery EXCEPT !.shape = shape, !.until = ts[6][2],
                                           !.clause = <<"BETWEEN", ts[4][2]>>])
  ELSE Failed

\* parse: the tree, or NoQuery for Error::Query.
Parse(text) ==
  LET ts == Tokenize(text)
      got == CASE Kind(ts, 1) = "FIND" -> ParseFind(ts)
               [] Kind(ts, 1) = "SHOW" -> ParseShow(ts)
               [] Kind(ts, 1) = "WHO"  -> ParseWho(ts)
               [] Kind(ts, 1) = "DIFF" -> ParseRange(ts, "diff", "GRAPH")
               [] Kind(ts, 1) = "WHAT" -> ParseRange(ts, "changed", "CHANGED")
               [] OTHER -> Failed
  IN IF /\ \A k \in DOMAIN ts : ts[k][1] # "ERROR"
        /\ got.ok /\ Kind(ts, got.at) = "EOF"
     THEN got.val ELSE NoQuery

-----------------------------------------------------------------------------
(* How a tree is written by the grammar of docs/query-language.md *)

TimeTokens(clause) ==
  IF clause = <<>> THEN <<>> ELSE << <<clause[1]>>, <<"STRING", clause[2]>> >>

\* Four tokens to a term, the first of them WHERE or AND.
FilterTokens(filter) ==
  [k \in 1..(4 * Len(filter)) |->
     LET term == filter[(k + 3) \div 4]
     IN CASE k = 1              -> <<"WHERE">>
          [] k % 4 = 1 /\ k # 1 -> <<"AND">>
          [] k % 4 = 2          -> <<"IDENT", term.field>>
          [] k % 4 = 3          -> <<term.op>>
          [] k % 4 = 0          -> term.value]

LimitTokens(limit) ==
  IF limit = NoLimit THEN <<>> ELSE << <<"LIMIT">>, <<"INTEGER", limit>> >>

ClauseTokens(q) == TimeTokens(q.clause) \o FilterTokens(q.filter) \o LimitTokens(q.limit)

NodeTokens(node) ==
  IF node = None THEN <<>> ELSE << <<"FOR">>, <<"NODE">>, <<"STRING", node>> >>

RangeTokens(q) ==
  << <<"BETWEEN">>, <<"STRING", q.clause[2]>>, <<"AND">>, <<"STRING", q.until>> >>
    \o NodeTokens(q.node)

\* The tokens of a query, before the one of the end.
Sentence(q) ==
  CASE q.shape = "neighbors" ->
         << <<"FIND">>, <<"NEIGHBORS">>, <<"OF">>, <<"STRING", q.node>> >> \o ClauseTokens(q)
    [] q.shape = "hops" ->
         << <<"FIND">>, <<"INTEGER", q.hops>>, <<"HOPS">>, <<"FROM">>, <<"STRING", q.node>> >>
           \o ClauseTokens(q)
    [] q.shape = "path" ->
         << <<"SHOW">>, <<"PATH">>, <<"FROM">>, <<"STRING", q.node>>,
            <<"TO">>, <<"STRING", q.to>> >> \o ClauseTokens(q)
    [] q.shape = "who" ->
         << <<"WHO">>, <<"WAS">>, <<"CONNECTED">>, <<"TO">>, <<"STRING", q.node>> >>
           \o ClauseTokens(q)
    [] q.shape = "diff"    -> << <<"DIFF">>, <<"GRAPH">> >> \o RangeTokens(q)
    [] q.shape = "changed" -> << <<"WHAT">>, <<"CHANGED">> >> \o RangeTokens(q)

\* A token in pieces; the mark of the end has none.
Spelling(t) ==
  CASE t[1] \in Keywords  -> << <<"word", t[1]>> >>
    [] t[1] = "IDENT"     -> << <<"word", t[2]>> >>
    [] t[1] = "STRING"    -> << <<"quoted", t[2]>> >>
    [] t[1] = "INTEGER"   -> << <<"digits", t[2]>> >>
    [] t[1] = "FLOAT"     -> IF t[2] < 0 THEN << <<"char", "-">>, <<"decimal", -t[2]>> >>
                             ELSE << <<"decimal", t[2]>> >>
    [] t[1] \in {"=", ">", "<"} -> << <<"char", t[1]>> >>
    [] t[1] = "!="        -> << <<"char", "!">>, EqualSign >>
    [] t[1] = ">="        -> << <<"char", ">">>, EqualSign >>
    [] t[1] = "<="        -> << <<"char", "<">>, EqualSign >>
    [] t[1] = "EOF"       -> <<>>

Spelt(ts) == FlattenSeq([k \in DOMAIN ts |-> Spelling(ts[k])])

Written(q) == Spelt(Append(Sentence(q), <<"EOF">>))

Capital(x) ==
  IF x[1] = "word" /\ Upper[x[2]] \in Keywords THEN <<"word", Upper[x[2]]>> ELSE x

\* A text without blanks, its keywords in capitals.
Plain(text) ==
  FlattenSeq([k \in DOMAIN text |-> IF text[k] = Blank THEN <<>> ELSE <<Capital(text[k])>>])

=============================================================================
