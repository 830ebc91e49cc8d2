-------------------------- MODULE ChronaQueryProofs --------------------------
(***************************************************************************)
(* What a query answers: the parser yields trees, it accepts what the      *)
(* grammar writes and nothing it reads otherwise, the scans and searches   *)
(* of an execution are those of the modules proved about elsewhere, and    *)
(* the filter and the limit keep what they should of what was read.        *)
(***************************************************************************)
EXTENDS ChronaQuery, ChronaStoreProofs

-----------------------------------------------------------------------------
(* The tokens of a text *)

\* A sequence of pieces in which a number is written with digits alone.
IsText(pieces) ==
  /\ Len(pieces) \in Nat /\ DOMAIN pieces = 1..Len(pieces)
  /\ \A k \in DOMAIN pieces : pieces[k][1] = "digits" => pieces[k][2] \in Nat

Eof == <<"EOF">>

Tokens(pieces) == {TokenAt(pieces, i) : i \in 1..Len(pieces)} \cup {Eof}

\* What the rest of a text from piece i on gives, if f says it of later pieces.
RestAt(f, pieces, i) ==
  IF i > Len(pieces) THEN <<Eof>>
  ELSE IF pieces[i] = Blank THEN f[i + 1]
  ELSE <<TokenAt(pieces, i)>> \o f[IF Two(pieces, i) THEN i + 2 ELSE i + 1]

IsRest(f, pieces, first) == f = [i \in first..(Len(pieces) + 1) |-> RestAt(f, pieces, i)]

LEMMA TokenizeIsRest ==
  ASSUME NEW pieces
  PROVE  Tokenize(pieces) = (CHOOSE f : IsRest(f, pieces, 1))[1]
  BY DEF Tokenize, IsRest, RestAt, Eof

LEMMA RestExists ==
  ASSUME NEW pieces, Len(pieces) \in Nat
  PROVE  \E f : IsRest(f, pieces, 1)
<1> DEFINE L == Len(pieces)
           S == {n \in Nat : n <= L => \E f : IsRest(f, pieces, L + 1 - n)}
<1>1. 0 \in S
  <2> DEFINE f == [i \in (L + 1)..(L + 1) |-> <<Eof>>]
  <2>1. \A i \in (L + 1)..(L + 1) : RestAt(f, pieces, i) = <<Eof>>
    BY DEF RestAt
  <2>2. IsRest(f, pieces, L + 1 - 0)
    BY <2>1 DEF IsRest
  <2> QED
    BY <2>2
<1>2. ASSUME NEW n \in Nat, n \in S PROVE n + 1 \in S
  <2> SUFFICES ASSUME n + 1 <= L PROVE \E f : IsRest(f, pieces, L + 1 - (n + 1))
    OBVIOUS
  <2> DEFINE m == L - n
  <2>1. m \in 1..L /\ L + 1 - (n + 1) = m /\ L + 1 - n = m + 1
    OBVIOUS
  <2>2. PICK f : IsRest(f, pieces, m + 1)
    BY <1>2, <2>1
  <2> HIDE DEF m, S, L
  <2> DEFINE h == [i \in m..(L + 1) |-> IF i = m THEN RestAt(f, pieces, i) ELSE f[i]]
  <2>3. \A i \in (m + 1)..(L + 1) : f[i] = RestAt(f, pieces, i) /\ h[i] = f[i]
    BY <2>1, <2>2 DEF IsRest, L
  <2>4. h[m] = RestAt(f, pieces, m) /\ L \in Nat
    BY <2>1 DEF L
  <2>5. \A i \in m..L : /\ i + 1 \in (m + 1)..(L + 1)
                        /\ Two(pieces, i) => i + 2 \in (m + 1)..(L + 1)
    BY <2>1, <2>4 DEF Two, L
  <2>6. \A i \in m..(L + 1) : RestAt(h, pieces, i) = RestAt(f, pieces, i)
    <3> TAKE i \in m..(L + 1)
    <3> HIDE DEF h
    <3>1. CASE i > L
      BY <3>1 DEF RestAt, L
    <3>2. CASE i <= L
      <4>1. i \in m..L
        BY <2>1, <2>4, <3>2
      <4>2. /\ h[i + 1] = f[i + 1]
            /\ Two(pieces, i) => h[i + 2] = f[i + 2]
        BY <2>3, <2>5, <4>1
      <4> QED
        BY <4>2 DEF RestAt, L
    <3> QED
      BY <2>1, <2>4, <3>1, <3>2
  <2>7. \A i \in m..(L + 1) : h[i] = RestAt(h, pieces, i)
    <3> TAKE i \in m..(L + 1)
    <3>1. RestAt(h, pieces, i) = RestAt(f, pieces, i)
      BY <2>6
    <3> HIDE DEF h
    <3>2. i = m \/ i \in (m + 1)..(L + 1)
      BY <2>1, <2>4
    <3> QED
      BY <2>3, <2>4, <3>1, <3>2
  <2>8. IsRest(h, pieces, m)
    <3>1. h = [i \in m..(L + 1) |-> h[i]]
      OBVIOUS
    <3> HIDE DEF h
    <3> QED
      BY <2>7, <3>1 DEF IsRest, L
  <2> QED
    BY <2>1, <2>8
<1> HIDE DEF S
<1>3. L \in S
  BY <1>1, <1>2, NatSet
<1>4. L + 1 - L = 1
  OBVIOUS
<1> QED
  BY <1>3, <1>4 DEF S

\* ts holds tokens of the text, with the mark of its end as the last one.
Tokenized(ts, pieces) ==
  ts \in Seq(Tokens(pieces)) /\ Len(ts) \in Nat \ {0} /\ ts[Len(ts)] = Eof

LEMMA RestsTokenized ==
  ASSUME NEW pieces, Len(pieces) \in Nat, NEW f, IsRest(f, pieces, 1)
  PROVE  \A i \in 1..(Len(pieces) + 1) : Tokenized(f[i], pieces)
<1> DEFINE L == Len(pieces)
           S == {n \in Nat : \A i \in 1..(L + 1) : i + n >= L + 1 => Tokenized(f[i], pieces)}
<1>2. \A i \in 1..(L + 1) : f[i] = RestAt(f, pieces, i)
  BY DEF IsRest
<1>3. Tokenized(<<Eof>>, pieces)
  <2>1. Eof \in Tokens(pieces)
    BY DEF Tokens
  <2> HIDE DEF Eof
  <2> QED
    BY <2>1 DEF Tokenized
<1>4. 0 \in S
  <2> SUFFICES ASSUME NEW i \in 1..(L + 1), i + 0 >= L + 1 PROVE Tokenized(f[i], pieces)
    OBVIOUS
  <2>1. i > L /\ f[i] = RestAt(f, pieces, i)
    BY <1>2
  <2> QED
    BY <1>3, <2>1 DEF RestAt
<1>5. ASSUME NEW n \in Nat, n \in S PROVE n + 1 \in S
  <2> SUFFICES ASSUME NEW i \in 1..(L + 1), i + (n + 1) >= L + 1 PROVE Tokenized(f[i], pieces)
    OBVIOUS
  <2>1. f[i] = RestAt(f, pieces, i)
    BY <1>2
  <2>2. CASE i > L
    BY <1>3, <2>1, <2>2 DEF RestAt
  <2>3. CASE i <= L
    <3> DEFINE j == IF Two(pieces, i) THEN i + 2 ELSE i + 1
    <3>1. /\ i + 1 \in 1..(L + 1) /\ (i + 1) + n >= L + 1
          /\ j \in 1..(L + 1) /\ j + n >= L + 1
      BY <2>3 DEF Two
    <3>2. Tokenized(f[i + 1], pieces) /\ Tokenized(f[j], pieces)
      BY <1>5, <3>1
    <3>3. CASE pieces[i] = Blank
      BY <2>1, <2>3, <3>2, <3>3 DEF RestAt
    <3>4. CASE pieces[i] # Blank
      <4> DEFINE K == Tokens(pieces)
                 t == TokenAt(pieces, i)
                 r == f[j]
      <4>1. t \in K
        BY <2>3 DEF Tokens
      <4>2. f[i] = <<t>> \o r
        BY <2>1, <2>3, <3>4 DEF RestAt
      <4>3. r \in Seq(K) /\ Len(r) \in Nat \ {0} /\ r[Len(r)] = Eof
        BY <3>2 DEF Tokenized
      <4> HIDE DEF K, t, r
      <4>4. <<t>> \in Seq(K) /\ Len(<<t>>) = 1
        BY <4>1
      <4>5. /\ <<t>> \o r \in Seq(K) /\ Len(<<t>> \o r) = 1 + Len(r)
            /\ \A k \in 1..(1 + Len(r)) :
                 (<<t>> \o r)[k] = IF k <= 1 THEN <<t>>[k] ELSE r[k - 1]
        BY <4>3, <4>4, ConcatProperties
      <4>6. (<<t>> \o r)[1 + Len(r)] = Eof
        <5>1. 1 + Len(r) \in 1..(1 + Len(r)) /\ ~(1 + Len(r) <= 1) /\ (1 + Len(r)) - 1 = Len(r)
          BY <4>3
        <5> QED
          BY <4>3, <4>5, <5>1
      <4>7. f[i] \in Seq(K) /\ Len(f[i]) \in Nat \ {0} /\ f[i][Len(f[i])] = Eof
        BY <4>2, <4>3, <4>5, <4>6
      <4> QED
        BY <4>7 DEF Tokenized, K
    <3> QED
      BY <3>3, <3>4
  <2> QED
    BY <2>2, <2>3
<1> HIDE DEF S
<1>6. L \in S
  BY <1>4, <1>5, NatSet
<1>7. \A i \in 1..(L + 1) : i + L >= L + 1
  OBVIOUS
<1> QED
  BY <1>6, <1>7 DEF S

LEMMA TokensFound ==
  ASSUME NEW pieces, Len(pieces) \in Nat
  PROVE  Tokenized(Tokenize(pieces), pieces)
<1> DEFINE f == CHOOSE g : IsRest(g, pieces, 1)
<1>1. IsRest(f, pieces, 1)
  BY RestExists
<1>2. Tokenize(pieces) = f[1]
  BY TokenizeIsRest
<1> HIDE DEF f
<1>3. 1 \in 1..(Len(pieces) + 1)
  OBVIOUS
<1> QED
  BY <1>1, <1>2, <1>3, RestsTokenized

LEMMA IntegerTokens ==
  ASSUME NEW pieces, IsText(pieces), NEW t \in Tokens(pieces), t[1] = "INTEGER"
  PROVE  t[2] \in Nat
<1>1. t # Eof
  BY DEF Eof
<1>2. PICK i \in 1..Len(pieces) : t = TokenAt(pieces, i)
  BY <1>1 DEF Tokens
<1> DEFINE kind == pieces[i][1]
           v    == pieces[i][2]
           both == CASE v = "!" -> "!=" [] v = ">" -> ">=" [] v = "<" -> "<="
<1>3. t = CASE kind = "word" /\ Upper[v] \in Keywords    -> <<Upper[v]>>
            [] kind = "word" /\ Upper[v] \notin Keywords -> <<"IDENT", v>>
            [] kind = "quoted"                           -> <<"STRING", Latin1[v]>>
            [] kind = "digits" /\ v <= MaxU64            -> <<"INTEGER", v>>
            [] kind = "decimal"                          -> <<"FLOAT", v>>
            [] kind = "char" /\ Two(pieces, i) /\ v = "-"  -> <<"FLOAT", -pieces[i + 1][2]>>
            [] kind = "char" /\ Two(pieces, i) /\ v # "-"  -> <<both>>
            [] kind = "char" /\ ~Two(pieces, i) /\ v \in {"=", ">", "<"} -> <<v>>
            [] OTHER                                     -> <<"ERROR">>
  BY <1>2 DEF TokenAt
<1>4. "INTEGER" \notin Keywords
  BY DEF Keywords
<1>5. Two(pieces, i) /\ v # "-" /\ kind = "char" => v \in {"!", ">", "<"}
  BY DEF Two, Ahead
<1>6. v \in {"!", ">", "<"} => both # "INTEGER"
  OBVIOUS
<1> DEFINE two == Two(pieces, i)
<1> HIDE DEF kind, v, both, two
<1>7. kind = "digits" /\ t = <<"INTEGER", v>>
  <2>1. CASE kind = "word"
    BY <1>3, <1>4, <2>1
  <2>2. CASE kind \in {"quoted", "decimal"}
    BY <1>3, <2>2
  <2>3. CASE kind = "char"
    <3>1. CASE Two(pieces, i) /\ v # "-"
      <4>1. t = <<both>>
        BY <1>3, <2>3, <3>1
      <4> QED
        BY <1>5, <1>6, <2>3, <3>1, <4>1
    <3>2. CASE Two(pieces, i) /\ v = "-"
      BY <1>3, <2>3, <3>2
    <3>3. CASE ~Two(pieces, i)
      BY <1>3, <2>3, <3>3
    <3> QED
      BY <3>1, <3>2, <3>3
  <2>4. CASE kind = "digits"
    BY <1>3, <2>4
  <2>5. CASE kind \notin {"word", "quoted", "decimal", "char", "digits"}
    BY <1>3, <2>5
  <2> QED
    BY <2>1, <2>2, <2>3, <2>4, <2>5
<1> QED
  BY <1>7 DEF IsText, kind, v

-----------------------------------------------------------------------------
(* The filter of a query *)

IsTokens(ts) ==
  /\ Len(ts) \in Nat \ {0} /\ DOMAIN ts = 1..Len(ts)
  /\ ts[Len(ts)] = Eof
  /\ \A k \in DOMAIN ts : ts[k][1] = "INTEGER" => ts[k][2] \in Nat

LEMMA TextTokens ==
  ASSUME NEW pieces, IsText(pieces)
  PROVE  IsTokens(Tokenize(pieces))
<1> DEFINE ts == Tokenize(pieces)
           K == Tokens(pieces)
<1>1. ts \in Seq(K) /\ Len(ts) \in Nat \ {0} /\ ts[Len(ts)] = Eof
  BY TokensFound DEF IsText, Tokenized
<1>2. \A t \in K : t[1] = "INTEGER" => t[2] \in Nat
  BY IntegerTokens
<1> HIDE DEF ts, K
<1>3. DOMAIN ts = 1..Len(ts) /\ \A k \in DOMAIN ts : ts[k] \in K
  BY <1>1, LenProperties, ElementOfSeq
<1>4. IsTokens(ts)
  BY <1>1, <1>2, <1>3 DEF IsTokens
<1> QED
  BY <1>4 DEF ts

\* A token before the last is the one at its position.
LEMMA KindAhead ==
  ASSUME NEW ts, IsTokens(ts), NEW p \in Nat \ {0}, Kind(ts, p) # "EOF"
  PROVE  p < Len(ts) /\ p \in DOMAIN ts /\ p + 1 \in DOMAIN ts /\ Kind(ts, p) = ts[p][1]
<1>1. ts[Len(ts)][1] = "EOF"
  BY DEF IsTokens, Eof
<1>2. p < Len(ts)
  BY <1>1 DEF Kind, IsTokens
<1> QED
  BY <1>2 DEF Kind, IsTokens

TermOf(ts, i) == [field |-> ts[i][2], op |-> Kind(ts, i + 1), value |-> ts[i + 2]]

TermsOf(ts) == {TermOf(ts, i) : i \in DOMAIN ts}

IsTerm(ts, i) == /\ Kind(ts, i) = "IDENT"
                 /\ Kind(ts, i + 1) \in Operators
                 /\ Kind(ts, i + 2) \in {"STRING", "INTEGER", "FLOAT"}

\* What ParseFilter makes of the terms from token i on.
TermsAt(f, ts, i) ==
  IF IsTerm(ts, i)
  THEN CASE Kind(ts, i + 3) # "AND" -> Got(<<TermOf(ts, i)>>, i + 3)
         [] Kind(ts, i + 3) = "AND" /\ f[i + 4].ok ->
              Got(<<TermOf(ts, i)>> \o f[i + 4].val, f[i + 4].at)
         [] OTHER -> Failed
  ELSE Failed

IsTerms(f, ts, first) == f = [i \in first..Len(ts) |-> TermsAt(f, ts, i)]

LEMMA FilterIsTerms ==
  ASSUME NEW ts, IsTokens(ts), NEW p, Kind(ts, p) = "WHERE"
  PROVE  ParseFilter(ts, p) = (CHOOSE f : IsTerms(f, ts, 1))[p + 1]
<1>1. ParseFilter(ts, p) = (CHOOSE f : f = [i \in DOMAIN ts |-> TermsAt(f, ts, i)])[p + 1]
  BY DEF ParseFilter, TermsAt, IsTerm, TermOf
<1>2. DOMAIN ts = 1..Len(ts)
  BY DEF IsTokens
<1> QED
  BY <1>1, <1>2 DEF IsTerms

LEMMA TermsMeet ==
  ASSUME NEW ts, IsTokens(ts), NEW i \in DOMAIN ts, IsTerm(ts, i), Kind(ts, i + 3) = "AND"
  PROVE  i + 4 \in DOMAIN ts
<1>1. i \in Nat \ {0} /\ i + 3 \in Nat \ {0} /\ (i + 3) + 1 = i + 4
  BY DEF IsTokens
<1> QED
  BY <1>1, KindAhead

LEMMA TermsExist ==
  ASSUME NEW ts, IsTokens(ts)
  PROVE  \E f : IsTerms(f, ts, 1)
<1> DEFINE L == Len(ts)
           S == {n \in Nat : n < L => \E f : IsTerms(f, ts, L - n)}
<1>0. L \in Nat \ {0} /\ DOMAIN ts = 1..L
  BY DEF IsTokens
<1> HIDE DEF L
<1>1. 0 \in S
  <2> DEFINE f == [i \in L..L |-> Failed]
  <2>1. ~IsTerm(ts, L)
    <3>1. L \in Nat \ {0} /\ ~(L < Len(ts))
      BY <1>0 DEF L
    <3>2. Kind(ts, L) = "EOF"
      BY <3>1, KindAhead
    <3> QED
      BY <3>2 DEF IsTerm
  <2>2. \A i \in L..L : TermsAt(f, ts, i) = Failed
    BY <1>0, <2>1 DEF TermsAt
  <2>3. IsTerms(f, ts, L - 0)
    BY <1>0, <2>2 DEF IsTerms, L
  <2> QED
    BY <2>3
<1>2. ASSUME NEW n \in Nat, n \in S PROVE n + 1 \in S
  <2> SUFFICES ASSUME n + 1 < L PROVE \E f : IsTerms(f, ts, L - (n + 1))
    OBVIOUS
  <2> DEFINE m == L - (n + 1)
  <2>1. m \in 1..L /\ L - n = m + 1 /\ m \in Nat
    BY <1>0
  <2>2. PICK f : IsTerms(f, ts, m + 1)
    BY <1>0, <1>2, <2>1
  <2> HIDE DEF m, S
  <2> DEFINE h == [i \in m..L |-> IF i = m THEN TermsAt(f, ts, i) ELSE f[i]]
  <2>3. \A i \in (m + 1)..L : f[i] = TermsAt(f, ts, i) /\ h[i] = f[i]
    BY <1>0, <2>1, <2>2 DEF IsTerms, L
  <2>4. h[m] = TermsAt(f, ts, m)
    BY <1>0, <2>1
  <2>5. h = [i \in m..L |-> h[i]]
    OBVIOUS
  <2> HIDE DEF h
  <2>6. \A i \in m..L : TermsAt(h, ts, i) = TermsAt(f, ts, i)
    <3> TAKE i \in m..L
    <3>1. i \in DOMAIN ts
      BY <1>0, <2>1
    <3>2. CASE IsTerm(ts, i) /\ Kind(ts, i + 3) = "AND"
      <4>1. i + 4 \in DOMAIN ts
        BY <3>1, <3>2, TermsMeet
      <4>2. i + 4 \in (m + 1)..L
        BY <1>0, <2>1, <3>1, <4>1
      <4>3. h[i + 4] = f[i + 4]
        BY <2>3, <4>2
      <4> QED
        BY <4>3 DEF TermsAt
    <3>3. CASE ~(IsTerm(ts, i) /\ Kind(ts, i + 3) = "AND")
      BY <3>3 DEF TermsAt
    <3> QED
      BY <3>2, <3>3
  <2>7. \A i \in m..L : h[i] = TermsAt(h, ts, i)
    <3> TAKE i \in m..L
    <3>1. i = m \/ i \in (m + 1)..L
      BY <1>0, <2>1
    <3> QED
      BY <2>3, <2>4, <2>6, <3>1
  <2>8. IsTerms(h, ts, m)
    BY <2>5, <2>7 DEF IsTerms, L
  <2> QED
    BY <2>8 DEF m
<1> HIDE DEF S
<1>3. L - 1 \in Nat
  BY <1>0
<1>4. L - 1 \in S
  BY <1>1, <1>2, <1>3, NatSet
<1>5. L - 1 < L /\ L - (L - 1) = 1
  BY <1>0
<1> QED
  BY <1>4, <1>5 DEF S

\* A part of the parser fails, or gives a value of V and a position.
Gives(r, V) == r.ok => r.val \in V /\ r.at \in Nat \ {0}

LEMMA FilterTyped ==
  ASSUME NEW ts, IsTokens(ts), NEW p \in Nat \ {0}
  PROVE  Gives(ParseFilter(ts, p), Seq(TermsOf(ts)))
<1> DEFINE L == Len(ts)
           f == CHOOSE g : IsTerms(g, ts, 1)
           V == TermsOf(ts)
           S == {n \in Nat : \A i \in 1..L : i + n >= L => Gives(f[i], Seq(V))}
<1>0. L \in Nat \ {0} /\ DOMAIN ts = 1..L
  BY DEF IsTokens
<1>1. IsTerms(f, ts, 1)
  BY TermsExist
<1> HIDE DEF f
<1>2. \A i \in 1..L : f[i] = TermsAt(f, ts, i)
  BY <1>1 DEF IsTerms
<1>3. \A i \in DOMAIN ts : TermOf(ts, i) \in V
  BY DEF TermsOf
<1> HIDE DEF V, L
<1>4. \A i \in DOMAIN ts : <<TermOf(ts, i)>> \in Seq(V)
  BY <1>3
<1>5. 0 \in S
  <2> SUFFICES ASSUME NEW i \in 1..L, i + 0 >= L PROVE Gives(f[i], Seq(V))
    OBVIOUS
  <2>0. i = L
    BY <1>0
  <2>1. i \in Nat \ {0} /\ ~(i < Len(ts))
    BY <1>0, <2>0 DEF L
  <2>2. Kind(ts, i) = "EOF"
    BY <2>1, KindAhead
  <2>3. f[i] = Failed
    BY <1>2, <2>2 DEF TermsAt, IsTerm
  <2> QED
    BY <2>3 DEF Gives, Failed
<1>6. ASSUME NEW n \in Nat, n \in S PROVE n + 1 \in S
  <2> SUFFICES ASSUME NEW i \in 1..L, i + (n + 1) >= L PROVE Gives(f[i], Seq(V))
    OBVIOUS
  <2>0. f[i] = TermsAt(f, ts, i) /\ i \in DOMAIN ts /\ i + 3 \in Nat \ {0}
    BY <1>0, <1>2
  <2>1. CASE ~IsTerm(ts, i)
    BY <2>0, <2>1 DEF TermsAt, Gives, Failed
  <2>2. CASE IsTerm(ts, i) /\ Kind(ts, i + 3) # "AND"
    <3>1. f[i] = Got(<<TermOf(ts, i)>>, i + 3)
      BY <2>0, <2>2 DEF TermsAt
    <3> QED
      BY <1>4, <2>0, <3>1 DEF Gives, Got
  <2>3. CASE IsTerm(ts, i) /\ Kind(ts, i + 3) = "AND"
    <3>1. i + 4 \in DOMAIN ts
      BY <2>0, <2>3, TermsMeet
    <3>2. i + 4 \in 1..L /\ (i + 4) + n >= L
      BY <1>0, <2>0, <3>1
    <3>3. Gives(f[i + 4], Seq(V))
      BY <1>6, <3>2
    <3>4. CASE f[i + 4].ok
      <4>1. f[i] = Got(<<TermOf(ts, i)>> \o f[i + 4].val, f[i + 4].at)
        BY <2>0, <2>3, <3>4 DEF TermsAt
      <4>2. f[i + 4].val \in Seq(V) /\ f[i + 4].at \in Nat \ {0}
        BY <3>3, <3>4 DEF Gives
      <4>3. <<TermOf(ts, i)>> \in Seq(V)
        BY <1>4, <2>0
      <4>4. <<TermOf(ts, i)>> \o f[i + 4].val \in Seq(V)
        BY <4>2, <4>3, ConcatProperties
      <4> QED
        BY <4>1, <4>2, <4>4 DEF Gives, Got
    <3>5. CASE ~f[i + 4].ok
      <4>1. f[i] = Failed
        BY <2>0, <2>3, <3>5 DEF TermsAt
      <4> QED
        BY <4>1 DEF Gives, Failed
    <3> QED
      BY <3>4, <3>5
  <2> QED
    BY <2>1, <2>2, <2>3
<1> HIDE DEF S
<1>7. L \in S
  BY <1>0, <1>5, <1>6, NatSet
<1>8. \A i \in 1..L : Gives(f[i], Seq(V))
  BY <1>0, <1>7 DEF S
<1>9. CASE Kind(ts, p) = "WHERE"
  <2>1. p + 1 \in 1..L
    BY <1>0, <1>9, KindAhead
  <2>2. ParseFilter(ts, p) = f[p + 1]
    BY <1>9, FilterIsTerms DEF f
  <2> QED
    BY <1>8, <2>1, <2>2 DEF V
<1>10. CASE Kind(ts, p) # "WHERE"
  <2>1. ParseFilter(ts, p) = Got(<<>>, p)
    BY <1>10 DEF ParseFilter
  <2>2. <<>> \in Seq(V)
    OBVIOUS
  <2> QED
    BY <2>1, <2>2 DEF Gives, Got, V
<1> QED
  BY <1>9, <1>10

-----------------------------------------------------------------------------
(* The tree of a query *)

Shapes == {"neighbors", "who", "hops", "path", "diff", "changed"}

IsTree(q) ==
  /\ q \in [shape : Shapes, node : {q.node}, to : {q.to}, hops : Nat, clause : {q.clause},
            until : {q.until}, filter : {q.filter}, limit : Nat \cup {NoLimit}]
  /\ \E n \in Nat : DOMAIN q.filter = 1..n

LEMMA NewTree ==
  /\ NoQuery \in [shape : {"none"}, node : {None}, to : {None}, hops : {0}, clause : {<<>>},
                  until : {None}, filter : {<<>>}, limit : {NoLimit}]
  /\ DOMAIN <<>> = 1..0
  BY DEF NoQuery

LEMMA LimitTyped ==
  ASSUME NEW ts, IsTokens(ts), NEW p \in Nat \ {0}
  PROVE  Gives(ParseLimit(ts, p), Nat \cup {NoLimit})
<1>1. CASE Kind(ts, p) # "LIMIT"
  BY <1>1 DEF ParseLimit, Gives, Got
<1>2. CASE Kind(ts, p) = "LIMIT" /\ Expect(ts, p + 1, <<"INTEGER">>)
  <2>1. Kind(ts, p + 1) = "INTEGER"
    BY <1>2 DEF Expect
  <2>2. p + 1 \in DOMAIN ts /\ ts[p + 1][1] = "INTEGER"
    BY <2>1, KindAhead
  <2>3. ts[p + 1][2] \in Nat
    BY <2>2 DEF IsTokens
  <2> QED
    BY <1>2, <2>3 DEF ParseLimit, Gives, Got, Failed
<1>3. CASE Kind(ts, p) = "LIMIT" /\ ~Expect(ts, p + 1, <<"INTEGER">>)
  BY <1>3 DEF ParseLimit, Gives, Failed
<1> QED
  BY <1>1, <1>2, <1>3

\* A part of the parser fails, or gives a tree.
GivesTree(r) == r.ok => IsTree(r.val)

LEMMA TimeTyped ==
  ASSUME NEW ts, NEW p \in Nat \ {0}, ParseTimeClause(ts, p).ok
  PROVE  ParseTimeClause(ts, p).at \in Nat \ {0}
  BY DEF ParseTimeClause, Got, Failed

LEMMA ClausesTyped ==
  ASSUME NEW ts, IsTokens(ts), NEW time, time.ok => time.at \in Nat \ {0}, NEW q, IsTree(q)
  PROVE  GivesTree(ParseClauses(ts, time, q))
<1> DEFINE filter == IF time.ok THEN ParseFilter(ts, time.at) ELSE Failed
           limit  == IF filter.ok THEN ParseLimit(ts, filter.at) ELSE Failed
           r      == ParseClauses(ts, time, q)
<1>1. r = IF limit.ok
          THEN Got([q EXCEPT !.clause = time.val, !.filter = filter.val, !.limit = limit.val],
                   limit.at)
          ELSE Failed
  BY DEF ParseClauses
<1>2. Gives(filter, Seq(TermsOf(ts)))
  BY FilterTyped DEF Gives, Failed
<1>3. Gives(limit, Nat \cup {NoLimit})
  BY <1>2, LimitTyped DEF Gives, Failed
<1>4. limit.ok => filter.ok
  BY DEF Failed
<1> HIDE DEF filter, limit, r
<1>5. CASE limit.ok
  <2> DEFINE t == [q EXCEPT !.clause = time.val, !.filter = filter.val, !.limit = limit.val]
  <2>1. r.val = t
    BY <1>1, <1>5 DEF Got
  <2>2. limit.val \in Nat \cup {NoLimit}
    BY <1>3, <1>5 DEF Gives
  <2>3. filter.val \in Seq(TermsOf(ts))
    BY <1>2, <1>4, <1>5 DEF Gives
  <2>4. Len(filter.val) \in Nat /\ DOMAIN filter.val = 1..Len(filter.val)
    BY <2>3, LenProperties
  <2>5. t \in [shape : Shapes, node : {q.node}, to : {q.to}, hops : Nat, clause : {time.val},
              until : {q.until}, filter : {filter.val}, limit : Nat \cup {NoLimit}]
    BY <2>2 DEF IsTree
  <2> HIDE DEF t
  <2>6. IsTree(t)
    BY <2>2, <2>4, <2>5 DEF IsTree
  <2> QED
    BY <2>1, <2>6 DEF GivesTree, r
<1>6. CASE ~limit.ok
  BY <1>1, <1>6 DEF GivesTree, Failed, r
<1> QED
  BY <1>5, <1>6

LEMMA FindTyped ==
  ASSUME NEW ts, IsTokens(ts), Kind(ts, 1) = "FIND"
  PROVE  GivesTree(ParseFind(ts))
<1>1. CASE Expect(ts, 2, <<"NEIGHBORS", "OF", "STRING">>)
  <2> DEFINE q == [NoQuery EXCEPT !.shape = "neighbors", !.node = ts[4][2]]
  <2>1. ParseFind(ts) = ParseClauses(ts, ParseTimeClause(ts, 5), q)
    BY <1>1 DEF ParseFind, Expect
  <2>2. q \in [shape : {"neighbors"}, node : {ts[4][2]}, to : {None}, hops : {0}, clause : {<<>>},
              until : {None}, filter : {<<>>}, limit : {NoLimit}]
    BY NewTree
  <2> HIDE DEF q
  <2>3. IsTree(q)
    BY <2>2, NewTree DEF IsTree, Shapes
  <2> QED
    BY <2>1, <2>3, TimeTyped, ClausesTyped
<1>2. CASE /\ ~Expect(ts, 2, <<"NEIGHBORS", "OF", "STRING">>)
           /\ Expect(ts, 2, <<"INTEGER", "HOPS", "FROM", "STRING">>) /\ ts[2][2] <= MaxU8
  <2> DEFINE q == [NoQuery EXCEPT !.shape = "hops", !.hops = ts[2][2], !.node = ts[5][2]]
  <2>1. ParseFind(ts) = ParseClauses(ts, ParseTimeClause(ts, 6), q)
    BY <1>2 DEF ParseFind
  <2>2. q \in [shape : {"hops"}, node : {ts[5][2]}, to : {None}, hops : {ts[2][2]}, clause : {<<>>},
              until : {None}, filter : {<<>>}, limit : {NoLimit}]
    BY NewTree
  <2> HIDE DEF q
  <2>3. Kind(ts, 2) = "INTEGER"
    BY <1>2 DEF Expect
  <2>4. ts[2][2] \in Nat
    BY <2>3, KindAhead DEF IsTokens
  <2>5. IsTree(q)
    BY <2>2, <2>4, NewTree DEF IsTree, Shapes
  <2> QED
    BY <2>1, <2>5, TimeTyped, ClausesTyped
<1>3. CASE /\ ~Expect(ts, 2, <<"NEIGHBORS", "OF", "STRING">>)
           /\ ~(Expect(ts, 2, <<"INTEGER", "HOPS", "FROM", "STRING">>) /\ ts[2][2] <= MaxU8)
  BY <1>3 DEF ParseFind, GivesTree, Failed
<1> QED
  BY <1>1, <1>2, <1>3

LEMMA ShowTyped ==
  ASSUME NEW ts, IsTokens(ts)
  PROVE  GivesTree(ParseShow(ts))
<1>1. CASE Expect(ts, 2, <<"PATH", "FROM", "STRING", "TO", "STRING">>)
  <2> DEFINE q == [NoQuery EXCEPT !.shape = "path", !.node = ts[4][2], !.to = ts[6][2]]
  <2>1. ParseShow(ts) = ParseClauses(ts, ParseTimeClause(ts, 7), q)
    BY <1>1 DEF ParseShow
  <2>2. q \in [shape : {"path"}, node : {ts[4][2]}, to : {ts[6][2]}, hops : {0}, clause : {<<>>},
              until : {None}, filter : {<<>>}, limit : {NoLimit}]
    BY NewTree
  <2> HIDE DEF q
  <2>3. IsTree(q)
    BY <2>2, NewTree DEF IsTree, Shapes
  <2> QED
    BY <2>1, <2>3, TimeTyped, ClausesTyped
<1>2. CASE ~Expect(ts, 2, <<"PATH", "FROM", "STRING", "TO", "STRING">>)
  BY <1>2 DEF ParseShow, GivesTree, Failed
<1> QED
  BY <1>1, <1>2

LEMMA WhoTyped ==
  ASSUME NEW ts, IsTokens(ts)
  PROVE  GivesTree(ParseWho(ts))
<1>1. CASE Expect(ts, 2, <<"WAS", "CONNECTED", "TO", "STRING", "ON", "STRING">>)
  <2> DEFINE q == [NoQuery EXCEPT !.shape = "who", !.node = ts[5][2]]
             time == Got(<<"ON", ts[7][2]>>, 8)
  <2>1. ParseWho(ts) = ParseClauses(ts, time, q)
    BY <1>1 DEF ParseWho
  <2>2. q \in [shape : {"who"}, node : {ts[5][2]}, to : {None}, hops : {0}, clause : {<<>>},
              until : {None}, filter : {<<>>}, limit : {NoLimit}]
    BY NewTree
  <2>3. time.at \in Nat \ {0}
    BY DEF Got
  <2> HIDE DEF q, time
  <2>4. IsTree(q)
    BY <2>2, NewTree DEF IsTree, Shapes
  <2> QED
    BY <2>1, <2>3, <2>4, ClausesTyped
<1>2. CASE ~Expect(ts, 2, <<"WAS", "CONNECTED", "TO", "STRING", "ON", "STRING">>)
  BY <1>2 DEF ParseWho, GivesTree, Failed
<1> QED
  BY <1>1, <1>2

LEMMA RangeTyped ==
  ASSUME NEW ts, NEW shape \in {"diff", "changed"}, NEW noun
  PROVE  GivesTree(ParseRange(ts, shape, noun))
<1>1. CASE Expect(ts, 2, <<noun, "BETWEEN", "STRING", "AND", "STRING">>)
  <2> DEFINE clause == <<"BETWEEN", ts[4][2]>>
             until  == ts[6][2]
             q == [NoQuery EXCEPT !.shape = shape, !.until = until, !.clause = clause]
             Trees(node) == [shape : {shape}, node : {node}, to : {None}, hops : {0},
                             clause : {clause}, until : {until}, filter : {<<>>},
                             limit : {NoLimit}]
  <2>1. ParseRange(ts, shape, noun) = ParseForNode(ts, 7, q)
    BY <1>1 DEF ParseRange
  <2> HIDE DEF clause, until
  <2>2. q \in Trees(None)
    BY NewTree
  <2> HIDE DEF q
  <2>3. \A node : [q EXCEPT !.node = node] \in Trees(node)
    BY <2>2
  <2>4. \A node : \A t \in Trees(node) : IsTree(t)
    BY NewTree DEF IsTree, Shapes
  <2> HIDE DEF Trees
  <2>5. IsTree(q) /\ IsTree([q EXCEPT !.node = ts[9][2]])
    BY <2>2, <2>3, <2>4
  <2>6. GivesTree(ParseForNode(ts, 7, q))
    <3>1. 7 + 2 = 9
      OBVIOUS
    <3> QED
      BY <2>5, <3>1 DEF ParseForNode, GivesTree, Got, Failed
  <2> QED
    BY <2>1, <2>6
<1>2. CASE ~Expect(ts, 2, <<noun, "BETWEEN", "STRING", "AND", "STRING">>)
  BY <1>2 DEF ParseRange, GivesTree, Failed
<1> QED
  BY <1>1, <1>2

\* What parse accepts is a tree: a filter is a sequence, and the numbers are
\* what the digits say.
LEMMA ParseTyped ==
  ASSUME NEW pieces, IsText(pieces)
  PROVE  Parse(pieces) = NoQuery \/ IsTree(Parse(pieces))
<1> DEFINE ts == Tokenize(pieces)
           got == CASE Kind(ts, 1) = "FIND" -> ParseFind(ts)
                    [] Kind(ts, 1) = "SHOW" -> ParseShow(ts)
                    [] Kind(ts, 1) = "WHO"  -> ParseWho(ts)
                    [] Kind(ts, 1) = "DIFF" -> ParseRange(ts, "diff", "GRAPH")
                    [] Kind(ts, 1) = "WHAT" -> ParseRange(ts, "changed", "CHANGED")
                    [] OTHER -> Failed
<1>1. Parse(pieces) = IF /\ \A k \in DOMAIN ts : ts[k][1] # "ERROR"
                         /\ got.ok /\ Kind(ts, got.at) = "EOF"
                      THEN got.val ELSE NoQuery
  BY DEF Parse
<1>2. IsTokens(ts)
  BY TextTokens
<1> HIDE DEF ts
<1>3. GivesTree(got)
  BY <1>2, FindTyped, ShowTyped, WhoTyped, RangeTyped DEF GivesTree, Failed
<1> HIDE DEF got
<1> QED
  BY <1>1, <1>3 DEF GivesTree

-----------------------------------------------------------------------------
(* Parts put in a row *)

\* f says what the first parts make in a row, up to n of them.
IsFlat(f, parts, n) ==
  f = [k \in 1..n |-> IF k = 1 THEN parts[k] ELSE f[k - 1] \o parts[k]]

LEMMA FlatExists ==
  ASSUME NEW parts
  PROVE  \A n \in Nat : \E f : IsFlat(f, parts, n)
<1> DEFINE S == {n \in Nat : \E f : IsFlat(f, parts, n)}
<1>1. 0 \in S
  <2> DEFINE f == [k \in 1..0 |-> <<>>]
  <2>1. f = [k \in 1..0 |-> IF k = 1 THEN parts[k] ELSE f[k - 1] \o parts[k]]
    OBVIOUS
  <2> QED
    BY <2>1 DEF IsFlat
<1>2. ASSUME NEW n \in Nat, n \in S PROVE n + 1 \in S
  <2>1. PICK f : IsFlat(f, parts, n)
    BY <1>2
  <2> DEFINE m == n + 1
             last == IF m = 1 THEN parts[m] ELSE f[n] \o parts[m]
             h == [k \in 1..m |-> IF k = m THEN last ELSE f[k]]
  <2>2. \A k \in 1..n : f[k] = IF k = 1 THEN parts[k] ELSE f[k - 1] \o parts[k]
    BY <2>1 DEF IsFlat
  <2> HIDE DEF last
  <2>3. h[m] = last /\ \A k \in 1..n : h[k] = f[k]
    <3>1. m \in 1..m /\ \A k \in 1..n : k \in 1..m /\ k # m
      OBVIOUS
    <3> HIDE DEF m
    <3> QED
      BY <3>1
  <2>4. h = [k \in 1..m |-> h[k]]
    OBVIOUS
  <2> HIDE DEF h
  <2>5. \A k \in 1..m : h[k] = IF k = 1 THEN parts[k] ELSE h[k - 1] \o parts[k]
    <3> TAKE k \in 1..m
    <3>1. CASE k = m
      <4>1. k # 1 => n \in 1..n /\ k - 1 = n
        BY <3>1
      <4> QED
        BY <2>3, <3>1, <4>1 DEF last
    <3>2. CASE k # m
      <4>1. k \in 1..n /\ (k # 1 => k - 1 \in 1..n)
        BY <3>2
      <4> QED
        BY <2>2, <2>3, <4>1
    <3> QED
      BY <3>1, <3>2
  <2>6. IsFlat(h, parts, m)
    BY <2>4, <2>5 DEF IsFlat
  <2> QED
    BY <2>6
<1> HIDE DEF S
<1>3. Nat \subseteq S
  BY <1>1, <1>2, NatSet
<1> QED
  BY <1>3 DEF S

\* What FlattenSeq gives, as the value of a function that meets the equation.
LEMMA FlattenFound ==
  ASSUME NEW parts, Len(parts) \in Nat \ {0}
  PROVE  \E f : /\ FlattenSeq(parts) = f[Len(parts)]
                /\ \A k \in 1..Len(parts) :
                     f[k] = IF k = 1 THEN parts[k] ELSE f[k - 1] \o parts[k]
<1> DEFINE n == Len(parts)
           f == CHOOSE g : IsFlat(g, parts, n)
<1>1. FlattenSeq(parts) = f[n]
  BY DEF FlattenSeq, IsFlat
<1>2. IsFlat(f, parts, n)
  BY FlatExists
<1> HIDE DEF f
<1> QED
  BY <1>1, <1>2 DEF IsFlat

LEMMA FlattenTyped ==
  ASSUME NEW U, NEW parts \in Seq(Seq(U))
  PROVE  FlattenSeq(parts) \in Seq(U)
<1> DEFINE n == Len(parts)
<1>0. n \in Nat /\ \A k \in 1..n : parts[k] \in Seq(U)
  BY LenProperties, ElementOfSeq
<1>1. CASE n = 0
  <2>1. parts = <<>>
    BY <1>1, EmptySeq
  <2> QED
    BY <1>1, <2>1 DEF FlattenSeq
<1>2. CASE n # 0
  <2>1. PICK f : /\ FlattenSeq(parts) = f[n]
                 /\ \A k \in 1..n : f[k] = IF k = 1 THEN parts[k] ELSE f[k - 1] \o parts[k]
    BY <1>0, <1>2, FlattenFound
  <2> DEFINE S == {k \in Nat : k + 1 <= n => f[k + 1] \in Seq(U)}
  <2>2. 0 \in S
    BY <1>0, <2>1
  <2>3. ASSUME NEW k \in Nat, k \in S PROVE k + 1 \in S
    <3> SUFFICES ASSUME (k + 1) + 1 <= n PROVE f[(k + 1) + 1] \in Seq(U)
      OBVIOUS
    <3>1. /\ (k + 1) + 1 \in 1..n /\ (k + 1) + 1 # 1 /\ ((k + 1) + 1) - 1 = k + 1
          /\ k + 1 <= n
      BY <1>0
    <3>2. f[k + 1] \in Seq(U)
      BY <2>3, <3>1
    <3>3. f[(k + 1) + 1] = f[k + 1] \o parts[(k + 1) + 1]
      BY <2>1, <3>1
    <3>4. parts[(k + 1) + 1] \in Seq(U)
      BY <1>0, <3>1
    <3> QED
      BY <3>2, <3>3, <3>4, ConcatProperties
  <2> HIDE DEF S
  <2>4. Nat \subseteq S
    BY <2>2, <2>3, NatSet
  <2>5. n - 1 \in Nat /\ (n - 1) + 1 = n /\ n <= n
    BY <1>0, <1>2
  <2>6. f[(n - 1) + 1] \in Seq(U)
    BY <2>4, <2>5 DEF S
  <2> QED
    BY <2>1, <2>5, <2>6
<1> QED
  BY <1>1, <1>2

LEMMA FlattenCons ==
  ASSUME NEW U, NEW a \in Seq(U), NEW parts \in Seq(Seq(U))
  PROVE  FlattenSeq(<<a>> \o parts) = a \o FlattenSeq(parts)
<1> DEFINE n == Len(parts)
           all == <<a>> \o parts
<1>0. n \in Nat /\ \A k \in 1..n : parts[k] \in Seq(U)
  BY LenProperties, ElementOfSeq
<1>1. /\ Len(all) = n + 1
      /\ \A k \in 1..(n + 1) : all[k] = IF k <= 1 THEN <<a>>[k] ELSE parts[k - 1]
  <2>1. <<a>> \in Seq(Seq(U)) /\ Len(<<a>>) = 1
    OBVIOUS
  <2> QED
    BY <1>0, <2>1, ConcatProperties
<1>2. all[1] = a /\ \A k \in 1..n : all[k + 1] = parts[k]
  <2>1. 1 \in 1..(n + 1) /\ <<a>>[1] = a
    BY <1>0
  <2>2. \A k \in 1..n : k + 1 \in 1..(n + 1) /\ ~(k + 1 <= 1) /\ (k + 1) - 1 = k
    BY <1>0
  <2> QED
    BY <1>1, <2>1, <2>2
<1> HIDE DEF all
<1>3. PICK g : /\ FlattenSeq(all) = g[n + 1]
               /\ \A k \in 1..(n + 1) : g[k] = IF k = 1 THEN all[k] ELSE g[k - 1] \o all[k]
  <2>1. Len(all) \in Nat \ {0}
    BY <1>0, <1>1
  <2>2. \E g : /\ FlattenSeq(all) = g[Len(all)]
               /\ \A k \in 1..Len(all) : g[k] = IF k = 1 THEN all[k] ELSE g[k - 1] \o all[k]
    BY <2>1, FlattenFound
  <2>3. Len(all) = n + 1
    BY <1>1
  <2> QED
    BY <2>2, <2>3
<1>4. CASE n = 0
  <2>1. parts = <<>>
    BY <1>4, EmptySeq
  <2>2. FlattenSeq(parts) = <<>>
    BY <1>4, <2>1 DEF FlattenSeq
  <2>3. FlattenSeq(all) = a
    <3>1. 1 \in 1..(n + 1) /\ n + 1 = 1
      BY <1>4
    <3> QED
      BY <1>2, <1>3, <3>1
  <2> QED
    BY <2>2, <2>3, ConcatEmptySeq DEF all
<1>5. CASE n # 0
  <2>1. PICK f : /\ FlattenSeq(parts) = f[n]
                 /\ \A k \in 1..n : f[k] = IF k = 1 THEN parts[k] ELSE f[k - 1] \o parts[k]
    BY <1>0, <1>5, FlattenFound
  <2> DEFINE S == {k \in Nat : k + 1 <= n =>
                                 f[k + 1] \in Seq(U) /\ g[(k + 1) + 1] = a \o f[k + 1]}
  <2>2. 0 \in S
    <3>1. /\ 1 \in 1..n /\ f[1] = parts[1]
      BY <1>0, <1>5, <2>1
    <3>2. 1 \in 1..(n + 1) /\ 2 \in 1..(n + 1) /\ 2 - 1 = 1 /\ 1 + 1 = 2 /\ 0 + 1 = 1
      BY <1>0, <1>5
    <3>3. g[1] = all[1] /\ g[2] = g[1] \o all[2]
      <4>1. g[1] = all[1]
        BY <1>3, <3>2
      <4>2. \A k \in 1..(n + 1) : k # 1 => g[k] = g[k - 1] \o all[k]
        BY <1>3
      <4>3. g[2] = g[2 - 1] \o all[2]
        <5>1. 2 \in 1..(n + 1) /\ 2 # 1
          BY <3>2
        <5> HIDE DEF n
        <5> QED
          BY <4>2, <5>1
      <4> QED
        BY <3>2, <4>1, <4>3
    <3>5. all[1] = a /\ all[2] = parts[1]
      BY <1>2, <3>1, <3>2
    <3>4. f[1] \in Seq(U)
      BY <1>0, <3>1
    <3> QED
      BY <3>1, <3>2, <3>3, <3>4, <3>5
  <2>3. ASSUME NEW k \in Nat, k \in S PROVE k + 1 \in S
    <3> DEFINE i == k + 1
    <3> SUFFICES ASSUME i + 1 <= n
                 PROVE  f[i + 1] \in Seq(U) /\ g[(i + 1) + 1] = a \o f[i + 1]
      OBVIOUS
    <3>1. /\ i + 1 \in 1..n /\ i + 1 # 1 /\ (i + 1) - 1 = i /\ i <= n
          /\ (i + 1) + 1 \in 1..(n + 1) /\ (i + 1) + 1 # 1 /\ ((i + 1) + 1) - 1 = i + 1
      BY <1>0
    <3>2. f[i] \in Seq(U) /\ g[i + 1] = a \o f[i]
      BY <2>3, <3>1
    <3> HIDE DEF i
    <3>3. f[i + 1] = f[i] \o parts[i + 1] /\ parts[i + 1] \in Seq(U)
      BY <1>0, <2>1, <3>1
    <3>4. g[(i + 1) + 1] = g[i + 1] \o parts[i + 1]
      BY <1>2, <1>3, <3>1
    <3>5. (a \o f[i]) \o parts[i + 1] = a \o (f[i] \o parts[i + 1])
      <4> DEFINE s == f[i]
                 u == parts[i + 1]
      <4>1. a \in Seq(U) /\ s \in Seq(U) /\ u \in Seq(U)
        BY <3>2, <3>3
      <4> HIDE DEF s, u
      <4>2. (a \o s) \o u = a \o (s \o u)
        BY <4>1, ConcatAssociative
      <4> QED
        BY <4>2 DEF s, u
    <3>6. f[i] \o parts[i + 1] \in Seq(U)
      BY <3>2, <3>3, ConcatProperties
    <3> QED
      BY <3>2, <3>3, <3>4, <3>5, <3>6
  <2> HIDE DEF S
  <2>4. Nat \subseteq S
    BY <2>2, <2>3, NatSet
  <2>5. n - 1 \in Nat /\ (n - 1) + 1 = n /\ n <= n
    BY <1>0, <1>5
  <2>6. g[((n - 1) + 1) + 1] = a \o f[(n - 1) + 1]
    BY <2>4, <2>5 DEF S
  <2> QED
    BY <1>3, <2>1, <2>5, <2>6 DEF all
<1> QED
  BY <1>4, <1>5

\* The parts from i on are part i and those after it.
LEMMA FlattenFrom ==
  ASSUME NEW U, NEW parts \in Seq(Seq(U)), NEW i \in 1..Len(parts)
  PROVE  /\ FlattenSeq(SubSeq(parts, i, Len(parts)))
              = parts[i] \o FlattenSeq(SubSeq(parts, i + 1, Len(parts)))
         /\ FlattenSeq(SubSeq(parts, i + 1, Len(parts))) \in Seq(U)
<1> DEFINE n == Len(parts)
           later == SubSeq(parts, i + 1, n)
<1>1. n \in Nat /\ \A k \in 1..n : parts[k] \in Seq(U)
  BY LenProperties, ElementOfSeq
<1>2. SubSeq(parts, i, n) = <<parts[i]>> \o later
  <2>1. n \in i..n
    BY <1>1
  <2> QED
    BY <2>1, SubSeqRecursiveFirst
<1>3. later \in Seq(Seq(U))
  <2>1. i + 1 \in Int /\ n \in Int /\ \A k \in (i + 1)..n : parts[k] \in Seq(U)
    BY <1>1
  <2> QED
    BY <2>1, SubSeqProperties
<1> HIDE DEF later
<1> QED
  BY <1>1, <1>2, <1>3, FlattenCons, FlattenTyped DEF later

-----------------------------------------------------------------------------
(* A text is what its tokens spell *)

\* A text whose pieces are what the lexer can meet: strings that are ASCII, and
\* numbers without a sign, none of them -0.0.
IsOrdinary(pieces) ==
  \A k \in DOMAIN pieces :
    /\ pieces[k] = <<pieces[k][1], pieces[k][2]>>
    /\ pieces[k][1] = "quoted" => Latin1[pieces[k][2]] = pieces[k][2] /\ pieces[k][2] # None
    /\ pieces[k][1] = "decimal" => /\ pieces[k][2] \in Nat
                                   /\ k # 1 /\ pieces[k - 1] = <<"char", "-">> => pieces[k][2] # 0

Valued == {"IDENT", "STRING", "INTEGER", "FLOAT"}

IsToken(t) == t = IF t[1] \in Valued THEN <<t[1], t[2]>> ELSE <<t[1]>>

\* Token t says what the pieces from i on say.
Says(t, pieces, i) ==
  /\ pieces[i] # Blank /\ t[1] # "EOF" /\ IsToken(t)
  /\ t[1] = "STRING" => t[2] # None
  /\ Two(pieces, i) => i + 1 \in 1..Len(pieces) /\ pieces[i + 1] # Blank
  /\ Spelling(t) = IF Two(pieces, i) THEN <<Capital(pieces[i]), Capital(pieces[i + 1])>>
                   ELSE <<Capital(pieces[i])>>

LEMMA WordsApart ==
  /\ Keywords \cap (Valued \cup Operators \cup {"EOF", "ERROR"}) = {}
  /\ Valued \cap Operators = {}
  BY DEF Keywords, Valued, Operators

LEMMA NotBlank ==
  ASSUME NEW x, x[1] # "char" \/ x[2] # " "
  PROVE  x # Blank
<1>1. Blank[1] = "char" /\ Blank[2] = " "
  BY DEF Blank
<1> QED
  BY <1>1

LEMMA WordSays ==
  ASSUME NEW pieces, IsText(pieces), IsOrdinary(pieces), NEW i \in 1..Len(pieces),
         pieces[i][1] = "word"
  PROVE  Says(TokenAt(pieces, i), pieces, i)
<1> DEFINE v == pieces[i][2]
           t == TokenAt(pieces, i)
<1>1. i \in DOMAIN pieces /\ pieces[i] = <<"word", v>> /\ ~Two(pieces, i)
  BY DEF IsText, IsOrdinary, Two
<1>2. pieces[i] # Blank
  BY NotBlank
<1>3. CASE Upper[v] \in Keywords
  <2>1. t = <<Upper[v]>>
    BY <1>3 DEF TokenAt
  <2>2. Capital(pieces[i]) = <<"word", Upper[v]>>
    BY <1>3 DEF Capital
  <2> HIDE DEF t
  <2>4. t[1] = Upper[v] /\ t[1] \in Keywords
    BY <1>3, <2>1
  <2>3. Spelling(t) = << <<"word", Upper[v]>> >>
    <3> DEFINE w == Upper[v]
    <3>1. t[1] = w /\ w \in Keywords
      BY <2>4
    <3> HIDE DEF w
    <3>2. Spelling(t) = << <<"word", t[1]>> >>
      BY <3>1, WordsApart DEF Spelling, Valued, Operators
    <3> QED
      BY <2>4, <3>2
  <2> HIDE DEF t
  <2> QED
    BY <1>1, <1>2, <1>3, <2>1, <2>2, <2>3, WordsApart DEF Says, IsToken, t, Valued
<1>4. CASE Upper[v] \notin Keywords
  <2>1. t = <<"IDENT", v>>
    BY <1>4 DEF TokenAt
  <2>2. Capital(pieces[i]) = <<"word", v>>
    BY <1>1, <1>4 DEF Capital
  <2>3. Spelling(t) = << <<"word", v>> >>
    BY <2>1, WordsApart DEF Spelling, Valued
  <2> HIDE DEF t
  <2> QED
    BY <1>1, <1>2, <2>1, <2>2, <2>3 DEF Says, IsToken, t, Valued
<1> QED
  BY <1>3, <1>4

LEMMA ValueSays ==
  ASSUME NEW pieces, IsText(pieces), IsOrdinary(pieces), NEW i \in 1..Len(pieces),
         pieces[i][1] \in {"quoted", "digits", "decimal"}, TokenAt(pieces, i)[1] # "ERROR"
  PROVE  Says(TokenAt(pieces, i), pieces, i)
<1> DEFINE kind == pieces[i][1]
           v == pieces[i][2]
           t == TokenAt(pieces, i)
<1>1. /\ i \in DOMAIN pieces /\ pieces[i] = <<kind, v>> /\ ~Two(pieces, i)
      /\ pieces[i] # Blank /\ Capital(pieces[i]) = <<kind, v>>
  <2>1. i \in DOMAIN pieces /\ pieces[i] = <<kind, v>>
    BY DEF IsText, IsOrdinary
  <2>2. kind # "char" /\ kind # "word"
    OBVIOUS
  <2>3. ~Two(pieces, i)
    BY <2>2 DEF Two
  <2>4. pieces[i] # Blank
    BY <2>2, NotBlank
  <2>5. Capital(pieces[i]) = pieces[i]
    BY <2>2 DEF Capital
  <2> QED
    BY <2>1, <2>3, <2>4, <2>5
<1>2. CASE kind = "quoted"
  <2>1. t = <<"STRING", v>> /\ v # None
    BY <1>1, <1>2 DEF TokenAt, IsOrdinary
  <2>3. Spelling(t) = << <<"quoted", v>> >>
    BY <2>1, WordsApart DEF Spelling, Valued
  <2> HIDE DEF t
  <2> QED
    BY <1>1, <1>2, <2>1, <2>3 DEF Says, IsToken, t, Valued
<1>3. CASE kind = "digits"
  <2>1. t = <<"INTEGER", v>>
    BY <1>1, <1>3 DEF TokenAt
  <2>3. Spelling(t) = << <<"digits", v>> >>
    BY <2>1, WordsApart DEF Spelling, Valued
  <2> HIDE DEF t
  <2> QED
    BY <1>1, <1>3, <2>1, <2>3 DEF Says, IsToken, t, Valued
<1>4. CASE kind = "decimal"
  <2>1. t = <<"FLOAT", v>> /\ v \in Nat
    BY <1>1, <1>4 DEF TokenAt, IsOrdinary
  <2>3. Spelling(t) = << <<"decimal", v>> >>
    BY <2>1, WordsApart DEF Spelling, Valued
  <2> HIDE DEF t
  <2> QED
    BY <1>1, <1>4, <2>1, <2>3 DEF Says, IsToken, t, Valued
<1> QED
  BY <1>2, <1>3, <1>4

LEMMA CharSays ==
  ASSUME NEW pieces, IsText(pieces), IsOrdinary(pieces), NEW i \in 1..Len(pieces),
         pieces[i][1] = "char", TokenAt(pieces, i)[1] # "ERROR"
  PROVE  Says(TokenAt(pieces, i), pieces, i)
<1> DEFINE v == pieces[i][2]
           t == TokenAt(pieces, i)
           next == pieces[i + 1]
<1>1. /\ i \in DOMAIN pieces /\ pieces[i] = <<"char", v>>
      /\ Capital(pieces[i]) = <<"char", v>>
  BY DEF IsText, IsOrdinary, Capital
<1>2. v # " " => pieces[i] # Blank
  BY NotBlank
<1>3. CASE Two(pieces, i) /\ v = "-"
  <2>1. i + 1 \in 1..Len(pieces) /\ i + 1 \in DOMAIN pieces /\ next[1] = "decimal"
    BY <1>1, <1>3 DEF Two, IsText, Ahead
  <2>2. next = <<"decimal", next[2]>> /\ next[2] \in Nat
    BY <2>1 DEF IsOrdinary
  <2>3. next[2] # 0
    <3>1. i + 1 # 1 /\ (i + 1) - 1 = i
      OBVIOUS
    <3> QED
      BY <1>1, <1>3, <2>1, <3>1 DEF IsOrdinary
  <2>4. t = <<"FLOAT", -next[2]>>
    BY <1>1, <1>3 DEF TokenAt
  <2> DEFINE n == next[2]
  <2>5. Capital(next) = <<"decimal", n>> /\ next # Blank
    BY <2>1, <2>2, NotBlank DEF Capital
  <2>6. -n < 0 /\ -(-n) = n
    BY <2>2, <2>3
  <2> HIDE DEF t, next, n
  <2>7. Spelling(t) = << <<"char", "-">>, <<"decimal", n>> >>
    BY <2>4, <2>6, WordsApart DEF Spelling, Valued, n
  <2> QED
    BY <1>1, <1>2, <1>3, <2>1, <2>4, <2>5, <2>7 DEF Says, IsToken, t, Valued, next
<1>4. CASE Two(pieces, i) /\ v # "-"
  <2>1. /\ i + 1 \in 1..Len(pieces) /\ v \in {"!", ">", "<"} /\ next = EqualSign
    BY <1>1, <1>4 DEF Two, IsText, Ahead
  <2>2. Capital(next) = EqualSign /\ next # Blank
    BY <2>1 DEF Capital, EqualSign, Blank
  <2> DEFINE both == CASE v = "!" -> "!=" [] v = ">" -> ">=" [] v = "<" -> "<="
  <2>3. t = <<both>>
    BY <1>1, <1>4 DEF TokenAt
  <2>4. both \in Operators
    BY <2>1 DEF Operators
  <2> HIDE DEF t, next
  <2>5. Spelling(t) = << <<"char", v>>, EqualSign>>
    BY <2>1, <2>3, <2>4, WordsApart DEF Spelling, Valued
  <2>6. IsToken(t) /\ t[1] # "EOF" /\ t[1] # "STRING"
    BY <2>1, <2>3 DEF IsToken, Valued
  <2> QED
    BY <1>1, <1>2, <1>4, <2>1, <2>2, <2>5, <2>6 DEF Says, t, next
<1>5. CASE ~Two(pieces, i)
  <2>1. v \in {"=", ">", "<"} /\ t = <<v>>
    BY <1>1, <1>5 DEF TokenAt
  <2>2. v \in Operators
    BY <2>1 DEF Operators
  <2> HIDE DEF t
  <2>3. Spelling(t) = << <<"char", v>> >>
    BY <2>1, <2>2, WordsApart DEF Spelling, Valued
  <2>4. IsToken(t) /\ t[1] # "EOF" /\ t[1] # "STRING"
    BY <2>1 DEF IsToken, Valued
  <2> QED
    BY <1>1, <1>2, <1>5, <2>1, <2>3, <2>4 DEF Says, t
<1> QED
  BY <1>3, <1>4, <1>5

LEMMA TokenSays ==
  ASSUME NEW pieces, IsText(pieces), IsOrdinary(pieces), NEW i \in 1..Len(pieces),
         TokenAt(pieces, i)[1] # "ERROR"
  PROVE  Says(TokenAt(pieces, i), pieces, i)
<1>1. pieces[i][1] \in {"word", "quoted", "digits", "decimal", "char"}
  BY DEF TokenAt
<1> QED
  BY <1>1, WordSays, ValueSays, CharSays

Spellings(ts) == [k \in DOMAIN ts |-> Spelling(ts[k])]

LEMMA SpellingsTyped ==
  ASSUME NEW U, NEW K, NEW ts \in Seq(K), \A k \in 1..Len(ts) : Spelling(ts[k]) \in Seq(U)
  PROVE  /\ Spellings(ts) \in Seq(Seq(U)) /\ Len(Spellings(ts)) = Len(ts)
         /\ \A k \in 1..Len(ts) : Spellings(ts)[k] = Spelling(ts[k])
<1> DEFINE n == Len(ts)
<1>1. n \in Nat /\ DOMAIN ts = 1..n
  BY LenProperties
<1>2. Spellings(ts) = [k \in 1..n |-> Spelling(ts[k])]
  BY <1>1 DEF Spellings
<1> HIDE DEF n
<1>3. \A k \in 1..n : Spellings(ts)[k] = Spelling(ts[k])
  BY <1>2
<1>4. Spellings(ts) \in [1..n -> Seq(U)]
  BY <1>2 DEF n
<1>5. Spellings(ts) \in Seq(Seq(U))
  BY <1>1, <1>4, SeqDef
<1>6. Len(Spellings(ts)) = n
  BY <1>1, <1>4
<1> QED
  BY <1>3, <1>5, <1>6 DEF n

LEMMA SpeltCons ==
  ASSUME NEW U, NEW K, NEW t \in K, NEW r \in Seq(K), Spelling(t) \in Seq(U),
         \A k \in 1..Len(r) : Spelling(r[k]) \in Seq(U)
  PROVE  Spelt(<<t>> \o r) = Spelling(t) \o Spelt(r)
<1> DEFINE n == Len(r)
           all == <<t>> \o r
           a == Spelling(t)
<1>1. n \in Nat /\ <<t>> \in Seq(K) /\ Len(<<t>>) = 1 /\ <<t>>[1] = t
  BY LenProperties
<1>2. /\ all \in Seq(K) /\ Len(all) = 1 + n
      /\ \A k \in 1..(1 + n) : all[k] = IF k <= 1 THEN <<t>>[k] ELSE r[k - 1]
  BY <1>1, ConcatProperties
<1> HIDE DEF all, n
<1>3. \A k \in 1..(1 + n) : all[k] = IF k = 1 THEN t ELSE r[k - 1]
  BY <1>1, <1>2
<1>4. \A k \in 1..Len(all) : Spelling(all[k]) \in Seq(U)
  <2> TAKE k \in 1..Len(all)
  <2>1. CASE k = 1
    BY <1>2, <1>3, <2>1
  <2>2. CASE k # 1
    <3>1. k - 1 \in 1..n /\ all[k] = r[k - 1]
      BY <1>1, <1>2, <1>3, <2>2
    <3> QED
      BY <3>1 DEF n
  <2> QED
    BY <2>1, <2>2
<1>5. /\ Spellings(all) \in Seq(Seq(U)) /\ Len(Spellings(all)) = 1 + n
      /\ \A k \in 1..(1 + n) : Spellings(all)[k] = Spelling(all[k])
  BY <1>2, <1>4, SpellingsTyped
<1>6. /\ Spellings(r) \in Seq(Seq(U)) /\ Len(Spellings(r)) = n
      /\ \A k \in 1..n : Spellings(r)[k] = Spelling(r[k])
  BY SpellingsTyped DEF n
<1> DEFINE both == <<a>> \o Spellings(r)
<1>7. a \in Seq(U)
  OBVIOUS
<1> HIDE DEF a
<1>8. <<a>> \in Seq(Seq(U)) /\ Len(<<a>>) = 1 /\ <<a>>[1] = a
  BY <1>7
<1>9. /\ both \in Seq(Seq(U)) /\ Len(both) = 1 + n
      /\ \A k \in 1..(1 + n) : both[k] = IF k <= 1 THEN <<a>>[k] ELSE Spellings(r)[k - 1]
  BY <1>6, <1>8, ConcatProperties
<1> HIDE DEF both
<1>10. \A k \in 1..(1 + n) : Spellings(all)[k] = both[k]
  <2> TAKE k \in 1..(1 + n)
  <2>1. CASE k = 1
    <3>1. Spellings(all)[k] = Spelling(t)
      BY <1>3, <1>5, <2>1
    <3>2. both[k] = <<a>>[1]
      BY <1>9, <2>1
    <3> QED
      BY <1>8, <3>1, <3>2 DEF a
  <2>2. CASE k # 1
    <3>1. k - 1 \in 1..n /\ ~(k <= 1)
      BY <1>1, <2>2
    <3>2. Spellings(all)[k] = Spelling(r[k - 1])
      BY <1>3, <1>5, <2>2
    <3>3. both[k] = Spellings(r)[k - 1]
      BY <1>9, <3>1
    <3> QED
      BY <1>6, <3>1, <3>2, <3>3
  <2> QED
    BY <2>1, <2>2
<1>11. Spellings(all) = both
  <2>1. Len(Spellings(all)) = Len(both)
    BY <1>5, <1>9
  <2>2. \A k \in 1..Len(Spellings(all)) : Spellings(all)[k] = both[k]
    BY <1>5, <1>10
  <2> QED
    BY <1>5, <1>9, <2>1, <2>2, SeqEqual
<1>12. FlattenSeq(both) = a \o FlattenSeq(Spellings(r))
  BY <1>6, <1>7, FlattenCons DEF both
<1> QED
  BY <1>11, <1>12 DEF Spelt, Spellings, a, all

-----------------------------------------------------------------------------
Clean(ts) == \A k \in DOMAIN ts : ts[k][1] # "ERROR"

\* Tokens that spell row, with the mark of the end only there.
Spells(ts, row, U) ==
  /\ Spelt(ts) = row
  /\ \A k \in 1..Len(ts) : /\ IsToken(ts[k]) /\ Spelling(ts[k]) \in Seq(U)
                           /\ ts[k][1] = "STRING" => ts[k][2] # None
                           /\ ts[k][1] = "EOF" => k = Len(ts)

LEMMA EndSpells ==
  ASSUME NEW U
  PROVE  Spells(<<Eof>>, <<>>, U)
<1>1. Eof[1] = "EOF" /\ IsToken(Eof)
  BY DEF Eof, IsToken, Valued
<1>2. Spelling(Eof) = <<>>
  BY <1>1, WordsApart DEF Spelling, Valued, Operators
<1> HIDE DEF Eof
<1> DEFINE ts == <<Eof>>
<1>3. ts \in Seq({Eof}) /\ Len(ts) = 1 /\ ts[1] = Eof
  OBVIOUS
<1>4. <<>> \in Seq(U)
  BY EmptySeq
<1> HIDE DEF ts
<1>5. \A k \in 1..Len(ts) : k = 1 /\ ts[k] = Eof
  BY <1>3
<1>6. \A k \in 1..Len(ts) : Spelling(ts[k]) \in Seq(U)
  BY <1>2, <1>4, <1>5
<1>7. /\ Spellings(ts) \in Seq(Seq(U)) /\ Len(Spellings(ts)) = 1
      /\ \A k \in 1..1 : Spellings(ts)[k] = Spelling(ts[k])
  BY <1>3, <1>6, SpellingsTyped
<1>8. Spellings(ts)[1] = <<>>
  BY <1>2, <1>3, <1>7
<1>9. PICK f : /\ FlattenSeq(Spellings(ts)) = f[Len(Spellings(ts))]
               /\ \A k \in 1..Len(Spellings(ts)) :
                    f[k] = IF k = 1 THEN Spellings(ts)[k] ELSE f[k - 1] \o Spellings(ts)[k]
  BY <1>7, FlattenFound
<1>10. Spelt(ts) = <<>>
  BY <1>7, <1>8, <1>9 DEF Spelt, Spellings
<1> QED
  BY <1>1, <1>3, <1>5, <1>6, <1>10 DEF Spells, ts

\* One more token before others.
LEMMA SpellsCons ==
  ASSUME NEW U, NEW K, NEW t \in K, NEW r \in Seq(K), NEW row, Spells(r, row, U),
         Len(r) \in Nat \ {0}, IsToken(t), Spelling(t) \in Seq(U), t[1] # "EOF",
         t[1] = "STRING" => t[2] # None
  PROVE  Spells(<<t>> \o r, Spelling(t) \o row, U)
<1> DEFINE n == Len(r)
           all == <<t>> \o r
<1>1. n \in Nat \ {0} /\ <<t>> \in Seq(K) /\ Len(<<t>>) = 1 /\ <<t>>[1] = t
  OBVIOUS
<1>2. /\ all \in Seq(K) /\ Len(all) = 1 + n
      /\ \A k \in 1..(1 + n) : all[k] = IF k <= 1 THEN <<t>>[k] ELSE r[k - 1]
  BY <1>1, ConcatProperties
<1>3. Spelt(all) = Spelling(t) \o row
  BY SpeltCons DEF Spells
<1> HIDE DEF all
<1>4. ASSUME NEW k \in 1..Len(all)
      PROVE  /\ IsToken(all[k]) /\ Spelling(all[k]) \in Seq(U)
             /\ all[k][1] = "STRING" => all[k][2] # None
             /\ all[k][1] = "EOF" => k = Len(all)
  <2>1. CASE k = 1
    <3>1. all[k] = t
      BY <1>1, <1>2, <2>1
    <3> QED
      BY <3>1
  <2>2. CASE k # 1
    <3>1. k - 1 \in 1..n /\ all[k] = r[k - 1] /\ Len(all) = 1 + n
      BY <1>1, <1>2, <2>2
    <3>2. k - 1 = n => k = 1 + n
      BY <1>1
    <3> QED
      BY <3>1, <3>2 DEF Spells
  <2> QED
    BY <2>1, <2>2
<1> QED
  BY <1>3, <1>4 DEF Spells, all

\* The pieces that are no blanks, each in a row of its own.
Parts(pieces) ==
  [k \in DOMAIN pieces |-> IF pieces[k] = Blank THEN <<>> ELSE <<Capital(pieces[k])>>]

Capitals(pieces) == {Capital(pieces[k]) : k \in 1..Len(pieces)}

PlainFrom(pieces, i) == FlattenSeq(SubSeq(Parts(pieces), i, Len(pieces)))

LEMMA PartsTyped ==
  ASSUME NEW pieces, IsText(pieces)
  PROVE  /\ Parts(pieces) \in Seq(Seq(Capitals(pieces))) /\ Len(Parts(pieces)) = Len(pieces)
         /\ \A k \in 1..Len(pieces) :
              Parts(pieces)[k] = IF pieces[k] = Blank THEN <<>> ELSE <<Capital(pieces[k])>>
<1> DEFINE L == Len(pieces)
           U == Capitals(pieces)
           P == Parts(pieces)
<1>1. L \in Nat /\ DOMAIN pieces = 1..L
  BY DEF IsText
<1>2. \A k \in 1..L : Capital(pieces[k]) \in U
  BY DEF Capitals
<1>3. P = [k \in 1..L |-> IF pieces[k] = Blank THEN <<>> ELSE <<Capital(pieces[k])>>]
  BY <1>1 DEF Parts
<1> HIDE DEF L, U, P
<1>4. <<>> \in Seq(U) /\ \A x \in U : <<x>> \in Seq(U)
  BY EmptySeq
<1>5. \A k \in 1..L : P[k] = IF pieces[k] = Blank THEN <<>> ELSE <<Capital(pieces[k])>>
  BY <1>3
<1>6. \A k \in 1..L : P[k] \in Seq(U)
  BY <1>2, <1>4, <1>5
<1>7. P \in [1..L -> Seq(U)]
  BY <1>3, <1>6
<1>8. P \in Seq(Seq(U)) /\ Len(P) = L
  BY <1>1, <1>7, SeqDef
<1> QED
  BY <1>5, <1>8 DEF P, L, U

LEMMA PlainStep ==
  ASSUME NEW pieces, IsText(pieces), NEW i \in 1..Len(pieces)
  PROVE  /\ PlainFrom(pieces, i + 1) \in Seq(Capitals(pieces))
         /\ PlainFrom(pieces, i) = IF pieces[i] = Blank THEN PlainFrom(pieces, i + 1)
                                   ELSE <<Capital(pieces[i])>> \o PlainFrom(pieces, i + 1)
<1> DEFINE U == Capitals(pieces)
           P == Parts(pieces)
           later == PlainFrom(pieces, i + 1)
<1>1. P \in Seq(Seq(U)) /\ Len(P) = Len(pieces)
  BY PartsTyped
<1>2. P[i] = IF pieces[i] = Blank THEN <<>> ELSE <<Capital(pieces[i])>>
  BY PartsTyped
<1> HIDE DEF P, U, later
<1>3. PlainFrom(pieces, i) = P[i] \o later /\ later \in Seq(U)
  BY <1>1, FlattenFrom DEF PlainFrom, P, later
<1>4. <<>> \o later = later
  BY <1>3, ConcatEmptySeq
<1> QED
  BY <1>2, <1>3, <1>4 DEF later, U

LEMMA PlainEnds ==
  ASSUME NEW pieces, IsText(pieces)
  PROVE  /\ PlainFrom(pieces, Len(pieces) + 1) = <<>>
         /\ PlainFrom(pieces, 1) = Plain(pieces)
<1> DEFINE L == Len(pieces)
           P == Parts(pieces)
<1>1. P \in Seq(Seq(Capitals(pieces))) /\ Len(P) = L /\ L \in Nat
  BY PartsTyped DEF IsText
<1> HIDE DEF P
<1>2. SubSeq(P, L + 1, L) = <<>>
  BY <1>1, SubSeqEmpty
<1>3. SubSeq(P, 1, L) = P
  BY <1>1, SubSeqFull
<1>4. FlattenSeq(<<>>) = <<>>
  BY DEF FlattenSeq
<1> QED
  BY <1>2, <1>3, <1>4 DEF PlainFrom, Plain, Parts, P

LEMMA TwoInARow ==
  ASSUME NEW c, NEW e
  PROVE  <<c>> \o <<e>> = <<c, e>>
<1> DEFINE S == {c, e}
           s == <<c>> \o <<e>>
<1>1. /\ <<c>> \in Seq(S) /\ <<e>> \in Seq(S) /\ <<c, e>> \in Seq(S)
      /\ Len(<<c>>) = 1 /\ Len(<<e>>) = 1 /\ Len(<<c, e>>) = 2
  OBVIOUS
<1>2. /\ s \in Seq(S) /\ Len(s) = 1 + 1
      /\ \A k \in 1..(1 + 1) : s[k] = IF k <= 1 THEN <<c>>[k] ELSE <<e>>[k - 1]
  BY <1>1, ConcatProperties
<1> HIDE DEF s
<1>3. s[1] = c /\ s[2] = e
  BY <1>2
<1>4. \A k \in 1..Len(s) : s[k] = <<c, e>>[k]
  <2>1. \A k \in 1..Len(s) : k = 1 \/ k = 2
    BY <1>2
  <2> QED
    BY <1>3, <2>1
<1>5. Len(s) = Len(<<c, e>>)
  BY <1>1, <1>2
<1> HIDE DEF S
<1>6. s = <<c, e>>
  BY <1>1, <1>2, <1>4, <1>5, SeqEqual
<1> QED
  BY <1>6 DEF s

\* What the lexer makes of the pieces from i on, if no token is an error, spells
\* them without their blanks.
LEMMA RestSpells ==
  ASSUME NEW pieces, IsText(pieces), IsOrdinary(pieces), NEW f, IsRest(f, pieces, 1)
  PROVE  \A i \in 1..(Len(pieces) + 1) :
           Clean(f[i]) => Spells(f[i], PlainFrom(pieces, i), Capitals(pieces))
<1> DEFINE L == Len(pieces)
           U == Capitals(pieces)
           K == Tokens(pieces)
           P(i) == Clean(f[i]) => Spells(f[i], PlainFrom(pieces, i), U)
           S == {n \in Nat : \A i \in 1..(L + 1) : i + n >= L + 1 => P(i)}
<1>0. L \in Nat
  BY DEF IsText
<1>1. \A i \in 1..(L + 1) : f[i] = RestAt(f, pieces, i)
  BY DEF IsRest
<1>2. \A i \in 1..(L + 1) :
        f[i] \in Seq(K) /\ Len(f[i]) \in Nat \ {0} /\ DOMAIN f[i] = 1..Len(f[i])
  BY <1>0, RestsTokenized, LenProperties DEF Tokenized
<1>3. \A i \in 1..L : Capital(pieces[i]) \in U
  BY DEF Capitals
<1>4. P(L + 1)
  <2>1. f[L + 1] = <<Eof>>
    <3>1. L + 1 \in 1..(L + 1) /\ L + 1 > L
      BY <1>0
    <3>2. f[L + 1] = RestAt(f, pieces, L + 1)
      BY <1>1, <3>1
    <3> QED
      BY <3>1, <3>2 DEF RestAt
  <2> QED
    BY <2>1, PlainEnds, EndSpells
<1>5. ASSUME NEW i \in 1..L, P(i + 1), Two(pieces, i) => P(i + 2)
      PROVE  P(i)
  <2>0. f[i] = RestAt(f, pieces, i) /\ ~(i > L)
    BY <1>0, <1>1
  <2>1. CASE pieces[i] = Blank
    <3>1. f[i] = f[i + 1]
      BY <2>0, <2>1 DEF RestAt
    <3>2. PlainFrom(pieces, i) = PlainFrom(pieces, i + 1)
      BY <2>1, PlainStep
    <3> QED
      BY <1>5, <3>1, <3>2
  <2>2. CASE pieces[i] # Blank
    <3> SUFFICES ASSUME Clean(f[i]) PROVE Spells(f[i], PlainFrom(pieces, i), U)
      OBVIOUS
    <3> DEFINE t == TokenAt(pieces, i)
               j == IF Two(pieces, i) THEN i + 2 ELSE i + 1
               r == f[j]
               row == PlainFrom(pieces, j)
    <3>1. f[i] = <<t>> \o r
      BY <2>0, <2>2 DEF RestAt
    <3>2. t \in K /\ j \in 1..(L + 1)
      BY <1>0 DEF Tokens, Two
    <3>3. r \in Seq(K) /\ Len(r) \in Nat \ {0} /\ DOMAIN r = 1..Len(r)
      BY <1>2, <3>2
    <3>4. P(j)
      BY <1>5
    <3> HIDE DEF K, t, U
    <3>5. t[1] # "ERROR" /\ Clean(r)
      <4> HIDE DEF r, j
      <4>1. <<t>> \in Seq(K) /\ Len(<<t>>) = 1 /\ <<t>>[1] = t
        BY <3>2
      <4>2. /\ <<t>> \o r \in Seq(K) /\ Len(<<t>> \o r) = 1 + Len(r)
            /\ \A k \in 1..(1 + Len(r)) : (<<t>> \o r)[k] = IF k <= 1 THEN <<t>>[k] ELSE r[k - 1]
        BY <3>3, <4>1, ConcatProperties
      <4>3. \A k \in 1..(1 + Len(r)) : f[i][k][1] # "ERROR"
        <5>1. DOMAIN f[i] = 1..(1 + Len(r))
          BY <3>1, <4>2, LenProperties
        <5> QED
          BY <5>1 DEF Clean
      <4>4. f[i][1] = t /\ \A k \in 1..Len(r) : f[i][k + 1] = r[k]
        <5>1. 1 \in 1..(1 + Len(r))
          BY <3>3
        <5>2. \A k \in 1..Len(r) : k + 1 \in 1..(1 + Len(r)) /\ ~(k + 1 <= 1) /\ (k + 1) - 1 = k
          BY <3>3
        <5> QED
          BY <3>1, <4>1, <4>2, <5>1, <5>2
      <4>5. 1 \in 1..(1 + Len(r)) /\ \A k \in 1..Len(r) : k + 1 \in 1..(1 + Len(r))
        BY <3>3
      <4> QED
        BY <3>3, <4>3, <4>4, <4>5 DEF Clean
    <3>6. Spells(r, row, U)
      BY <3>4, <3>5
    <3>7. Says(t, pieces, i)
      BY <3>5, TokenSays DEF t
    <3> HIDE DEF r, j, row
    <3> DEFINE c == Capital(pieces[i])
               e == Capital(pieces[i + 1])
    <3>8. Spelling(t) \in Seq(U) /\ PlainFrom(pieces, i) = Spelling(t) \o row
      <4>1. PlainFrom(pieces, i) = <<c>> \o PlainFrom(pieces, i + 1)
        BY <2>2, PlainStep
      <4>2. CASE Two(pieces, i)
        <5>1. Spelling(t) = <<c, e>> /\ i + 1 \in 1..L /\ pieces[i + 1] # Blank
          BY <3>7, <4>2 DEF Says
        <5>2. (i + 1) + 1 = i + 2 /\ j = i + 2
          BY <4>2 DEF j
        <5>3. PlainFrom(pieces, i + 1) = <<e>> \o row /\ row \in Seq(U)
          BY <5>1, <5>2, PlainStep DEF row, U
        <5>4. c \in U /\ e \in U
          BY <1>3, <5>1 DEF U
        <5> HIDE DEF c, e
        <5>5. <<c>> \in Seq(U) /\ <<e>> \in Seq(U) /\ <<c, e>> \in Seq(U)
          BY <5>4
        <5>6. <<c>> \o <<e>> = <<c, e>>
          BY TwoInARow
        <5>7. (<<c>> \o <<e>>) \o row = <<c>> \o (<<e>> \o row)
          BY <5>3, <5>5, ConcatAssociative
        <5> QED
          BY <4>1, <5>1, <5>3, <5>5, <5>6, <5>7
      <4>3. CASE ~Two(pieces, i)
        <5>1. Spelling(t) = <<c>> /\ j = i + 1
          BY <3>7, <4>3 DEF Says, j
        <5>2. c \in U
          BY <1>3 DEF U
        <5> HIDE DEF c
        <5> QED
          BY <4>1, <5>1, <5>2 DEF row
      <4> QED
        BY <4>2, <4>3
    <3>9. Spells(<<t>> \o r, Spelling(t) \o row, U)
      BY <3>2, <3>3, <3>6, <3>7, <3>8, SpellsCons DEF Says
    <3> QED
      BY <3>1, <3>8, <3>9
  <2> QED
    BY <2>1, <2>2
<1> HIDE DEF P
<1>6. 0 \in S
  <2>1. \A i \in 1..(L + 1) : i + 0 >= L + 1 => i = L + 1
    BY <1>0
  <2> QED
    BY <1>4, <2>1
<1>7. ASSUME NEW n \in Nat, n \in S PROVE n + 1 \in S
  <2> SUFFICES ASSUME NEW i \in 1..(L + 1), i + (n + 1) >= L + 1 PROVE P(i)
    OBVIOUS
  <2>1. CASE i = L + 1
    BY <1>4, <2>1
  <2>2. CASE i # L + 1
    <3>1. /\ i \in 1..L /\ i + 1 \in 1..(L + 1) /\ (i + 1) + n >= L + 1
      BY <1>0, <2>2
    <3>2. Two(pieces, i) => i + 2 \in 1..(L + 1) /\ (i + 2) + n >= L + 1
      BY <1>0, <3>1 DEF Two
    <3>3. P(i + 1) /\ (Two(pieces, i) => P(i + 2))
      BY <1>7, <3>1, <3>2
    <3> QED
      BY <1>5, <3>1, <3>3
  <2> QED
    BY <2>1, <2>2
<1> HIDE DEF S
<1>8. L \in S
  BY <1>0, <1>6, <1>7, NatSet
<1>9. \A i \in 1..(L + 1) : i + L >= L + 1
  BY <1>0
<1> QED
  BY <1>8, <1>9 DEF S, P

LEMMA TextSpelt ==
  ASSUME NEW pieces, IsText(pieces), IsOrdinary(pieces), Clean(Tokenize(pieces))
  PROVE  Spells(Tokenize(pieces), Plain(pieces), Capitals(pieces))
<1> DEFINE f == CHOOSE g : IsRest(g, pieces, 1)
<1>0. Len(pieces) \in Nat
  BY DEF IsText
<1>1. IsRest(f, pieces, 1)
  BY <1>0, RestExists
<1>2. Tokenize(pieces) = f[1]
  BY TokenizeIsRest
<1> HIDE DEF f
<1>3. 1 \in 1..(Len(pieces) + 1)
  BY <1>0
<1> QED
  BY <1>1, <1>2, <1>3, RestSpells, PlainEnds

-----------------------------------------------------------------------------
(* The tokens a part of the parser takes *)

Elements(ts) == {ts[k] : k \in 1..Len(ts)}

\* The tokens of an ordinary text.
Parsable(ts) ==
  /\ IsTokens(ts) /\ ts \in Seq(Elements(ts))
  /\ \A k \in 1..Len(ts) : /\ IsToken(ts[k])
                           /\ ts[k][1] = "STRING" => ts[k][2] # None
                           /\ ts[k][1] = "EOF" => k = Len(ts)

\* From position p to before position at there is row.
Takes(ts, p, row, at) ==
  /\ p \in Nat \ {0} /\ at \in p..Len(ts)
  /\ row = SubSeq(ts, p, at - 1)

LEMMA ElementAt ==
  ASSUME NEW ts, Parsable(ts), NEW p \in Nat \ {0}, p <= Len(ts)
  PROVE  ts[p] \in Elements(ts)
<1>0. Len(ts) \in Nat
  BY DEF Parsable, IsTokens
<1>1. p \in 1..Len(ts)
  BY <1>0
<1> QED
  BY <1>1 DEF Elements

LEMMA RowTaken ==
  ASSUME NEW ts, Parsable(ts), NEW p \in Nat \ {0}, NEW n \in Nat, p + n <= Len(ts),
         NEW s \in Seq(Elements(ts)), Len(s) = n, \A k \in 1..n : s[k] = ts[p + k - 1]
  PROVE  Takes(ts, p, s, p + n)
<1> DEFINE E == Elements(ts)
           r == SubSeq(ts, p, (p + n) - 1)
<1>0. Len(ts) \in Nat
  BY DEF Parsable, IsTokens
<1>1. \A k \in p..((p + n) - 1) : ts[k] \in E
  BY <1>0, ElementAt
<1> HIDE DEF E
<1>3. r \in Seq(E) /\ Len(r) = n /\ \A k \in 1..n : r[k] = ts[p + k - 1]
  <2> DEFINE m == (p + n) - 1
  <2>1. m \in Int /\ p \in Int /\ m - p + 1 = n /\ (p <= m \/ n = 0) /\ (p <= m => n # 0)
    OBVIOUS
  <2>2. \A k \in p..m : ts[k] \in E
    BY <1>1
  <2> HIDE DEF m
  <2>3. /\ SubSeq(ts, p, m) \in Seq(E)
        /\ Len(SubSeq(ts, p, m)) = IF p <= m THEN m - p + 1 ELSE 0
        /\ \A k \in 1..(m - p + 1) : SubSeq(ts, p, m)[k] = ts[p + k - 1]
    BY <2>1, <2>2, SubSeqProperties
  <2> QED
    BY <2>1, <2>3 DEF m
<1> HIDE DEF r
<1>4. s = r
  BY <1>3, SeqEqual DEF E
<1>5. p + n \in p..Len(ts)
  BY <1>0
<1> QED
  BY <1>4, <1>5 DEF Takes, r

LEMMA NothingTaken ==
  ASSUME NEW ts, Parsable(ts), NEW p \in Nat \ {0}, p <= Len(ts)
  PROVE  Takes(ts, p, <<>>, p)
<1>1. <<>> \in Seq(Elements(ts)) /\ Len(<<>>) = 0
  BY EmptySeq
<1>2. p + 0 = p /\ \A k \in 1..0 : <<>>[k] = ts[p + k - 1]
  OBVIOUS
<1> QED
  BY <1>1, <1>2, RowTaken

LEMMA TakenInTurn ==
  ASSUME NEW ts, Parsable(ts), NEW p, NEW a, NEW m, Takes(ts, p, a, m),
         NEW b, NEW at, Takes(ts, m, b, at)
  PROVE  Takes(ts, p, a \o b, at)
<1> DEFINE E == Elements(ts)
<1>0. /\ Len(ts) \in Nat /\ p \in Nat \ {0} /\ m \in p..Len(ts) /\ at \in m..Len(ts)
      /\ a = SubSeq(ts, p, m - 1) /\ b = SubSeq(ts, m, at - 1) /\ ts \in Seq(E)
  BY DEF Takes, Parsable, IsTokens
<1> HIDE DEF E
<1>1. SubSeq(ts, p, m - 1) \o SubSeq(ts, (m - 1) + 1, at - 1) = SubSeq(ts, p, at - 1)
  <2>1. p \in 1..(Len(ts) + 1) /\ m - 1 \in (p - 1)..Len(ts) /\ at - 1 \in (m - 1)..Len(ts)
    BY <1>0
  <2> QED
    BY <1>0, <2>1, ConcatAdjacentSubSeq
<1>2. (m - 1) + 1 = m /\ at \in p..Len(ts)
  BY <1>0
<1> QED
  BY <1>0, <1>1, <1>2 DEF Takes

LEMMA TwoTaken ==
  ASSUME NEW ts, Parsable(ts), NEW p \in Nat \ {0}, p + 2 <= Len(ts)
  PROVE  Takes(ts, p, <<ts[p], ts[p + 1]>>, p + 2)
<1> DEFINE s == <<ts[p], ts[p + 1]>>
           E == Elements(ts)
<1>0. Len(ts) \in Nat
  BY DEF Parsable, IsTokens
<1>1. /\ ts[p] \in E /\ ts[p + 1] \in E
  BY <1>0, ElementAt
<1>2. s \in Seq(E) /\ Len(s) = 2
  <2> HIDE DEF E
  <2> QED
    BY <1>1
<1>3. \A k \in 1..2 : s[k] = ts[p + k - 1]
  <2> TAKE k \in 1..2
  <2>1. k = 1 \/ k = 2
    OBVIOUS
  <2> QED
    BY <2>1
<1> HIDE DEF s, E
<1>4. Takes(ts, p, s, p + 2)
  BY <1>2, <1>3, RowTaken DEF E
<1> QED
  BY <1>4 DEF s

LEMMA ThreeTaken ==
  ASSUME NEW ts, Parsable(ts), NEW p \in Nat \ {0}, p + 3 <= Len(ts)
  PROVE  Takes(ts, p, <<ts[p], ts[p + 1], ts[p + 2]>>, p + 3)
<1> DEFINE s == <<ts[p], ts[p + 1], ts[p + 2]>>
           E == Elements(ts)
<1>0. Len(ts) \in Nat
  BY DEF Parsable, IsTokens
<1>1. /\ ts[p] \in E /\ ts[p + 1] \in E /\ ts[p + 2] \in E
  BY <1>0, ElementAt
<1>2. s \in Seq(E) /\ Len(s) = 3
  <2> HIDE DEF E
  <2> QED
    BY <1>1
<1>3. \A k \in 1..3 : s[k] = ts[p + k - 1]
  <2> TAKE k \in 1..3
  <2>1. k = 1 \/ k = 2 \/ k = 3
    OBVIOUS
  <2> QED
    BY <2>1
<1> HIDE DEF s, E
<1>4. Takes(ts, p, s, p + 3)
  BY <1>2, <1>3, RowTaken DEF E
<1> QED
  BY <1>4 DEF s

LEMMA FourTaken ==
  ASSUME NEW ts, Parsable(ts), NEW p \in Nat \ {0}, p + 4 <= Len(ts)
  PROVE  Takes(ts, p, <<ts[p], ts[p + 1], ts[p + 2], ts[p + 3]>>, p + 4)
<1> DEFINE s == <<ts[p], ts[p + 1], ts[p + 2], ts[p + 3]>>
           E == Elements(ts)
<1>0. Len(ts) \in Nat
  BY DEF Parsable, IsTokens
<1>1. /\ ts[p] \in E /\ ts[p + 1] \in E /\ ts[p + 2] \in E
      /\ ts[p + 3] \in E
  BY <1>0, ElementAt
<1>2. s \in Seq(E) /\ Len(s) = 4
  <2> HIDE DEF E
  <2> QED
    BY <1>1
<1>3. \A k \in 1..4 : s[k] = ts[p + k - 1]
  <2> TAKE k \in 1..4
  <2>1. k = 1 \/ k = 2 \/ k = 3 \/ k = 4
    OBVIOUS
  <2> QED
    BY <2>1
<1> HIDE DEF s, E
<1>4. Takes(ts, p, s, p + 4)
  BY <1>2, <1>3, RowTaken DEF E
<1> QED
  BY <1>4 DEF s

LEMMA FiveTaken ==
  ASSUME NEW ts, Parsable(ts), NEW p \in Nat \ {0}, p + 5 <= Len(ts)
  PROVE  Takes(ts, p, <<ts[p], ts[p + 1], ts[p + 2], ts[p + 3], ts[p + 4]>>, p + 5)
<1> DEFINE s == <<ts[p], ts[p + 1], ts[p + 2], ts[p + 3], ts[p + 4]>>
           E == Elements(ts)
<1>0. Len(ts) \in Nat
  BY DEF Parsable, IsTokens
<1>1. /\ ts[p] \in E /\ ts[p + 1] \in E /\ ts[p + 2] \in E
      /\ ts[p + 3] \in E /\ ts[p + 4] \in E
  BY <1>0, ElementAt
<1>2. s \in Seq(E) /\ Len(s) = 5
  <2> HIDE DEF E
  <2> QED
    BY <1>1
<1>3. \A k \in 1..5 : s[k] = ts[p + k - 1]
  <2> TAKE k \in 1..5
  <2>1. k = 1 \/ k = 2 \/ k = 3 \/ k = 4 \/ k = 5
    OBVIOUS
  <2> QED
    BY <2>1
<1> HIDE DEF s, E
<1>4. Takes(ts, p, s, p + 5)
  BY <1>2, <1>3, RowTaken DEF E
<1> QED
  BY <1>4 DEF s

LEMMA SixTaken ==
  ASSUME NEW ts, Parsable(ts), NEW p \in Nat \ {0}, p + 6 <= Len(ts)
  PROVE  Takes(ts, p, <<ts[p], ts[p + 1], ts[p + 2], ts[p + 3], ts[p + 4], ts[p + 5]>>, p + 6)
<1> DEFINE s == <<ts[p], ts[p + 1], ts[p + 2], ts[p + 3], ts[p + 4], ts[p + 5]>>
           E == Elements(ts)
<1>0. Len(ts) \in Nat
  BY DEF Parsable, IsTokens
<1>1. /\ ts[p] \in E /\ ts[p + 1] \in E /\ ts[p + 2] \in E
      /\ ts[p + 3] \in E /\ ts[p + 4] \in E /\ ts[p + 5] \in E
  BY <1>0, ElementAt
<1>2. s \in Seq(E) /\ Len(s) = 6
  <2> HIDE DEF E
  <2> QED
    BY <1>1
<1>3. \A k \in 1..6 : s[k] = ts[p + k - 1]
  <2> TAKE k \in 1..6
  <2>1. k = 1 \/ k = 2 \/ k = 3 \/ k = 4 \/ k = 5 \/ k = 6
    OBVIOUS
  <2> QED
    BY <2>1
<1> HIDE DEF s, E
<1>4. Takes(ts, p, s, p + 6)
  BY <1>2, <1>3, RowTaken DEF E
<1> QED
  BY <1>4 DEF s

\* A token of the kind that is expected stands at its position.
LEMMA TokenTaken ==
  ASSUME NEW ts, Parsable(ts), NEW p \in Nat \ {0}, Kind(ts, p) # "EOF"
  PROVE  /\ p + 1 <= Len(ts)
         /\ Kind(ts, p) \in Valued => ts[p] = <<Kind(ts, p), ts[p][2]>>
         /\ Kind(ts, p) \notin Valued => ts[p] = <<Kind(ts, p)>>
         /\ Kind(ts, p) = "STRING" => ts[p][2] # None
         /\ Kind(ts, p) = "INTEGER" => ts[p][2] \in Nat
<1>1. p < Len(ts) /\ p \in DOMAIN ts /\ Kind(ts, p) = ts[p][1]
  BY KindAhead DEF Parsable
<1>2. Len(ts) \in Nat
  BY DEF Parsable, IsTokens
<1>3. p \in 1..Len(ts)
  BY <1>1, <1>2
<1>4. IsToken(ts[p]) /\ (ts[p][1] = "STRING" => ts[p][2] # None)
  BY <1>3 DEF Parsable
<1>5. ts[p][1] = "INTEGER" => ts[p][2] \in Nat
  BY <1>1 DEF Parsable, IsTokens
<1>6. p + 1 <= Len(ts)
  BY <1>1, <1>2
<1> QED
  BY <1>1, <1>4, <1>5, <1>6 DEF IsToken

LEMMA TimeTaken ==
  ASSUME NEW ts, Parsable(ts), NEW p \in Nat \ {0}, p <= Len(ts), ParseTimeClause(ts, p).ok
  PROVE  Takes(ts, p, TimeTokens(ParseTimeClause(ts, p).val), ParseTimeClause(ts, p).at)
<1> DEFINE r == ParseTimeClause(ts, p)
           word == Kind(ts, p)
<1>1. CASE word \notin {"AT", "BEFORE", "AFTER"}
  <2>1. r = Got(<<>>, p)
    BY <1>1 DEF ParseTimeClause
  <2> HIDE DEF r
  <2>2. r.val = <<>> /\ r.at = p
    BY <2>1 DEF Got
  <2> QED
    BY <2>2, NothingTaken DEF TimeTokens, r
<1>2. CASE word \in {"AT", "BEFORE", "AFTER"}
  <2>1. Expect(ts, p + 1, <<"STRING">>) /\ r = Got(<<word, ts[p + 1][2]>>, p + 2)
    BY <1>2 DEF ParseTimeClause, Failed
  <2>2. Kind(ts, p + 1) = "STRING"
    BY <2>1 DEF Expect
  <2>3. ts[p] = <<word>>
    BY <1>2, TokenTaken DEF Valued
  <2>4. ts[p + 1] = <<"STRING", ts[p + 1][2]>> /\ p + 2 <= Len(ts)
    BY <2>2, TokenTaken DEF Valued
  <2> HIDE DEF r
  <2>5. r.val = <<word, ts[p + 1][2]>> /\ r.at = p + 2
    BY <2>1 DEF Got
  <2>6. TimeTokens(r.val) = << <<word>>, <<"STRING", ts[p + 1][2]>> >>
    BY <2>5 DEF TimeTokens
  <2>7. TimeTokens(r.val) = <<ts[p], ts[p + 1]>>
    BY <2>3, <2>4, <2>6
  <2> QED
    BY <2>4, <2>5, <2>7, TwoTaken DEF r
<1> QED
  BY <1>1, <1>2

LEMMA LimitTaken ==
  ASSUME NEW ts, Parsable(ts), NEW p \in Nat \ {0}, p <= Len(ts), ParseLimit(ts, p).ok
  PROVE  Takes(ts, p, LimitTokens(ParseLimit(ts, p).val), ParseLimit(ts, p).at)
<1> DEFINE r == ParseLimit(ts, p)
<1>1. CASE Kind(ts, p) # "LIMIT"
  <2>1. r = Got(NoLimit, p)
    BY <1>1 DEF ParseLimit
  <2> HIDE DEF r
  <2>2. r.val = NoLimit /\ r.at = p
    BY <2>1 DEF Got
  <2> QED
    BY <2>2, NothingTaken DEF LimitTokens, r
<1>2. CASE Kind(ts, p) = "LIMIT"
  <2>1. Expect(ts, p + 1, <<"INTEGER">>) /\ r = Got(ts[p + 1][2], p + 2)
    BY <1>2 DEF ParseLimit, Failed
  <2>2. Kind(ts, p + 1) = "INTEGER"
    BY <2>1 DEF Expect
  <2>3. ts[p] = <<"LIMIT">>
    BY <1>2, TokenTaken DEF Valued
  <2>4. /\ ts[p + 1] = <<"INTEGER", ts[p + 1][2]>> /\ p + 2 <= Len(ts)
        /\ ts[p + 1][2] \in Nat
    BY <2>2, TokenTaken DEF Valued
  <2> HIDE DEF r
  <2>5. r.val = ts[p + 1][2] /\ r.at = p + 2
    BY <2>1 DEF Got
  <2>6. LimitTokens(r.val) = << <<"LIMIT">>, <<"INTEGER", ts[p + 1][2]>> >>
    BY <2>4, <2>5 DEF LimitTokens, NoLimit
  <2>7. LimitTokens(r.val) = <<ts[p], ts[p + 1]>>
    BY <2>3, <2>4, <2>6
  <2> QED
    BY <2>4, <2>5, <2>7, TwoTaken DEF r
<1> QED
  BY <1>1, <1>2

-----------------------------------------------------------------------------
(* The tokens of a filter *)

\* From token i on there are the terms of the filter, with AND between them.
TermsStand(ts, i, filter) ==
  \A j \in 1..Len(filter) :
    LET at == i + 4 * (j - 1)
    IN /\ ts[at] = <<"IDENT", filter[j].field>>
       /\ ts[at + 1] = <<filter[j].op>>
       /\ ts[at + 2] = filter[j].value
       /\ j # 1 => ts[at - 1] = <<"AND">>

\* A filter that ends before token r.at was read from token i on.
TermsRead(ts, i, r) ==
  r.ok => /\ r.val \in Seq(TermsOf(ts)) /\ Len(r.val) \in Nat \ {0}
          /\ r.at = i + 4 * Len(r.val) - 1 /\ r.at <= Len(ts)
          /\ TermsStand(ts, i, r.val)

LEMMA TermTaken ==
  ASSUME NEW ts, Parsable(ts), NEW i \in DOMAIN ts, IsTerm(ts, i)
  PROVE  /\ ts[i] = <<"IDENT", TermOf(ts, i).field>>
         /\ ts[i + 1] = <<TermOf(ts, i).op>>
         /\ ts[i + 2] = TermOf(ts, i).value
         /\ i + 3 <= Len(ts)
<1>0. DOMAIN ts = 1..Len(ts) /\ Len(ts) \in Nat
  BY DEF Parsable, IsTokens
<1>1. i \in Nat \ {0} /\ i + 1 \in Nat \ {0} /\ i + 2 \in Nat \ {0}
  BY <1>0
<1>2. Kind(ts, i) = "IDENT" /\ Kind(ts, i + 1) \in Operators /\ Kind(ts, i + 2) # "EOF"
  BY DEF IsTerm
<1>3. ts[i] = <<"IDENT", ts[i][2]>>
  BY <1>1, <1>2, TokenTaken DEF Valued
<1>4. ts[i + 1] = <<Kind(ts, i + 1)>>
  <2>1. Kind(ts, i + 1) \notin Valued /\ Kind(ts, i + 1) # "EOF"
    BY <1>2 DEF Operators, Valued
  <2> QED
    BY <1>1, <2>1, TokenTaken
<1>5. i + 3 <= Len(ts)
  BY <1>1, <1>2, TokenTaken
<1> QED
  BY <1>3, <1>4, <1>5 DEF TermOf

LEMMA OneTermRead ==
  ASSUME NEW ts, Parsable(ts), NEW i \in DOMAIN ts, IsTerm(ts, i)
  PROVE  TermsRead(ts, i, Got(<<TermOf(ts, i)>>, i + 3))
<1> DEFINE term == TermOf(ts, i)
           s == <<term>>
<1>1. /\ ts[i] = <<"IDENT", term.field>> /\ ts[i + 1] = <<term.op>>
      /\ ts[i + 2] = term.value /\ i + 3 <= Len(ts)
  BY TermTaken
<1>2. i \in Int /\ term \in TermsOf(ts)
  BY DEF Parsable, IsTokens, TermsOf
<1> HIDE DEF term
<1>3. s \in Seq(TermsOf(ts)) /\ Len(s) = 1 /\ s[1] = term
  BY <1>2
<1> HIDE DEF s
<1>4. TermsStand(ts, i, s)
  <2> SUFFICES ASSUME NEW j \in 1..Len(s)
               PROVE  LET at == i + 4 * (j - 1)
                      IN /\ ts[at] = <<"IDENT", s[j].field>>
                         /\ ts[at + 1] = <<s[j].op>>
                         /\ ts[at + 2] = s[j].value
                         /\ j # 1 => ts[at - 1] = <<"AND">>
    BY DEF TermsStand
  <2>1. j = 1 /\ i + 4 * (j - 1) = i
    BY <1>2, <1>3
  <2> QED
    BY <1>1, <1>3, <2>1
<1>5. i + 3 = i + 4 * 1 - 1
  BY <1>2
<1> QED
  BY <1>1, <1>3, <1>4, <1>5 DEF TermsRead, Got, s, term

LEMMA MoreTermsRead ==
  ASSUME NEW ts, Parsable(ts), NEW i \in DOMAIN ts, IsTerm(ts, i), Kind(ts, i + 3) = "AND",
         NEW r, r.ok, TermsRead(ts, i + 4, r)
  PROVE  TermsRead(ts, i, Got(<<TermOf(ts, i)>> \o r.val, r.at))
<1> DEFINE term == TermOf(ts, i)
           more == r.val
           n == Len(more)
           s == <<term>> \o more
           V == TermsOf(ts)
<1>1. /\ ts[i] = <<"IDENT", term.field>> /\ ts[i + 1] = <<term.op>> /\ ts[i + 2] = term.value
  BY TermTaken
<1>2. i \in Nat /\ i + 3 \in Nat \ {0} /\ term \in V
  BY DEF Parsable, IsTokens, TermsOf
<1>3. ts[i + 3] = <<"AND">>
  BY <1>2, TokenTaken DEF Valued
<1>4. /\ more \in Seq(V) /\ n \in Nat \ {0} /\ r.at = (i + 4) + 4 * n - 1 /\ r.at <= Len(ts)
      /\ TermsStand(ts, i + 4, more)
  BY DEF TermsRead
<1> HIDE DEF term, V, more
<1>5. <<term>> \in Seq(V) /\ Len(<<term>>) = 1 /\ <<term>>[1] = term
  BY <1>2
<1>6. /\ s \in Seq(V) /\ Len(s) = 1 + n
      /\ \A k \in 1..(1 + n) : s[k] = IF k <= 1 THEN <<term>>[k] ELSE more[k - 1]
  BY <1>4, <1>5, ConcatProperties
<1> HIDE DEF s
<1>7. ASSUME NEW j \in 1..Len(s)
      PROVE  LET at == i + 4 * (j - 1)
             IN /\ ts[at] = <<"IDENT", s[j].field>>
                /\ ts[at + 1] = <<s[j].op>>
                /\ ts[at + 2] = s[j].value
                /\ j # 1 => ts[at - 1] = <<"AND">>
  <2>1. CASE j = 1
    <3>1. s[j] = term /\ i + 4 * (j - 1) = i
      BY <1>2, <1>5, <1>6, <2>1
    <3> QED
      BY <1>1, <2>1, <3>1
  <2>2. CASE j # 1
    <3> DEFINE m == j - 1
               at == (i + 4) + 4 * (m - 1)
    <3>1. m \in 1..n /\ s[j] = more[m] /\ i + 4 * (j - 1) = at
      BY <1>2, <1>4, <1>6, <2>2
    <3>2. /\ ts[at] = <<"IDENT", more[m].field>>
          /\ ts[at + 1] = <<more[m].op>>
          /\ ts[at + 2] = more[m].value
          /\ m # 1 => ts[at - 1] = <<"AND">>
      BY <1>4, <3>1 DEF TermsStand
    <3>3. m = 1 => at - 1 = i + 3
      BY <1>2
    <3> HIDE DEF m, at
    <3> QED
      BY <1>3, <3>1, <3>2, <3>3
  <2> QED
    BY <2>1, <2>2
<1>8. TermsStand(ts, i, s)
  BY <1>7 DEF TermsStand
<1>9. r.at = i + 4 * (1 + n) - 1 /\ 1 + n \in Nat \ {0}
  BY <1>2, <1>4
<1> QED
  BY <1>4, <1>6, <1>8, <1>9 DEF TermsRead, Got, s, term, V, more

LEMMA FilterRead ==
  ASSUME NEW ts, Parsable(ts), NEW p \in Nat \ {0}, Kind(ts, p) = "WHERE"
  PROVE  TermsRead(ts, p + 1, ParseFilter(ts, p))
<1> DEFINE L == Len(ts)
           f == CHOOSE g : IsTerms(g, ts, 1)
           S == {n \in Nat : \A i \in 1..L : i + n >= L => TermsRead(ts, i, f[i])}
<1>0. L \in Nat \ {0} /\ DOMAIN ts = 1..L /\ IsTokens(ts)
  BY DEF Parsable, IsTokens
<1>1. IsTerms(f, ts, 1)
  BY <1>0, TermsExist
<1>2. ParseFilter(ts, p) = f[p + 1]
  BY <1>0, FilterIsTerms
<1> HIDE DEF f
<1>3. \A i \in 1..L : f[i] = TermsAt(f, ts, i)
  BY <1>1 DEF IsTerms
<1> HIDE DEF L
<1>4. ASSUME NEW i \in 1..L,
             IsTerm(ts, i) /\ Kind(ts, i + 3) = "AND" => TermsRead(ts, i + 4, f[i + 4])
      PROVE  TermsRead(ts, i, f[i])
  <2>1. f[i] = TermsAt(f, ts, i) /\ i \in DOMAIN ts
    BY <1>0, <1>3
  <2>2. CASE ~IsTerm(ts, i)
    BY <2>1, <2>2 DEF TermsAt, TermsRead, Failed
  <2>3. CASE IsTerm(ts, i) /\ Kind(ts, i + 3) # "AND"
    <3>1. f[i] = Got(<<TermOf(ts, i)>>, i + 3)
      BY <2>1, <2>3 DEF TermsAt
    <3> QED
      BY <2>1, <2>3, <3>1, OneTermRead
  <2>4. CASE IsTerm(ts, i) /\ Kind(ts, i + 3) = "AND" /\ f[i + 4].ok
    <3>1. f[i] = Got(<<TermOf(ts, i)>> \o f[i + 4].val, f[i + 4].at)
      BY <2>1, <2>4 DEF TermsAt
    <3> QED
      BY <1>4, <2>1, <2>4, <3>1, MoreTermsRead
  <2>5. CASE IsTerm(ts, i) /\ Kind(ts, i + 3) = "AND" /\ ~f[i + 4].ok
    <3>1. f[i] = Failed
      BY <2>1, <2>5 DEF TermsAt
    <3> QED
      BY <3>1 DEF TermsRead, Failed
  <2> QED
    BY <2>2, <2>3, <2>4, <2>5
<1>5. \A i \in 1..L : IsTerm(ts, i) /\ Kind(ts, i + 3) = "AND" => i + 4 \in 1..L
  BY <1>0, TermsMeet
<1>6. 0 \in S
  <2> SUFFICES ASSUME NEW i \in 1..L, i + 0 >= L PROVE TermsRead(ts, i, f[i])
    OBVIOUS
  <2>1. ~(i + 4 \in 1..L)
    BY <1>0
  <2> QED
    BY <1>4, <1>5, <2>1
<1>7. ASSUME NEW n \in Nat, n \in S PROVE n + 1 \in S
  <2> SUFFICES ASSUME NEW i \in 1..L, i + (n + 1) >= L PROVE TermsRead(ts, i, f[i])
    OBVIOUS
  <2>1. i + 4 \in 1..L => TermsRead(ts, i + 4, f[i + 4])
    <3>1. (i + 4) + n >= L
      BY <1>0
    <3> QED
      BY <1>7, <3>1
  <2> QED
    BY <1>4, <1>5, <2>1
<1> HIDE DEF S
<1>8. L \in S
  BY <1>0, <1>6, <1>7, NatSet
<1>9. \A i \in 1..L : TermsRead(ts, i, f[i])
  BY <1>0, <1>8 DEF S
<1>10. p + 1 \in 1..L
  BY <1>0, KindAhead
<1> QED
  BY <1>2, <1>9, <1>10

LEMMA FilterTaken ==
  ASSUME NEW ts, Parsable(ts), NEW p \in Nat \ {0}, p <= Len(ts), ParseFilter(ts, p).ok
  PROVE  Takes(ts, p, FilterTokens(ParseFilter(ts, p).val), ParseFilter(ts, p).at)
<1> DEFINE r == ParseFilter(ts, p)
           filter == r.val
           n == Len(filter)
           row == FilterTokens(filter)
           E == Elements(ts)
<1>0. Len(ts) \in Nat
  BY DEF Parsable, IsTokens
<1>1. row = [k \in 1..(4 * n) |->
               LET term == filter[(k + 3) \div 4]
               IN CASE k = 1              -> <<"WHERE">>
                    [] k % 4 = 1 /\ k # 1 -> <<"AND">>
                    [] k % 4 = 2          -> <<"IDENT", term.field>>
                    [] k % 4 = 3          -> <<term.op>>
                    [] k % 4 = 0          -> term.value]
  BY DEF FilterTokens
<1> HIDE DEF row
<1>2. CASE Kind(ts, p) # "WHERE"
  <2>1. r = Got(<<>>, p)
    BY <1>2 DEF ParseFilter
  <2> HIDE DEF r
  <2>2. filter = <<>> /\ r.at = p
    BY <2>1 DEF Got
  <2>3. n = 0
    BY <2>2
  <2> HIDE DEF filter, n
  <2>4. row \in [1..0 -> E]
    BY <1>1, <2>3
  <2>5. row \in Seq(E) /\ Len(row) = 0
    BY <2>4, SeqDef
  <2>6. row = <<>>
    BY <2>5, EmptySeq
  <2>7. Takes(ts, p, row, p)
    BY <2>6, NothingTaken
  <2> QED
    BY <2>2, <2>7 DEF row, r, filter
<1>3. CASE Kind(ts, p) = "WHERE"
  <2>1. TermsRead(ts, p + 1, r)
    BY <1>3, FilterRead
  <2>2. ts[p] = <<"WHERE">>
    BY <1>3, TokenTaken DEF Valued
  <2>3. /\ n \in Nat \ {0} /\ r.at = (p + 1) + 4 * n - 1 /\ r.at <= Len(ts)
        /\ TermsStand(ts, p + 1, filter)
    BY <2>1 DEF TermsRead
  <2> HIDE DEF r, n, filter
  <2>4. r.at = p + 4 * n /\ 4 * n \in Nat
    BY <2>3
  <2>5. ASSUME NEW k \in 1..(4 * n) PROVE row[k] = ts[p + k - 1]
    <3> DEFINE j == (k + 3) \div 4
               term == filter[j]
               at == (p + 1) + 4 * (j - 1)
    <3>1. /\ j \in 1..n /\ k \in (4 * (j - 1) + 1)..(4 * (j - 1) + 4)
      BY <2>3
    <3>2. /\ ts[at] = <<"IDENT", term.field>>
          /\ ts[at + 1] = <<term.op>>
          /\ ts[at + 2] = term.value
          /\ j # 1 => ts[at - 1] = <<"AND">>
      BY <2>3, <3>1 DEF TermsStand, n
    <3>3. row[k] = CASE k = 1              -> <<"WHERE">>
                     [] k % 4 = 1 /\ k # 1 -> <<"AND">>
                     [] k % 4 = 2          -> <<"IDENT", term.field>>
                     [] k % 4 = 3          -> <<term.op>>
                     [] k % 4 = 0          -> term.value
      BY <1>1
    <3>4. CASE k = 4 * (j - 1) + 1
      <4>1. /\ k % 4 = 1 /\ at - 1 = p + k - 1 /\ (k = 1 => j = 1 /\ p + k - 1 = p)
            /\ (k # 1 => j # 1)
        BY <3>1, <3>4
      <4> HIDE DEF j, term, at
      <4> QED
        <5>1. CASE k = 1
          BY <2>2, <3>3, <4>1, <5>1
        <5>2. CASE k # 1
          <6>1. row[k] = <<"AND">>
            BY <3>3, <4>1, <5>2
          <6> QED
            BY <3>2, <4>1, <5>2, <6>1
        <5> QED
          BY <5>1, <5>2
    <3>5. CASE k = 4 * (j - 1) + 2
      <4>1. k % 4 = 2 /\ at = p + k - 1 /\ k # 1
        BY <3>1, <3>5
      <4> HIDE DEF j, term, at
      <4> QED
        BY <3>2, <3>3, <4>1
    <3>6. CASE k = 4 * (j - 1) + 3
      <4>1. k % 4 = 3 /\ at + 1 = p + k - 1 /\ k # 1
        BY <3>1, <3>6
      <4> HIDE DEF j, term, at
      <4> QED
        BY <3>2, <3>3, <4>1
    <3>7. CASE k = 4 * (j - 1) + 4
      <4>1. k % 4 = 0 /\ at + 2 = p + k - 1 /\ k # 1
        BY <3>1, <3>7
      <4> HIDE DEF j, term, at
      <4> QED
        BY <3>2, <3>3, <4>1
    <3>8. j \in Int
      BY <3>1
    <3> HIDE DEF j
    <3> QED
      BY <3>1, <3>4, <3>5, <3>6, <3>7, <3>8
  <2>6. \A k \in 1..(4 * n) : ts[p + k - 1] \in E
    <3> TAKE k \in 1..(4 * n)
    <3>1. p + k - 1 \in Nat \ {0} /\ p + k - 1 <= Len(ts)
      BY <1>0, <2>3, <2>4
    <3> QED
      BY <3>1, ElementAt
  <2> HIDE DEF E
  <2>7. row \in [1..(4 * n) -> E]
    BY <1>1, <2>5, <2>6
  <2>8. row \in Seq(E) /\ Len(row) = 4 * n
    BY <2>4, <2>7, SeqDef
  <2>9. Takes(ts, p, row, p + 4 * n)
    BY <2>3, <2>4, <2>5, <2>8, RowTaken DEF E
  <2> QED
    BY <2>4, <2>9 DEF row, r, filter
<1> QED
  BY <1>2, <1>3

-----------------------------------------------------------------------------
(* The tokens of a query *)

\* What ParseClauses adds to a query that was read up to the clauses.
Closed(t, q) ==
  t \in [shape : {q.shape}, node : {q.node}, to : {q.to}, hops : {q.hops}, clause : {t.clause},
         until : {q.until}, filter : {t.filter}, limit : {t.limit}]

LEMMA ClausesTaken ==
  ASSUME NEW ts, Parsable(ts), NEW p, NEW time, time.ok => Takes(ts, p, TimeTokens(time.val), time.at),
         NEW q, IsTree(q), ParseClauses(ts, time, q).ok
  PROVE  LET r == ParseClauses(ts, time, q)
         IN Closed(r.val, q) /\ Takes(ts, p, ClauseTokens(r.val), r.at)
<1> DEFINE filter == IF time.ok THEN ParseFilter(ts, time.at) ELSE Failed
           limit  == IF filter.ok THEN ParseLimit(ts, filter.at) ELSE Failed
           r      == ParseClauses(ts, time, q)
           t == [q EXCEPT !.clause = time.val, !.filter = filter.val, !.limit = limit.val]
<1>0. Len(ts) \in Nat
  BY DEF Parsable, IsTokens
<1>1. r = IF limit.ok THEN Got(t, limit.at) ELSE Failed
  BY DEF ParseClauses
<1>2. limit.ok /\ r.val = t /\ r.at = limit.at
  <2> HIDE DEF limit, t
  <2> QED
    BY <1>1 DEF Failed, Got
<1>3. filter.ok /\ limit = ParseLimit(ts, filter.at)
  BY <1>2 DEF Failed
<1>4. time.ok /\ filter = ParseFilter(ts, time.at)
  BY <1>3 DEF Failed
<1> HIDE DEF filter, limit, t, r
<1>5. /\ Takes(ts, p, TimeTokens(time.val), time.at)
      /\ p \in Nat \ {0} /\ time.at \in p..Len(ts)
  BY <1>4 DEF Takes
<1>6. time.at \in Nat \ {0} /\ time.at <= Len(ts)
  BY <1>0, <1>5
<1>7. Takes(ts, time.at, FilterTokens(filter.val), filter.at)
  BY <1>3, <1>4, <1>6, FilterTaken
<1>8. filter.at \in Nat \ {0} /\ filter.at <= Len(ts)
  <2>1. filter.at \in time.at..Len(ts)
    BY <1>7 DEF Takes
  <2> QED
    BY <1>0, <1>6, <2>1
<1>9. Takes(ts, filter.at, LimitTokens(limit.val), limit.at)
  BY <1>2, <1>3, <1>8, LimitTaken
<1> DEFINE a == TimeTokens(time.val)
           b == FilterTokens(filter.val)
           c == LimitTokens(limit.val)
<1>10. t \in [shape : {q.shape}, node : {q.node}, to : {q.to}, hops : {q.hops},
              clause : {time.val}, until : {q.until}, filter : {filter.val},
              limit : {limit.val}]
  BY DEF IsTree, t
<1>11. t.clause = time.val /\ t.filter = filter.val /\ t.limit = limit.val
  BY <1>10
<1>12. ClauseTokens(t) = (a \o b) \o c
  BY <1>11 DEF ClauseTokens
<1>13. Closed(t, q)
  BY <1>10, <1>11 DEF Closed
<1> HIDE DEF a, b, c
<1>14. Takes(ts, p, a \o b, filter.at)
  BY <1>5, <1>7, TakenInTurn DEF a, b
<1>15. Takes(ts, p, (a \o b) \o c, limit.at)
  BY <1>9, <1>14, TakenInTurn DEF c
<1> QED
  BY <1>2, <1>12, <1>13, <1>15 DEF r

\* A part of the parser that takes all from the first token on takes the sentence
\* of the query it gives.
Reads(ts, r) == r.ok => Takes(ts, 1, Sentence(r.val), r.at)

LEMMA ListRead ==
  ASSUME NEW ts, Parsable(ts), NEW head, NEW p \in Nat \ {0}, Takes(ts, 1, head, p),
         NEW time, time.ok => Takes(ts, p, TimeTokens(time.val), time.at),
         NEW q, IsTree(q), \A t : Closed(t, q) => Sentence(t) = head \o ClauseTokens(t)
  PROVE  Reads(ts, ParseClauses(ts, time, q))
<1> DEFINE r == ParseClauses(ts, time, q)
<1> SUFFICES ASSUME r.ok PROVE Takes(ts, 1, Sentence(r.val), r.at)
  BY DEF Reads
<1>1. Closed(r.val, q) /\ Takes(ts, p, ClauseTokens(r.val), r.at)
  BY ClausesTaken
<1> HIDE DEF r
<1>2. Takes(ts, 1, head \o ClauseTokens(r.val), r.at)
  BY <1>1, TakenInTurn
<1> QED
  BY <1>1, <1>2

LEMMA NeighborsRead ==
  ASSUME NEW ts, Parsable(ts), Kind(ts, 1) = "FIND",
         Expect(ts, 2, <<"NEIGHBORS", "OF", "STRING">>)
  PROVE  Reads(ts, ParseFind(ts))
<1> DEFINE name == ts[4][2]
           q == [NoQuery EXCEPT !.shape = "neighbors", !.node = name]
           time == ParseTimeClause(ts, 5)
           head == << <<"FIND">>, <<"NEIGHBORS">>, <<"OF">>, <<"STRING", name>> >>
<1>1. ParseFind(ts) = ParseClauses(ts, time, q)
  BY DEF ParseFind, Expect
<1>2. q \in [shape : {"neighbors"}, node : {name}, to : {None}, hops : {0}, clause : {<<>>},
             until : {None}, filter : {<<>>}, limit : {NoLimit}]
  BY NewTree
<1>3. Kind(ts, 2) = "NEIGHBORS" /\ Kind(ts, 3) = "OF" /\ Kind(ts, 4) = "STRING"
  BY DEF Expect
<1>4. /\ ts[1] = <<"FIND">> /\ ts[2] = <<"NEIGHBORS">> /\ ts[3] = <<"OF">>
      /\ ts[4] = <<"STRING", name>> /\ 5 <= Len(ts)
  BY <1>3, TokenTaken DEF Valued
<1>5. Takes(ts, 1, head, 5)
  <2>1. Takes(ts, 1, <<ts[1], ts[2], ts[3], ts[4]>>, 5)
    <3>1. Takes(ts, 1, <<ts[1], ts[1 + 1], ts[1 + 2], ts[1 + 3]>>, 1 + 4)
      <4>1. Len(ts) \in Nat
        BY DEF Parsable, IsTokens
      <4>2. 1 + 4 <= Len(ts)
        BY <1>4, <4>1
      <4> HIDE DEF q, time, head
      <4> QED
        BY <4>2, FourTaken
    <3> QED
      BY <3>1
  <2> QED
    BY <1>4, <2>1
<1>6. time.ok => Takes(ts, 5, TimeTokens(time.val), time.at)
  BY <1>4, TimeTaken
<1> HIDE DEF q, name, time
<1>7. IsTree(q)
  BY <1>2, NewTree DEF IsTree, Shapes
<1>8. ASSUME NEW t, Closed(t, q) PROVE Sentence(t) = head \o ClauseTokens(t)
  <2>1. t.shape = "neighbors" /\ t.node = name
    BY <1>2, <1>8 DEF Closed
  <2> QED
    BY <2>1 DEF Sentence
<1> HIDE DEF head
<1>9. Reads(ts, ParseClauses(ts, time, q))
  BY <1>5, <1>6, <1>7, <1>8, ListRead
<1> QED
  BY <1>1, <1>9

LEMMA HopsRead ==
  ASSUME NEW ts, Parsable(ts), Kind(ts, 1) = "FIND",
         ~Expect(ts, 2, <<"NEIGHBORS", "OF", "STRING">>),
         Expect(ts, 2, <<"INTEGER", "HOPS", "FROM", "STRING">>), ts[2][2] <= MaxU8
  PROVE  Reads(ts, ParseFind(ts))
<1> DEFINE name == ts[5][2]
           hops == ts[2][2]
           q == [NoQuery EXCEPT !.shape = "hops", !.hops = hops, !.node = name]
           time == ParseTimeClause(ts, 6)
           head == << <<"FIND">>, <<"INTEGER", hops>>, <<"HOPS">>, <<"FROM">>,
                      <<"STRING", name>> >>
<1>1. ParseFind(ts) = ParseClauses(ts, time, q)
  BY DEF ParseFind
<1>2. q \in [shape : {"hops"}, node : {name}, to : {None}, hops : {hops}, clause : {<<>>},
             until : {None}, filter : {<<>>}, limit : {NoLimit}]
  BY NewTree
<1>3. /\ Kind(ts, 2) = "INTEGER" /\ Kind(ts, 3) = "HOPS" /\ Kind(ts, 4) = "FROM"
      /\ Kind(ts, 5) = "STRING"
  BY DEF Expect
<1>4. /\ ts[1] = <<"FIND">> /\ ts[2] = <<"INTEGER", hops>> /\ ts[3] = <<"HOPS">>
      /\ ts[4] = <<"FROM">> /\ ts[5] = <<"STRING", name>> /\ 6 <= Len(ts) /\ hops \in Nat
  BY <1>3, TokenTaken DEF Valued
<1>5. Takes(ts, 1, head, 6)
  <2>1. Takes(ts, 1, <<ts[1], ts[2], ts[3], ts[4], ts[5]>>, 6)
    <3>1. Takes(ts, 1, <<ts[1], ts[1 + 1], ts[1 + 2], ts[1 + 3], ts[1 + 4]>>, 1 + 5)
      <4>1. Len(ts) \in Nat
        BY DEF Parsable, IsTokens
      <4>2. 1 + 5 <= Len(ts)
        BY <1>4, <4>1
      <4> HIDE DEF q, time, head
      <4> QED
        BY <4>2, FiveTaken
    <3> QED
      BY <3>1
  <2> QED
    BY <1>4, <2>1
<1>6. time.ok => Takes(ts, 6, TimeTokens(time.val), time.at)
  BY <1>4, TimeTaken
<1> HIDE DEF q, name, time, hops
<1>7. IsTree(q)
  BY <1>2, <1>4, NewTree DEF IsTree, Shapes
<1>8. ASSUME NEW t, Closed(t, q) PROVE Sentence(t) = head \o ClauseTokens(t)
  <2>1. t.shape = "hops" /\ t.node = name /\ t.hops = hops
    BY <1>2, <1>8 DEF Closed
  <2> QED
    BY <2>1 DEF Sentence
<1> HIDE DEF head
<1>9. Reads(ts, ParseClauses(ts, time, q))
  BY <1>5, <1>6, <1>7, <1>8, ListRead
<1> QED
  BY <1>1, <1>9

LEMMA FindRead ==
  ASSUME NEW ts, Parsable(ts), Kind(ts, 1) = "FIND"
  PROVE  Reads(ts, ParseFind(ts))
<1>1. CASE Expect(ts, 2, <<"NEIGHBORS", "OF", "STRING">>)
  BY <1>1, NeighborsRead
<1>2. CASE /\ ~Expect(ts, 2, <<"NEIGHBORS", "OF", "STRING">>)
           /\ Expect(ts, 2, <<"INTEGER", "HOPS", "FROM", "STRING">>) /\ ts[2][2] <= MaxU8
  BY <1>2, HopsRead
<1>3. CASE /\ ~Expect(ts, 2, <<"NEIGHBORS", "OF", "STRING">>)
           /\ ~(Expect(ts, 2, <<"INTEGER", "HOPS", "FROM", "STRING">>) /\ ts[2][2] <= MaxU8)
  BY <1>3 DEF ParseFind, Reads, Failed
<1> QED
  BY <1>1, <1>2, <1>3

LEMMA ShowRead ==
  ASSUME NEW ts, Parsable(ts), Kind(ts, 1) = "SHOW"
  PROVE  Reads(ts, ParseShow(ts))
<1>0. CASE ~Expect(ts, 2, <<"PATH", "FROM", "STRING", "TO", "STRING">>)
  BY <1>0 DEF ParseShow, Reads, Failed
<1> SUFFICES ASSUME Expect(ts, 2, <<"PATH", "FROM", "STRING", "TO", "STRING">>)
             PROVE  Reads(ts, ParseShow(ts))
  BY <1>0
<1> DEFINE name == ts[4][2]
           to == ts[6][2]
           q == [NoQuery EXCEPT !.shape = "path", !.node = name, !.to = to]
           time == ParseTimeClause(ts, 7)
           head == << <<"SHOW">>, <<"PATH">>, <<"FROM">>, <<"STRING", name>>, <<"TO">>,
                      <<"STRING", to>> >>
<1>1. ParseShow(ts) = ParseClauses(ts, time, q)
  BY DEF ParseShow
<1>2. q \in [shape : {"path"}, node : {name}, to : {to}, hops : {0}, clause : {<<>>},
             until : {None}, filter : {<<>>}, limit : {NoLimit}]
  BY NewTree
<1>3. /\ Kind(ts, 2) = "PATH" /\ Kind(ts, 3) = "FROM" /\ Kind(ts, 4) = "STRING"
      /\ Kind(ts, 5) = "TO" /\ Kind(ts, 6) = "STRING"
  BY DEF Expect
<1>4. /\ ts[1] = <<"SHOW">> /\ ts[2] = <<"PATH">> /\ ts[3] = <<"FROM">>
      /\ ts[4] = <<"STRING", name>> /\ ts[5] = <<"TO">> /\ ts[6] = <<"STRING", to>>
      /\ 7 <= Len(ts)
  BY <1>3, TokenTaken DEF Valued
<1>5. Takes(ts, 1, head, 7)
  <2>1. Takes(ts, 1, <<ts[1], ts[2], ts[3], ts[4], ts[5], ts[6]>>, 7)
    <3>1. Takes(ts, 1, <<ts[1], ts[1 + 1], ts[1 + 2], ts[1 + 3], ts[1 + 4], ts[1 + 5]>>, 1 + 6)
      <4>1. Len(ts) \in Nat
        BY DEF Parsable, IsTokens
      <4>2. 1 + 6 <= Len(ts)
        BY <1>4, <4>1
      <4> HIDE DEF q, time, head
      <4> QED
        BY <4>2, SixTaken
    <3> QED
      BY <3>1
  <2> QED
    BY <1>4, <2>1
<1>6. time.ok => Takes(ts, 7, TimeTokens(time.val), time.at)
  BY <1>4, TimeTaken
<1> HIDE DEF q, name, time, to
<1>7. IsTree(q)
  BY <1>2, NewTree DEF IsTree, Shapes
<1>8. ASSUME NEW t, Closed(t, q) PROVE Sentence(t) = head \o ClauseTokens(t)
  <2>1. t.shape = "path" /\ t.node = name /\ t.to = to
    BY <1>2, <1>8 DEF Closed
  <2> QED
    BY <2>1 DEF Sentence
<1> HIDE DEF head
<1>9. Reads(ts, ParseClauses(ts, time, q))
  BY <1>5, <1>6, <1>7, <1>8, ListRead
<1> QED
  BY <1>1, <1>9

LEMMA WhoRead ==
  ASSUME NEW ts, Parsable(ts), Kind(ts, 1) = "WHO"
  PROVE  Reads(ts, ParseWho(ts))
<1>0. CASE ~Expect(ts, 2, <<"WAS", "CONNECTED", "TO", "STRING", "ON", "STRING">>)
  BY <1>0 DEF ParseWho, Reads, Failed
<1> SUFFICES ASSUME Expect(ts, 2, <<"WAS", "CONNECTED", "TO", "STRING", "ON", "STRING">>)
             PROVE  Reads(ts, ParseWho(ts))
  BY <1>0
<1> DEFINE name == ts[5][2]
           day == ts[7][2]
           q == [NoQuery EXCEPT !.shape = "who", !.node = name]
           time == Got(<<"ON", day>>, 8)
           head == << <<"WHO">>, <<"WAS">>, <<"CONNECTED">>, <<"TO">>, <<"STRING", name>> >>
<1>1. ParseWho(ts) = ParseClauses(ts, time, q)
  BY DEF ParseWho
<1>2. q \in [shape : {"who"}, node : {name}, to : {None}, hops : {0}, clause : {<<>>},
             until : {None}, filter : {<<>>}, limit : {NoLimit}]
  BY NewTree
<1>3. /\ Kind(ts, 2) = "WAS" /\ Kind(ts, 3) = "CONNECTED" /\ Kind(ts, 4) = "TO"
      /\ Kind(ts, 5) = "STRING" /\ Kind(ts, 6) = "ON" /\ Kind(ts, 7) = "STRING"
  BY DEF Expect
<1>4. /\ ts[1] = <<"WHO">> /\ ts[2] = <<"WAS">> /\ ts[3] = <<"CONNECTED">>
      /\ ts[4] = <<"TO">> /\ ts[5] = <<"STRING", name>> /\ ts[6] = <<"ON">>
      /\ ts[7] = <<"STRING", day>> /\ 8 <= Len(ts)
  BY <1>3, TokenTaken DEF Valued
<1>5. Takes(ts, 1, head, 6)
  <2>1. Takes(ts, 1, <<ts[1], ts[2], ts[3], ts[4], ts[5]>>, 6)
    <3>1. Len(ts) \in Nat
      BY DEF Parsable, IsTokens
    <3>2. 1 + 5 <= Len(ts)
      BY <1>4, <3>1
    <3>3. Takes(ts, 1, <<ts[1], ts[1 + 1], ts[1 + 2], ts[1 + 3], ts[1 + 4]>>, 1 + 5)
      BY <3>2, FiveTaken
    <3> QED
      BY <3>3
  <2> QED
    BY <1>4, <2>1
<1>6. time.ok => Takes(ts, 6, TimeTokens(time.val), time.at)
  <2>1. Takes(ts, 6, <<ts[6], ts[7]>>, 8)
    BY <1>4, TwoTaken
  <2>2. time.val = <<"ON", day>> /\ time.at = 8
    BY DEF Got
  <2> HIDE DEF time
  <2>3. TimeTokens(time.val) = << <<"ON">>, <<"STRING", day>> >>
    BY <2>2 DEF TimeTokens
  <2> QED
    BY <1>4, <2>1, <2>2, <2>3
<1> HIDE DEF q, name, time, day
<1>7. IsTree(q)
  BY <1>2, NewTree DEF IsTree, Shapes
<1>8. ASSUME NEW t, Closed(t, q) PROVE Sentence(t) = head \o ClauseTokens(t)
  <2>1. t.shape = "who" /\ t.node = name
    BY <1>2, <1>8 DEF Closed
  <2> QED
    BY <2>1 DEF Sentence
<1> HIDE DEF head
<1>9. Reads(ts, ParseClauses(ts, time, q))
  BY <1>5, <1>6, <1>7, <1>8, ListRead
<1> QED
  BY <1>1, <1>9

LEMMA NodeTaken ==
  ASSUME NEW ts, Parsable(ts), NEW p \in Nat \ {0}, p <= Len(ts), NEW q, q.node = None,
         NEW V, q \in [shape : {q.shape}, node : V, to : {q.to}, hops : {q.hops},
                       clause : {q.clause}, until : {q.until}, filter : {q.filter},
                       limit : {q.limit}],
         ParseForNode(ts, p, q).ok
  PROVE  LET r == ParseForNode(ts, p, q)
         IN /\ r.val.shape = q.shape /\ r.val.clause = q.clause /\ r.val.until = q.until
            /\ Takes(ts, p, NodeTokens(r.val.node), r.at)
<1> DEFINE r == ParseForNode(ts, p, q)
           name == ts[p + 2][2]
           t == [q EXCEPT !.node = name]
<1>1. CASE Kind(ts, p) # "FOR"
  <2>1. r = Got(q, p)
    <3>1. ~Expect(ts, p, <<"FOR", "NODE", "STRING">>)
      <4> SUFFICES ASSUME Expect(ts, p, <<"FOR", "NODE", "STRING">>) PROVE FALSE
        OBVIOUS
      <4>1. \A k \in 1..3 : Kind(ts, p + k - 1) = <<"FOR", "NODE", "STRING">>[k]
        BY DEF Expect
      <4>2. p + 1 - 1 = p
        OBVIOUS
      <4> QED
        BY <1>1, <4>1, <4>2
    <3> QED
      BY <1>1, <3>1 DEF ParseForNode
  <2> HIDE DEF r
  <2>2. r.val = q /\ r.at = p
    BY <2>1 DEF Got
  <2> QED
    BY <2>2, NothingTaken DEF NodeTokens, r
<1>2. CASE Kind(ts, p) = "FOR"
  <2>1. Expect(ts, p, <<"FOR", "NODE", "STRING">>)
    BY <1>2 DEF ParseForNode, Failed
  <2>2. Kind(ts, p + 1) = "NODE" /\ Kind(ts, p + 2) = "STRING"
    <3>1. \A k \in 1..3 : Kind(ts, p + k - 1) = <<"FOR", "NODE", "STRING">>[k]
      BY <2>1 DEF Expect
    <3>2. p + 2 - 1 = p + 1 /\ p + 3 - 1 = p + 2
      OBVIOUS
    <3> QED
      BY <3>1, <3>2
  <2>3. r = Got(t, p + 3)
    BY <1>2, <2>1 DEF ParseForNode
  <2>4. /\ ts[p] = <<"FOR">> /\ ts[p + 1] = <<"NODE">> /\ ts[p + 2] = <<"STRING", name>>
        /\ name # None /\ p + 3 <= Len(ts)
    BY <1>2, <2>2, TokenTaken DEF Valued
  <2>5. t \in [shape : {q.shape}, node : {name}, to : {q.to}, hops : {q.hops},
               clause : {q.clause}, until : {q.until}, filter : {q.filter}, limit : {q.limit}]
    OBVIOUS
  <2> HIDE DEF r, t, name
  <2>6. r.val = t /\ r.at = p + 3
    BY <2>3 DEF Got
  <2>7. t.shape = q.shape /\ t.node = name /\ t.clause = q.clause /\ t.until = q.until
    BY <2>5
  <2>8. NodeTokens(r.val.node) = <<ts[p], ts[p + 1], ts[p + 2]>>
    BY <2>4, <2>6, <2>7 DEF NodeTokens
  <2>9. Takes(ts, p, <<ts[p], ts[p + 1], ts[p + 2]>>, p + 3)
    BY <2>4, ThreeTaken
  <2> QED
    BY <2>6, <2>7, <2>8, <2>9 DEF r
<1> QED
  BY <1>1, <1>2

LEMMA RangeRead ==
  ASSUME NEW ts, Parsable(ts), NEW word, NEW shape, NEW noun, Kind(ts, 1) = word,
         {word, noun} \cap (Valued \cup {"EOF"}) = {},
         \A t : t.shape = shape => Sentence(t) = << <<word>>, <<noun>> >> \o RangeTokens(t)
  PROVE  Reads(ts, ParseRange(ts, shape, noun))
<1>0. CASE ~Expect(ts, 2, <<noun, "BETWEEN", "STRING", "AND", "STRING">>)
  BY <1>0 DEF ParseRange, Reads, Failed
<1> SUFFICES ASSUME Expect(ts, 2, <<noun, "BETWEEN", "STRING", "AND", "STRING">>)
             PROVE  Reads(ts, ParseRange(ts, shape, noun))
  BY <1>0
<1> DEFINE clause == <<"BETWEEN", ts[4][2]>>
           until  == ts[6][2]
           q == [NoQuery EXCEPT !.shape = shape, !.until = until, !.clause = clause]
           r == ParseForNode(ts, 7, q)
           head == << <<word>>, <<noun>> >>
           span == << <<"BETWEEN">>, <<"STRING", clause[2]>>, <<"AND">>, <<"STRING", until>> >>
<1>1. ParseRange(ts, shape, noun) = r
  BY DEF ParseRange
<1>2. q \in [shape : {shape}, node : {None}, to : {None}, hops : {0}, clause : {clause},
             until : {until}, filter : {<<>>}, limit : {NoLimit}]
  BY NewTree
<1>3. /\ Kind(ts, 2) = noun /\ Kind(ts, 3) = "BETWEEN" /\ Kind(ts, 4) = "STRING"
      /\ Kind(ts, 5) = "AND" /\ Kind(ts, 6) = "STRING"
  BY DEF Expect
<1>4. /\ ts[1] = <<word>> /\ ts[2] = <<noun>> /\ ts[3] = <<"BETWEEN">>
      /\ ts[4] = <<"STRING", ts[4][2]>> /\ ts[5] = <<"AND">> /\ ts[6] = <<"STRING", until>>
      /\ 7 <= Len(ts)
  <2>1. word \notin Valued /\ word # "EOF" /\ noun \notin Valued /\ noun # "EOF"
    OBVIOUS
  <2>2. ts[1] = <<word>> /\ ts[2] = <<noun>>
    BY <1>3, <2>1, TokenTaken
  <2>3. /\ ts[3] = <<"BETWEEN">> /\ ts[4] = <<"STRING", ts[4][2]>> /\ ts[5] = <<"AND">>
        /\ ts[6] = <<"STRING", ts[6][2]>> /\ 7 <= Len(ts)
    BY <1>3, TokenTaken DEF Valued
  <2> QED
    BY <2>2, <2>3
<1>5. Takes(ts, 1, head, 3)
  <2>0. Len(ts) \in Nat
    BY DEF Parsable, IsTokens
  <2>1. Takes(ts, 1, <<ts[1], ts[1 + 1]>>, 1 + 2)
    <3>1. 1 + 2 <= Len(ts)
      BY <1>4, <2>0
    <3> QED
      BY <3>1, TwoTaken
  <2> QED
    BY <1>4, <2>1
<1>6. Takes(ts, 3, span, 7)
  <2>1. Takes(ts, 3, <<ts[3], ts[3 + 1], ts[3 + 2], ts[3 + 3]>>, 3 + 4)
    <3>1. 3 + 4 <= Len(ts)
      BY <1>4
    <3> HIDE DEF span, r
    <3> QED
      BY <3>1, FourTaken
  <2>2. Takes(ts, 3, <<ts[3], ts[4], ts[5], ts[6]>>, 7)
    BY <2>1
  <2>3. span = <<ts[3], ts[4], ts[5], ts[6]>>
    <3>1. clause[2] = ts[4][2]
      OBVIOUS
    <3> QED
      BY <1>4, <3>1
  <2> QED
    BY <2>2, <2>3
<1> SUFFICES ASSUME r.ok PROVE Takes(ts, 1, Sentence(r.val), r.at)
  BY <1>1 DEF Reads
<1> HIDE DEF clause, until, q
<1>7. /\ r.val.shape = q.shape /\ r.val.clause = q.clause /\ r.val.until = q.until
      /\ Takes(ts, 7, NodeTokens(r.val.node), r.at)
  <2>1. q.node = None
    BY <1>2
  <2>2. q \in [shape : {q.shape}, node : {None}, to : {q.to}, hops : {q.hops},
               clause : {q.clause}, until : {q.until}, filter : {q.filter}, limit : {q.limit}]
    BY <1>2
  <2>3. 7 \in Nat \ {0}
    OBVIOUS
  <2> QED
    BY <1>4, <2>1, <2>2, <2>3, NodeTaken
<1> HIDE DEF r
<1>8. r.val.shape = shape /\ r.val.clause = clause /\ r.val.until = until
  BY <1>2, <1>7
<1>9. RangeTokens(r.val) = span \o NodeTokens(r.val.node)
  BY <1>8 DEF RangeTokens
<1>10. Sentence(r.val) = head \o (span \o NodeTokens(r.val.node))
  BY <1>8, <1>9
<1> HIDE DEF head, span
<1>11. Takes(ts, 3, span \o NodeTokens(r.val.node), r.at)
  BY <1>6, <1>7, TakenInTurn
<1>12. Takes(ts, 1, head \o (span \o NodeTokens(r.val.node)), r.at)
  BY <1>5, <1>11, TakenInTurn
<1> QED
  BY <1>10, <1>12

LEMMA RangesRead ==
  ASSUME NEW ts, Parsable(ts)
  PROVE  /\ Kind(ts, 1) = "DIFF" => Reads(ts, ParseRange(ts, "diff", "GRAPH"))
         /\ Kind(ts, 1) = "WHAT" => Reads(ts, ParseRange(ts, "changed", "CHANGED"))
<1>1. {"DIFF", "GRAPH"} \cap (Valued \cup {"EOF"}) = {}
  BY DEF Valued
<1>2. {"WHAT", "CHANGED"} \cap (Valued \cup {"EOF"}) = {}
  BY DEF Valued
<1>3. \A t : t.shape = "diff" => Sentence(t) = << <<"DIFF">>, <<"GRAPH">> >> \o RangeTokens(t)
  BY DEF Sentence
<1>4. \A t : t.shape = "changed" =>
               Sentence(t) = << <<"WHAT">>, <<"CHANGED">> >> \o RangeTokens(t)
  BY DEF Sentence
<1> QED
  BY <1>1, <1>2, <1>3, <1>4, RangeRead

LEMMA AllRead ==
  ASSUME NEW ts, Parsable(ts), NEW row, Takes(ts, 1, row, Len(ts))
  PROVE  Append(row, Eof) = ts
<1> DEFINE E == Elements(ts)
           L == Len(ts)
<1>1. ts \in Seq(E) /\ L \in Nat \ {0} /\ ts[L] = Eof
  BY DEF Parsable, IsTokens
<1>2. row = SubSeq(ts, 1, L - 1)
  BY DEF Takes
<1> HIDE DEF E
<1>3. SubSeq(ts, 1, L) = SubSeq(ts, 1, L - 1) \o <<ts[L]>>
  <2>1. 1 \in 1..L /\ L \in 1..L
    BY <1>1
  <2> QED
    BY <1>1, <2>1, SubSeqRecursiveSecond
<1>4. SubSeq(ts, 1, L) = ts
  BY <1>1, SubSeqFull
<1>5. row \in Seq(E) /\ Eof \in E
  <2>1. \A k \in 1..(L - 1) : ts[k] \in E
    BY <1>1, ElementOfSeq
  <2>2. L - 1 \in Int /\ 1 \in Int
    BY <1>1
  <2>3. L \in 1..L
    BY <1>1
  <2> QED
    BY <1>1, <1>2, <2>1, <2>2, <2>3, SubSeqProperties, ElementOfSeq
<1>6. Append(row, Eof) = row \o <<Eof>>
  BY <1>5, AppendIsConcat
<1> QED
  BY <1>1, <1>2, <1>3, <1>4, <1>6

\* The tokens of an accepted text are the sentence of its tree, and its pieces
\* are what they spell.
LEMMA TextRead ==
  ASSUME NEW pieces, IsText(pieces), IsOrdinary(pieces), Parse(pieces) # NoQuery
  PROVE  /\ Tokenize(pieces) = Append(Sentence(Parse(pieces)), Eof)
         /\ Plain(pieces) = Written(Parse(pieces))
<1> DEFINE ts == Tokenize(pieces)
           U == Capitals(pieces)
           got == CASE Kind(ts, 1) = "FIND" -> ParseFind(ts)
                    [] Kind(ts, 1) = "SHOW" -> ParseShow(ts)
                    [] Kind(ts, 1) = "WHO"  -> ParseWho(ts)
                    [] Kind(ts, 1) = "DIFF" -> ParseRange(ts, "diff", "GRAPH")
                    [] Kind(ts, 1) = "WHAT" -> ParseRange(ts, "changed", "CHANGED")
                    [] OTHER -> Failed
<1>1. Parse(pieces) = IF /\ \A k \in DOMAIN ts : ts[k][1] # "ERROR"
                         /\ got.ok /\ Kind(ts, got.at) = "EOF"
                      THEN got.val ELSE NoQuery
  BY DEF Parse
<1>2. Spells(ts, Plain(pieces), U) \/ ~Clean(ts)
  BY TextSpelt
<1>3. IsTokens(ts)
  BY TextTokens
<1>4. ts \in Seq(Tokens(pieces))
  BY TokensFound DEF IsText, Tokenized
<1> HIDE DEF ts, U
<1>5. Clean(ts) /\ got.ok /\ Kind(ts, got.at) = "EOF" /\ Parse(pieces) = got.val
  <2> HIDE DEF got
  <2> QED
    BY <1>1 DEF Clean
<1>6. ts \in Seq(Elements(ts))
  <2>1. Len(ts) \in Nat /\ ts \in [1..Len(ts) -> Tokens(pieces)]
    BY <1>4, LenProperties
  <2>2. ts \in [1..Len(ts) -> Elements(ts)]
    BY <2>1 DEF Elements
  <2> QED
    BY <2>1, <2>2, SeqDef
<1>7. Parsable(ts)
  BY <1>2, <1>3, <1>5, <1>6 DEF Parsable, Spells
<1>8. Reads(ts, got)
  <2>1. \/ Kind(ts, 1) = "FIND" /\ got = ParseFind(ts)
        \/ Kind(ts, 1) = "SHOW" /\ got = ParseShow(ts)
        \/ Kind(ts, 1) = "WHO"  /\ got = ParseWho(ts)
        \/ Kind(ts, 1) = "DIFF" /\ got = ParseRange(ts, "diff", "GRAPH")
        \/ Kind(ts, 1) = "WHAT" /\ got = ParseRange(ts, "changed", "CHANGED")
        \/ got = Failed
    OBVIOUS
  <2> HIDE DEF got
  <2>2. got # Failed
    BY <1>5 DEF Failed
  <2> QED
    BY <1>7, <2>1, <2>2, FindRead, ShowRead, WhoRead, RangesRead
<1> HIDE DEF got
<1>9. Takes(ts, 1, Sentence(got.val), got.at)
  BY <1>5, <1>8 DEF Reads
<1>10. got.at = Len(ts)
  <2>1. Len(ts) \in Nat /\ got.at \in 1..Len(ts)
    BY <1>3, <1>9 DEF Takes, IsTokens
  <2>2. ts[got.at][1] = "EOF"
    <3>1. (IF got.at < Len(ts) THEN got.at ELSE Len(ts)) = got.at
      BY <2>1
    <3> QED
      BY <1>5, <3>1 DEF Kind
  <2> QED
    BY <1>7, <2>1, <2>2 DEF Parsable
<1>11. ts = Append(Sentence(got.val), Eof)
  BY <1>7, <1>9, <1>10, AllRead
<1>12. Plain(pieces) = Spelt(ts)
  BY <1>2, <1>5 DEF Spells
<1> QED
  BY <1>5, <1>11, <1>12 DEF Written, Eof, ts

-----------------------------------------------------------------------------
(* A text that spells a sentence is cut into its tokens *)

IsLiteral(t) ==
  /\ t = <<t[1], t[2]>>
  /\ \/ t[1] = "STRING"
     \/ t[1] = "INTEGER" /\ t[2] \in 0..MaxU64
     \/ t[1] = "FLOAT" /\ t[2] \in Int

\* A token of the grammar; no field has the name of a keyword.
IsLegal(t) ==
  \/ t[1] \in Keywords \cup Operators /\ t = <<t[1]>>
  \/ t[1] = "IDENT" /\ t = <<"IDENT", t[2]>> /\ Upper[t[2]] \notin Keywords
  \/ IsLiteral(t)

IsSentence(ts) ==
  /\ Len(ts) \in Nat \ {0} /\ ts \in Seq(Elements(ts)) /\ ts[Len(ts)] = Eof
  /\ \A k \in 1..(Len(ts) - 1) :
       /\ IsLegal(ts[k])
       /\ ts[k][1] \in Operators => k + 1 \in 1..(Len(ts) - 1) /\ IsLiteral(ts[k + 1])

\* Two pieces of one token, if there is no white space between them.
Joined(x, y) == \/ x \in Ahead /\ y = EqualSign
                \/ x = <<"char", "-">> /\ y[1] = "decimal"

\* No white space inside an operator or after a minus sign.
IsTight(pieces) ==
  \A i, k \in 1..Len(pieces) :
    i + 1 < k /\ (\A j \in (i + 1)..(k - 1) : pieces[j] = Blank) => ~Joined(pieces[i], pieces[k])

\* A keyword in capitals is what it is.
CapitalKeywords == \A w \in Keywords : Upper[w] = w

LEMMA SameCons ==
  ASSUME NEW U, NEW a \in U, NEW b \in U, NEW s \in Seq(U), NEW t \in Seq(U),
         <<a>> \o s = <<b>> \o t
  PROVE  a = b /\ s = t
<1> DEFINE x == <<a>> \o s
           y == <<b>> \o t
<1>1. /\ <<a>> \in Seq(U) /\ Len(<<a>>) = 1 /\ <<a>>[1] = a
      /\ <<b>> \in Seq(U) /\ Len(<<b>>) = 1 /\ <<b>>[1] = b
      /\ Len(s) \in Nat /\ Len(t) \in Nat
  BY LenProperties
<1>2. /\ Len(x) = 1 + Len(s)
      /\ \A k \in 1..(1 + Len(s)) : x[k] = IF k <= 1 THEN <<a>>[k] ELSE s[k - 1]
  BY <1>1, ConcatProperties
<1>3. /\ Len(y) = 1 + Len(t)
      /\ \A k \in 1..(1 + Len(t)) : y[k] = IF k <= 1 THEN <<b>>[k] ELSE t[k - 1]
  BY <1>1, ConcatProperties
<1>4. x = y
  OBVIOUS
<1> HIDE DEF x, y
<1>5. Len(s) = Len(t)
  BY <1>1, <1>2, <1>3, <1>4
<1>6. a = b
  <2>1. 1 \in 1..(1 + Len(s)) /\ 1 \in 1..(1 + Len(t))
    BY <1>1
  <2>2. x[1] = a /\ y[1] = b
    BY <1>1, <1>2, <1>3, <2>1
  <2> QED
    BY <1>4, <2>2
<1>7. \A k \in 1..Len(s) : s[k] = t[k]
  <2> TAKE k \in 1..Len(s)
  <2>1. /\ k + 1 \in 1..(1 + Len(s)) /\ k + 1 \in 1..(1 + Len(t)) /\ ~(k + 1 <= 1)
        /\ (k + 1) - 1 = k
    BY <1>1, <1>5
  <2>2. x[k + 1] = s[k] /\ y[k + 1] = t[k]
    BY <1>2, <1>3, <2>1
  <2> QED
    BY <1>4, <2>2
<1>8. s = t
  BY <1>5, <1>7, SeqEqual
<1> QED
  BY <1>6, <1>8

LEMMA NotEmptyCons ==
  ASSUME NEW U, NEW a \in U, NEW s \in Seq(U)
  PROVE  <<a>> \o s # <<>>
<1>1. <<a>> \in Seq(U) /\ <<a>> # <<>>
  OBVIOUS
<1> QED
  BY <1>1, ConcatEqualIffEmpty, EmptySeq

LEMMA PairCons ==
  ASSUME NEW U, NEW a \in U, NEW b \in U, NEW s \in Seq(U)
  PROVE  <<a, b>> \o s = <<a>> \o (<<b>> \o s) /\ <<b>> \o s \in Seq(U)
<1>1. <<a>> \in Seq(U) /\ <<b>> \in Seq(U)
  OBVIOUS
<1>2. (<<a>> \o <<b>>) \o s = <<a>> \o (<<b>> \o s)
  BY <1>1, ConcatAssociative
<1>3. <<b>> \o s \in Seq(U)
  BY <1>1, ConcatProperties
<1> QED
  BY <1>2, <1>3, TwoInARow

\* The first piece of a token, and the second one of a token that has two.
First(t) == Spelling(t)[1]
Second(t) == Spelling(t)[2]

\* The two pieces of a sign and a number, or of an operator.
IsPair(t) == \/ t[1] = "FLOAT" /\ t[2] < 0
             \/ t[1] \in {"!=", ">=", "<="}

LEMMA LegalSpelling ==
  ASSUME NEW t, IsLegal(t)
  PROVE  Spelling(t) = IF IsPair(t) THEN <<First(t), Second(t)>> ELSE <<First(t)>>
<1>1. CASE t[1] \in Keywords
  <2>1. Spelling(t) = << <<"word", t[1]>> >>
    BY <1>1, WordsApart DEF Spelling, Valued, Operators
  <2>2. ~IsPair(t)
    BY <1>1 DEF IsPair, Keywords
  <2> QED
    BY <2>1, <2>2 DEF First
<1>2. CASE t[1] = "IDENT"
  <2>1. Spelling(t) = << <<"word", t[2]>> >> /\ ~IsPair(t)
    BY <1>2, WordsApart DEF Spelling, Valued, IsPair
  <2> QED
    BY <2>1 DEF First
<1>3. CASE t[1] = "STRING"
  <2>1. Spelling(t) = << <<"quoted", t[2]>> >> /\ ~IsPair(t)
    BY <1>3, WordsApart DEF Spelling, Valued, IsPair
  <2> QED
    BY <2>1 DEF First
<1>4. CASE t[1] = "INTEGER"
  <2>1. Spelling(t) = << <<"digits", t[2]>> >> /\ ~IsPair(t)
    BY <1>4, WordsApart DEF Spelling, Valued, IsPair
  <2> QED
    BY <2>1 DEF First
<1>5. CASE t[1] = "FLOAT"
  <2>1. Spelling(t) = IF t[2] < 0 THEN << <<"char", "-">>, <<"decimal", -t[2]>> >>
                      ELSE << <<"decimal", t[2]>> >>
    BY <1>5, WordsApart DEF Spelling, Valued
  <2>2. IsPair(t) <=> t[2] < 0
    BY <1>5 DEF IsPair
  <2> QED
    BY <2>1, <2>2 DEF First, Second
<1>6. CASE t[1] \in Operators
  <2>1. CASE t[1] \in {"=", ">", "<"}
    <3>1. Spelling(t) = << <<"char", t[1]>> >> /\ ~IsPair(t)
      BY <1>6, <2>1, WordsApart DEF Spelling, Valued, IsPair
    <3> QED
      BY <3>1 DEF First
  <2>2. CASE t[1] = "!="
    <3>1. Spelling(t) = << <<"char", "!">>, EqualSign >> /\ IsPair(t)
      BY <1>6, <2>2, WordsApart DEF Spelling, Valued, IsPair
    <3> QED
      BY <3>1 DEF First, Second
  <2>3. CASE t[1] = ">="
    <3>1. Spelling(t) = << <<"char", ">">>, EqualSign >> /\ IsPair(t)
      BY <1>6, <2>3, WordsApart DEF Spelling, Valued, IsPair
    <3> QED
      BY <3>1 DEF First, Second
  <2>4. CASE t[1] = "<="
    <3>1. Spelling(t) = << <<"char", "<">>, EqualSign >> /\ IsPair(t)
      BY <1>6, <2>4, WordsApart DEF Spelling, Valued, IsPair
    <3> QED
      BY <3>1 DEF First, Second
  <2> QED
    BY <1>6, <2>1, <2>2, <2>3, <2>4 DEF Operators
<1> QED
  BY <1>1, <1>2, <1>3, <1>4, <1>5, <1>6 DEF IsLegal, IsLiteral

-----------------------------------------------------------------------------
LEMMA CapitalOf ==
  ASSUME NEW x, x = <<x[1], x[2]>>
  PROVE  /\ Capital(x)[1] = x[1]
         /\ x[1] # "word" => Capital(x) = x
         /\ x[1] = "word" =>
              Capital(x)[2] = IF Upper[x[2]] \in Keywords THEN Upper[x[2]] ELSE x[2]
  BY DEF Capital

LEMMA WordFits ==
  ASSUME NEW pieces, IsOrdinary(pieces), NEW i \in DOMAIN pieces, CapitalKeywords,
         NEW t, IsLegal(t), t[1] \in Keywords \cup {"IDENT"},
         Capital(pieces[i]) = First(t)
  PROVE  ~Two(pieces, i) /\ TokenAt(pieces, i) = t
<1> DEFINE x == pieces[i]
           v == x[2]
<1>1. x = <<x[1], v>>
  BY DEF IsOrdinary
<1>2. CASE t[1] \in Keywords
  <2>1. Spelling(t) = << <<"word", t[1]>> >>
    BY <1>2, WordsApart DEF Spelling, Valued, Operators
  <2>2. First(t) = <<"word", t[1]>>
    BY <2>1 DEF First
  <2>3. Capital(x)[1] = "word" /\ Capital(x)[2] = t[1]
    BY <2>2
  <2> HIDE DEF x
  <2>4. x[1] = "word" /\ t[1] = IF Upper[v] \in Keywords THEN Upper[v] ELSE v
    BY <1>1, <2>3, CapitalOf
  <2>5. Upper[v] \in Keywords /\ t[1] = Upper[v]
    BY <1>2, <2>4 DEF CapitalKeywords
  <2>6. t = <<t[1]>>
    BY <1>2, WordsApart DEF IsLegal, IsLiteral, Valued
  <2>7. ~Two(pieces, i)
    BY <2>4 DEF Two, x
  <2>8. TokenAt(pieces, i) = <<Upper[v]>>
    BY <2>4, <2>5 DEF TokenAt, x
  <2> QED
    BY <2>5, <2>6, <2>7, <2>8
<1>3. CASE t[1] = "IDENT"
  <2>1. Spelling(t) = << <<"word", t[2]>> >>
    BY <1>3, WordsApart DEF Spelling, Valued, Operators
  <2>2. First(t) = <<"word", t[2]>>
    BY <2>1 DEF First
  <2>3. Capital(x)[1] = "word" /\ Capital(x)[2] = t[2]
    BY <2>2
  <2> HIDE DEF x
  <2>4. x[1] = "word" /\ t[2] = IF Upper[v] \in Keywords THEN Upper[v] ELSE v
    BY <1>1, <2>3, CapitalOf
  <2>6. t = <<"IDENT", t[2]>> /\ Upper[t[2]] \notin Keywords
    BY <1>3, WordsApart DEF IsLegal, IsLiteral, Valued
  <2>5. Upper[v] \notin Keywords /\ t[2] = v
    BY <2>4, <2>6 DEF CapitalKeywords
  <2>7. ~Two(pieces, i)
    BY <2>4 DEF Two, x
  <2>8. TokenAt(pieces, i) = <<"IDENT", v>>
    BY <2>4, <2>5 DEF TokenAt, x
  <2> QED
    BY <2>5, <2>6, <2>7, <2>8
<1> QED
  BY <1>2, <1>3

LEMMA LiteralFits ==
  ASSUME NEW pieces, IsOrdinary(pieces), NEW i \in DOMAIN pieces,
         NEW t, IsLiteral(t), ~IsPair(t), Capital(pieces[i]) = First(t)
  PROVE  ~Two(pieces, i) /\ TokenAt(pieces, i) = t
<1> DEFINE x == pieces[i]
           v == x[2]
<1>1. x = <<x[1], v>>
  BY DEF IsOrdinary
<1>2. CASE t[1] = "STRING"
  <2>1. Spelling(t) = << <<"quoted", t[2]>> >>
    BY <1>2, WordsApart DEF Spelling, Valued, Operators
  <2>2. First(t) = <<"quoted", t[2]>>
    BY <2>1 DEF First
  <2>3. x[1] = "quoted" /\ v = t[2]
    <3> HIDE DEF x
    <3>1. Capital(x)[1] = "quoted" /\ Capital(x)[2] = t[2]
      BY <2>2 DEF x
    <3> QED
      BY <1>1, <3>1, CapitalOf
  <2>4. TokenAt(pieces, i) = <<"STRING", Latin1[v]>> /\ Latin1[v] = v
    BY <2>3 DEF TokenAt, IsOrdinary
  <2> QED
    BY <1>2, <2>3, <2>4 DEF Two, IsLiteral
<1>3. CASE t[1] = "INTEGER"
  <2>1. Spelling(t) = << <<"digits", t[2]>> >>
    BY <1>3, WordsApart DEF Spelling, Valued, Operators
  <2>2. First(t) = <<"digits", t[2]>>
    BY <2>1 DEF First
  <2>3. x[1] = "digits" /\ v = t[2]
    <3> HIDE DEF x
    <3>1. Capital(x)[1] = "digits" /\ Capital(x)[2] = t[2]
      BY <2>2 DEF x
    <3> QED
      BY <1>1, <3>1, CapitalOf
  <2>4. v <= MaxU64
    <3>1. t[2] \in 0..MaxU64
      BY <1>3 DEF IsLiteral
    <3> QED
      BY <2>3, <3>1
  <2>5. TokenAt(pieces, i) = <<"INTEGER", v>>
    BY <2>3, <2>4 DEF TokenAt
  <2> QED
    BY <1>3, <2>3, <2>5 DEF Two, IsLiteral
<1>4. CASE t[1] = "FLOAT"
  <2>1. Spelling(t) = << <<"decimal", t[2]>> >>
    BY <1>4, WordsApart DEF Spelling, Valued, Operators, IsPair
  <2>2. First(t) = <<"decimal", t[2]>>
    BY <2>1 DEF First
  <2>3. x[1] = "decimal" /\ v = t[2]
    <3> HIDE DEF x
    <3>1. Capital(x)[1] = "decimal" /\ Capital(x)[2] = t[2]
      BY <2>2 DEF x
    <3> QED
      BY <1>1, <3>1, CapitalOf
  <2>5. TokenAt(pieces, i) = <<"FLOAT", v>>
    BY <2>3 DEF TokenAt
  <2> QED
    BY <1>4, <2>3, <2>5 DEF Two, IsLiteral
<1> QED
  BY <1>2, <1>3, <1>4 DEF IsLiteral

LEMMA OperatorFits ==
  ASSUME NEW pieces, IsOrdinary(pieces), NEW i \in DOMAIN pieces,
         NEW t, t = <<t[1]>>, t[1] \in {"=", ">", "<"}, Capital(pieces[i]) = First(t),
         i < Len(pieces) => pieces[i + 1] # EqualSign
  PROVE  ~Two(pieces, i) /\ TokenAt(pieces, i) = t
<1> DEFINE x == pieces[i]
           v == x[2]
<1>1. x = <<x[1], v>>
  BY DEF IsOrdinary
<1>2. Spelling(t) = << <<"char", t[1]>> >>
  BY WordsApart DEF Spelling, Valued, Operators
<1>3. First(t) = <<"char", t[1]>>
  BY <1>2 DEF First
<1>4. x[1] = "char" /\ v = t[1]
  <2> HIDE DEF x
  <2>1. Capital(x)[1] = "char" /\ Capital(x)[2] = t[1]
    BY <1>3 DEF x
  <2> QED
    BY <1>1, <2>1, CapitalOf
<1>5. ~Two(pieces, i)
  <2>1. x # <<"char", "-">>
    BY <1>4
  <2> QED
    BY <2>1 DEF Two
<1> HIDE DEF x
<1>6. TokenAt(pieces, i) = <<v>>
  BY <1>4, <1>5 DEF TokenAt, x
<1> QED
  BY <1>4, <1>5, <1>6

LEMMA PairFits ==
  ASSUME NEW pieces, IsOrdinary(pieces), NEW i \in DOMAIN pieces, i + 1 \in DOMAIN pieces,
         i < Len(pieces), NEW t, IsLegal(t), IsPair(t),
         Capital(pieces[i]) = First(t), Capital(pieces[i + 1]) = Second(t)
  PROVE  Two(pieces, i) /\ TokenAt(pieces, i) = t
<1> DEFINE x == pieces[i]
           y == pieces[i + 1]
<1>1. x = <<x[1], x[2]>> /\ y = <<y[1], y[2]>>
  BY DEF IsOrdinary
<1>2. CASE t[1] = "FLOAT"
  <2>1. t = <<"FLOAT", t[2]>> /\ t[2] \in Int /\ t[2] < 0
    BY <1>2, WordsApart DEF IsLegal, IsLiteral, Valued, Operators, IsPair
  <2> DEFINE n == t[2]
  <2>2. Spelling(t) = << <<"char", "-">>, <<"decimal", -n>> >>
    BY <1>2, <2>1, WordsApart DEF Spelling, Valued, Operators
  <2>3. First(t) = <<"char", "-">> /\ Second(t) = <<"decimal", -n>>
    BY <2>2 DEF First, Second
  <2> HIDE DEF x, y
  <2>4. x[1] = "char" /\ x[2] = "-" /\ y[1] = "decimal" /\ y[2] = -n
    <3>1. Capital(x)[1] = "char" /\ Capital(x)[2] = "-"
      BY <2>3 DEF x
    <3>2. Capital(y)[1] = "decimal" /\ Capital(y)[2] = -n
      BY <2>3 DEF y
    <3> QED
      BY <1>1, <3>1, <3>2, CapitalOf
  <2>5. Two(pieces, i)
    BY <1>1, <2>4 DEF Two, x, y
  <2>6. TokenAt(pieces, i) = <<"FLOAT", -y[2]>>
    BY <2>4, <2>5 DEF TokenAt, x, y
  <2>7. -y[2] = n
    BY <2>1, <2>4
  <2> QED
    BY <2>1, <2>5, <2>6, <2>7
<1>3. CASE t[1] \in {"!=", ">=", "<="}
  <2> DEFINE c == CASE t[1] = "!=" -> "!" [] t[1] = ">=" -> ">" [] t[1] = "<=" -> "<"
  <2>1. t = <<t[1]>>
    BY <1>3, WordsApart DEF IsLegal, IsLiteral, Valued, Operators
  <2>2. Spelling(t) = << <<"char", c>>, EqualSign >>
    <3>1. t[1] \notin Keywords /\ t[1] \notin Valued
      BY <1>3, WordsApart DEF Operators
    <3> QED
      BY <1>3, <3>1 DEF Spelling, Valued
  <2>3. \/ c = "!" /\ t[1] = "!="
        \/ c = ">" /\ t[1] = ">="
        \/ c = "<" /\ t[1] = "<="
    BY <1>3
  <2> HIDE DEF x, y, c
  <2>9. First(t) = <<"char", c>> /\ Second(t) = EqualSign
    BY <2>2 DEF First, Second
  <2>4. x[1] = "char" /\ x[2] = c /\ y[1] = "char" /\ y[2] = "="
    <3>1. Capital(x)[1] = "char" /\ Capital(x)[2] = c
      BY <2>9 DEF x
    <3>2. Capital(y)[1] = "char" /\ Capital(y)[2] = "="
      BY <2>9 DEF y, EqualSign
    <3> QED
      BY <1>1, <3>1, <3>2, CapitalOf
  <2>5. x \in Ahead /\ y = EqualSign
    BY <1>1, <2>3, <2>4 DEF Ahead, EqualSign
  <2>6. Two(pieces, i)
    BY <2>4, <2>5 DEF Two, x, y
  <2>7. TokenAt(pieces, i) = <<CASE x[2] = "!" -> "!=" [] x[2] = ">" -> ">=" [] x[2] = "<" -> "<=">>
    BY <2>3, <2>4, <2>6 DEF TokenAt, x, y
  <2>8. TokenAt(pieces, i) = <<t[1]>>
    BY <2>3, <2>4, <2>7
  <2> QED
    BY <2>1, <2>6, <2>8
<1> QED
  BY <1>2, <1>3 DEF IsPair

-----------------------------------------------------------------------------
SpeltFrom(ts, k) == FlattenSeq(SubSeq(Spellings(ts), k, Len(ts)))

\* The pieces tokens are spelled with.
Letters(ts) ==
  {First(ts[k]) : k \in 1..(Len(ts) - 1)} \cup {Second(ts[k]) : k \in 1..(Len(ts) - 1)}

LEMMA SentenceSpellings ==
  ASSUME NEW ts, IsSentence(ts)
  PROVE  /\ Spellings(ts) \in Seq(Seq(Letters(ts))) /\ Len(Spellings(ts)) = Len(ts)
         /\ \A k \in 1..Len(ts) : Spellings(ts)[k] = Spelling(ts[k])
<1> DEFINE n == Len(ts)
           W == Letters(ts)
           E == Elements(ts)
<1>1. n \in Nat \ {0} /\ ts \in Seq(E) /\ ts[n] = Eof
  BY DEF IsSentence
<1>2. Spelling(Eof) = <<>>
  BY WordsApart DEF Spelling, Valued, Operators, Eof
<1>3. \A k \in 1..(n - 1) : Spelling(ts[k]) \in Seq(W)
  <2> TAKE k \in 1..(n - 1)
  <2> DEFINE a == First(ts[k])
             b == Second(ts[k])
  <2>1. a \in W /\ b \in W
    BY DEF Letters
  <2>2. Spelling(ts[k]) = IF IsPair(ts[k]) THEN <<a, b>> ELSE <<a>>
    BY LegalSpelling DEF IsSentence
  <2> HIDE DEF a, b, W
  <2> QED
    BY <2>1, <2>2
<1>4. <<>> \in Seq(W)
  BY EmptySeq
<1> HIDE DEF W, E
<1>5. \A k \in 1..Len(ts) : Spelling(ts[k]) \in Seq(W)
  <2> TAKE k \in 1..Len(ts)
  <2>1. k \in 1..(n - 1) \/ k = n
    BY <1>1
  <2> QED
    BY <1>1, <1>2, <1>3, <1>4, <2>1
<1> HIDE DEF n
<1> QED
  BY <1>1, <1>5, SpellingsTyped DEF W

LEMMA SpeltStep ==
  ASSUME NEW ts, IsSentence(ts), NEW k \in 1..(Len(ts) - 1)
  PROVE  /\ SpeltFrom(ts, k) = IF IsPair(ts[k])
                               THEN <<First(ts[k])>> \o (<<Second(ts[k])>> \o SpeltFrom(ts, k + 1))
                               ELSE <<First(ts[k])>> \o SpeltFrom(ts, k + 1)
         /\ SpeltFrom(ts, k + 1) \in Seq(Letters(ts))
         /\ First(ts[k]) \in Letters(ts) /\ Second(ts[k]) \in Letters(ts)
<1> DEFINE n == Len(ts)
           W == Letters(ts)
           P == Spellings(ts)
           a == First(ts[k])
           b == Second(ts[k])
           later == SpeltFrom(ts, k + 1)
<1>1. n \in Nat /\ k \in 1..n
  BY DEF IsSentence
<1>2. P \in Seq(Seq(W)) /\ Len(P) = n /\ P[k] = Spelling(ts[k])
  BY <1>1, SentenceSpellings
<1>3. a \in W /\ b \in W
  BY DEF Letters
<1>4. P[k] = IF IsPair(ts[k]) THEN <<a, b>> ELSE <<a>>
  BY <1>2, LegalSpelling DEF IsSentence
<1> HIDE DEF P, W, n, a, b, later
<1>5. SpeltFrom(ts, k) = P[k] \o later /\ later \in Seq(W)
  BY <1>1, <1>2, FlattenFrom DEF SpeltFrom, P, later, n
<1>6. <<a, b>> \o later = <<a>> \o (<<b>> \o later)
  BY <1>3, <1>5, PairCons
<1> QED
  BY <1>3, <1>4, <1>5, <1>6 DEF W, a, b, later

LEMMA SpeltEnds ==
  ASSUME NEW ts, IsSentence(ts)
  PROVE  SpeltFrom(ts, Len(ts)) = <<>> /\ SpeltFrom(ts, 1) = Spelt(ts)
<1> DEFINE n == Len(ts)
           W == Letters(ts)
           P == Spellings(ts)
<1>1. n \in Nat \ {0} /\ ts[n] = Eof
  BY DEF IsSentence
<1>2. P \in Seq(Seq(W)) /\ Len(P) = n /\ P[n] = Spelling(ts[n])
  BY <1>1, SentenceSpellings
<1>3. Spelling(Eof) = <<>>
  BY WordsApart DEF Spelling, Valued, Operators, Eof
<1> HIDE DEF P, W, n
<1>4. SpeltFrom(ts, 1) = Spelt(ts)
  <2>1. SubSeq(P, 1, n) = P
    BY <1>2, SubSeqFull
  <2> QED
    BY <2>1 DEF SpeltFrom, Spelt, Spellings, P, n
<1>5. SpeltFrom(ts, n) = <<>>
  <2>1. FlattenSeq(SubSeq(P, n, n)) = P[n] \o FlattenSeq(SubSeq(P, n + 1, n))
    <3>1. n \in 1..Len(P)
      BY <1>1, <1>2
    <3>2. FlattenSeq(SubSeq(P, n, Len(P))) = P[n] \o FlattenSeq(SubSeq(P, n + 1, Len(P)))
      BY <1>2, <3>1, FlattenFrom
    <3> QED
      BY <1>2, <3>2
  <2>2. SubSeq(P, n + 1, n) = <<>>
    BY <1>1, <1>2, SubSeqEmpty
  <2>3. FlattenSeq(<<>>) = <<>>
    BY DEF FlattenSeq
  <2>4. P[n] = <<>>
    BY <1>1, <1>2, <1>3
  <2>5. <<>> \in Seq(W) /\ <<>> \o <<>> = <<>>
    BY EmptySeq, ConcatEmptySeq
  <2> QED
    BY <2>1, <2>2, <2>3, <2>4, <2>5 DEF SpeltFrom, P, n
<1> QED
  BY <1>4, <1>5 DEF n

LEMMA LiteralFirst ==
  ASSUME NEW t, IsLiteral(t)
  PROVE  First(t) # EqualSign
<1>1. Spelling(t) \in {<< <<"quoted", t[2]>> >>, << <<"digits", t[2]>> >>, << <<"decimal", t[2]>> >>,
                       << <<"char", "-">>, <<"decimal", -t[2]>> >>}
  BY WordsApart DEF IsLiteral, Spelling, Valued, Operators
<1>2. First(t) \in {<<"quoted", t[2]>>, <<"digits", t[2]>>, <<"decimal", t[2]>>, <<"char", "-">>}
  BY <1>1 DEF First
<1> QED
  BY <1>2 DEF EqualSign

\* Nothing blank follows the first piece of two.
\* The pieces from i on begin with the first that is no blank.
LEMMA FirstPiece ==
  ASSUME NEW pieces, IsText(pieces), NEW i \in 1..Len(pieces), PlainFrom(pieces, i) # <<>>
  PROVE  \E k \in i..Len(pieces) : /\ pieces[k] # Blank
                                   /\ PlainFrom(pieces, i) = PlainFrom(pieces, k)
                                   /\ \A j \in i..(k - 1) : pieces[j] = Blank
<1> DEFINE L == Len(pieces)
           Found(m) == \E k \in m..L : /\ pieces[k] # Blank
                                       /\ PlainFrom(pieces, m) = PlainFrom(pieces, k)
                                       /\ \A j \in m..(k - 1) : pieces[j] = Blank
           Q(m) == PlainFrom(pieces, m) # <<>> => Found(m)
           Ns == {n \in Nat : \A m \in 1..(L + 1) : m + n >= L + 1 => Q(m)}
<1>0. L \in Nat
  BY DEF IsText
<1>1. Q(L + 1)
  BY PlainEnds
<1>2. ASSUME NEW m \in 1..L, Q(m + 1) PROVE Q(m)
  <2> SUFFICES ASSUME PlainFrom(pieces, m) # <<>> PROVE Found(m)
    OBVIOUS
  <2>1. CASE pieces[m] # Blank
    <3>1. m \in m..L /\ \A j \in m..(m - 1) : pieces[j] = Blank
      BY <1>0
    <3> QED
      BY <2>1, <3>1
  <2>2. CASE pieces[m] = Blank
    <3>1. PlainFrom(pieces, m) = PlainFrom(pieces, m + 1)
      BY <2>2, PlainStep
    <3>2. Found(m + 1)
      BY <1>2, <3>1
    <3>3. PICK k \in (m + 1)..L : /\ pieces[k] # Blank
                                  /\ PlainFrom(pieces, m + 1) = PlainFrom(pieces, k)
                                  /\ \A j \in (m + 1)..(k - 1) : pieces[j] = Blank
      BY <3>2
    <3>4. k \in m..L /\ \A j \in m..(k - 1) : j = m \/ j \in (m + 1)..(k - 1)
      BY <1>0
    <3>5. \A j \in m..(k - 1) : pieces[j] = Blank
      BY <2>2, <3>3, <3>4
    <3> QED
      BY <3>1, <3>3, <3>4, <3>5
  <2> QED
    BY <2>1, <2>2
<1> HIDE DEF Q
<1>3. 0 \in Ns
  <2>1. \A m \in 1..(L + 1) : m + 0 >= L + 1 => m = L + 1
    BY <1>0
  <2> QED
    BY <1>1, <2>1
<1>4. ASSUME NEW n \in Nat, n \in Ns PROVE n + 1 \in Ns
  <2> SUFFICES ASSUME NEW m \in 1..(L + 1), m + (n + 1) >= L + 1 PROVE Q(m)
    OBVIOUS
  <2>1. CASE m = L + 1
    BY <1>1, <2>1
  <2>2. CASE m # L + 1
    <3>1. m \in 1..L /\ m + 1 \in 1..(L + 1) /\ (m + 1) + n >= L + 1
      BY <1>0, <2>2
    <3> QED
      BY <1>2, <1>4, <3>1
  <2> QED
    BY <2>1, <2>2
<1> HIDE DEF Ns
<1>5. L \in Ns
  BY <1>0, <1>3, <1>4, NatSet
<1>6. i \in 1..(L + 1) /\ i + L >= L + 1
  BY <1>0
<1>7. Q(i)
  BY <1>5, <1>6 DEF Ns
<1> QED
  BY <1>7 DEF Q

\* The two pieces of a token stand side by side.
LEMMA PairTight ==
  ASSUME NEW pieces, IsText(pieces), IsOrdinary(pieces), IsTight(pieces),
         NEW i \in 1..(Len(pieces) - 1), NEW t, IsLegal(t), IsPair(t),
         Capital(pieces[i]) = First(t),
         NEW V, Capitals(pieces) \subseteq V, Second(t) \in V, NEW rest \in Seq(V),
         PlainFrom(pieces, i + 1) = <<Second(t)>> \o rest
  PROVE  pieces[i + 1] # Blank
<1> SUFFICES ASSUME pieces[i + 1] = Blank PROVE FALSE
  OBVIOUS
<1> DEFINE L == Len(pieces)
           x == pieces[i]
           b == Second(t)
<1>0. L \in Nat /\ DOMAIN pieces = 1..L /\ i \in 1..L /\ i + 1 \in 1..L
  BY DEF IsText
<1>1. PICK k \in (i + 1)..L : /\ pieces[k] # Blank
                              /\ PlainFrom(pieces, i + 1) = PlainFrom(pieces, k)
                              /\ \A j \in (i + 1)..(k - 1) : pieces[j] = Blank
  <2>1. PlainFrom(pieces, i + 1) # <<>>
    BY NotEmptyCons
  <2> QED
    BY <1>0, <2>1, FirstPiece
<1> DEFINE y == pieces[k]
<1>2. k \in 1..L /\ i + 1 < k
  <2>1. k # i + 1
    BY <1>1
  <2> QED
    BY <1>0, <2>1
<1>3. Capital(y) = b
  <2> DEFINE c == Capital(y)
             later == PlainFrom(pieces, k + 1)
  <2>1. PlainFrom(pieces, k) = <<c>> \o later /\ later \in Seq(Capitals(pieces))
    BY <1>1, <1>2, PlainStep
  <2>2. c \in Capitals(pieces)
    BY <1>2 DEF Capitals
  <2> HIDE DEF c, later, b
  <2>3. c \in V /\ later \in Seq(V)
    BY <2>1, <2>2
  <2>4. b \in V /\ <<c>> \o later = <<b>> \o rest
    BY <1>1, <2>1 DEF b
  <2>5. c = b
    BY <2>3, <2>4, SameCons
  <2> QED
    BY <2>5 DEF c
<1>4. x = <<x[1], x[2]>> /\ y = <<y[1], y[2]>>
  BY <1>0, <1>2 DEF IsOrdinary
<1>5. \/ First(t) = <<"char", "-">> /\ b[1] = "decimal"
      \/ First(t) \in Ahead /\ b = EqualSign
  <2>1. CASE t[1] = "FLOAT"
    <3>1. Spelling(t) = << <<"char", "-">>, <<"decimal", -t[2]>> >>
      BY <2>1, WordsApart DEF IsPair, Spelling, Valued, Operators
    <3> QED
      BY <3>1 DEF First, Second
  <2>2. CASE t[1] \in {"!=", ">=", "<="}
    <3> DEFINE c == CASE t[1] = "!=" -> "!" [] t[1] = ">=" -> ">" [] t[1] = "<=" -> "<"
    <3>1. Spelling(t) = << <<"char", c>>, EqualSign >>
      <4>1. t[1] \notin Keywords /\ t[1] \notin Valued
        BY <2>2, WordsApart DEF Operators
      <4> QED
        BY <2>2, <4>1 DEF Spelling, Valued
    <3>2. c \in {"!", ">", "<"}
      BY <2>2
    <3> HIDE DEF c
    <3> QED
      BY <3>1, <3>2 DEF First, Second, Ahead
  <2> QED
    BY <2>1, <2>2 DEF IsPair
<1> HIDE DEF x, y, b
<1>6. First(t)[1] = "char" /\ (b = EqualSign => b[1] = "char")
  BY <1>5 DEF Ahead, EqualSign
<1>7. x = First(t)
  BY <1>4, <1>6, CapitalOf DEF x
<1>8. /\ b[1] = "decimal" => y[1] = "decimal"
      /\ b = EqualSign => y = EqualSign
  BY <1>3, <1>4, <1>6, CapitalOf
<1>9. Joined(x, y)
  BY <1>5, <1>7, <1>8 DEF Joined
<1> QED
  BY <1>0, <1>1, <1>2, <1>9 DEF IsTight, x, y

\* The tokens from k on are what the pieces from i on give, if they spell them.
Fits(pieces, ts, f, i) ==
  \A k \in 1..Len(ts) :
    SpeltFrom(ts, k) = PlainFrom(pieces, i) => f[i] = SubSeq(ts, k, Len(ts))

LEMMA PieceFits ==
  ASSUME NEW pieces, IsText(pieces), IsOrdinary(pieces), IsTight(pieces), CapitalKeywords,
         NEW ts, IsSentence(ts), NEW f, NEW i \in 1..Len(pieces), pieces[i] # Blank,
         f[i] = RestAt(f, pieces, i), Fits(pieces, ts, f, i + 1),
         i < Len(pieces) => Fits(pieces, ts, f, i + 2),
         NEW k \in 1..(Len(ts) - 1), SpeltFrom(ts, k) = PlainFrom(pieces, i)
  PROVE  f[i] = SubSeq(ts, k, Len(ts))
<1> DEFINE L == Len(pieces)
           n == Len(ts)
           V == Capitals(pieces) \cup Letters(ts)
           t == ts[k]
           a == First(t)
           b == Second(t)
           c == Capital(pieces[i])
           later == PlainFrom(pieces, i + 1)
           rest == SpeltFrom(ts, k + 1)
<1>0. /\ L \in Nat /\ DOMAIN pieces = 1..L /\ i <= L /\ n \in Nat /\ k \in 1..n /\ k + 1 \in 1..n
      /\ i + 1 \in 1..(L + 1)
  BY DEF IsText, IsSentence
<1>1. PlainFrom(pieces, i) = <<c>> \o later /\ later \in Seq(V) /\ c \in V
  <2>1. PlainFrom(pieces, i) = <<c>> \o later /\ later \in Seq(Capitals(pieces))
    BY PlainStep
  <2>2. c \in Capitals(pieces)
    BY DEF Capitals
  <2> HIDE DEF later, c
  <2> QED
    BY <2>1, <2>2
<1>2. /\ SpeltFrom(ts, k) = IF IsPair(t) THEN <<a>> \o (<<b>> \o rest) ELSE <<a>> \o rest
      /\ rest \in Seq(V) /\ a \in V /\ b \in V
  <2>1. /\ SpeltFrom(ts, k) = IF IsPair(t) THEN <<a>> \o (<<b>> \o rest) ELSE <<a>> \o rest
        /\ rest \in Seq(Letters(ts)) /\ a \in Letters(ts) /\ b \in Letters(ts)
    BY SpeltStep
  <2> HIDE DEF rest, a, b
  <2> QED
    BY <2>1
<1>3. f[i] = <<TokenAt(pieces, i)>> \o f[IF Two(pieces, i) THEN i + 2 ELSE i + 1]
  BY <1>0 DEF RestAt
<1>4. SubSeq(ts, k, n) = <<t>> \o SubSeq(ts, k + 1, n)
  <2>1. ts \in Seq(Elements(ts)) /\ n \in k..n
    BY <1>0 DEF IsSentence
  <2> QED
    BY <1>0, <2>1, SubSeqRecursiveFirst
<1>5. IsLegal(t) /\ (t[1] \in Operators => k + 1 \in 1..(n - 1) /\ IsLiteral(ts[k + 1]))
  BY DEF IsSentence
<1> HIDE DEF V, later, rest
<1>s. \A x, y \in V : \A u, w \in Seq(V) : <<x>> \o u = <<y>> \o w => x = y /\ u = w
  BY SameCons
<1>6. CASE IsPair(t)
  <2> DEFINE tail == <<b>> \o rest
  <2>1. tail \in Seq(V)
    BY <1>2, PairCons
  <2>2. <<c>> \o later = <<a>> \o tail
    BY <1>1, <1>2, <1>6
  <2> HIDE DEF a, b, c, tail
  <2>3. c = a /\ later = tail
    <3>1. c \in V /\ a \in V /\ later \in Seq(V)
      BY <1>1, <1>2
    <3> QED
      BY <1>s, <2>1, <2>2, <3>1
  <2>4. i < L
    <3>1. later # <<>>
      BY <1>2, <2>3, NotEmptyCons DEF tail
    <3>2. i + 1 # L + 1
      BY <3>1, PlainEnds DEF later
    <3> QED
      BY <1>0, <3>2
  <2>5. pieces[i + 1] # Blank
    <3>1. i \in 1..(Len(pieces) - 1)
      BY <1>0, <2>4
    <3>2. Capitals(pieces) \subseteq V /\ b \in V /\ rest \in Seq(V)
      BY <1>2 DEF V
    <3>3. PlainFrom(pieces, i + 1) = <<b>> \o rest
      BY <2>3 DEF tail, later
    <3> QED
      BY <1>5, <1>6, <2>3, <3>1, <3>2, <3>3, PairTight DEF a, b, c
  <2> DEFINE e == Capital(pieces[i + 1])
             beyond == PlainFrom(pieces, (i + 1) + 1)
  <2>6. later = <<e>> \o beyond /\ beyond \in Seq(V) /\ e \in V
    <3>1. i + 1 \in 1..L
      BY <1>0, <2>4
    <3>2. later = <<e>> \o beyond /\ beyond \in Seq(Capitals(pieces))
      BY <2>5, <3>1, PlainStep DEF later
    <3>3. e \in Capitals(pieces)
      BY <3>1 DEF Capitals
    <3> HIDE DEF e, beyond
    <3> QED
      BY <3>2, <3>3 DEF V
  <2> HIDE DEF e, beyond
  <2>7. e = b /\ beyond = rest
    <3>1. <<e>> \o beyond = <<b>> \o rest
      BY <2>3, <2>6 DEF tail
    <3>2. b \in V /\ rest \in Seq(V) /\ e \in V /\ beyond \in Seq(V)
      BY <1>2, <2>6
    <3> QED
      BY <1>s, <3>1, <3>2
  <2>8. Two(pieces, i) /\ TokenAt(pieces, i) = t
    <3>1. i \in DOMAIN pieces /\ i + 1 \in DOMAIN pieces /\ i < Len(pieces)
      BY <1>0, <2>4
    <3> QED
      BY <1>5, <1>6, <2>3, <2>7, <3>1, PairFits DEF a, b, c, e
  <2>9. (i + 1) + 1 = i + 2
    OBVIOUS
  <2>10. f[i + 2] = SubSeq(ts, k + 1, n)
    BY <1>0, <2>4, <2>7, <2>9 DEF Fits, beyond, rest
  <2> QED
    BY <1>3, <1>4, <2>8, <2>10
<1>7. CASE ~IsPair(t)
  <2>1. <<c>> \o later = <<a>> \o rest
    BY <1>1, <1>2, <1>7
  <2> HIDE DEF a, c
  <2>2. c = a /\ later = rest
    BY <1>1, <1>2, <1>s, <2>1
  <2>3. ASSUME t[1] \in {"=", ">", "<"}, i < L
        PROVE  pieces[i + 1] # EqualSign
    <3> SUFFICES ASSUME pieces[i + 1] = EqualSign PROVE FALSE
      OBVIOUS
    <3> DEFINE e == Capital(pieces[i + 1])
               d == First(ts[k + 1])
               beyond == PlainFrom(pieces, (i + 1) + 1)
               end == IF IsPair(ts[k + 1])
                      THEN <<Second(ts[k + 1])>> \o SpeltFrom(ts, (k + 1) + 1)
                      ELSE SpeltFrom(ts, (k + 1) + 1)
    <3>1. i + 1 \in 1..L /\ pieces[i + 1] # Blank /\ e = EqualSign
      <4>1. i + 1 \in 1..L
        BY <1>0, <2>3
      <4>2. EqualSign # Blank
        BY DEF Blank, EqualSign
      <4>3. Capital(EqualSign) = EqualSign
        BY DEF EqualSign, Capital
      <4> QED
        BY <4>1, <4>2, <4>3
    <3>2. later = <<e>> \o beyond /\ beyond \in Seq(V) /\ e \in V
      <4>1. later = <<e>> \o beyond /\ beyond \in Seq(Capitals(pieces))
        BY <3>1, PlainStep DEF later
      <4>2. e \in Capitals(pieces)
        BY <3>1 DEF Capitals
      <4> HIDE DEF e, beyond
      <4> QED
        BY <4>1, <4>2 DEF V
    <3>3. k + 1 \in 1..(n - 1) /\ IsLiteral(ts[k + 1])
      BY <1>5, <2>3 DEF Operators
    <3>4. rest = <<d>> \o end /\ end \in Seq(V) /\ d \in V
      <4> DEFINE g == Second(ts[k + 1])
                 w == SpeltFrom(ts, (k + 1) + 1)
      <4>1. /\ rest = IF IsPair(ts[k + 1]) THEN <<d>> \o (<<g>> \o w) ELSE <<d>> \o w
            /\ w \in Seq(Letters(ts)) /\ d \in Letters(ts) /\ g \in Letters(ts)
        BY <3>3, SpeltStep DEF rest
      <4> HIDE DEF d, g, w
      <4>2. w \in Seq(V) /\ d \in V /\ g \in V
        BY <4>1 DEF V
      <4>3. <<g>> \o w \in Seq(V)
        BY <4>2, PairCons
      <4> QED
        BY <4>1, <4>2, <4>3 DEF g, w
    <3> HIDE DEF e, d, beyond, end
    <3>5. e = d
      <4>1. <<e>> \o beyond = <<d>> \o end
        BY <2>2, <3>2, <3>4
      <4> QED
        BY <1>s, <3>2, <3>4, <4>1
    <3>6. d # EqualSign
      BY <3>3, LiteralFirst DEF d
    <3> QED
      BY <3>1, <3>5, <3>6
  <2>4. ~Two(pieces, i) /\ TokenAt(pieces, i) = t
    <3>1. i \in DOMAIN pieces
      BY <1>0
    <3>2. CASE t[1] \in Keywords \cup {"IDENT"}
      BY <1>5, <2>2, <3>1, <3>2, WordFits DEF a, c
    <3>3. CASE IsLiteral(t)
      BY <1>7, <2>2, <3>1, <3>3, LiteralFits DEF a, c
    <3>4. CASE t[1] \in Operators
      <4>1. t = <<t[1]>> /\ t[1] \in {"=", ">", "<"}
        BY <1>5, <1>7, <3>4, WordsApart DEF IsLegal, IsLiteral, Valued, Operators, IsPair
      <4> QED
        BY <2>2, <2>3, <3>1, <4>1, OperatorFits DEF a, c
    <3> QED
      BY <1>5, <3>2, <3>3, <3>4 DEF IsLegal
  <2>5. f[i + 1] = SubSeq(ts, k + 1, n)
    BY <1>0, <2>2 DEF Fits, later, rest
  <2> QED
    BY <1>3, <1>4, <2>4, <2>5
<1> QED
  BY <1>6, <1>7

LEMMA RestFits ==
  ASSUME NEW pieces, IsText(pieces), IsOrdinary(pieces), IsTight(pieces), CapitalKeywords,
         NEW ts, IsSentence(ts), NEW f, IsRest(f, pieces, 1)
  PROVE  \A i \in 1..(Len(pieces) + 1) : Fits(pieces, ts, f, i)
<1> DEFINE L == Len(pieces)
           n == Len(ts)
           P(i) == Fits(pieces, ts, f, i)
           S == {m \in Nat : \A i \in 1..(L + 1) : i + m >= L + 1 => P(i)}
<1>0. L \in Nat /\ n \in Nat \ {0} /\ ts \in Seq(Elements(ts)) /\ ts[n] = Eof
  BY DEF IsText, IsSentence
<1>1. \A i \in 1..(L + 1) : f[i] = RestAt(f, pieces, i)
  BY DEF IsRest
<1>2. \A k \in 1..n : k = n \/ k \in 1..(n - 1)
  BY <1>0
<1>3. \A k \in 1..(n - 1) : SpeltFrom(ts, k) # <<>>
  <2> TAKE k \in 1..(n - 1)
  <2> DEFINE W == Letters(ts)
             a == First(ts[k])
             b == Second(ts[k])
             later == SpeltFrom(ts, k + 1)
  <2>1. /\ SpeltFrom(ts, k) = IF IsPair(ts[k]) THEN <<a>> \o (<<b>> \o later) ELSE <<a>> \o later
        /\ later \in Seq(W) /\ a \in W /\ b \in W
    BY SpeltStep
  <2> HIDE DEF W, a, b, later
  <2>2. <<b>> \o later \in Seq(W)
    BY <2>1, PairCons
  <2>3. \A u \in Seq(W) : <<a>> \o u # <<>>
    BY <2>1, NotEmptyCons
  <2> QED
    BY <2>1, <2>2, <2>3
<1>4. P(L + 1)
  <2>1. L + 1 \in 1..(L + 1) /\ L + 1 > L
    BY <1>0
  <2>2. f[L + 1] = RestAt(f, pieces, L + 1)
    BY <1>1, <2>1
  <2>3. f[L + 1] = <<Eof>>
    BY <2>1, <2>2 DEF RestAt
  <2>4. SubSeq(ts, n, n) = <<ts[n]>>
    <3>1. n \in 1..n /\ n \in n..n
      BY <1>0
    <3>2. SubSeq(ts, n, n) = <<ts[n]>> \o SubSeq(ts, n + 1, n)
      BY <1>0, <3>1, SubSeqRecursiveFirst
    <3>3. SubSeq(ts, n + 1, n) = <<>>
      BY <1>0, SubSeqEmpty
    <3>4. <<ts[n]>> \in Seq(Elements(ts))
      BY <3>1 DEF Elements
    <3>5. <<ts[n]>> \o <<>> = <<ts[n]>>
      BY <3>4, ConcatEmptySeq
    <3> QED
      BY <3>2, <3>3, <3>5
  <2>5. PlainFrom(pieces, L + 1) = <<>>
    BY PlainEnds
  <2>6. ASSUME NEW k \in 1..n, SpeltFrom(ts, k) = PlainFrom(pieces, L + 1)
        PROVE  f[L + 1] = SubSeq(ts, k, n)
    <3>1. k = n
      BY <1>2, <1>3, <2>5, <2>6
    <3> QED
      BY <1>0, <2>3, <2>4, <3>1
  <2> QED
    BY <2>6 DEF Fits
<1>5. ASSUME NEW i \in 1..L, P(i + 1), i < L => P(i + 2)
      PROVE  P(i)
  <2>0. f[i] = RestAt(f, pieces, i) /\ ~(i > L)
    BY <1>0, <1>1
  <2>1. CASE pieces[i] = Blank
    <3>1. f[i] = f[i + 1]
      BY <2>0, <2>1 DEF RestAt
    <3>2. PlainFrom(pieces, i) = PlainFrom(pieces, i + 1)
      BY <2>1, PlainStep
    <3> QED
      BY <1>5, <3>1, <3>2 DEF Fits
  <2>2. CASE pieces[i] # Blank
    <3> SUFFICES ASSUME NEW k \in 1..n, SpeltFrom(ts, k) = PlainFrom(pieces, i)
                 PROVE  f[i] = SubSeq(ts, k, n)
      BY DEF Fits
    <3>1. PlainFrom(pieces, i) # <<>>
      <4> DEFINE U == Capitals(pieces)
                 c == Capital(pieces[i])
                 later == PlainFrom(pieces, i + 1)
      <4>1. PlainFrom(pieces, i) = <<c>> \o later /\ later \in Seq(U) /\ c \in U
        BY <2>2, PlainStep DEF Capitals
      <4> HIDE DEF U, c, later
      <4> QED
        BY <4>1, NotEmptyCons
    <3>2. SpeltFrom(ts, n) = <<>>
      BY SpeltEnds
    <3>3. k \in 1..(n - 1)
      BY <1>2, <3>1, <3>2
    <3> QED
      BY <1>5, <2>0, <2>2, <3>3, PieceFits
  <2> QED
    BY <2>1, <2>2
<1> HIDE DEF P
<1>6. 0 \in S
  <2>1. \A i \in 1..(L + 1) : i + 0 >= L + 1 => i = L + 1
    BY <1>0
  <2> QED
    BY <1>4, <2>1
<1>7. ASSUME NEW m \in Nat, m \in S PROVE m + 1 \in S
  <2> SUFFICES ASSUME NEW i \in 1..(L + 1), i + (m + 1) >= L + 1 PROVE P(i)
    OBVIOUS
  <2>1. CASE i = L + 1
    BY <1>4, <2>1
  <2>2. CASE i # L + 1
    <3>1. /\ i \in 1..L /\ i + 1 \in 1..(L + 1) /\ (i + 1) + m >= L + 1
      BY <1>0, <2>2
    <3>2. i < L => i + 2 \in 1..(L + 1) /\ (i + 2) + m >= L + 1
      BY <1>0, <3>1
    <3>3. P(i + 1) /\ (i < L => P(i + 2))
      BY <1>7, <3>1, <3>2
    <3> QED
      BY <1>5, <3>1, <3>3
  <2> QED
    BY <2>1, <2>2
<1> HIDE DEF S
<1>8. L \in S
  BY <1>0, <1>6, <1>7, NatSet
<1>9. \A i \in 1..(L + 1) : i + L >= L + 1
  BY <1>0
<1> QED
  BY <1>8, <1>9 DEF S, P

LEMMA SentenceTokenized ==
  ASSUME NEW pieces, IsText(pieces), IsOrdinary(pieces), IsTight(pieces), CapitalKeywords,
         NEW ts, IsSentence(ts), Plain(pieces) = Spelt(ts)
  PROVE  Tokenize(pieces) = ts
<1> DEFINE f == CHOOSE g : IsRest(g, pieces, 1)
           n == Len(ts)
<1>0. Len(pieces) \in Nat /\ n \in Nat \ {0} /\ ts \in Seq(Elements(ts))
  BY DEF IsText, IsSentence
<1>1. IsRest(f, pieces, 1)
  BY <1>0, RestExists
<1>2. Tokenize(pieces) = f[1]
  BY TokenizeIsRest
<1> HIDE DEF f
<1>3. 1 \in 1..(Len(pieces) + 1) /\ 1 \in 1..n
  BY <1>0
<1>4. Fits(pieces, ts, f, 1)
  BY <1>1, <1>3, RestFits
<1>5. SpeltFrom(ts, 1) = PlainFrom(pieces, 1)
  BY PlainEnds, SpeltEnds
<1>6. f[1] = SubSeq(ts, 1, n)
  BY <1>3, <1>4, <1>5 DEF Fits
<1>7. SubSeq(ts, 1, n) = ts
  BY <1>0, SubSeqFull
<1> QED
  BY <1>2, <1>6, <1>7

-----------------------------------------------------------------------------
(* Rows of tokens in a sentence *)

\* Tokens of the grammar, each operator with its literal.
IsPhrase(row) ==
  /\ Len(row) \in Nat /\ row \in Seq(Elements(row))
  /\ \A k \in 1..Len(row) :
       /\ IsLegal(row[k])
       /\ row[k][1] \in Operators => k + 1 \in 1..Len(row) /\ IsLiteral(row[k + 1])

\* At position p there is row, and something after it.
Stands(ts, p, row) ==
  /\ p \in Nat \ {0} /\ Len(row) \in Nat /\ p + Len(row) <= Len(ts)
  /\ \A k \in 1..Len(row) : ts[p + k - 1] = row[k]

LEMMA PhraseConcat ==
  ASSUME NEW a, IsPhrase(a), NEW b, IsPhrase(b)
  PROVE  /\ IsPhrase(a \o b) /\ Len(a \o b) = Len(a) + Len(b)
         /\ \A k \in 1..Len(a) : (a \o b)[k] = a[k]
         /\ \A k \in 1..Len(b) : (a \o b)[Len(a) + k] = b[k]
<1> DEFINE U == Elements(a) \cup Elements(b)
           s == a \o b
           m == Len(a)
           n == Len(b)
<1>1. m \in Nat /\ n \in Nat /\ a \in Seq(Elements(a)) /\ b \in Seq(Elements(b))
  BY DEF IsPhrase
<1>2. a \in Seq(U) /\ b \in Seq(U)
  BY <1>1
<1> HIDE DEF U
<1>3. /\ s \in Seq(U) /\ Len(s) = m + n
      /\ \A k \in 1..(m + n) : s[k] = IF k <= m THEN a[k] ELSE b[k - m]
  BY <1>2, ConcatProperties
<1> HIDE DEF s
<1>4. \A k \in 1..m : s[k] = a[k]
  BY <1>1, <1>3
<1>5. \A k \in 1..n : s[m + k] = b[k]
  <2> TAKE k \in 1..n
  <2>1. m + k \in 1..(m + n) /\ ~(m + k <= m) /\ (m + k) - m = k
    BY <1>1
  <2> QED
    BY <1>3, <2>1
<1>6. s \in Seq(Elements(s))
  <2>1. s \in [1..Len(s) -> U] /\ Len(s) \in Nat
    BY <1>1, <1>3, LenProperties
  <2>2. s \in [1..Len(s) -> Elements(s)]
    BY <2>1 DEF Elements
  <2> QED
    BY <2>1, <2>2, SeqDef
<1> HIDE DEF m, n
<1>7. ASSUME NEW k \in 1..(m + n)
      PROVE  /\ IsLegal(s[k])
             /\ s[k][1] \in Operators => k + 1 \in 1..(m + n) /\ IsLiteral(s[k + 1])
  <2>1. CASE k \in 1..m
    <3>1. /\ IsLegal(a[k])
          /\ a[k][1] \in Operators => k + 1 \in 1..m /\ IsLiteral(a[k + 1])
      BY <2>1 DEF IsPhrase, m
    <3>2. k + 1 \in 1..m => k + 1 \in 1..(m + n)
      BY <1>1
    <3> QED
      BY <1>4, <2>1, <3>1, <3>2
  <2>2. CASE k \notin 1..m
    <3> DEFINE i == k - m
    <3>1. i \in 1..n /\ k = m + i
      BY <1>1, <2>2
    <3>2. /\ IsLegal(b[i])
          /\ b[i][1] \in Operators => i + 1 \in 1..n /\ IsLiteral(b[i + 1])
      BY <3>1 DEF IsPhrase, n
    <3>3. i + 1 \in 1..n => k + 1 \in 1..(m + n) /\ k + 1 = m + (i + 1)
      BY <1>1, <3>1
    <3> HIDE DEF i
    <3> QED
      BY <1>5, <3>1, <3>2, <3>3
  <2> QED
    BY <2>1, <2>2
<1>8. IsPhrase(s)
  BY <1>1, <1>3, <1>6, <1>7 DEF IsPhrase
<1> QED
  BY <1>3, <1>4, <1>5, <1>8 DEF s, m, n

LEMMA StandsApart ==
  ASSUME NEW ts, Len(ts) \in Nat, NEW p, NEW a, IsPhrase(a), NEW b, IsPhrase(b),
         Stands(ts, p, a \o b)
  PROVE  /\ Stands(ts, p, a) /\ Stands(ts, p + Len(a), b)
         /\ Len(a \o b) = Len(a) + Len(b)
<1> DEFINE s == a \o b
           m == Len(a)
           n == Len(b)
<1>1. m \in Nat /\ n \in Nat
  BY DEF IsPhrase
<1>2. /\ Len(s) = m + n
      /\ \A k \in 1..m : s[k] = a[k]
      /\ \A k \in 1..n : s[m + k] = b[k]
  BY PhraseConcat
<1>3. /\ p \in Nat \ {0} /\ p + (m + n) <= Len(ts)
      /\ \A k \in 1..(m + n) : ts[p + k - 1] = s[k]
  BY <1>2 DEF Stands
<1> HIDE DEF s, m, n
<1>4. \A k \in 1..m : ts[p + k - 1] = a[k]
  <2> TAKE k \in 1..m
  <2>1. k \in 1..(m + n)
    BY <1>1
  <2> QED
    BY <1>2, <1>3, <2>1
<1>5. \A k \in 1..n : ts[(p + m) + k - 1] = b[k]
  <2> TAKE k \in 1..n
  <2>1. m + k \in 1..(m + n) /\ p + (m + k) - 1 = (p + m) + k - 1
    BY <1>1, <1>3
  <2> QED
    BY <1>2, <1>3, <2>1
<1>6. p + m <= Len(ts) /\ p + m \in Nat \ {0} /\ (p + m) + n <= Len(ts)
  BY <1>1, <1>3
<1> QED
  BY <1>1, <1>2, <1>3, <1>4, <1>5, <1>6 DEF Stands, s, m, n

\* The token at the place of one in the row.
LEMMA StandsKind ==
  ASSUME NEW ts, Len(ts) \in Nat, NEW p, NEW row, Stands(ts, p, row), NEW k \in 1..Len(row)
  PROVE  ts[p + k - 1] = row[k] /\ Kind(ts, p + k - 1) = row[k][1]
<1>1. p + k - 1 < Len(ts)
  BY DEF Stands
<1> QED
  BY <1>1 DEF Stands, Kind

LEMMA PairStands ==
  ASSUME NEW ts, Len(ts) \in Nat, NEW p, NEW a, NEW b, Stands(ts, p, <<a, b>>)
  PROVE  /\ ts[p] = a /\ ts[p + 1] = b /\ Kind(ts, p) = a[1] /\ Kind(ts, p + 1) = b[1]
         /\ p + 2 <= Len(ts) /\ p \in Nat \ {0}
<1>1. Len(<<a, b>>) = 2 /\ <<a, b>>[1] = a /\ <<a, b>>[2] = b /\ p \in Nat \ {0}
  BY DEF Stands
<1>2. 1 \in 1..Len(<<a, b>>) /\ 2 \in 1..Len(<<a, b>>)
  BY <1>1
<1>3. ts[p + 1 - 1] = a /\ Kind(ts, p + 1 - 1) = a[1]
  BY <1>1, <1>2, StandsKind
<1>4. ts[p + 2 - 1] = b /\ Kind(ts, p + 2 - 1) = b[1]
  BY <1>1, <1>2, StandsKind
<1>5. p + 1 - 1 = p /\ p + 2 - 1 = p + 1
  BY <1>1
<1> QED
  BY <1>1, <1>3, <1>4, <1>5 DEF Stands

-----------------------------------------------------------------------------
(* The clauses of a query, read from their tokens *)

IsLimit(limit) == limit = NoLimit \/ limit \in 0..MaxU32

IsTime(clause) ==
  \/ clause = <<>>
  \/ clause = <<clause[1], clause[2]>> /\ clause[1] \in {"AT", "BEFORE", "AFTER"}

LEMMA LimitKept ==
  ASSUME NEW ts, IsTokens(ts), NEW p, NEW limit, IsLimit(limit),
         Stands(ts, p, LimitTokens(limit)), p + Len(LimitTokens(limit)) = Len(ts)
  PROVE  ParseLimit(ts, p) = Got(limit, Len(ts)) /\ Kind(ts, p) \in {"LIMIT", "EOF"}
<1> DEFINE row == LimitTokens(limit)
<1>0. Len(ts) \in Nat \ {0} /\ ts[Len(ts)][1] = "EOF" /\ p \in Nat \ {0}
  BY DEF IsTokens, Eof, Stands
<1>1. CASE limit = NoLimit
  <2>1. Len(row) = 0
    BY <1>1 DEF LimitTokens
  <2>2. p = Len(ts)
    BY <1>0, <2>1
  <2>3. Kind(ts, p) = "EOF"
    BY <1>0, <2>2 DEF Kind
  <2> QED
    BY <1>1, <2>2, <2>3 DEF ParseLimit
<1>2. CASE limit # NoLimit
  <2>1. row = << <<"LIMIT">>, <<"INTEGER", limit>> >>
    BY <1>2 DEF LimitTokens
  <2> DEFINE a == <<"LIMIT">>
             b == <<"INTEGER", limit>>
  <2>2. Stands(ts, p, <<a, b>>) /\ a[1] = "LIMIT" /\ b[1] = "INTEGER" /\ b[2] = limit
    BY <2>1
  <2>3. Len(row) = 2
    BY <2>1
  <2> HIDE DEF a, b, row
  <2>4. Kind(ts, p) = "LIMIT" /\ Kind(ts, p + 1) = "INTEGER" /\ ts[p + 1][2] = limit
    BY <1>0, <2>2, PairStands
  <2>5. limit <= MaxU32
    BY <1>2 DEF IsLimit
  <2>6. Expect(ts, p + 1, <<"INTEGER">>)
    <3>1. (p + 1) + 1 - 1 = p + 1
      BY <1>0
    <3> QED
      BY <2>4, <3>1 DEF Expect
  <2>7. p + 2 = Len(ts)
    BY <2>3 DEF row
  <2> QED
    BY <2>4, <2>5, <2>6, <2>7 DEF ParseLimit
<1> QED
  BY <1>1, <1>2

LEMMA TimeKept ==
  ASSUME NEW ts, IsTokens(ts), NEW p, NEW clause, IsTime(clause),
         Stands(ts, p, TimeTokens(clause)),
         Kind(ts, p + Len(TimeTokens(clause))) \in {"WHERE", "LIMIT", "EOF"}
  PROVE  ParseTimeClause(ts, p) = Got(clause, p + Len(TimeTokens(clause)))
<1> DEFINE row == TimeTokens(clause)
<1>0. Len(ts) \in Nat \ {0} /\ p \in Nat \ {0}
  BY DEF IsTokens, Stands
<1>1. CASE clause = <<>>
  <2>1. Len(row) = 0
    BY <1>1 DEF TimeTokens
  <2>2. p + Len(row) = p
    BY <1>0, <2>1
  <2> QED
    BY <1>1, <2>2 DEF ParseTimeClause
<1>2. CASE clause # <<>>
  <2>0. clause = <<clause[1], clause[2]>> /\ clause[1] \in {"AT", "BEFORE", "AFTER"}
    BY <1>2 DEF IsTime
  <2> DEFINE word == clause[1]
             time == clause[2]
             a == <<word>>
             b == <<"STRING", time>>
  <2>1. row = << a, b >>
    BY <1>2 DEF TimeTokens
  <2>2. Stands(ts, p, <<a, b>>) /\ a[1] = word /\ b[1] = "STRING" /\ b[2] = time
    BY <2>1
  <2>3. Len(row) = 2
    BY <2>1
  <2> HIDE DEF a, b, row
  <2>4. Kind(ts, p) = word /\ Kind(ts, p + 1) = "STRING" /\ ts[p + 1][2] = time
    BY <1>0, <2>2, PairStands
  <2>6. Expect(ts, p + 1, <<"STRING">>)
    <3>1. (p + 1) + 1 - 1 = p + 1
      BY <1>0
    <3> QED
      BY <2>4, <3>1 DEF Expect
  <2>7. ParseTimeClause(ts, p) = Got(<<word, time>>, p + 2)
    BY <2>0, <2>4, <2>6 DEF ParseTimeClause
  <2> QED
    BY <2>0, <2>3, <2>7 DEF row
<1> QED
  BY <1>1, <1>2

\* Terms of the grammar.
IsFilter(filter) ==
  /\ Len(filter) \in Nat /\ filter \in Seq(Elements(filter))
  /\ \A j \in 1..Len(filter) :
       LET term == filter[j]
       IN /\ term = [field |-> term.field, op |-> term.op, value |-> term.value]
          /\ Upper[term.field] \notin Keywords
          /\ term.op \in Operators
          /\ IsLiteral(term.value)

\* The four tokens of each term.
LEMMA FilterRow ==
  ASSUME NEW filter, Len(filter) \in Nat
  PROVE  /\ DOMAIN FilterTokens(filter) = 1..(4 * Len(filter))
         /\ Len(FilterTokens(filter)) = 4 * Len(filter)
         /\ FilterTokens(filter) \in Seq(Elements(FilterTokens(filter)))
         /\ \A j \in 1..Len(filter) :
              LET at == 4 * (j - 1)
              IN /\ FilterTokens(filter)[at + 1] = IF j = 1 THEN <<"WHERE">> ELSE <<"AND">>
                 /\ FilterTokens(filter)[at + 2] = <<"IDENT", filter[j].field>>
                 /\ FilterTokens(filter)[at + 3] = <<filter[j].op>>
                 /\ FilterTokens(filter)[at + 4] = filter[j].value
<1> DEFINE n == Len(filter)
           row == FilterTokens(filter)
           E == Elements(row)
<1>1. row = [k \in 1..(4 * n) |->
               LET term == filter[(k + 3) \div 4]
               IN CASE k = 1              -> <<"WHERE">>
                    [] k % 4 = 1 /\ k # 1 -> <<"AND">>
                    [] k % 4 = 2          -> <<"IDENT", term.field>>
                    [] k % 4 = 3          -> <<term.op>>
                    [] k % 4 = 0          -> term.value]
  BY DEF FilterTokens
<1> HIDE DEF row, n
<1>2. n \in Nat /\ 4 * n \in Nat
  BY DEF n
<1>3. row \in [1..(4 * n) -> {row[k] : k \in 1..(4 * n)}]
  BY <1>1
<1>4. row \in Seq({row[k] : k \in 1..(4 * n)}) /\ Len(row) = 4 * n /\ DOMAIN row = 1..(4 * n)
  BY <1>2, <1>3, SeqDef
<1>5. row \in Seq(E)
  BY <1>4 DEF Elements
<1>6. ASSUME NEW j \in 1..n
      PROVE  LET at == 4 * (j - 1)
             IN /\ row[at + 1] = IF j = 1 THEN <<"WHERE">> ELSE <<"AND">>
                /\ row[at + 2] = <<"IDENT", filter[j].field>>
                /\ row[at + 3] = <<filter[j].op>>
                /\ row[at + 4] = filter[j].value
  <2> DEFINE at == 4 * (j - 1)
  <2>1. /\ at + 1 \in 1..(4 * n) /\ at + 2 \in 1..(4 * n) /\ at + 3 \in 1..(4 * n)
        /\ at + 4 \in 1..(4 * n)
    BY <1>2
  <2>2. /\ ((at + 2) + 3) \div 4 = j /\ ((at + 3) + 3) \div 4 = j /\ ((at + 4) + 3) \div 4 = j
        /\ (at + 1) % 4 = 1 /\ (at + 2) % 4 = 2 /\ (at + 3) % 4 = 3 /\ (at + 4) % 4 = 0
        /\ (at + 1 = 1 <=> j = 1) /\ at + 2 # 1 /\ at + 3 # 1 /\ at + 4 # 1
    BY <1>2
  <2> HIDE DEF at
  <2>3. row[at + 1] = IF j = 1 THEN <<"WHERE">> ELSE <<"AND">>
    <3>1. row[at + 1] = LET k == at + 1
                            term == filter[(k + 3) \div 4]
                        IN CASE k = 1              -> <<"WHERE">>
                             [] k % 4 = 1 /\ k # 1 -> <<"AND">>
                             [] k % 4 = 2          -> <<"IDENT", term.field>>
                             [] k % 4 = 3          -> <<term.op>>
                             [] k % 4 = 0          -> term.value
      BY <1>1, <2>1
    <3> QED
      BY <2>2, <3>1
  <2>4. row[at + 2] = <<"IDENT", filter[j].field>>
    <3>1. row[at + 2] = LET k == at + 2
                            term == filter[(k + 3) \div 4]
                        IN CASE k = 1              -> <<"WHERE">>
                             [] k % 4 = 1 /\ k # 1 -> <<"AND">>
                             [] k % 4 = 2          -> <<"IDENT", term.field>>
                             [] k % 4 = 3          -> <<term.op>>
                             [] k % 4 = 0          -> term.value
      BY <1>1, <2>1
    <3> QED
      BY <2>2, <3>1
  <2>5. row[at + 3] = <<filter[j].op>>
    <3>1. row[at + 3] = LET k == at + 3
                            term == filter[(k + 3) \div 4]
                        IN CASE k = 1              -> <<"WHERE">>
                             [] k % 4 = 1 /\ k # 1 -> <<"AND">>
                             [] k % 4 = 2          -> <<"IDENT", term.field>>
                             [] k % 4 = 3          -> <<term.op>>
                             [] k % 4 = 0          -> term.value
      BY <1>1, <2>1
    <3> QED
      BY <2>2, <3>1
  <2>6. row[at + 4] = filter[j].value
    <3>1. row[at + 4] = LET k == at + 4
                            term == filter[(k + 3) \div 4]
                        IN CASE k = 1              -> <<"WHERE">>
                             [] k % 4 = 1 /\ k # 1 -> <<"AND">>
                             [] k % 4 = 2          -> <<"IDENT", term.field>>
                             [] k % 4 = 3          -> <<term.op>>
                             [] k % 4 = 0          -> term.value
      BY <1>1, <2>1
    <3> QED
      BY <2>2, <3>1
  <2> QED
    BY <2>3, <2>4, <2>5, <2>6 DEF at
<1> QED
  BY <1>4, <1>5, <1>6 DEF n, row

\* The term a token of a filter belongs to.
LEMMA FilterPlace ==
  ASSUME NEW n \in Nat, NEW k \in 1..(4 * n)
  PROVE  \E j \in 1..n : k \in {4 * (j - 1) + 1, 4 * (j - 1) + 2, 4 * (j - 1) + 3, 4 * (j - 1) + 4}
<1> DEFINE j == (k + 3) \div 4
<1>1. /\ j \in 1..n /\ k \in (4 * (j - 1) + 1)..(4 * (j - 1) + 4)
  OBVIOUS
<1>2. k \in {4 * (j - 1) + 1, 4 * (j - 1) + 2, 4 * (j - 1) + 3, 4 * (j - 1) + 4}
  BY <1>1
<1> HIDE DEF j
<1> QED
  BY <1>1, <1>2

LEMMA FilterPhrase ==
  ASSUME NEW filter, IsFilter(filter)
  PROVE  IsPhrase(FilterTokens(filter))
<1> DEFINE n == Len(filter)
           row == FilterTokens(filter)
<1>1. n \in Nat
  BY DEF IsFilter
<1>2. /\ Len(row) = 4 * n /\ row \in Seq(Elements(row))
      /\ \A j \in 1..n :
           LET at == 4 * (j - 1)
           IN /\ row[at + 1] = IF j = 1 THEN <<"WHERE">> ELSE <<"AND">>
              /\ row[at + 2] = <<"IDENT", filter[j].field>>
              /\ row[at + 3] = <<filter[j].op>>
              /\ row[at + 4] = filter[j].value
  BY <1>1, FilterRow
<1> HIDE DEF row
<1>3. ASSUME NEW k \in 1..(4 * n)
      PROVE  /\ IsLegal(row[k])
             /\ row[k][1] \in Operators => k + 1 \in 1..(4 * n) /\ IsLiteral(row[k + 1])
  <2>1. PICK j \in 1..n :
          k \in {4 * (j - 1) + 1, 4 * (j - 1) + 2, 4 * (j - 1) + 3, 4 * (j - 1) + 4}
    BY <1>1, FilterPlace
  <2> DEFINE at == 4 * (j - 1)
             field == filter[j].field
             op == filter[j].op
             value == filter[j].value
  <2>2. /\ row[at + 1] = IF j = 1 THEN <<"WHERE">> ELSE <<"AND">>
        /\ row[at + 2] = <<"IDENT", field>>
        /\ row[at + 3] = <<op>>
        /\ row[at + 4] = value
    BY <1>2
  <2>3. Upper[field] \notin Keywords /\ op \in Operators /\ IsLiteral(value)
    BY DEF IsFilter
  <2>4. (at + 3) + 1 = at + 4 /\ at + 4 \in 1..(4 * n)
    BY <1>1
  <2>5. k = at + 1 \/ k = at + 2 \/ k = at + 3 \/ k = at + 4
    BY <2>1
  <2> HIDE DEF at, field, op, value
  <2>6. CASE k = at + 1
    <3>1. row[k] = <<"WHERE">> \/ row[k] = <<"AND">>
      BY <2>2, <2>6
    <3>2. row[k][1] \in {"WHERE", "AND"} /\ row[k] = <<row[k][1]>>
      BY <3>1
    <3>3. row[k][1] \in Keywords /\ row[k][1] \notin Operators
      BY <3>2 DEF Keywords, Operators
    <3> QED
      BY <3>2, <3>3 DEF IsLegal
  <2>7. CASE k = at + 2
    <3>1. row[k] = <<"IDENT", field>>
      BY <2>2, <2>7
    <3>2. row[k][1] = "IDENT" /\ row[k][2] = field
      BY <3>1
    <3> QED
      BY <2>3, <3>1, <3>2 DEF IsLegal, Operators
  <2>8. CASE k = at + 3
    <3>1. row[k] = <<op>> /\ row[k + 1] = value
      BY <2>2, <2>4, <2>8
    <3>2. row[k][1] = op
      BY <3>1
    <3>3. IsLegal(row[k])
      BY <2>3, <3>1, <3>2 DEF IsLegal
    <3> QED
      BY <2>3, <2>4, <2>8, <3>1, <3>3
  <2>9. CASE k = at + 4
    <3>1. row[k] = value
      BY <2>2, <2>9
    <3>2. row[k][1] \notin Operators
      BY <2>3, <3>1 DEF IsLiteral, Operators
    <3> QED
      BY <2>3, <3>1, <3>2 DEF IsLegal
  <2> QED
    BY <2>5, <2>6, <2>7, <2>8, <2>9
<1> HIDE DEF n
<1> QED
  BY <1>1, <1>2, <1>3 DEF IsPhrase, row

LEMMA FilterKept ==
  ASSUME NEW ts, IsTokens(ts), NEW p, NEW filter, IsFilter(filter),
         Stands(ts, p, FilterTokens(filter)),
         Kind(ts, p + Len(FilterTokens(filter))) \in {"LIMIT", "EOF"}
  PROVE  ParseFilter(ts, p) = Got(filter, p + Len(FilterTokens(filter)))
<1> DEFINE n == Len(filter)
           row == FilterTokens(filter)
           end == p + 4 * n
<1>1. n \in Nat /\ filter \in Seq(Elements(filter))
  BY DEF IsFilter
<1>2. /\ Len(row) = 4 * n
      /\ \A j \in 1..n :
           LET at == 4 * (j - 1)
           IN /\ row[at + 1] = IF j = 1 THEN <<"WHERE">> ELSE <<"AND">>
              /\ row[at + 2] = <<"IDENT", filter[j].field>>
              /\ row[at + 3] = <<filter[j].op>>
              /\ row[at + 4] = filter[j].value
  BY <1>1, FilterRow
<1>3. p \in Nat \ {0} /\ end <= Len(ts) /\ Len(ts) \in Nat \ {0} /\ DOMAIN ts = 1..Len(ts)
  BY <1>2 DEF Stands, IsTokens
<1>4. \A k \in 1..(4 * n) : ts[p + k - 1] = row[k] /\ Kind(ts, p + k - 1) = row[k][1]
  <2>1. \A k \in 1..Len(row) : ts[p + k - 1] = row[k] /\ Kind(ts, p + k - 1) = row[k][1]
    BY <1>3, StandsKind
  <2> HIDE DEF row
  <2> QED
    BY <1>2, <2>1
<1>5. Kind(ts, end) \in {"LIMIT", "EOF"}
  BY <1>2
<1> HIDE DEF row
\* The tokens of term j.
<1>6. ASSUME NEW j \in 1..n
      PROVE  LET i == p + 1 + 4 * (j - 1)
             IN /\ i \in 1..Len(ts) /\ IsTerm(ts, i) /\ TermOf(ts, i) = filter[j]
                /\ Kind(ts, i - 1) = IF j = 1 THEN "WHERE" ELSE "AND"
  <2> DEFINE at == 4 * (j - 1)
             i == p + 1 + at
             field == filter[j].field
             op == filter[j].op
             value == filter[j].value
  <2>1. /\ row[at + 1] = IF j = 1 THEN <<"WHERE">> ELSE <<"AND">>
        /\ row[at + 2] = <<"IDENT", field>>
        /\ row[at + 3] = <<op>>
        /\ row[at + 4] = value
    BY <1>2
  <2>2. /\ at + 1 \in 1..(4 * n) /\ at + 2 \in 1..(4 * n) /\ at + 3 \in 1..(4 * n)
        /\ at + 4 \in 1..(4 * n)
        /\ p + (at + 1) - 1 = i - 1 /\ p + (at + 2) - 1 = i
        /\ p + (at + 3) - 1 = i + 1 /\ p + (at + 4) - 1 = i + 2
        /\ i \in 1..Len(ts)
    BY <1>1, <1>3
  <2>3. /\ filter[j] = [field |-> field, op |-> op, value |-> value]
        /\ op \in Operators /\ IsLiteral(value)
    BY DEF IsFilter
  <2> HIDE DEF at, i, field, op, value, n
  <2>4. /\ Kind(ts, i - 1) = row[at + 1][1] /\ Kind(ts, i) = row[at + 2][1]
        /\ Kind(ts, i + 1) = row[at + 3][1] /\ Kind(ts, i + 2) = row[at + 4][1]
        /\ ts[i] = row[at + 2] /\ ts[i + 2] = row[at + 4]
    BY <1>4, <2>2
  <2>5. /\ Kind(ts, i - 1) = IF j = 1 THEN "WHERE" ELSE "AND"
        /\ Kind(ts, i) = "IDENT" /\ Kind(ts, i + 1) = op /\ Kind(ts, i + 2) = value[1]
        /\ ts[i][2] = field /\ ts[i + 2] = value
    BY <2>1, <2>4
  <2>6. value[1] \in {"STRING", "INTEGER", "FLOAT"}
    BY <2>3 DEF IsLiteral
  <2>7. IsTerm(ts, i) /\ TermOf(ts, i) = filter[j]
    BY <2>3, <2>5, <2>6 DEF IsTerm, TermOf
  <2> QED
    BY <2>2, <2>5, <2>7 DEF i, at
<1>7. CASE n = 0
  <2>1. end = p /\ filter = <<>>
    BY <1>1, <1>3, <1>7, EmptySeq
  <2>2. ParseFilter(ts, p) = Got(<<>>, p)
    BY <1>5, <2>1 DEF ParseFilter
  <2> QED
    BY <1>2, <2>1, <2>2 DEF row
<1>8. CASE n # 0
  <2> DEFINE f == CHOOSE g : IsTerms(g, ts, 1)
             Q(j) == f[p + 1 + 4 * (j - 1)] = Got(SubSeq(filter, j, n), end)
             S == {m \in Nat : \A j \in 1..n : j + m >= n => Q(j)}
  <2>0. IsTerms(f, ts, 1)
    BY TermsExist
  <2>1. 1 \in 1..n /\ p + 1 + 4 * (1 - 1) = p + 1 /\ (p + 1) - 1 = p
    BY <1>1, <1>3, <1>8
  <2>2. Kind(ts, p) = "WHERE"
    <3> HIDE DEF n
    <3> QED
      BY <1>6, <2>1
  <2>3. ParseFilter(ts, p) = f[p + 1]
    BY <2>2, FilterIsTerms
  <2> HIDE DEF f, n
  <2>4. \A i \in 1..Len(ts) : f[i] = TermsAt(f, ts, i)
    BY <2>0 DEF IsTerms
  <2>5. ASSUME NEW j \in 1..n, j # n => Q(j + 1) PROVE Q(j)
    <3> DEFINE i == p + 1 + 4 * (j - 1)
               term == filter[j]
    <3>1. i \in 1..Len(ts) /\ IsTerm(ts, i) /\ TermOf(ts, i) = term
      BY <1>6
    <3>2. f[i] = TermsAt(f, ts, i)
      BY <2>4, <3>1
    <3>3. SubSeq(filter, j, n) = <<term>> \o SubSeq(filter, j + 1, n)
      <4>1. j \in 1..Len(filter) /\ n \in j..Len(filter)
        BY <1>1 DEF n
      <4> QED
        BY <1>1, <4>1, SubSeqRecursiveFirst
    <3>4. CASE j = n
      <4>1. i + 3 = end
        BY <1>1, <1>3, <3>4
      <4>2. f[i] = Got(<<term>>, end)
        <5> HIDE DEF i, end, term
        <5> QED
          BY <1>5, <3>1, <3>2, <4>1 DEF TermsAt
      <4>3. SubSeq(filter, j + 1, n) = <<>>
        BY <1>1, <3>4, SubSeqEmpty DEF n
      <4>4. <<term>> \o <<>> = <<term>>
        <5>1. term \in Elements(filter)
          BY DEF Elements, n
        <5> HIDE DEF term
        <5>2. <<term>> \in Seq(Elements(filter))
          BY <5>1
        <5> QED
          BY <5>2, ConcatEmptySeq
      <4> QED
        BY <3>3, <4>2, <4>3, <4>4
    <3>5. CASE j # n
      <4>1. j + 1 \in 1..n /\ j + 1 # 1 /\ p + 1 + 4 * ((j + 1) - 1) = i + 4 /\ (i + 4) - 1 = i + 3
        BY <1>1, <1>3, <3>5
      <4>2. Kind(ts, i + 3) = "AND"
        <5>1. Kind(ts, (p + 1 + 4 * ((j + 1) - 1)) - 1) = IF j + 1 = 1 THEN "WHERE" ELSE "AND"
          BY <1>6, <4>1
        <5> QED
          BY <4>1, <5>1
      <4>3. f[i + 4] = Got(SubSeq(filter, j + 1, n), end)
        BY <2>5, <3>5, <4>1
      <4>4. f[i] = Got(<<term>> \o SubSeq(filter, j + 1, n), end)
        <5> DEFINE later == SubSeq(filter, j + 1, n)
                   more == f[i + 4]
        <5> HIDE DEF i, end, term, later
        <5>1. more = Got(later, end)
          BY <4>3 DEF later
        <5>2. f[i] = IF more.ok THEN Got(<<term>> \o more.val, more.at) ELSE Failed
          BY <3>1, <3>2, <4>2 DEF TermsAt
        <5> HIDE DEF more
        <5>3. more.ok /\ more.val = later /\ more.at = end
          BY <5>1 DEF Got
        <5> QED
          BY <5>2, <5>3 DEF later
      <4> QED
        BY <3>3, <4>4
    <3> QED
      BY <3>4, <3>5
  <2> HIDE DEF Q
  <2>6. 0 \in S
    <3> SUFFICES ASSUME NEW j \in 1..n, j + 0 >= n PROVE Q(j)
      OBVIOUS
    <3>1. j = n
      BY <1>1
    <3> QED
      BY <2>5, <3>1
  <2>7. ASSUME NEW m \in Nat, m \in S PROVE m + 1 \in S
    <3> SUFFICES ASSUME NEW j \in 1..n, j + (m + 1) >= n PROVE Q(j)
      OBVIOUS
    <3>1. j # n => j + 1 \in 1..n /\ (j + 1) + m >= n
      BY <1>1
    <3> QED
      BY <2>5, <2>7, <3>1
  <2> HIDE DEF S
  <2>8. n \in S
    BY <1>1, <2>6, <2>7, NatSet
  <2>9. Q(1)
    <3>1. 1 \in 1..n /\ 1 + n >= n
      BY <1>1, <2>1
    <3> QED
      BY <2>8, <3>1 DEF S
  <2>10. f[p + 1] = Got(SubSeq(filter, 1, n), end)
    BY <2>1, <2>9 DEF Q
  <2>11. SubSeq(filter, 1, n) = filter
    BY <1>1, SubSeqFull DEF n
  <2> QED
    BY <1>2, <2>3, <2>10, <2>11 DEF row
<1> QED
  BY <1>7, <1>8

\* The widths of u8, u32 and u64.
WidthsGrow == {MaxU8, MaxU32, MaxU64} \subseteq Nat /\ MaxU8 <= MaxU32 /\ MaxU32 <= MaxU64

\* Two tokens, none of them an operator.
LEMMA TwoPhrase ==
  ASSUME NEW a, IsLegal(a), a[1] \notin Operators, NEW b, IsLegal(b), b[1] \notin Operators
  PROVE  IsPhrase(<<a, b>>)
<1> DEFINE s == <<a, b>>
<1>1. Len(s) = 2 /\ s[1] = a /\ s[2] = b
  OBVIOUS
<1>2. a \in Elements(s) /\ b \in Elements(s)
  <2>1. 1 \in 1..Len(s) /\ 2 \in 1..Len(s)
    BY <1>1
  <2> HIDE DEF s
  <2> QED
    BY <1>1, <2>1 DEF Elements
<1> DEFINE E == Elements(s)
<1>3. s \in Seq(E)
  <2> HIDE DEF E
  <2> QED
    BY <1>2 DEF E
<1> HIDE DEF s, E
<1>4. \A k \in 1..Len(s) : s[k] = a \/ s[k] = b
  BY <1>1
<1> QED
  BY <1>1, <1>3, <1>4 DEF IsPhrase, E, s

LEMMA LimitPhrase ==
  ASSUME NEW limit, IsLimit(limit), WidthsGrow
  PROVE  IsPhrase(LimitTokens(limit))
<1>1. CASE limit = NoLimit
  <2>1. LimitTokens(limit) = <<>>
    BY <1>1 DEF LimitTokens
  <2> QED
    BY <2>1 DEF IsPhrase
<1>2. CASE limit # NoLimit
  <2> DEFINE a == <<"LIMIT">>
             b == <<"INTEGER", limit>>
  <2>1. LimitTokens(limit) = <<a, b>>
    BY <1>2 DEF LimitTokens
  <2>2. limit \in 0..MaxU64
    BY <1>2 DEF IsLimit, WidthsGrow
  <2>3. IsLegal(a) /\ a[1] \notin Operators
    BY DEF IsLegal, Keywords, Operators
  <2>4. IsLegal(b) /\ b[1] \notin Operators
    BY <2>2 DEF IsLegal, IsLiteral, Operators
  <2> HIDE DEF a, b
  <2> QED
    BY <2>1, <2>3, <2>4, TwoPhrase
<1> QED
  BY <1>1, <1>2

LEMMA TimePhrase ==
  ASSUME NEW clause,
         \/ clause = <<>>
         \/ clause = <<clause[1], clause[2]>> /\ clause[1] \in Keywords
  PROVE  IsPhrase(TimeTokens(clause))
<1>1. CASE clause = <<>>
  <2>1. TimeTokens(clause) = <<>>
    BY <1>1 DEF TimeTokens
  <2> QED
    BY <2>1 DEF IsPhrase
<1>2. CASE clause # <<>>
  <2> DEFINE a == <<clause[1]>>
             b == <<"STRING", clause[2]>>
  <2>1. TimeTokens(clause) = <<a, b>>
    BY <1>2 DEF TimeTokens
  <2>2. IsLegal(a) /\ a[1] \notin Operators
    <3>1. a[1] \in Keywords /\ a = <<a[1]>>
      BY <1>2
    <3> QED
      BY <3>1, WordsApart DEF IsLegal
  <2>3. IsLegal(b) /\ b[1] \notin Operators
    BY DEF IsLegal, IsLiteral, Operators
  <2> HIDE DEF a, b
  <2> QED
    BY <2>1, <2>2, <2>3, TwoPhrase
<1> QED
  BY <1>1, <1>2

\* A query with clauses the grammar knows.
HasClauses(q) ==
  /\ \/ q.clause = <<>>
     \/ q.clause = <<q.clause[1], q.clause[2]>> /\ q.clause[1] \in Keywords
  /\ IsFilter(q.filter) /\ IsLimit(q.limit)

LEMMA ClausesPhrase ==
  ASSUME NEW q, HasClauses(q), WidthsGrow
  PROVE  IsPhrase(ClauseTokens(q))
<1> DEFINE a == TimeTokens(q.clause)
           b == FilterTokens(q.filter)
           c == LimitTokens(q.limit)
<1>1. IsPhrase(a) /\ IsPhrase(b) /\ IsPhrase(c)
  BY TimePhrase, FilterPhrase, LimitPhrase DEF HasClauses
<1>2. ClauseTokens(q) = (a \o b) \o c
  BY DEF ClauseTokens
<1> HIDE DEF a, b, c
<1>3. IsPhrase(a \o b)
  BY <1>1, PhraseConcat
<1> QED
  BY <1>1, <1>2, <1>3, PhraseConcat

LEMMA ClausesKept ==
  ASSUME NEW ts, IsTokens(ts), NEW p, NEW q, HasClauses(q), WidthsGrow,
         Stands(ts, p, ClauseTokens(q)), p + Len(ClauseTokens(q)) = Len(ts), NEW t
  PROVE  LET m == p + Len(TimeTokens(q.clause))
         IN /\ Stands(ts, p, TimeTokens(q.clause)) /\ Kind(ts, m) \in {"WHERE", "LIMIT", "EOF"}
            /\ ParseClauses(ts, Got(q.clause, m), t)
                 = Got([t EXCEPT !.clause = q.clause, !.filter = q.filter, !.limit = q.limit],
                       Len(ts))
<1> DEFINE a == TimeTokens(q.clause)
           b == FilterTokens(q.filter)
           c == LimitTokens(q.limit)
           m == p + Len(a)
           o == p + Len(a \o b)
<1>0. Len(ts) \in Nat \ {0} /\ p \in Nat \ {0}
  BY DEF IsTokens, Stands
<1>1. IsPhrase(a) /\ IsPhrase(b) /\ IsPhrase(c)
  BY TimePhrase, FilterPhrase, LimitPhrase DEF HasClauses
<1>2. ClauseTokens(q) = (a \o b) \o c
  BY DEF ClauseTokens
<1>f. IsFilter(q.filter) /\ IsLimit(q.limit)
  BY DEF HasClauses
<1> HIDE DEF a, b, c
<1>3. IsPhrase(a \o b)
  BY <1>1, PhraseConcat
<1>4. /\ Stands(ts, p, a \o b) /\ Stands(ts, o, c)
      /\ Len((a \o b) \o c) = Len(a \o b) + Len(c)
  <2> DEFINE ab == a \o b
  <2>1. Stands(ts, p, ab \o c) /\ IsPhrase(ab)
    BY <1>2, <1>3
  <2> HIDE DEF ab
  <2>2. Stands(ts, p, ab) /\ Stands(ts, p + Len(ab), c) /\ Len(ab \o c) = Len(ab) + Len(c)
    BY <1>0, <1>1, <2>1, StandsApart
  <2> QED
    BY <2>2 DEF ab
<1>5. /\ Stands(ts, p, a) /\ Stands(ts, m, b) /\ Len(a \o b) = Len(a) + Len(b)
  BY <1>0, <1>1, <1>4, StandsApart
<1>6. Len(a) \in Nat /\ Len(b) \in Nat /\ Len(c) \in Nat
  BY <1>1 DEF IsPhrase
<1>7. o + Len(c) = Len(ts) /\ o = m + Len(b) /\ o \in Nat /\ m \in Nat
  BY <1>0, <1>2, <1>4, <1>5, <1>6
<1> HIDE DEF m, o
<1>8. ParseLimit(ts, o) = Got(q.limit, Len(ts)) /\ Kind(ts, o) \in {"LIMIT", "EOF"}
  BY <1>4, <1>7, <1>f, LimitKept DEF c
<1>9. ParseFilter(ts, m) = Got(q.filter, o)
  BY <1>5, <1>7, <1>8, <1>f, FilterKept DEF b
<1>10. Kind(ts, m) \in {"WHERE", "LIMIT", "EOF"}
  <2>1. CASE Len(b) = 0
    BY <1>7, <1>8, <2>1
  <2>2. CASE Len(b) # 0
    <3>1. Len(q.filter) \in Nat /\ Len(b) = 4 * Len(q.filter)
          /\ \A j \in 1..Len(q.filter) :
               b[4 * (j - 1) + 1] = IF j = 1 THEN <<"WHERE">> ELSE <<"AND">>
      BY <1>f, FilterRow DEF IsFilter, b
    <3>2. 1 \in 1..Len(q.filter) /\ 1 \in 1..Len(b) /\ 4 * (1 - 1) + 1 = 1 /\ m + 1 - 1 = m
      BY <1>7, <2>2, <3>1
    <3>3. b[1] = <<"WHERE">>
      BY <3>1, <3>2
    <3>4. Kind(ts, m + 1 - 1) = b[1][1]
      BY <1>0, <1>5, <3>2, StandsKind
    <3> QED
      BY <3>2, <3>3, <3>4
  <2> QED
    BY <2>1, <2>2
<1>11. ParseClauses(ts, Got(q.clause, m), t)
         = Got([t EXCEPT !.clause = q.clause, !.filter = q.filter, !.limit = q.limit], Len(ts))
  <2> DEFINE time   == Got(q.clause, m)
             filter == IF time.ok THEN ParseFilter(ts, time.at) ELSE Failed
             limit  == IF filter.ok THEN ParseLimit(ts, filter.at) ELSE Failed
             r      == ParseClauses(ts, time, t)
  <2>1. r = IF limit.ok
            THEN Got([t EXCEPT !.clause = time.val, !.filter = filter.val, !.limit = limit.val],
                     limit.at)
            ELSE Failed
    BY DEF ParseClauses
  <2>2. time.ok /\ time.val = q.clause /\ time.at = m
    BY DEF Got
  <2> HIDE DEF time
  <2>3. filter = Got(q.filter, o)
    BY <1>9, <2>2
  <2> HIDE DEF filter
  <2>4. filter.ok /\ filter.val = q.filter /\ filter.at = o
    BY <2>3 DEF Got
  <2>5. limit = Got(q.limit, Len(ts))
    BY <1>8, <2>4
  <2> HIDE DEF limit
  <2>6. limit.ok /\ limit.val = q.limit /\ limit.at = Len(ts)
    BY <2>5 DEF Got
  <2> QED
    BY <2>1, <2>2, <2>4, <2>6 DEF time
<1> QED
  BY <1>5, <1>10, <1>11 DEF a, m

\* A row without operators is a phrase.
LEMMA NoOperators ==
  ASSUME NEW U, NEW s \in Seq(U), \A k \in 1..Len(s) : IsLegal(s[k]) /\ s[k][1] \notin Operators
  PROVE  IsPhrase(s)
<1>1. Len(s) \in Nat /\ s \in [1..Len(s) -> U]
  BY LenProperties
<1>2. s \in [1..Len(s) -> Elements(s)]
  BY <1>1 DEF Elements
<1>3. s \in Seq(Elements(s))
  BY <1>1, <1>2, SeqDef
<1> QED
  BY <1>1, <1>3 DEF IsPhrase

\* A row and the mark of the end.
LEMMA SentenceEnds ==
  ASSUME NEW s, IsPhrase(s)
  PROVE  LET ts == Append(s, Eof)
         IN /\ IsTokens(ts) /\ IsSentence(ts) /\ Stands(ts, 1, s) /\ Len(ts) = Len(s) + 1
            /\ \A k \in DOMAIN ts : ts[k][1] # "ERROR"
            /\ \A k \in 1..Len(s) : ts[k] = s[k] /\ Kind(ts, k) = s[k][1]
<1> DEFINE ts == Append(s, Eof)
           U == Elements(s) \cup {Eof}
           n == Len(s)
<1>0. n \in Nat /\ s \in Seq(U) /\ Eof \in U
  BY DEF IsPhrase
<1> HIDE DEF U
<1>1. /\ ts \in Seq(U) /\ Len(ts) = n + 1 /\ ts[n + 1] = Eof
      /\ \A k \in 1..n : ts[k] = s[k]
  BY <1>0, AppendProperties
<1> HIDE DEF ts
<1>2. ts \in [1..Len(ts) -> U] /\ DOMAIN ts = 1..Len(ts)
  BY <1>1, LenProperties
<1>3. ts \in Seq(Elements(ts))
  <2>1. ts \in [1..Len(ts) -> Elements(ts)]
    BY <1>2 DEF Elements
  <2>2. Len(ts) \in Nat
    BY <1>0, <1>1
  <2> QED
    BY <2>1, <2>2, SeqDef
<1>4. ASSUME NEW k \in 1..n
      PROVE  /\ IsLegal(ts[k])
             /\ ts[k][1] \in Operators => k + 1 \in 1..n /\ IsLiteral(ts[k + 1])
  <2>1. /\ IsLegal(s[k])
        /\ s[k][1] \in Operators => k + 1 \in 1..n /\ IsLiteral(s[k + 1])
    BY DEF IsPhrase
  <2> HIDE DEF n
  <2> QED
    BY <1>1, <2>1
<1>5. \A k \in 1..Len(ts) : k \in 1..n \/ k = n + 1
  BY <1>0, <1>1
<1>6. IsSentence(ts)
  <2>1. Len(ts) \in Nat \ {0} /\ Len(ts) - 1 = n /\ ts[Len(ts)] = Eof
    BY <1>0, <1>1
  <2> HIDE DEF n
  <2> QED
    BY <1>3, <1>4, <2>1 DEF IsSentence
<1>7. ASSUME NEW k \in 1..Len(ts)
      PROVE  ts[k][1] # "ERROR" /\ (ts[k][1] = "INTEGER" => ts[k][2] \in Nat)
  <2>1. CASE k = n + 1
    BY <1>1, <2>1 DEF Eof
  <2>2. CASE k \in 1..n
    <3>1. IsLegal(ts[k])
      BY <1>4, <2>2
    <3>2. ts[k][1] \in Keywords \cup Operators => ts[k][1] \notin {"ERROR", "INTEGER"}
      BY DEF Keywords, Operators
    <3> QED
      BY <3>1, <3>2 DEF IsLegal, IsLiteral
  <2> QED
    BY <1>5, <2>1, <2>2
<1>8. IsTokens(ts)
  <2>1. Len(ts) \in Nat \ {0} /\ ts[Len(ts)] = Eof
    BY <1>0, <1>1
  <2> QED
    BY <1>2, <1>7, <2>1 DEF IsTokens
<1>9. Stands(ts, 1, s)
  <2>1. 1 + n <= Len(ts) /\ \A k \in 1..n : 1 + k - 1 = k
    BY <1>0, <1>1
  <2> QED
    BY <1>0, <1>1, <2>1 DEF Stands
<1>10. ASSUME NEW k \in 1..n PROVE Kind(ts, k) = s[k][1]
  <2>1. k < Len(ts)
    BY <1>0, <1>1
  <2> QED
    BY <1>1, <2>1 DEF Kind
<1> QED
  BY <1>1, <1>2, <1>6, <1>7, <1>8, <1>9, <1>10 DEF ts, n

\* A query that lists edges: its head, then its clauses.
LEMMA ListKept ==
  ASSUME NEW q, HasClauses(q), WidthsGrow, NEW head, IsPhrase(head),
         Sentence(q) = head \o ClauseTokens(q)
  PROVE  LET ts == Append(Sentence(q), Eof)
             p  == Len(head) + 1
             m  == p + Len(TimeTokens(q.clause))
         IN /\ IsPhrase(Sentence(q))
            /\ \A k \in 1..Len(head) : ts[k] = head[k] /\ Kind(ts, k) = head[k][1]
            /\ Len(ts) \in Nat /\ Stands(ts, p, TimeTokens(q.clause))
            /\ IsTime(q.clause) => ParseTimeClause(ts, p) = Got(q.clause, m)
            /\ \A t : ParseClauses(ts, Got(q.clause, m), t)
                        = Got([t EXCEPT !.clause = q.clause, !.filter = q.filter,
                                        !.limit = q.limit], Len(ts))
<1> DEFINE s  == Sentence(q)
           ts == Append(s, Eof)
           n  == Len(head)
           p  == n + 1
           row == ClauseTokens(q)
<1>1. IsPhrase(row)
  BY ClausesPhrase
<1>2. /\ s = head \o row /\ IsPhrase(s) /\ Len(s) = n + Len(row)
      /\ \A k \in 1..n : s[k] = head[k]
  <2> HIDE DEF row
  <2> QED
    BY <1>1, PhraseConcat DEF row
<1> HIDE DEF s
<1>3. /\ IsTokens(ts) /\ Stands(ts, 1, s) /\ Len(ts) = Len(s) + 1
      /\ \A k \in 1..Len(s) : ts[k] = s[k] /\ Kind(ts, k) = s[k][1]
  BY <1>2, SentenceEnds
<1>4. n \in Nat /\ Len(row) \in Nat /\ Len(ts) \in Nat
  BY <1>1, <1>3 DEF IsPhrase, IsTokens
<1> HIDE DEF ts, row
<1>5. Stands(ts, 1 + n, row)
  BY <1>1, <1>2, <1>3, <1>4, StandsApart
<1>6. 1 + n = p /\ p + Len(row) = Len(ts)
  BY <1>2, <1>3, <1>4
<1> HIDE DEF p
<1>7. LET m == p + Len(TimeTokens(q.clause))
      IN /\ Stands(ts, p, TimeTokens(q.clause)) /\ Kind(ts, m) \in {"WHERE", "LIMIT", "EOF"}
         /\ \A t : ParseClauses(ts, Got(q.clause, m), t)
                     = Got([t EXCEPT !.clause = q.clause, !.filter = q.filter,
                                     !.limit = q.limit], Len(ts))
  BY <1>3, <1>5, <1>6, ClausesKept DEF row
<1>8. IsTime(q.clause) =>
        ParseTimeClause(ts, p) = Got(q.clause, p + Len(TimeTokens(q.clause)))
  BY <1>3, <1>7, TimeKept
<1>9. \A k \in 1..n : ts[k] = head[k] /\ Kind(ts, k) = head[k][1]
  <2> TAKE k \in 1..n
  <2>1. k \in 1..Len(s) /\ s[k] = head[k]
    BY <1>2, <1>4
  <2> QED
    BY <1>3, <2>1
<1> QED
  BY <1>2, <1>4, <1>7, <1>8, <1>9 DEF s, ts, p

\* A tree the grammar writes.
IsQuestion(q) ==
  /\ q = [shape |-> q.shape, node |-> q.node, to |-> q.to, hops |-> q.hops,
          clause |-> q.clause, until |-> q.until, filter |-> q.filter, limit |-> q.limit]
  /\ IsFilter(q.filter) /\ IsLimit(q.limit)
  /\ CASE q.shape \in {"neighbors", "hops", "path", "who"} ->
            /\ q.until = None
            /\ q.to = None \/ q.shape = "path"
            /\ IF q.shape = "hops" THEN q.hops \in 0..MaxU8 ELSE q.hops = 0
            /\ IF q.shape = "who" THEN q.clause = <<"ON", q.clause[2]>> ELSE IsTime(q.clause)
       [] q.shape \in {"diff", "changed"} ->
            /\ q.to = None /\ q.hops = 0 /\ q.filter = <<>> /\ q.limit = NoLimit
            /\ q.clause = <<"BETWEEN", q.clause[2]>>
       [] OTHER -> FALSE

LEMMA QuestionClauses ==
  ASSUME NEW q, IsQuestion(q)
  PROVE  HasClauses(q)
<1>1. \/ q.clause = <<>>
      \/ q.clause = <<q.clause[1], q.clause[2]>> /\ q.clause[1] \in Keywords
  <2>1. \/ IsTime(q.clause)
        \/ q.clause = <<"ON", q.clause[2]>>
        \/ q.clause = <<"BETWEEN", q.clause[2]>>
    BY DEF IsQuestion
  <2>2. {"AT", "BEFORE", "AFTER", "ON", "BETWEEN"} \subseteq Keywords
    BY DEF Keywords
  <2> DEFINE c == q.clause
  <2>3. (c = <<"ON", c[2]>> \/ c = <<"BETWEEN", c[2]>>)
          => c = <<c[1], c[2]>> /\ c[1] \in {"ON", "BETWEEN"}
    <3> HIDE DEF c
    <3> QED
      OBVIOUS
  <2> HIDE DEF c
  <2> QED
    BY <2>1, <2>2, <2>3 DEF IsTime, c
<1> QED
  BY <1>1 DEF HasClauses, IsQuestion

\* The tree ParseClauses ends with is the query.
LEMMA TreeKept ==
  ASSUME NEW q, IsQuestion(q), NEW t,
         t \in [shape : {q.shape}, node : {q.node}, to : {q.to}, hops : {q.hops},
                clause : {t.clause}, until : {q.until}, filter : {t.filter}, limit : {t.limit}]
  PROVE  [t EXCEPT !.clause = q.clause, !.filter = q.filter, !.limit = q.limit] = q
<1> DEFINE u == [t EXCEPT !.clause = q.clause, !.filter = q.filter, !.limit = q.limit]
<1>1. u \in [shape : {q.shape}, node : {q.node}, to : {q.to}, hops : {q.hops},
             clause : {q.clause}, until : {q.until}, filter : {q.filter}, limit : {q.limit}]
  OBVIOUS
<1> HIDE DEF u
<1>2. u = [shape |-> q.shape, node |-> q.node, to |-> q.to, hops |-> q.hops,
           clause |-> q.clause, until |-> q.until, filter |-> q.filter, limit |-> q.limit]
  BY <1>1
<1>3. u = q
  BY <1>2 DEF IsQuestion
<1> QED
  BY <1>3 DEF u

\* A sentence of q, its head, and the tree begun with the head.
ListHead(q, ts, head, t) ==
  /\ IsPhrase(head) /\ Sentence(q) = head \o ClauseTokens(q) /\ ts = Append(Sentence(q), Eof)
  /\ t \in [shape : {q.shape}, node : {q.node}, to : {q.to}, hops : {q.hops},
            clause : {t.clause}, until : {q.until}, filter : {t.filter}, limit : {t.limit}]

\* What the parser makes of a query whose head it has read.
LEMMA ListTree ==
  ASSUME NEW q, IsQuestion(q), WidthsGrow, NEW ts, NEW head, NEW t, ListHead(q, ts, head, t),
         NEW p, p = Len(head) + 1
  PROVE  /\ IsPhrase(Sentence(q))
         /\ \A k \in 1..Len(head) : ts[k] = head[k] /\ Kind(ts, k) = head[k][1]
         /\ Len(ts) \in Nat /\ Stands(ts, p, TimeTokens(q.clause))
         /\ IsTime(q.clause) =>
              ParseClauses(ts, ParseTimeClause(ts, p), t) = Got(q, Len(ts))
         /\ q.clause # <<>> => ParseClauses(ts, Got(q.clause, p + 2), t) = Got(q, Len(ts))
<1> DEFINE m == p + Len(TimeTokens(q.clause))
<1>0. /\ IsPhrase(head) /\ Sentence(q) = head \o ClauseTokens(q) /\ HasClauses(q)
      /\ ts = Append(Sentence(q), Eof)
  BY QuestionClauses DEF ListHead
<1>1. LET us == Append(Sentence(q), Eof)
          o  == Len(head) + 1
          n  == o + Len(TimeTokens(q.clause))
      IN /\ IsPhrase(Sentence(q))
         /\ \A k \in 1..Len(head) : us[k] = head[k] /\ Kind(us, k) = head[k][1]
         /\ Len(us) \in Nat /\ Stands(us, o, TimeTokens(q.clause))
         /\ IsTime(q.clause) => ParseTimeClause(us, o) = Got(q.clause, n)
         /\ \A u : ParseClauses(us, Got(q.clause, n), u)
                     = Got([u EXCEPT !.clause = q.clause, !.filter = q.filter,
                                     !.limit = q.limit], Len(us))
  BY <1>0, ListKept
<1>2. /\ IsPhrase(Sentence(q))
      /\ \A k \in 1..Len(head) : ts[k] = head[k] /\ Kind(ts, k) = head[k][1]
      /\ Len(ts) \in Nat /\ Stands(ts, p, TimeTokens(q.clause))
      /\ IsTime(q.clause) => ParseTimeClause(ts, p) = Got(q.clause, m)
      /\ ParseClauses(ts, Got(q.clause, m), t)
           = Got([t EXCEPT !.clause = q.clause, !.filter = q.filter,
                           !.limit = q.limit], Len(ts))
  <2> USE <1>0, <1>1
  <2>1. IsPhrase(Sentence(q))
    OBVIOUS
  <2>2. \A k \in 1..Len(head) : ts[k] = head[k] /\ Kind(ts, k) = head[k][1]
    OBVIOUS
  <2>3. Len(ts) \in Nat /\ Stands(ts, p, TimeTokens(q.clause))
    OBVIOUS
  <2>4. IsTime(q.clause) => ParseTimeClause(ts, p) = Got(q.clause, m)
    OBVIOUS
  <2>5. ParseClauses(ts, Got(q.clause, m), t)
           = Got([t EXCEPT !.clause = q.clause, !.filter = q.filter,
                           !.limit = q.limit], Len(ts))
    OBVIOUS
  <2> QED
    BY <2>1, <2>2, <2>3, <2>4, <2>5
<1>3. [t EXCEPT !.clause = q.clause, !.filter = q.filter, !.limit = q.limit] = q
  BY TreeKept DEF ListHead
<1>4. q.clause # <<>> => m = p + 2
  <2> SUFFICES ASSUME q.clause # <<>> PROVE m = p + 2
    OBVIOUS
  <2>1. TimeTokens(q.clause) = << <<q.clause[1]>>, <<"STRING", q.clause[2]>> >>
    BY DEF TimeTokens
  <2>2. Len(TimeTokens(q.clause)) = 2
    BY <2>1
  <2> QED
    BY <2>2
<1> HIDE DEF m
<1>5. ParseClauses(ts, Got(q.clause, m), t) = Got(q, Len(ts))
  BY <1>2, <1>3
<1>6. IsTime(q.clause) => ParseClauses(ts, ParseTimeClause(ts, p), t) = Got(q, Len(ts))
  BY <1>2, <1>5
<1>7. q.clause # <<>> => ParseClauses(ts, Got(q.clause, p + 2), t) = Got(q, Len(ts))
  BY <1>4, <1>5
<1> QED
  BY <1>2, <1>6, <1>7

LEMMA NeighborsKept ==
  ASSUME NEW q, IsQuestion(q), q.shape = "neighbors", WidthsGrow,
         NEW ts, ts = Append(Sentence(q), Eof)
  PROVE  /\ IsPhrase(Sentence(q)) /\ Kind(ts, 1) = "FIND"
         /\ ParseFind(ts) = Got(q, Len(ts))
<1> DEFINE a == <<"FIND">>
           b == <<"NEIGHBORS">>
           c == <<"OF">>
           d == <<"STRING", q.node>>
           head == <<a, b, c, d>>
           t == [NoQuery EXCEPT !.shape = "neighbors", !.node = q.node]
<1>1. Sentence(q) = head \o ClauseTokens(q)
  BY DEF Sentence
<1>2. /\ a[1] = "FIND" /\ b[1] = "NEIGHBORS" /\ c[1] = "OF" /\ d[1] = "STRING" /\ d[2] = q.node
      /\ \A x \in {a, b, c, d} : IsLegal(x) /\ x[1] \notin Operators
  BY DEF IsLegal, IsLiteral, Keywords, Operators
<1> HIDE DEF a, b, c, d
<1>3. /\ head \in Seq({a, b, c, d}) /\ Len(head) = 4
      /\ head[1] = a /\ head[2] = b /\ head[3] = c /\ head[4] = d
  OBVIOUS
<1> HIDE DEF head
<1>4. IsPhrase(head)
  <2>1. \A k \in 1..Len(head) : head[k] \in {a, b, c, d}
    BY <1>3, ElementOfSeq
  <2> QED
    BY <1>2, <1>3, <2>1, NoOperators
<1>5. IsTime(q.clause)
  BY DEF IsQuestion
<1>6. t \in [shape : {q.shape}, node : {q.node}, to : {q.to}, hops : {q.hops},
             clause : {t.clause}, until : {q.until}, filter : {t.filter}, limit : {t.limit}]
  BY NewTree DEF IsQuestion
<1>7. Len(head) + 1 = 5 /\ {1, 2, 3, 4} \subseteq 1..Len(head)
  BY <1>3
<1> DEFINE r == ParseClauses(ts, ParseTimeClause(ts, 5), t)
<1>8. /\ IsPhrase(Sentence(q)) /\ r = Got(q, Len(ts))
      /\ \A k \in 1..Len(head) : ts[k] = head[k] /\ Kind(ts, k) = head[k][1]
  <2>1. ListHead(q, ts, head, t)
    BY <1>1, <1>4, <1>6 DEF ListHead
  <2> HIDE DEF t
  <2>2. Len(head) + 1 = 5
    BY <1>7
  <2>3. ListHead(q, ts, head, t) /\ IsQuestion(q) /\ WidthsGrow
    BY <2>1
  <2> QED
    BY ONLY <1>5, <2>2, <2>3, ListTree, 5 + 2 = 7
<1>9. /\ Kind(ts, 1) = "FIND" /\ Kind(ts, 2) = "NEIGHBORS" /\ Kind(ts, 3) = "OF"
      /\ Kind(ts, 4) = "STRING" /\ ts[4][2] = q.node
  BY <1>2, <1>3, <1>7, <1>8
<1>10. Expect(ts, 2, <<"NEIGHBORS", "OF", "STRING">>)
  BY <1>9 DEF Expect
<1>11. ~Expect(ts, 2, <<"INTEGER", "HOPS", "FROM", "STRING">>)
  BY <1>9, 1 \in DOMAIN <<"INTEGER", "HOPS", "FROM", "STRING">>, 2 + 1 - 1 = 2 DEF Expect
<1>12. ParseFind(ts) = r
  BY <1>9, <1>10, <1>11 DEF ParseFind
<1> QED
  BY <1>8, <1>9, <1>12

LEMMA HopsKept ==
  ASSUME NEW q, IsQuestion(q), q.shape = "hops", WidthsGrow,
         NEW ts, ts = Append(Sentence(q), Eof)
  PROVE  /\ IsPhrase(Sentence(q)) /\ Kind(ts, 1) = "FIND"
         /\ ParseFind(ts) = Got(q, Len(ts))
<1> DEFINE a == <<"FIND">>
           b == <<"INTEGER", q.hops>>
           c == <<"HOPS">>
           d == <<"FROM">>
           e == <<"STRING", q.node>>
           head == <<a, b, c, d, e>>
           t == [NoQuery EXCEPT !.shape = "hops", !.hops = q.hops, !.node = q.node]
<1>0. q.hops <= MaxU8 /\ q.hops \in 0..MaxU64
  BY DEF IsQuestion, WidthsGrow
<1>1. Sentence(q) = head \o ClauseTokens(q)
  BY DEF Sentence
<1>2. /\ a[1] = "FIND" /\ b[1] = "INTEGER" /\ b[2] = q.hops /\ c[1] = "HOPS" /\ d[1] = "FROM"
      /\ e[1] = "STRING" /\ e[2] = q.node
      /\ \A x \in {a, b, c, d, e} : IsLegal(x) /\ x[1] \notin Operators
  BY <1>0 DEF IsLegal, IsLiteral, Keywords, Operators
<1> HIDE DEF a, b, c, d, e
<1>3. /\ head \in Seq({a, b, c, d, e}) /\ Len(head) = 5
      /\ head[1] = a /\ head[2] = b /\ head[3] = c /\ head[4] = d /\ head[5] = e
  OBVIOUS
<1> HIDE DEF head
<1>4. IsPhrase(head)
  <2>1. \A k \in 1..Len(head) : head[k] \in {a, b, c, d, e}
    BY <1>3, ElementOfSeq
  <2> QED
    BY <1>2, <1>3, <2>1, NoOperators
<1>5. IsTime(q.clause)
  BY DEF IsQuestion
<1>6. t \in [shape : {q.shape}, node : {q.node}, to : {q.to}, hops : {q.hops},
             clause : {t.clause}, until : {q.until}, filter : {t.filter}, limit : {t.limit}]
  BY NewTree DEF IsQuestion
<1>7. Len(head) + 1 = 6 /\ {1, 2, 3, 4, 5} \subseteq 1..Len(head)
  BY <1>3
<1> DEFINE r == ParseClauses(ts, ParseTimeClause(ts, 6), t)
<1>8. /\ IsPhrase(Sentence(q)) /\ r = Got(q, Len(ts))
      /\ \A k \in 1..Len(head) : ts[k] = head[k] /\ Kind(ts, k) = head[k][1]
  <2>1. ListHead(q, ts, head, t)
    BY <1>1, <1>4, <1>6 DEF ListHead
  <2> HIDE DEF t
  <2>2. Len(head) + 1 = 6
    BY <1>7
  <2>3. ListHead(q, ts, head, t) /\ IsQuestion(q) /\ WidthsGrow
    BY <2>1
  <2> QED
    BY ONLY <1>5, <2>2, <2>3, ListTree, 6 + 2 = 8
<1>9. /\ Kind(ts, 1) = "FIND" /\ Kind(ts, 2) = "INTEGER" /\ Kind(ts, 3) = "HOPS"
      /\ Kind(ts, 4) = "FROM" /\ Kind(ts, 5) = "STRING"
      /\ ts[2][2] = q.hops /\ ts[5][2] = q.node
  BY <1>2, <1>3, <1>7, <1>8
<1>10. Expect(ts, 2, <<"INTEGER", "HOPS", "FROM", "STRING">>)
  BY <1>9 DEF Expect
<1>12. ~Expect(ts, 2, <<"NEIGHBORS", "OF", "STRING">>)
  BY <1>9, 1 \in DOMAIN <<"NEIGHBORS", "OF", "STRING">>, 2 + 1 - 1 = 2 DEF Expect
<1>11. ParseFind(ts) = r
  BY <1>0, <1>9, <1>10, <1>12 DEF ParseFind
<1> QED
  BY <1>8, <1>9, <1>11

LEMMA ShowKept ==
  ASSUME NEW q, IsQuestion(q), q.shape = "path", WidthsGrow,
         NEW ts, ts = Append(Sentence(q), Eof)
  PROVE  /\ IsPhrase(Sentence(q)) /\ Kind(ts, 1) = "SHOW"
         /\ ParseShow(ts) = Got(q, Len(ts))
<1> DEFINE a == <<"SHOW">>
           b == <<"PATH">>
           c == <<"FROM">>
           d == <<"STRING", q.node>>
           e == <<"TO">>
           g == <<"STRING", q.to>>
           head == <<a, b, c, d, e, g>>
           t == [NoQuery EXCEPT !.shape = "path", !.node = q.node, !.to = q.to]
<1>1. Sentence(q) = head \o ClauseTokens(q)
  BY DEF Sentence
<1>2. /\ a[1] = "SHOW" /\ b[1] = "PATH" /\ c[1] = "FROM" /\ d[1] = "STRING" /\ d[2] = q.node
      /\ e[1] = "TO" /\ g[1] = "STRING" /\ g[2] = q.to
      /\ \A x \in {a, b, c, d, e, g} : IsLegal(x) /\ x[1] \notin Operators
  BY DEF IsLegal, IsLiteral, Keywords, Operators
<1> HIDE DEF a, b, c, d, e, g
<1>3. /\ head \in Seq({a, b, c, d, e, g}) /\ Len(head) = 6
      /\ head[1] = a /\ head[2] = b /\ head[3] = c /\ head[4] = d /\ head[5] = e
      /\ head[6] = g
  OBVIOUS
<1> HIDE DEF head
<1>4. IsPhrase(head)
  <2>1. \A k \in 1..Len(head) : head[k] \in {a, b, c, d, e, g}
    BY <1>3, ElementOfSeq
  <2> QED
    BY <1>2, <1>3, <2>1, NoOperators
<1>5. IsTime(q.clause)
  BY DEF IsQuestion
<1>6. t \in [shape : {q.shape}, node : {q.node}, to : {q.to}, hops : {q.hops},
             clause : {t.clause}, until : {q.until}, filter : {t.filter}, limit : {t.limit}]
  BY NewTree DEF IsQuestion
<1>7. Len(head) + 1 = 7 /\ {1, 2, 3, 4, 5, 6} \subseteq 1..Len(head)
  BY <1>3
<1> DEFINE r == ParseClauses(ts, ParseTimeClause(ts, 7), t)
<1>8. /\ IsPhrase(Sentence(q)) /\ r = Got(q, Len(ts))
      /\ \A k \in 1..Len(head) : ts[k] = head[k] /\ Kind(ts, k) = head[k][1]
  <2>1. ListHead(q, ts, head, t)
    BY <1>1, <1>4, <1>6 DEF ListHead
  <2> HIDE DEF t
  <2>2. Len(head) + 1 = 7
    BY <1>7
  <2>3. ListHead(q, ts, head, t) /\ IsQuestion(q) /\ WidthsGrow
    BY <2>1
  <2> QED
    BY ONLY <1>5, <2>2, <2>3, ListTree, 7 + 2 = 9
<1>9. /\ Kind(ts, 1) = "SHOW" /\ Kind(ts, 2) = "PATH" /\ Kind(ts, 3) = "FROM"
      /\ Kind(ts, 4) = "STRING" /\ Kind(ts, 5) = "TO" /\ Kind(ts, 6) = "STRING"
      /\ ts[4][2] = q.node /\ ts[6][2] = q.to
  BY <1>2, <1>3, <1>7, <1>8
<1>10. Expect(ts, 2, <<"PATH", "FROM", "STRING", "TO", "STRING">>)
  BY <1>9 DEF Expect
<1>11. ParseShow(ts) = r
  BY <1>9, <1>10 DEF ParseShow
<1> QED
  BY <1>8, <1>9, <1>11

LEMMA WhoKept ==
  ASSUME NEW q, IsQuestion(q), q.shape = "who", WidthsGrow,
         NEW ts, ts = Append(Sentence(q), Eof)
  PROVE  /\ IsPhrase(Sentence(q)) /\ Kind(ts, 1) = "WHO"
         /\ ParseWho(ts) = Got(q, Len(ts))
<1> DEFINE a == <<"WHO">>
           b == <<"WAS">>
           c == <<"CONNECTED">>
           d == <<"TO">>
           e == <<"STRING", q.node>>
           head == <<a, b, c, d, e>>
           t == [NoQuery EXCEPT !.shape = "who", !.node = q.node]
<1>1. Sentence(q) = head \o ClauseTokens(q)
  BY DEF Sentence
<1>2. /\ a[1] = "WHO" /\ b[1] = "WAS" /\ c[1] = "CONNECTED" /\ d[1] = "TO"
      /\ e[1] = "STRING" /\ e[2] = q.node
      /\ \A x \in {a, b, c, d, e} : IsLegal(x) /\ x[1] \notin Operators
  BY DEF IsLegal, IsLiteral, Keywords, Operators
<1> HIDE DEF a, b, c, d, e
<1>3. /\ head \in Seq({a, b, c, d, e}) /\ Len(head) = 5
      /\ head[1] = a /\ head[2] = b /\ head[3] = c /\ head[4] = d /\ head[5] = e
  OBVIOUS
<1> HIDE DEF head
<1>4. IsPhrase(head)
  <2>1. \A k \in 1..Len(head) : head[k] \in {a, b, c, d, e}
    BY <1>3, ElementOfSeq
  <2> QED
    BY <1>2, <1>3, <2>1, NoOperators
<1>5. q.clause = <<"ON", q.clause[2]>> /\ q.clause # <<>>
  BY DEF IsQuestion
<1>6. t \in [shape : {q.shape}, node : {q.node}, to : {q.to}, hops : {q.hops},
             clause : {t.clause}, until : {q.until}, filter : {t.filter}, limit : {t.limit}]
  BY NewTree DEF IsQuestion
<1>7. Len(head) + 1 = 6 /\ {1, 2, 3, 4, 5} \subseteq 1..Len(head) /\ 6 + 2 = 8
  BY <1>3
<1> DEFINE r == ParseClauses(ts, Got(q.clause, 8), t)
<1>8. /\ IsPhrase(Sentence(q)) /\ r = Got(q, Len(ts))
      /\ Len(ts) \in Nat /\ Stands(ts, 6, TimeTokens(q.clause))
      /\ \A k \in 1..Len(head) : ts[k] = head[k] /\ Kind(ts, k) = head[k][1]
  <2>1. ListHead(q, ts, head, t)
    BY <1>1, <1>4, <1>6 DEF ListHead
  <2> HIDE DEF t
  <2>2. Len(head) + 1 = 6
    BY <1>7
  <2>3. ListHead(q, ts, head, t) /\ IsQuestion(q) /\ WidthsGrow
    BY <2>1
  <2> QED
    BY ONLY <1>5, <2>2, <2>3, ListTree, 6 + 2 = 8
<1>9. /\ Kind(ts, 1) = "WHO" /\ Kind(ts, 2) = "WAS" /\ Kind(ts, 3) = "CONNECTED"
      /\ Kind(ts, 4) = "TO" /\ Kind(ts, 5) = "STRING" /\ ts[5][2] = q.node
  BY <1>2, <1>3, <1>7, <1>8
<1>10. /\ Kind(ts, 6) = "ON" /\ Kind(ts, 7) = "STRING" /\ ts[7][2] = q.clause[2]
  <2> DEFINE on == <<"ON">>
             time == <<"STRING", q.clause[2]>>
  <2>1. q.clause[1] = "ON"
    <3> DEFINE clause == q.clause
    <3>1. clause = <<"ON", clause[2]>>
      BY <1>5
    <3> HIDE DEF clause
    <3>2. clause[1] = "ON"
      BY <3>1
    <3> QED
      BY <3>2 DEF clause
  <2>2. TimeTokens(q.clause) = <<on, time>>
    BY <1>5, <2>1 DEF TimeTokens
  <2>3. on[1] = "ON" /\ time[1] = "STRING" /\ time[2] = q.clause[2]
    OBVIOUS
  <2> HIDE DEF on, time
  <2>4. Len(ts) \in Nat /\ Stands(ts, 6, <<on, time>>)
    BY <1>8, <2>2
  <2>5. Kind(ts, 6) = on[1] /\ Kind(ts, 6 + 1) = time[1] /\ ts[6 + 1] = time
    BY ONLY <2>4, PairStands
  <2> QED
    BY <2>3, <2>5, 6 + 1 = 7
<1>11. Expect(ts, 2, <<"WAS", "CONNECTED", "TO", "STRING", "ON", "STRING">>)
  BY <1>9, <1>10 DEF Expect
<1>12. ParseWho(ts) = r
  BY <1>5, <1>9, <1>10, <1>11 DEF ParseWho
<1> QED
  BY <1>8, <1>9, <1>12

\* diff or changed up to its two times, and the tokens of a sentence that begins so.
RangeHead(word, noun, q) ==
  << <<word>>, <<noun>>, <<"BETWEEN">>, <<"STRING", q.clause[2]>>, <<"AND">>,
     <<"STRING", q.until>> >>

RangeBegins(q, word, noun, more, s) ==
  LET ts == Append(s, Eof)
  IN /\ IsPhrase(s) /\ Len(ts) = 7 + Len(more) /\ Stands(ts, 7, more)
     /\ Len(ts) \in Nat /\ ts[Len(ts)] = Eof
     /\ Kind(ts, 1) = word /\ Kind(ts, 2) = noun /\ Kind(ts, 3) = "BETWEEN"
     /\ Kind(ts, 4) = "STRING" /\ Kind(ts, 5) = "AND" /\ Kind(ts, 6) = "STRING"
     /\ ts[4][2] = q.clause[2] /\ ts[6][2] = q.until

LEMMA RangePhrase ==
  ASSUME NEW q, NEW word \in {"DIFF", "WHAT"}, NEW noun \in {"GRAPH", "CHANGED"},
         NEW more, IsPhrase(more)
  PROVE  RangeBegins(q, word, noun, more, RangeHead(word, noun, q) \o more)
<1> DEFINE a == <<word>>
           b == <<noun>>
           c == <<"BETWEEN">>
           d == <<"STRING", q.clause[2]>>
           e == <<"AND">>
           g == <<"STRING", q.until>>
           head == <<a, b, c, d, e, g>>
           s == head \o more
           ts == Append(s, Eof)
<1>1. RangeHead(word, noun, q) = head
  BY DEF RangeHead
<1>2. /\ a[1] = word /\ b[1] = noun /\ c[1] = "BETWEEN" /\ d[1] = "STRING"
      /\ d[2] = q.clause[2] /\ e[1] = "AND" /\ g[1] = "STRING" /\ g[2] = q.until
      /\ \A x \in {a, b, c, d, e, g} : IsLegal(x) /\ x[1] \notin Operators
  BY DEF IsLegal, IsLiteral, Keywords, Operators
<1> HIDE DEF a, b, c, d, e, g
<1>3. /\ head \in Seq({a, b, c, d, e, g}) /\ Len(head) = 6
      /\ head[1] = a /\ head[2] = b /\ head[3] = c /\ head[4] = d /\ head[5] = e
      /\ head[6] = g
  OBVIOUS
<1> HIDE DEF head
<1>4. IsPhrase(head)
  <2>1. \A k \in 1..Len(head) : head[k] \in {a, b, c, d, e, g}
    BY <1>3, ElementOfSeq
  <2> QED
    BY <1>2, <1>3, <2>1, NoOperators
<1>5. /\ IsPhrase(s) /\ Len(s) = 6 + Len(more)
      /\ \A k \in 1..6 : s[k] = head[k]
  <2>1. /\ IsPhrase(s) /\ Len(s) = Len(head) + Len(more)
        /\ \A k \in 1..Len(head) : s[k] = head[k]
    BY <1>4, PhraseConcat
  <2> HIDE DEF s
  <2> QED
    BY <1>3, <2>1
<1>0. Len(more) \in Nat
  BY DEF IsPhrase
<1> HIDE DEF s
<1>6. /\ IsTokens(ts) /\ Stands(ts, 1, s) /\ Len(ts) = Len(s) + 1
      /\ \A k \in 1..Len(s) : ts[k] = s[k] /\ Kind(ts, k) = s[k][1]
  BY <1>5, SentenceEnds
<1> HIDE DEF ts
<1>7. Len(ts) = 7 + Len(more) /\ Len(ts) \in Nat /\ ts[Len(ts)] = Eof
  BY <1>0, <1>5, <1>6 DEF IsTokens
<1>8. Stands(ts, 1 + 6, more)
  <2>1. Stands(ts, 1, head \o more)
    BY <1>6 DEF s
  <2> QED
    BY <1>3, <1>4, <1>7, <2>1, StandsApart
<1>9. \A k \in 1..6 : ts[k] = head[k] /\ Kind(ts, k) = head[k][1]
  <2> TAKE k \in 1..6
  <2>1. k \in 1..Len(s)
    BY <1>0, <1>5
  <2> QED
    BY <1>5, <1>6, <2>1
<1>10. /\ Kind(ts, 1) = word /\ Kind(ts, 2) = noun /\ Kind(ts, 3) = "BETWEEN"
       /\ Kind(ts, 4) = "STRING" /\ Kind(ts, 5) = "AND" /\ Kind(ts, 6) = "STRING"
       /\ ts[4][2] = q.clause[2] /\ ts[6][2] = q.until
  BY <1>2, <1>3, <1>9
<1>11. Stands(ts, 7, more)
  BY <1>8, 1 + 6 = 7
<1>12. RangeHead(word, noun, q) \o more = s
  BY <1>1 DEF s
<1>13. RangeBegins(q, word, noun, more, s)
  BY <1>5, <1>7, <1>10, <1>11 DEF RangeBegins, ts
<1> QED
  BY <1>12, <1>13

\* FOR NODE, or the end.
LEMMA NodeKept ==
  ASSUME NEW ts, Len(ts) \in Nat, ts[Len(ts)] = Eof, NEW node, Stands(ts, 7, NodeTokens(node)),
         Len(ts) = 7 + Len(NodeTokens(node)), NEW t
  PROVE  ParseForNode(ts, 7, t)
           = IF node = None THEN Got(t, Len(ts)) ELSE Got([t EXCEPT !.node = node], Len(ts))
<1>1. CASE node = None
  <2>1. NodeTokens(node) = <<>>
    BY <1>1 DEF NodeTokens
  <2>2. Len(ts) = 7
    BY <2>1
  <2>3. Kind(ts, 7) = "EOF"
    <3>1. Eof[1] = "EOF"
      BY DEF Eof
    <3>2. Kind(ts, 7) = ts[7][1]
      BY <2>2 DEF Kind
    <3> QED
      BY <2>2, <3>1, <3>2
  <2>4. Kind(ts, 7) # "FOR" /\ ~Expect(ts, 7, <<"FOR", "NODE", "STRING">>)
    BY <2>3, 1 \in DOMAIN <<"FOR", "NODE", "STRING">>, 7 + 1 - 1 = 7 DEF Expect
  <2> QED
    BY <1>1, <2>2, <2>4 DEF ParseForNode
<1>2. CASE node # None
  <2> DEFINE a == <<"FOR">>
             b == <<"NODE">>
             c == <<"STRING", node>>
             row == <<a, b, c>>
  <2>1. NodeTokens(node) = row
    BY <1>2 DEF NodeTokens
  <2>2. a[1] = "FOR" /\ b[1] = "NODE" /\ c[1] = "STRING" /\ c[2] = node
    OBVIOUS
  <2> HIDE DEF a, b, c
  <2>3. Len(row) = 3 /\ row[1] = a /\ row[2] = b /\ row[3] = c
    OBVIOUS
  <2> HIDE DEF row
  <2>4. \A k \in 1..Len(row) : ts[7 + k - 1] = row[k] /\ Kind(ts, 7 + k - 1) = row[k][1]
    BY <2>1, StandsKind
  <2>5. /\ Kind(ts, 7) = "FOR" /\ Kind(ts, 8) = "NODE" /\ Kind(ts, 9) = "STRING"
        /\ ts[9][2] = node
    <3>1. /\ 1 \in 1..Len(row) /\ 2 \in 1..Len(row) /\ 3 \in 1..Len(row)
          /\ 7 + 1 - 1 = 7 /\ 7 + 2 - 1 = 8 /\ 7 + 3 - 1 = 9
      BY <2>3
    <3> QED
      BY <2>2, <2>3, <2>4, <3>1
  <2>6. Expect(ts, 7, <<"FOR", "NODE", "STRING">>)
    BY <2>5 DEF Expect
  <2>7. Len(ts) = 10
    <3>1. Len(NodeTokens(node)) = 3
      BY <2>1, <2>3
    <3> QED
      BY <3>1
  <2>8. ParseForNode(ts, 7, t) = Got([t EXCEPT !.node = ts[7 + 2][2]], 7 + 3)
    BY <2>5, <2>6 DEF ParseForNode
  <2>9. ts[7 + 2][2] = node /\ 7 + 3 = Len(ts)
    BY <2>5, <2>7, 7 + 2 = 9, 7 + 3 = 10
  <2> HIDE DEF row
  <2> QED
    BY <1>2, <2>8, <2>9
<1> QED
  BY <1>1, <1>2

LEMMA NodePhrase ==
  ASSUME NEW node
  PROVE  IsPhrase(NodeTokens(node))
<1>1. CASE node = None
  BY <1>1 DEF NodeTokens, IsPhrase
<1>2. CASE node # None
  <2> DEFINE a == <<"FOR">>
             b == <<"NODE">>
             c == <<"STRING", node>>
             row == <<a, b, c>>
  <2>1. NodeTokens(node) = row
    BY <1>2 DEF NodeTokens
  <2>2. \A x \in {a, b, c} : IsLegal(x) /\ x[1] \notin Operators
    BY DEF IsLegal, IsLiteral, Keywords, Operators
  <2> HIDE DEF a, b, c
  <2>3. row \in Seq({a, b, c})
    OBVIOUS
  <2> HIDE DEF row
  <2>4. \A k \in 1..Len(row) : row[k] \in {a, b, c}
    BY <2>3, ElementOfSeq
  <2> QED
    BY <2>1, <2>2, <2>3, <2>4, NoOperators
<1> QED
  BY <1>1, <1>2

LEMMA SixInARow ==
  ASSUME NEW a, NEW b, NEW c, NEW d, NEW e, NEW g
  PROVE  <<a, b>> \o <<c, d, e, g>> = <<a, b, c, d, e, g>>
<1> DEFINE U == {a, b, c, d, e, g}
           x == <<a, b>>
           y == <<c, d, e, g>>
           z == <<a, b, c, d, e, g>>
<1>1. x \in Seq(U) /\ y \in Seq(U) /\ z \in Seq(U)
  OBVIOUS
<1>2. /\ Len(x) = 2 /\ x[1] = a /\ x[2] = b
      /\ Len(y) = 4 /\ y[1] = c /\ y[2] = d /\ y[3] = e /\ y[4] = g
  OBVIOUS
<1>3. /\ Len(z) = 6 /\ z[1] = a /\ z[2] = b /\ z[3] = c /\ z[4] = d /\ z[5] = e
      /\ z[6] = g
  OBVIOUS
<1> HIDE DEF U, x, y, z
<1>4. /\ x \o y \in Seq(U) /\ Len(x \o y) = 6
      /\ \A k \in 1..6 : (x \o y)[k] = IF k <= 2 THEN x[k] ELSE y[k - 2]
  <2> DEFINE w == x \o y
  <2>1. /\ w \in Seq(U) /\ Len(w) = Len(x) + Len(y)
        /\ \A k \in 1..Len(x) + Len(y) : w[k] = IF k <= Len(x) THEN x[k] ELSE y[k - Len(x)]
    BY <1>1, ConcatProperties
  <2> HIDE DEF w
  <2>2. Len(x) + Len(y) = 6
    BY <1>2
  <2>3. w \in Seq(U) /\ Len(w) = 6
    BY <2>1, <2>2
  <2>4. \A k \in 1..6 : w[k] = IF k <= 2 THEN x[k] ELSE y[k - 2]
    BY <1>2, <2>1
  <2> QED
    BY <2>3, <2>4 DEF w
<1>5. /\ (x \o y)[1] = a /\ (x \o y)[2] = b /\ (x \o y)[3] = c
      /\ (x \o y)[4] = d /\ (x \o y)[5] = e /\ (x \o y)[6] = g
  BY <1>2, <1>4
<1>6. \A k \in 1..6 : (x \o y)[k] = z[k]
  <2> DEFINE w == x \o y
  <2>1. \A k \in 1..6 : k \in {1, 2, 3, 4, 5, 6}
    OBVIOUS
  <2>2. \A k \in {1, 2, 3, 4, 5, 6} : w[k] = z[k]
    <3> HIDE DEF w
    <3>1. /\ w[1] = a /\ w[2] = b /\ w[3] = c /\ w[4] = d /\ w[5] = e /\ w[6] = g
      BY <1>5 DEF w
    <3> QED
      BY <1>3, <3>1
  <2> HIDE DEF w
  <2> QED
    BY <2>1, <2>2 DEF w
<1>7. x \o y = z
  BY <1>1, <1>3, <1>4, <1>6, SeqEqual
<1> QED
  BY <1>7 DEF x, y, z

\* diff and changed, with the word and the noun they are asked with.
LEMMA RangeKept ==
  ASSUME NEW q, IsQuestion(q), NEW word, NEW noun, NEW ts, ts = Append(Sentence(q), Eof),
         \/ q.shape = "diff" /\ word = "DIFF" /\ noun = "GRAPH"
         \/ q.shape = "changed" /\ word = "WHAT" /\ noun = "CHANGED"
  PROVE  /\ IsPhrase(Sentence(q)) /\ Kind(ts, 1) = word
         /\ ParseRange(ts, q.shape, noun) = Got(q, Len(ts))
<1> DEFINE more == NodeTokens(q.node)
           t == [NoQuery EXCEPT !.shape = q.shape, !.until = q.until,
                                !.clause = <<"BETWEEN", q.clause[2]>>]
<1>1. Sentence(q) = RangeHead(word, noun, q) \o more
  <2> DEFINE front == << <<"BETWEEN">>, <<"STRING", q.clause[2]>>, <<"AND">>,
                         <<"STRING", q.until>> >>
             first == << <<word>>, <<noun>> >>
             U == Elements(more) \cup {<<word>>, <<noun>>, <<"BETWEEN">>, <<"AND">>,
                                       <<"STRING", q.clause[2]>>, <<"STRING", q.until>>}
  <2>1. more \in Seq(Elements(more))
    BY NodePhrase DEF IsPhrase
  <2>2. Sentence(q) = first \o (front \o more)
    BY DEF Sentence, RangeTokens
  <2>3. first \in Seq(U) /\ front \in Seq(U) /\ more \in Seq(U)
    <3> HIDE DEF more
    <3> QED
      BY <2>1
  <2>4. first \o front = RangeHead(word, noun, q)
    BY SixInARow DEF RangeHead
  <2> HIDE DEF first, front, U, more
  <2>5. first \o (front \o more) = (first \o front) \o more
    BY <2>3, ConcatAssociative
  <2> QED
    BY <2>2, <2>4, <2>5
<1>2. IsPhrase(more)
  BY NodePhrase
<1> HIDE DEF more
<1>3. /\ IsPhrase(Sentence(q)) /\ Len(ts) = 7 + Len(more) /\ Stands(ts, 7, more)
      /\ Len(ts) \in Nat /\ ts[Len(ts)] = Eof
      /\ Kind(ts, 1) = word /\ Kind(ts, 2) = noun /\ Kind(ts, 3) = "BETWEEN"
      /\ Kind(ts, 4) = "STRING" /\ Kind(ts, 5) = "AND" /\ Kind(ts, 6) = "STRING"
      /\ ts[4][2] = q.clause[2] /\ ts[6][2] = q.until
  <2>1. word \in {"DIFF", "WHAT"} /\ noun \in {"GRAPH", "CHANGED"}
    OBVIOUS
  <2>2. RangeBegins(q, word, noun, more, RangeHead(word, noun, q) \o more)
    BY ONLY <1>2, <2>1, RangePhrase
  <2>3. RangeBegins(q, word, noun, more, Sentence(q))
    BY <1>1, <2>2
  <2> QED
    BY <2>3 DEF RangeBegins
<1>4. Expect(ts, 2, <<noun, "BETWEEN", "STRING", "AND", "STRING">>)
  BY <1>3 DEF Expect
<1>5. ParseRange(ts, q.shape, noun) = ParseForNode(ts, 7, t)
  BY <1>3, <1>4 DEF ParseRange
<1>6. t \in [shape : {q.shape}, node : {None}, to : {q.to}, hops : {q.hops},
             clause : {q.clause}, until : {q.until}, filter : {q.filter}, limit : {q.limit}]
  BY NewTree DEF IsQuestion
<1> HIDE DEF t
<1>7. (IF q.node = None THEN t ELSE [t EXCEPT !.node = q.node]) = q
  <2> DEFINE u == IF q.node = None THEN t ELSE [t EXCEPT !.node = q.node]
  <2>1. u \in [shape : {q.shape}, node : {q.node}, to : {q.to}, hops : {q.hops},
               clause : {q.clause}, until : {q.until}, filter : {q.filter}, limit : {q.limit}]
    BY <1>6
  <2> HIDE DEF u
  <2>2. u = [shape |-> q.shape, node |-> q.node, to |-> q.to, hops |-> q.hops,
             clause |-> q.clause, until |-> q.until, filter |-> q.filter, limit |-> q.limit]
    BY <2>1
  <2>3. u = q
    BY <2>2 DEF IsQuestion
  <2> QED
    BY <2>3 DEF u
<1>8. ParseForNode(ts, 7, t) = Got(q, Len(ts))
  <2>1. ParseForNode(ts, 7, t)
          = IF q.node = None THEN Got(t, Len(ts)) ELSE Got([t EXCEPT !.node = q.node], Len(ts))
    BY <1>3, NodeKept DEF more
  <2> QED
    BY <1>7, <2>1
<1> QED
  BY <1>3, <1>5, <1>8

-----------------------------------------------------------------------------
\* parse of the text a query is written as, or of the same with blanks and keywords
\* in any case, is the query.
LEMMA TextKept ==
  ASSUME NEW q, IsQuestion(q), WidthsGrow, CapitalKeywords, NEW pieces, IsText(pieces),
         IsOrdinary(pieces), IsTight(pieces), Plain(pieces) = Written(q)
  PROVE  Parse(pieces) = q
<1> DEFINE s  == Sentence(q)
           ts == Append(s, Eof)
           got == CASE Kind(ts, 1) = "FIND" -> ParseFind(ts)
                    [] Kind(ts, 1) = "SHOW" -> ParseShow(ts)
                    [] Kind(ts, 1) = "WHO"  -> ParseWho(ts)
                    [] Kind(ts, 1) = "DIFF" -> ParseRange(ts, "diff", "GRAPH")
                    [] Kind(ts, 1) = "WHAT" -> ParseRange(ts, "changed", "CHANGED")
                    [] OTHER -> Failed
<1>1. IsPhrase(s) /\ got = Got(q, Len(ts))
  <2>0. q.shape \in {"neighbors", "hops", "path", "who", "diff", "changed"}
    BY DEF IsQuestion
  <2> DEFINE us == Append(Sentence(q), Eof)
  <2>1. CASE q.shape \in {"neighbors", "hops"}
    <3>1. IsPhrase(Sentence(q)) /\ Kind(us, 1) = "FIND" /\ ParseFind(us) = Got(q, Len(us))
      BY <2>1, NeighborsKept, HopsKept
    <3> HIDE DEF us
    <3> QED
      BY <3>1 DEF us
  <2>2. CASE q.shape = "path"
    <3>1. IsPhrase(Sentence(q)) /\ Kind(us, 1) = "SHOW" /\ ParseShow(us) = Got(q, Len(us))
      BY <2>2, ShowKept
    <3> QED
      BY <3>1
  <2>3. CASE q.shape = "who"
    <3>1. IsPhrase(Sentence(q)) /\ Kind(us, 1) = "WHO" /\ ParseWho(us) = Got(q, Len(us))
      BY <2>3, WhoKept
    <3> QED
      BY <3>1
  <2>4. CASE q.shape = "diff"
    <3>1. /\ IsPhrase(Sentence(q)) /\ Kind(us, 1) = "DIFF"
          /\ ParseRange(us, "diff", "GRAPH") = Got(q, Len(us))
      BY <2>4, RangeKept
    <3> QED
      BY <3>1
  <2>5. CASE q.shape = "changed"
    <3>1. /\ IsPhrase(Sentence(q)) /\ Kind(us, 1) = "WHAT"
          /\ ParseRange(us, "changed", "CHANGED") = Got(q, Len(us))
      BY <2>5, RangeKept
    <3> QED
      BY <3>1
  <2> QED
    BY <2>0, <2>1, <2>2, <2>3, <2>4, <2>5
<1>2. /\ IsTokens(ts) /\ IsSentence(ts) /\ \A k \in DOMAIN ts : ts[k][1] # "ERROR"
  BY <1>1, SentenceEnds
<1>3. Written(q) = Spelt(ts)
  BY DEF Written, Eof
<1> HIDE DEF s, ts, got
<1>4. Tokenize(pieces) = ts
  BY <1>2, <1>3, SentenceTokenized
<1>5. Kind(ts, Len(ts)) = "EOF"
  BY <1>2 DEF IsTokens, Kind, Eof
<1>6. Parse(pieces) = IF /\ \A k \in DOMAIN ts : ts[k][1] # "ERROR"
                         /\ got.ok /\ Kind(ts, got.at) = "EOF"
                      THEN got.val ELSE NoQuery
  BY <1>4 DEF Parse, got
<1>7. got.ok /\ got.val = q /\ got.at = Len(ts)
  BY <1>1 DEF Got
<1> QED
  BY <1>2, <1>5, <1>6, <1>7

-----------------------------------------------------------------------------
(* Rows that pass the filter *)

\* Row k passes the filter.
Passes(d, filter, ids, k) == Matches(filter, Columns(d, ids[k]))

\* f says of each of the first n rows what apply_filter has kept so far.
IsKept(f, d, filter, ids, n) ==
  f = [k \in 0..n |->
         IF k = 0 THEN <<>>
         ELSE IF Passes(d, filter, ids, k) THEN Append(f[k - 1], ids[k]) ELSE f[k - 1]]

LEMMA FilteredIsKept ==
  ASSUME NEW d, NEW filter, NEW ids
  PROVE  Filtered(d, filter, ids) = (CHOOSE f : IsKept(f, d, filter, ids, Len(ids)))[Len(ids)]
  BY DEF Filtered, IsKept, Passes

LEMMA KeptExists ==
  ASSUME NEW d, NEW filter, NEW ids
  PROVE  \A n \in Nat : \E f : IsKept(f, d, filter, ids, n)
<1> DEFINE S == {n \in Nat : \E f : IsKept(f, d, filter, ids, n)}
           M(k) == Passes(d, filter, ids, k)
<1> HIDE DEF M
<1>1. 0 \in S
  <2>1. IsKept([k \in 0..0 |-> <<>>], d, filter, ids, 0)
    BY DEF IsKept
  <2> QED
    BY <2>1
<1>2. ASSUME NEW n \in Nat, n \in S PROVE n + 1 \in S
  <2>1. PICK f : IsKept(f, d, filter, ids, n)
    BY <1>2
  <2> DEFINE h == [k \in 0..(n + 1) |->
                     IF k = n + 1 THEN IF M(k) THEN Append(f[n], ids[k]) ELSE f[n] ELSE f[k]]
  <2>2. \A k \in 0..n : f[k] = IF k = 0 THEN <<>>
                               ELSE IF M(k) THEN Append(f[k - 1], ids[k]) ELSE f[k - 1]
    BY <2>1 DEF IsKept, M
  <2>3. /\ \A k \in 0..n : h[k] = f[k]
        /\ h[n + 1] = IF M(n + 1) THEN Append(f[n], ids[n + 1]) ELSE f[n]
    OBVIOUS
  <2>4. h = [k \in 0..(n + 1) |-> h[k]]
    OBVIOUS
  <2> HIDE DEF h
  <2>5. \A k \in 0..(n + 1) :
          h[k] = IF k = 0 THEN <<>>
                 ELSE IF M(k) THEN Append(h[k - 1], ids[k]) ELSE h[k - 1]
    <3> TAKE k \in 0..(n + 1)
    <3>1. CASE k \in 0..n
      <4>1. k # 0 => k - 1 \in 0..n
        BY <3>1
      <4> QED
        BY <2>2, <2>3, <3>1, <4>1
    <3>2. CASE k = n + 1
      <4>1. k - 1 = n /\ n \in 0..n /\ k # 0
        BY <3>2
      <4> QED
        BY <2>3, <3>2, <4>1
    <3> QED
      BY <3>1, <3>2
  <2>6. IsKept(h, d, filter, ids, n + 1)
    BY <2>4, <2>5 DEF IsKept, M
  <2> QED
    BY <2>6
<1> HIDE DEF S
<1>3. Nat \subseteq S
  BY <1>1, <1>2, NatSet
<1> QED
  BY <1>3 DEF S

\* s holds those of the first n rows that pass, in their order.
Keeping(s, d, filter, ids, n) ==
  /\ \A j \in DOMAIN s : \E k \in 1..n : s[j] = ids[k] /\ Passes(d, filter, ids, k)
  /\ \A k \in 1..n : Passes(d, filter, ids, k) => \E j \in DOMAIN s : s[j] = ids[k]
  /\ \A i, j \in DOMAIN s : i < j => \E k, m \in 1..n : k < m /\ s[i] = ids[k] /\ s[j] = ids[m]
  /\ (\A k \in 1..n : Passes(d, filter, ids, k)) =>
       Len(s) = n /\ \A k \in 1..n : s[k] = ids[k]

LEMMA KeepingNext ==
  ASSUME NEW S, NEW s \in Seq(S), NEW d, NEW filter, NEW ids, NEW n \in Nat,
         Keeping(s, d, filter, ids, n), ids[n + 1] \in S
  PROVE  LET t == IF Passes(d, filter, ids, n + 1) THEN Append(s, ids[n + 1]) ELSE s
         IN t \in Seq(S) /\ Keeping(t, d, filter, ids, n + 1)
<1> DEFINE M(k) == Passes(d, filter, ids, k)
           e == ids[n + 1]
<1>0. \A k \in 1..(n + 1) : k \in 1..n \/ k = n + 1
  OBVIOUS
<1>1. CASE ~M(n + 1)
  <2>1. Keeping(s, d, filter, ids, n + 1)
    <3> HIDE DEF M
    <3>1. \A k \in 1..n : k \in 1..(n + 1)
      OBVIOUS
    <3>2. n + 1 \in 1..(n + 1)
      OBVIOUS
    <3> QED
      BY <1>0, <1>1, <3>1, <3>2 DEF Keeping, M
  <2> QED
    BY <1>1, <2>1
<1>2. CASE M(n + 1)
  <2> DEFINE t == Append(s, e)
             l == Len(s)
  <2>1. /\ t \in Seq(S) /\ Len(t) = l + 1 /\ t[l + 1] = e
        /\ \A i \in 1..l : t[i] = s[i]
    BY AppendProperties
  <2>2. /\ l \in Nat /\ DOMAIN s = 1..l /\ DOMAIN t = 1..(l + 1)
    BY <2>1, LenProperties
  <2>3. \A i \in DOMAIN t : i \in DOMAIN s \/ i = l + 1
    BY <2>2
  <2>4. \A i \in DOMAIN s : i \in DOMAIN t /\ t[i] = s[i]
    BY <2>1, <2>2
  <2>5. l + 1 \in DOMAIN t /\ t[l + 1] = ids[n + 1]
    BY <2>1, <2>2
  <2>6. \A k \in 1..n : k \in 1..(n + 1) /\ k < n + 1
    OBVIOUS
  <2>7. n + 1 \in 1..(n + 1)
    OBVIOUS
  <2> HIDE DEF M, t, l
  <2>8. \A j \in DOMAIN t : \E k \in 1..(n + 1) : t[j] = ids[k] /\ M(k)
    BY <1>2, <2>3, <2>4, <2>5, <2>6, <2>7 DEF Keeping, M
  <2>9. \A k \in 1..(n + 1) : M(k) => \E j \in DOMAIN t : t[j] = ids[k]
    BY <1>0, <2>4, <2>5 DEF Keeping, M
  <2>10. ASSUME NEW i \in DOMAIN t, NEW j \in DOMAIN t, i < j
         PROVE  \E k, m \in 1..(n + 1) : k < m /\ t[i] = ids[k] /\ t[j] = ids[m]
    <3>1. i \in DOMAIN s
      BY <2>2, <2>10
    <3>2. CASE j \in DOMAIN s
      <4>1. PICK k \in 1..n, m \in 1..n : k < m /\ s[i] = ids[k] /\ s[j] = ids[m]
        BY <2>10, <3>1, <3>2 DEF Keeping
      <4>2. t[i] = ids[k] /\ t[j] = ids[m]
        BY <2>4, <3>1, <3>2, <4>1
      <4>3. k \in 1..(n + 1) /\ m \in 1..(n + 1)
        BY <2>6
      <4> QED
        BY <4>1, <4>2, <4>3
    <3>3. CASE j = l + 1
      <4>1. PICK k \in 1..n : s[i] = ids[k]
        BY <3>1 DEF Keeping
      <4>2. t[i] = ids[k] /\ t[j] = ids[n + 1]
        BY <2>4, <2>5, <3>1, <3>3, <4>1
      <4> QED
        BY <2>6, <2>7, <4>2
    <3> QED
      BY <2>3, <3>2, <3>3
  <2>11. ASSUME \A k \in 1..(n + 1) : M(k)
         PROVE  Len(t) = n + 1 /\ \A k \in 1..(n + 1) : t[k] = ids[k]
    <3>1. l = n /\ \A k \in 1..n : s[k] = ids[k]
      BY <2>6, <2>11 DEF Keeping, M, l
    <3>2. Len(t) = n + 1
      BY <2>1, <3>1
    <3>3. ASSUME NEW k \in 1..(n + 1) PROVE t[k] = ids[k]
      <4>1. CASE k \in 1..n
        BY <2>1, <3>1, <4>1
      <4>2. CASE k = n + 1
        BY <2>5, <3>1, <4>2
      <4> QED
        BY <1>0, <4>1, <4>2
    <3> QED
      BY <3>2, <3>3
  <2>12. Keeping(t, d, filter, ids, n + 1)
    BY <2>8, <2>9, <2>10, <2>11 DEF Keeping, M
  <2> QED
    BY <1>2, <2>1, <2>12 DEF M, t
<1> QED
  BY <1>1, <1>2

LEMMA FilteredKeeps ==
  ASSUME NEW S, NEW ids \in Seq(S), NEW d, NEW filter
  PROVE  Filtered(d, filter, ids) \in Seq(S)
         /\ Keeping(Filtered(d, filter, ids), d, filter, ids, Len(ids))
<1> DEFINE L == Len(ids)
           f == CHOOSE g : IsKept(g, d, filter, ids, L)
           R == {n \in Nat : n <= L => /\ f[n] \in Seq(S)
                                       /\ Keeping(f[n], d, filter, ids, n)}
<1>1. L \in Nat /\ \A k \in 1..L : ids[k] \in S
  BY LenProperties, ElementOfSeq
<1>2. IsKept(f, d, filter, ids, L)
  BY <1>1, KeptExists
<1> HIDE DEF f
<1>3. \A k \in 0..L : f[k] = IF k = 0 THEN <<>>
                             ELSE IF Passes(d, filter, ids, k) THEN Append(f[k - 1], ids[k])
                             ELSE f[k - 1]
  BY <1>2 DEF IsKept
<1> HIDE DEF L
<1>4. 0 \in R
  <2>1. f[0] = <<>>
    BY <1>1, <1>3
  <2>2. Keeping(<<>>, d, filter, ids, 0)
    BY DEF Keeping
  <2>3. <<>> \in Seq(S)
    OBVIOUS
  <2> QED
    BY <2>1, <2>2, <2>3
<1>5. ASSUME NEW n \in Nat, n \in R PROVE n + 1 \in R
  <2> SUFFICES ASSUME n + 1 <= L
               PROVE  f[n + 1] \in Seq(S) /\ Keeping(f[n + 1], d, filter, ids, n + 1)
    OBVIOUS
  <2>1. n <= L /\ n + 1 \in 0..L /\ n + 1 \in 1..L /\ n + 1 # 0 /\ (n + 1) - 1 = n
    BY <1>1
  <2>2. f[n] \in Seq(S) /\ Keeping(f[n], d, filter, ids, n)
    BY <1>5, <2>1
  <2>3. f[n + 1] = IF Passes(d, filter, ids, n + 1) THEN Append(f[n], ids[n + 1]) ELSE f[n]
    BY <1>3, <2>1
  <2>4. ids[n + 1] \in S
    BY <1>1, <2>1
  <2> QED
    BY <2>2, <2>3, <2>4, KeepingNext
<1> HIDE DEF R
<1>6. L \in R
  BY <1>1, <1>4, <1>5, NatSet
<1>7. f[L] \in Seq(S) /\ Keeping(f[L], d, filter, ids, L)
  BY <1>1, <1>6 DEF R
<1> QED
  BY <1>7, FilteredIsKept DEF f, L

-----------------------------------------------------------------------------
(* The searches of a query are searches of ChronaTraverse *)

\* Every scanner and every job ChronaTraverse admits over the ids of snapshots.
AllScans ==
  {s \in [NodeIds -> Seq([id : Nat, from : NodeIds, to : NodeIds])] :
     /\ \A n \in NodeIds : s[n] \in Seq([id : Nat, from : {n}, to : NodeIds])
     /\ \A m, n \in NodeIds : \A i \in DOMAIN s[m], j \in DOMAIN s[n] :
          s[m][i].id = s[n][j].id => m = n /\ i = j}

AllJobs == [algo : {"hops"}, src : NodeIds, hops : Nat]
             \cup [algo : {"path"}, src : NodeIds, dst : NodeIds]

P == INSTANCE ChronaTraverseProofs WITH Nodes <- NodeIds, Scans <- AllScans, Jobs <- AllJobs

LEMMA SearchAssumptions == P!ScanAssumption /\ P!JobAssumption
<1>1. IsFiniteSet(NodeIds)
  BY SuiteAssumption
<1>2. P!IsFiniteSet(NodeIds)
  BY <1>1 DEF P!IsFiniteSet, IsFiniteSet
<1>3. P!ScanAssumption
  BY <1>2 DEF P!ScanAssumption, AllScans
<1>4. P!JobAssumption
  BY DEF P!JobAssumption, AllJobs
<1> QED
  BY <1>3, <1>4

LEMMA SearchInvKept ==
  ASSUME P!SearchInv, P!Nearest, Search!Next \/ UNCHANGED searchVars
  PROVE  P!SearchInv' /\ P!Nearest'
<1>1. Search!Next => P!Next
  BY DEF Search!Next, P!Next, Search!HopsExpand, P!HopsExpand, Search!HopsEdge, P!HopsEdge,
         Search!HopsDone, P!HopsDone, Search!PathExpand, P!PathExpand, Search!PathEdge,
         P!PathEdge, Search!PathNone, P!PathNone, Search!PathBack, P!PathBack,
         Search!Searching, P!Searching, Search!Entry, P!Entry
<1>2. UNCHANGED searchVars => UNCHANGED P!vars
  BY DEF searchVars, P!vars
<1>3. P!SearchInv /\ [P!Next]_P!vars => P!SearchInv'
  BY SearchAssumptions, P!SearchStep DEF P!ScanAssumption, P!JobAssumption
<1>4. P!SearchInv /\ P!Nearest /\ [P!Next]_P!vars => P!Nearest'
  BY SearchAssumptions, P!NearestStep DEF P!ScanAssumption, P!JobAssumption
<1> QED
  BY <1>1, <1>2, <1>3, <1>4

LEMMA SearchInvStart ==
  ASSUME NEW j \in AllJobs, NEW s \in AllScans, Search!Start(j, s)
  PROVE  P!SearchInv /\ P!Nearest
<1>1. P!Init
  BY DEF P!Init, P!Start, Search!Start, P!Entry, Search!Entry
<1>2. P!Init => P!SearchInv
  BY SearchAssumptions, P!InitSearch DEF P!ScanAssumption, P!JobAssumption
<1>3. P!Init => P!Nearest
  BY SearchAssumptions, P!InitNearest DEF P!ScanAssumption, P!JobAssumption
<1> QED
  BY <1>1, <1>2, <1>3

-----------------------------------------------------------------------------
(* What a snapshot answers *)

\* What a write left, within the ids of the searches.
Snapshot(d) == Good(d) /\ DOMAIN d.nodes \subseteq NodeIds

LEMMA EdgeEnds ==
  ASSUME NEW d, Snapshot(d), NEW i \in DOMAIN d.edges
  PROVE  /\ d.edges[i].from \in DOMAIN d.nodes /\ d.edges[i].to \in DOMAIN d.nodes
         /\ d.edges[i].from \in NodeIds /\ d.edges[i].to \in NodeIds
         /\ i \in Nat
         /\ ~Dangling(d, i)
<1>1. DOMAIN d.edges \subseteq Nat
  BY DEF Snapshot, Good, IsDatabase, DbInv, EdgesResolve
<1> QED
  BY <1>1 DEF Snapshot, Good, DbInv, EdgesResolve, Dangling

LEMMA NamesResolve ==
  ASSUME NEW d, Snapshot(d), NEW x \in DOMAIN d.extIds
  PROVE  d.extIds[x] \in DOMAIN d.nodes /\ d.extIds[x] \in NodeIds /\ d.nodes[d.extIds[x]].ext = x
  BY DEF Snapshot, Good, DbInv, NodesNamed

LEMMA FwdScan ==
  ASSUME NEW d, Snapshot(d), NEW node, NEW t
  PROVE  LET s == ScanInOrder(d, d.fwdAdj, node, t)
         IN /\ Len(s) \in Nat /\ DOMAIN s = 1..Len(s) /\ s \in Seq(Live(d, t))
            /\ {s[k] : k \in DOMAIN s} = {i \in Live(d, t) : d.edges[i].from = node}
            /\ \A j, k \in DOMAIN s : s[j] = s[k] => j = k
<1> DEFINE ids == ScanAdjacency(d, d.fwdAdj, node, t)
           s   == ScanInOrder(d, d.fwdAdj, node, t)
           ends == [i \in DOMAIN d.edges |-> d.edges[i].from]
           wanted == {i \in Live(d, t) : d.edges[i].from = node}
<1>1. ids = wanted
  <2>1. DOMAIN d.fwdAdj = {<<ends[i], d.edges[i].vf, i>> : i \in DOMAIN d.edges}
    BY DEF Snapshot, Good, DbInv, IndexesMirrorEdges
  <2>2. ids = {i \in DOMAIN d.edges : ends[i] = node /\ LiveAt(d.edges[i], t)}
    <3> HIDE DEF ends
    <3> QED
      BY <2>1, ScanExact
  <2> QED
    BY <2>2 DEF Live
<1>2. /\ Cardinality(ids) \in Nat /\ DOMAIN s = 1..Cardinality(ids)
      /\ {s[k] : k \in DOMAIN s} = ids
      /\ \A j, k \in DOMAIN s : s[j] = s[k] => j = k
  BY ScanListed DEF Snapshot
<1>3. s = [k \in 1..Cardinality(ids) |-> s[k]]
  BY <1>2, ScanListed DEF Snapshot
<1> HIDE DEF ids, s
<1> DEFINE n == Cardinality(ids)
<1> HIDE DEF n
<1>4. n \in Nat /\ s = [k \in 1..n |-> s[k]] /\ \A k \in 1..n : s[k] \in Live(d, t)
  BY <1>1, <1>2, <1>3 DEF n
<1>5. s \in Seq(Live(d, t))
  BY <1>4, FunctionSeq
<1>6. Len(s) = n
  BY <1>4
<1> QED
  BY <1>1, <1>2, <1>5, <1>6 DEF n, s

LEMMA RevScan ==
  ASSUME NEW d, Snapshot(d), NEW node, NEW t
  PROVE  LET s == ScanInOrder(d, d.revAdj, node, t)
         IN /\ Len(s) \in Nat /\ DOMAIN s = 1..Len(s) /\ s \in Seq(Live(d, t))
            /\ {s[k] : k \in DOMAIN s} = {i \in Live(d, t) : d.edges[i].to = node}
            /\ \A j, k \in DOMAIN s : s[j] = s[k] => j = k
<1> DEFINE ids == ScanAdjacency(d, d.revAdj, node, t)
           s   == ScanInOrder(d, d.revAdj, node, t)
           ends == [i \in DOMAIN d.edges |-> d.edges[i].to]
           wanted == {i \in Live(d, t) : d.edges[i].to = node}
<1>1. ids = wanted
  <2>1. DOMAIN d.revAdj = {<<ends[i], d.edges[i].vf, i>> : i \in DOMAIN d.edges}
    BY DEF Snapshot, Good, DbInv, IndexesMirrorEdges
  <2>2. ids = {i \in DOMAIN d.edges : ends[i] = node /\ LiveAt(d.edges[i], t)}
    <3> HIDE DEF ends
    <3> QED
      BY <2>1, ScanExact
  <2> QED
    BY <2>2 DEF Live
<1>2. /\ Cardinality(ids) \in Nat /\ DOMAIN s = 1..Cardinality(ids)
      /\ {s[k] : k \in DOMAIN s} = ids
      /\ \A j, k \in DOMAIN s : s[j] = s[k] => j = k
  BY ScanListed DEF Snapshot
<1>3. s = [k \in 1..Cardinality(ids) |-> s[k]]
  BY <1>2, ScanListed DEF Snapshot
<1> HIDE DEF ids, s
<1> DEFINE n == Cardinality(ids)
<1> HIDE DEF n
<1>4. n \in Nat /\ s = [k \in 1..n |-> s[k]] /\ \A k \in 1..n : s[k] \in Live(d, t)
  BY <1>1, <1>2, <1>3 DEF n
<1>5. s \in Seq(Live(d, t))
  BY <1>4, FunctionSeq
<1>6. Len(s) = n
  BY <1>4
<1> QED
  BY <1>1, <1>2, <1>5, <1>6 DEF n, s

\* What a scanner says of edge i.
EdgeOf(d, i) == [id |-> i, from |-> d.edges[i].from, to |-> d.edges[i].to]

LEMMA ScannerTyped ==
  ASSUME NEW d, Snapshot(d), NEW t
  PROVE  /\ Scanner(d, t) \in AllScans
         /\ P!Edges(Scanner(d, t)) = {EdgeOf(d, i) : i \in Live(d, t)}
<1> DEFINE s == Scanner(d, t)
           Row(n) == ScanInOrder(d, d.fwdAdj, n, t)
<1>1. ASSUME NEW n \in NodeIds
      PROVE  /\ Len(Row(n)) \in Nat /\ DOMAIN Row(n) = 1..Len(Row(n))
             /\ {Row(n)[k] : k \in DOMAIN Row(n)} = {i \in Live(d, t) : d.edges[i].from = n}
             /\ \A j, k \in DOMAIN Row(n) : Row(n)[j] = Row(n)[k] => j = k
  BY FwdScan
<1>2. s = [n \in NodeIds |->
             [k \in DOMAIN Row(n) |-> [id |-> Row(n)[k], from |-> n, to |-> d.edges[Row(n)[k]].to]]]
  BY DEF Scanner
<1> HIDE DEF s, Row
<1>3. ASSUME NEW n \in NodeIds
      PROVE  /\ DOMAIN s[n] = DOMAIN Row(n)
             /\ \A k \in DOMAIN Row(n) : /\ Row(n)[k] \in Live(d, t)
                                         /\ d.edges[Row(n)[k]].from = n
                                         /\ s[n][k] = EdgeOf(d, Row(n)[k])
  BY <1>1, <1>2 DEF EdgeOf
<1>4. \A i \in Live(d, t) : /\ i \in DOMAIN d.edges /\ i \in Nat
                            /\ d.edges[i].from \in NodeIds /\ d.edges[i].to \in NodeIds
  BY EdgeEnds DEF Live
<1>5. ASSUME NEW n \in NodeIds
      PROVE  s[n] \in Seq([id : Nat, from : {n}, to : NodeIds])
  <2> DEFINE V == [id : Nat, from : {n}, to : NodeIds]
             l == Len(Row(n))
  <2>1. ASSUME NEW k \in 1..l PROVE s[n][k] \in V
    <3>1. /\ Row(n)[k] \in Live(d, t) /\ d.edges[Row(n)[k]].from = n
          /\ s[n][k] = EdgeOf(d, Row(n)[k])
      BY <1>1, <1>3
    <3>2. Row(n)[k] \in Nat /\ d.edges[Row(n)[k]].to \in NodeIds
      BY <1>4, <3>1
    <3> QED
      BY <3>1, <3>2 DEF EdgeOf
  <2>2. s[n] = [k \in 1..l |-> s[n][k]]
    BY <1>1, <1>2
  <2>3. l \in Nat
    BY <1>1
  <2> HIDE DEF V, l
  <2>4. s[n] \in Seq(V)
    BY <2>1, <2>2, <2>3, FunctionSeq
  <2> QED
    BY <2>4 DEF V
<1>6. s \in [NodeIds -> Seq([id : Nat, from : NodeIds, to : NodeIds])]
  <2> DEFINE W == [id : Nat, from : NodeIds, to : NodeIds]
  <2>1. ASSUME NEW n \in NodeIds PROVE s[n] \in Seq(W)
    <3> DEFINE V == [id : Nat, from : {n}, to : NodeIds]
    <3>1. V \subseteq W
      OBVIOUS
    <3>2. s[n] \in Seq(V)
      BY <1>5
    <3> HIDE DEF V, W
    <3> QED
      BY <3>1, <3>2, SeqMonotonic
  <2>2. s = [n \in NodeIds |-> s[n]]
    BY <1>2
  <2> HIDE DEF W
  <2>3. s \in [NodeIds -> Seq(W)]
    BY <2>1, <2>2
  <2> QED
    BY <2>3 DEF W
<1>7. ASSUME NEW m \in NodeIds, NEW n \in NodeIds, NEW i \in DOMAIN s[m], NEW j \in DOMAIN s[n],
             s[m][i].id = s[n][j].id
      PROVE  m = n /\ i = j
  <2>1. /\ i \in DOMAIN Row(m) /\ s[m][i] = EdgeOf(d, Row(m)[i])
        /\ d.edges[Row(m)[i]].from = m
        /\ j \in DOMAIN Row(n) /\ s[n][j] = EdgeOf(d, Row(n)[j])
        /\ d.edges[Row(n)[j]].from = n
    BY <1>3
  <2>2. EdgeOf(d, Row(m)[i]).id = Row(m)[i] /\ EdgeOf(d, Row(n)[j]).id = Row(n)[j]
    BY DEF EdgeOf
  <2>3. Row(m)[i] = Row(n)[j] /\ m = n
    BY <1>7, <2>1, <2>2
  <2> QED
    BY <1>1, <2>1, <2>3
<1>8. s \in AllScans
  BY <1>5, <1>6, <1>7 DEF AllScans
<1>9. ASSUME NEW e \in P!Edges(s) PROVE \E i \in Live(d, t) : e = EdgeOf(d, i)
  <2>1. PICK n \in NodeIds : \E k \in DOMAIN s[n] : e = s[n][k]
    BY DEF P!Edges
  <2> QED
    BY <1>3, <2>1
<1>10. ASSUME NEW i \in Live(d, t) PROVE EdgeOf(d, i) \in P!Edges(s)
  <2> DEFINE n == d.edges[i].from
  <2>1. n \in NodeIds
    BY <1>4
  <2> HIDE DEF n
  <2>2. PICK k \in DOMAIN Row(n) : Row(n)[k] = i
    BY <1>1, <2>1 DEF n
  <2>3. k \in DOMAIN s[n] /\ s[n][k] = EdgeOf(d, i)
    BY <1>3, <2>1, <2>2
  <2> QED
    BY <2>1, <2>3 DEF P!Edges
<1> QED
  BY <1>8, <1>9, <1>10 DEF s

LEMMA JobTyped ==
  ASSUME NEW d, Snapshot(d), NEW q, IsTree(q), Searches(q), Resolvable(d, q)
  PROVE  JobOf(d, q) \in AllJobs
<1>1. Named(q) \subseteq DOMAIN d.extIds /\ q.hops \in Nat /\ q.node \in Named(q)
  BY DEF Resolvable, IsTree, Named, Searches, Ranged
<1>2. d.extIds[q.node] \in NodeIds
  BY <1>1, NamesResolve
<1>3. q.shape = "path" => d.extIds[q.to] \in NodeIds
  BY <1>1, NamesResolve DEF Named, Ranged
<1> QED
  BY <1>1, <1>2, <1>3 DEF JobOf, AllJobs, Searches

-----------------------------------------------------------------------------
(* The meaning of a query, in the terms of the search *)

\* The node asked about, and what the snapshot says as a scanner.
Src == db.extIds[query.node]
Here == Scanner(db, AsOf(query))

LEMMA OnwardLive ==
  ASSUME Snapshot(db), NEW B
  PROVE  P!Onward(Here, B)
           = B \cup {db.edges[e].to : e \in {x \in Live(db, AsOf(query)) : db.edges[x].from \in B}}
<1> DEFINE live == Live(db, AsOf(query))
<1>1. P!Edges(Here) = {EdgeOf(db, i) : i \in live}
  BY ScannerTyped DEF Here
<1>2. \A i : EdgeOf(db, i).from = db.edges[i].from /\ EdgeOf(db, i).to = db.edges[i].to
  BY DEF EdgeOf
<1> HIDE DEF live
<1>3. {e.to : e \in {x \in P!Edges(Here) : x.from \in B}}
        = {db.edges[e].to : e \in {x \in live : db.edges[x].from \in B}}
  BY <1>1, <1>2
<1> QED
  BY <1>3 DEF P!Onward, live

LEMMA BallsAgree ==
  ASSUME NEW s, NEW src, NEW k \in Nat, NEW g, NEW h,
         P!IsBall(g, s, src, k), P!IsBall(h, s, src, k)
  PROVE  g[k] = h[k]
<1>1. k <= k
  OBVIOUS
<1> QED
  BY <1>1, SearchAssumptions, P!BallUnique DEF P!ScanAssumption, P!JobAssumption

LEMMA BallIsWithin ==
  ASSUME Snapshot(db), NEW k \in Nat
  PROVE  Ball(k) = P!Within(Here, Src, k)
<1> DEFINE Beyond(B) == {db.edges[e].to : e \in {x \in Live(db, AsOf(query)) :
                                                    db.edges[x].from \in B}}
           IsWave(f) == f = [i \in 0..k |-> IF i = 0 THEN {Src}
                                            ELSE f[i - 1] \cup Beyond(f[i - 1])]
           g == CHOOSE f : IsWave(f)
           h == CHOOSE f : P!IsBall(f, Here, Src, k)
<1>1. Ball(k) = g[k]
  BY DEF Ball, Src
<1>2. P!Within(Here, Src, k) = h[k]
  BY SearchAssumptions, P!WithinIsBall DEF P!ScanAssumption, P!JobAssumption
<1>3. \A B : P!Onward(Here, B) = B \cup Beyond(B)
  BY OnwardLive
<1>4. \E f : P!IsBall(f, Here, Src, k)
  BY SearchAssumptions, P!BallExists DEF P!ScanAssumption, P!JobAssumption
<1> HIDE DEF Beyond
<1>5. \A f : P!IsBall(f, Here, Src, k) <=> IsWave(f)
  BY <1>3 DEF P!IsBall
<1> HIDE DEF IsWave
<1>6. IsWave(g)
  BY <1>4, <1>5
<1>7. P!IsBall(g, Here, Src, k) /\ P!IsBall(h, Here, Src, k)
  BY <1>4, <1>5, <1>6
<1> HIDE DEF g, h
<1>8. g[k] = h[k]
  BY <1>7, BallsAgree
<1> QED
  BY <1>1, <1>2, <1>8 DEF g, h

-----------------------------------------------------------------------------
(* What an execution keeps *)

\* rows holds what the query reads, before the filter.
RowsRead ==
  /\ Parsed /\ Resolvable(db, query) /\ ~Ranged(query)
  /\ query.shape = "neighbors" => rows = ScanInOrder(db, db.fwdAdj, Src, AsOf(query))
  /\ query.shape = "who" => rows = ScanInOrder(db, db.fwdAdj, Src, AsOf(query))
                                     \o ScanInOrder(db, db.revAdj, Src, AsOf(query))
  /\ Searches(query) => pc = "done" /\ rows = [k \in DOMAIN found |-> found[k].id]

\* The inductive invariant: the snapshot is sound, the query is a tree, a search
\* keeps what ChronaTraverseProofs says, and each stage holds what the stages
\* before it computed.
QueryInv ==
  /\ Snapshot(db)
  /\ query = NoQuery \/ IsTree(query)
  /\ stage \in {"start", "rows", "done", "none", "error"}
  /\ Searches(query) /\ Resolvable(db, query) =>
       P!SearchInv /\ P!Nearest /\ job = JobOf(db, query) /\ scan = Here
  /\ stage = "rows" => RowsRead
  /\ stage = "none" => query.shape = "path" /\ Resolvable(db, query) /\ pc = "nopath"
  /\ stage = "done" /\ ~Ranged(query) =>
       RowsRead /\ ~Fails(db, query, rows) /\ answer = AnswerOf(db, query, rows)
  /\ ErrorsAreTheCallers

LEMMA FoundRows ==
  ASSUME Snapshot(db), P!SearchInv, scan = Here, rows = [k \in DOMAIN found |-> found[k].id]
  PROVE  /\ Len(found) \in Nat /\ DOMAIN found = 1..Len(found)
         /\ rows \in Seq(Live(db, AsOf(query))) /\ Len(rows) = Len(found)
         /\ DOMAIN rows = 1..Len(found)
         /\ \A k \in DOMAIN found : /\ found[k] \in P!Edges(Here)
                                    /\ rows[k] = found[k].id
                                    /\ found[k] = EdgeOf(db, rows[k])
<1> DEFINE E == P!Edges(Here)
           live == Live(db, AsOf(query))
           n == Len(found)
<1>1. found \in Seq(E)
  BY DEF P!SearchInv, P!TypeOK
<1>2. E = {EdgeOf(db, i) : i \in live}
  BY ScannerTyped DEF Here
<1>3. \A i : EdgeOf(db, i).id = i
  BY DEF EdgeOf
<1> HIDE DEF E, live
<1>4. n \in Nat /\ DOMAIN found = 1..n /\ \A k \in DOMAIN found : found[k] \in E
  BY <1>1, LenProperties, ElementOfSeq
<1>5. \A e \in E : e.id \in live /\ e = EdgeOf(db, e.id)
  BY <1>2, <1>3
<1>6. rows = [k \in 1..n |-> found[k].id]
  BY <1>4
<1> HIDE DEF n
<1>7. rows = [k \in 1..n |-> rows[k]] /\ \A k \in 1..n : rows[k] \in live
  BY <1>4, <1>5, <1>6
<1>8. rows \in Seq(live) /\ Len(rows) = n
  BY <1>4, <1>7, FunctionSeq
<1> QED
  BY <1>4, <1>5, <1>6, <1>8 DEF E, live, n

LEMMA JobFacts ==
  ASSUME QueryInv, Searches(query), Resolvable(db, query)
  PROVE  /\ job.src = Src /\ job.algo = query.shape
         /\ query.shape = "hops" => job.hops = query.hops /\ query.hops \in Nat
         /\ query.shape = "path" => job.dst = db.extIds[query.to]
<1>1. job = JobOf(db, query) /\ IsTree(query)
  BY DEF QueryInv, NoQuery, Searches
<1> QED
  BY <1>1 DEF JobOf, Src, Searches, IsTree

\* The rows are live edges, and those in the scope of the query.
LEMMA RowsInScope ==
  ASSUME QueryInv, RowsRead
  PROVE  /\ rows \in Seq(Live(db, AsOf(query)))
         /\ query.shape \in {"neighbors", "who", "hops"} => {rows[k] : k \in DOMAIN rows} = Scope
<1> DEFINE live == Live(db, AsOf(query))
           fwd == ScanInOrder(db, db.fwdAdj, Src, AsOf(query))
           rev == ScanInOrder(db, db.revAdj, Src, AsOf(query))
<1>1. Snapshot(db) /\ query.shape \in Shapes /\ ~Ranged(query)
  BY DEF QueryInv, RowsRead, IsTree, Parsed
<1>2. CASE query.shape = "neighbors"
  <2>1. fwd \in Seq(live) /\ {fwd[k] : k \in DOMAIN fwd} = {i \in live : db.edges[i].from = Src}
    BY <1>1, FwdScan
  <2>2. rows = fwd
    BY <1>2 DEF RowsRead
  <2>3. Scope = {i \in live : db.edges[i].from = Src}
    BY <1>2 DEF Scope, Src
  <2> HIDE DEF fwd, live
  <2> QED
    BY <2>1, <2>2, <2>3 DEF live
<1>3. CASE query.shape = "who"
  <2>1. /\ fwd \in Seq(live) /\ Len(fwd) \in Nat /\ DOMAIN fwd = 1..Len(fwd)
        /\ {fwd[k] : k \in DOMAIN fwd} = {i \in live : db.edges[i].from = Src}
    BY <1>1, FwdScan
  <2>2. /\ rev \in Seq(live) /\ Len(rev) \in Nat /\ DOMAIN rev = 1..Len(rev)
        /\ {rev[k] : k \in DOMAIN rev} = {i \in live : db.edges[i].to = Src}
    BY <1>1, RevScan
  <2>3. rows = fwd \o rev
    BY <1>3 DEF RowsRead
  <2>4. Scope = {i \in live : Src \in {db.edges[i].from, db.edges[i].to}}
    BY <1>3 DEF Scope, Src
  <2> HIDE DEF fwd, rev, live
  <2>5. /\ rows \in Seq(live) /\ Len(rows) = Len(fwd) + Len(rev) /\ DOMAIN rows = 1..Len(rows)
        /\ \A k \in 1..Len(rows) :
             rows[k] = IF k <= Len(fwd) THEN fwd[k] ELSE rev[k - Len(fwd)]
    BY <2>1, <2>2, <2>3, ConcatProperties, LenProperties
  <2>6. \A k \in DOMAIN rows : rows[k] \in Scope
    <3> TAKE k \in DOMAIN rows
    <3>1. CASE k <= Len(fwd)
      <4>1. k \in DOMAIN fwd /\ rows[k] = fwd[k]
        BY <2>1, <2>5, <3>1
      <4> QED
        BY <2>1, <2>4, <4>1
    <3>2. CASE ~(k <= Len(fwd))
      <4>1. k - Len(fwd) \in DOMAIN rev /\ rows[k] = rev[k - Len(fwd)]
        BY <2>1, <2>2, <2>5, <3>2
      <4> QED
        BY <2>2, <2>4, <4>1
    <3> QED
      BY <3>1, <3>2
  <2>7. \A i \in Scope : \E k \in DOMAIN rows : rows[k] = i
    <3> TAKE i \in Scope
    <3>1. CASE db.edges[i].from = Src
      <4>1. PICK k \in DOMAIN fwd : fwd[k] = i
        BY <2>1, <2>4, <3>1
      <4>2. k \in DOMAIN rows /\ rows[k] = i
        BY <2>1, <2>2, <2>5, <4>1
      <4> QED
        BY <4>2
    <3>2. CASE db.edges[i].to = Src
      <4>1. PICK k \in DOMAIN rev : rev[k] = i
        BY <2>2, <2>4, <3>2
      <4>2. Len(fwd) + k \in DOMAIN rows /\ rows[Len(fwd) + k] = i
        BY <2>1, <2>2, <2>5, <4>1
      <4> QED
        BY <4>2
    <3> QED
      BY <2>4, <3>1, <3>2
  <2> QED
    BY <1>3, <2>5, <2>6, <2>7 DEF live
<1>4. CASE Searches(query)
  <2>1. /\ P!SearchInv /\ scan = Here /\ pc = "done"
        /\ rows = [k \in DOMAIN found |-> found[k].id]
    BY <1>4 DEF QueryInv, RowsRead
  <2>2. /\ DOMAIN rows = DOMAIN found /\ rows \in Seq(live)
        /\ \A k \in DOMAIN found : /\ rows[k] = found[k].id
                                   /\ found[k] = EdgeOf(db, rows[k])
    BY <1>1, <2>1, FoundRows
  <2>3. CASE query.shape = "hops"
    <3>1. /\ job.algo = "hops" /\ job.src = Src /\ job.hops = query.hops /\ query.hops \in Nat
      BY <1>4, <2>3, JobFacts DEF RowsRead
    <3>2. {found[k] : k \in DOMAIN found}
            = {e \in P!Edges(Here) : query.hops > 0 /\ e.from \in P!Within(Here, Src, query.hops - 1)}
      BY <2>1, <3>1 DEF P!SearchInv, P!HopsExact
    <3>3. P!Edges(Here) = {EdgeOf(db, i) : i \in live}
      BY <1>1, ScannerTyped DEF Here
    <3>4. \A i : EdgeOf(db, i).id = i /\ EdgeOf(db, i).from = db.edges[i].from
      BY DEF EdgeOf
    <3>5. query.hops > 0 => Ball(query.hops - 1) = P!Within(Here, Src, query.hops - 1)
      BY <1>1, <3>1, BallIsWithin
    <3>6. Scope = {i \in live : query.hops > 0 /\ db.edges[i].from \in Ball(query.hops - 1)}
      BY <2>3 DEF Scope
    <3> HIDE DEF live
    <3>7. \A k \in DOMAIN rows : rows[k] \in Scope
      BY <2>2, <3>2, <3>3, <3>4, <3>5, <3>6
    <3>8. ASSUME NEW i \in Scope PROVE \E k \in DOMAIN rows : rows[k] = i
      <4>1. EdgeOf(db, i) \in {found[k] : k \in DOMAIN found}
        BY <3>2, <3>3, <3>4, <3>5, <3>6
      <4> QED
        BY <2>2, <3>4, <4>1
    <3> QED
      BY <2>2, <3>7, <3>8 DEF live
  <2> QED
    BY <1>4, <2>2, <2>3 DEF Searches
<1> QED
  BY <1>1, <1>2, <1>3, <1>4 DEF Shapes, Ranged, Searches

-----------------------------------------------------------------------------
(* The filter *)

LEMMA LeastNumber ==
  ASSUME NEW S, S \subseteq Nat, S # {}
  PROVE  \E x \in S : \A y \in S : x <= y
<1> DEFINE T == {n \in Nat : n \in S => \E x \in S : \A y \in S : x <= y}
           U == {n \in Nat : \A m \in 0..n : m \in T}
<1>1. 0 \in U
  OBVIOUS
<1>2. ASSUME NEW n \in Nat, n \in U PROVE n + 1 \in U
  <2>1. \A m \in 0..n : m \in T
    BY <1>2
  <2>2. n + 1 \in T
    <3> SUFFICES ASSUME n + 1 \in S PROVE \E x \in S : \A y \in S : x <= y
      OBVIOUS
    <3>1. CASE \E m \in 0..n : m \in S
      BY <2>1, <3>1
    <3>2. CASE ~\E m \in 0..n : m \in S
      <4>1. \A y \in S : n + 1 <= y
        BY <3>2
      <4> QED
        BY <4>1
    <3> QED
      BY <3>1, <3>2
  <2> HIDE DEF T
  <2>3. \A m \in 0..(n + 1) : m \in T
    <3> TAKE m \in 0..(n + 1)
    <3>1. m \in 0..n \/ m = n + 1
      OBVIOUS
    <3> QED
      BY <2>1, <2>2, <3>1
  <2> QED
    BY <2>3
<1> HIDE DEF U
<1>3. Nat \subseteq U
  BY <1>1, <1>2, NatSet
<1>4. \A n \in U : n \in T
  BY DEF U
<1> QED
  BY <1>3, <1>4

\* A row on which matches does not fail passes exactly if every term holds.
LEMMA MatchesHolds ==
  ASSUME NEW filter, NEW n \in Nat, DOMAIN filter = 1..n, NEW v, ~FilterFails(filter, v)
  PROVE  Matches(filter, v) <=> \A k \in DOMAIN filter : Holds(filter[k], v)
<1>1. Matches(filter, v) => \A k \in DOMAIN filter : Holds(filter[k], v)
  BY DEF Matches
<1>2. ASSUME \A k \in DOMAIN filter : Holds(filter[k], v)
      PROVE  Matches(filter, v)
  <2> DEFINE Bad == {k \in DOMAIN filter : Malformed(filter[k])}
  <2>1. Bad = {}
    <3> SUFFICES ASSUME Bad # {} PROVE FALSE
      OBVIOUS
    <3>1. Bad \subseteq Nat
      OBVIOUS
    <3> HIDE DEF Bad
    <3>2. PICK k \in Bad : \A j \in Bad : k <= j
      BY <3>1, LeastNumber
    <3>3. k \in 1..n /\ Malformed(filter[k])
      BY DEF Bad
    <3>4. ASSUME NEW j \in 1..(k - 1)
          PROVE  ~Malformed(filter[j]) /\ Holds(filter[j], v)
      <4>1. j \in 1..n /\ ~(k <= j)
        BY <3>3
      <4> QED
        BY <1>2, <3>2, <4>1 DEF Bad
    <3>5. k \in Reached(filter, v)
      BY <3>3, <3>4 DEF Reached
    <3> QED
      BY <3>3, <3>5 DEF FilterFails
  <2>2. \A k \in DOMAIN filter : ~Malformed(filter[k])
    BY <2>1
  <2>3. \A k \in 1..n : \A j \in 1..(k - 1) : j \in 1..n
    OBVIOUS
  <2>4. \A k \in DOMAIN filter : k \in Reached(filter, v)
    BY <1>2, <2>2, <2>3 DEF Reached
  <2> QED
    BY <1>2, <2>2, <2>4 DEF Matches
<1> QED
  BY <1>1, <1>2

-----------------------------------------------------------------------------
(* The limit *)

\* x is s, or its first elements up to the limit.
CutAt(x, s, limit) ==
  /\ Len(x) \in Nat /\ DOMAIN x = 1..Len(x)
  /\ \A k \in DOMAIN x : k \in DOMAIN s /\ x[k] = s[k]
  /\ limit = NoLimit => x = s
  /\ limit # NoLimit => Len(x) <= limit /\ (Len(x) < limit => x = s)

LEMMA LimitedPrefix ==
  ASSUME NEW S, NEW s \in Seq(S), NEW limit \in Nat \cup {NoLimit}
  PROVE  CutAt(Limited(s, limit), s, limit)
<1> DEFINE a == Limited(s, limit)
<1>1. Len(s) \in Nat /\ DOMAIN s = 1..Len(s)
  BY LenProperties
<1>2. CASE limit = NoLimit \/ limit >= Len(s)
  <2>1. a = s
    BY <1>2 DEF Limited
  <2>2. limit # NoLimit => limit \in Nat /\ limit >= Len(s)
    BY <1>2
  <2>3. CutAt(s, s, limit)
    BY <1>1, <2>2 DEF CutAt
  <2> HIDE DEF a
  <2> QED
    BY <2>1, <2>3 DEF a
<1>3. CASE ~(limit = NoLimit \/ limit >= Len(s))
  <2>1. a = SubSeq(s, 1, limit) /\ limit \in Nat /\ limit < Len(s) /\ limit # NoLimit
    BY <1>1, <1>3 DEF Limited
  <2>2. \A i \in 1..limit : s[i] \in S
    BY <1>1, <2>1, ElementOfSeq
  <2>3. /\ a \in Seq(S)
        /\ Len(a) = IF 1 <= limit THEN limit - 1 + 1 ELSE 0
        /\ \A i \in 1..(limit - 1 + 1) : a[i] = s[1 + i - 1]
    BY <2>1, <2>2, SubSeqProperties
  <2> HIDE DEF a
  <2>4. Len(a) = limit /\ DOMAIN a = 1..limit /\ \A i \in 1..limit : a[i] = s[i]
    BY <2>1, <2>3, LenProperties
  <2>5. CutAt(a, s, limit)
    <3>1. \A k \in DOMAIN a : k \in DOMAIN s /\ a[k] = s[k]
      BY <1>1, <2>1, <2>4
    <3>2. Len(a) \in Nat /\ DOMAIN a = 1..Len(a) /\ Len(a) <= limit /\ ~(Len(a) < limit)
      BY <2>1, <2>4
    <3> QED
      BY <2>1, <3>1, <3>2 DEF CutAt
  <2> QED
    BY <2>5 DEF a
<1> QED
  BY <1>2, <1>3

-----------------------------------------------------------------------------
(* The answer *)

\* What the answer to a query that reads rows is made of.
LEMMA AnswerFacts ==
  ASSUME QueryInv, stage = "done", ~Ranged(query)
  PROVE  LET kept == Filtered(db, query.filter, rows)
             live == Live(db, AsOf(query))
         IN /\ RowsRead /\ Snapshot(db) /\ IsTree(query)
            /\ rows \in Seq(live) /\ Len(rows) \in Nat /\ DOMAIN rows = 1..Len(rows)
            /\ \A k \in DOMAIN rows :
                 Passes(db, query.filter, rows, k)
                   <=> \A j \in DOMAIN query.filter :
                         Holds(query.filter[j], Columns(db, rows[k]))
            /\ kept \in Seq(live) /\ Len(kept) \in Nat /\ DOMAIN kept = 1..Len(kept)
            /\ Keeping(kept, db, query.filter, rows, Len(rows))
            /\ CutAt(answer, kept, query.limit)
<1> DEFINE kept == Filtered(db, query.filter, rows)
           live == Live(db, AsOf(query))
<1>1. RowsRead /\ Snapshot(db) /\ IsTree(query) /\ ~Fails(db, query, rows)
      /\ answer = AnswerOf(db, query, rows)
  BY DEF QueryInv, RowsRead, Parsed
<1>2. rows \in Seq(live)
  BY <1>1, RowsInScope
<1>3. PICK n \in Nat : DOMAIN query.filter = 1..n
  BY <1>1 DEF IsTree
<1>4. ASSUME NEW k \in DOMAIN rows
      PROVE  Passes(db, query.filter, rows, k)
               <=> \A j \in DOMAIN query.filter : Holds(query.filter[j], Columns(db, rows[k]))
  <2>1. ~FilterFails(query.filter, Columns(db, rows[k]))
    BY <1>1 DEF Fails
  <2> QED
    BY <1>3, <2>1, MatchesHolds DEF Passes
<1>5. query.limit \in Nat \cup {NoLimit}
  BY <1>1 DEF IsTree
<1>6. answer = Limited(kept, query.limit)
  BY <1>1 DEF AnswerOf
<1> HIDE DEF live
<1>7. kept \in Seq(live) /\ Keeping(kept, db, query.filter, rows, Len(rows))
  BY <1>2, FilteredKeeps
<1> HIDE DEF kept
<1>8. CutAt(answer, kept, query.limit) /\ Len(kept) \in Nat /\ DOMAIN kept = 1..Len(kept)
  BY <1>5, <1>6, <1>7, LimitedPrefix, LenProperties
<1>9. Len(rows) \in Nat /\ DOMAIN rows = 1..Len(rows)
  BY <1>2, LenProperties
<1> QED
  BY <1>1, <1>2, <1>4, <1>5, <1>7, <1>8, <1>9 DEF live, kept

LEMMA ListsFollow == QueryInv => ListsExact
<1> SUFFICES ASSUME QueryInv, Answered({"neighbors", "who", "hops"})
             PROVE  LET wanted == {i \in Scope : \A k \in DOMAIN query.filter :
                                     Holds(query.filter[k], Columns(db, i))}
                    IN /\ Listed \subseteq wanted
                       /\ query.limit = NoLimit \/ Len(answer) < query.limit => Listed = wanted
                       /\ query.limit # NoLimit => Len(answer) <= query.limit
  BY DEF ListsExact
<1> DEFINE wanted == {i \in Scope : \A k \in DOMAIN query.filter :
                                      Holds(query.filter[k], Columns(db, i))}
           kept == Filtered(db, query.filter, rows)
<1>1. stage = "done" /\ ~Ranged(query) /\ query.shape \in {"neighbors", "who", "hops"}
  BY DEF Answered, Ranged
<1>2. /\ RowsRead /\ DOMAIN rows = 1..Len(rows)
      /\ \A k \in DOMAIN rows :
           Passes(db, query.filter, rows, k)
             <=> \A j \in DOMAIN query.filter : Holds(query.filter[j], Columns(db, rows[k]))
      /\ Keeping(kept, db, query.filter, rows, Len(rows))
      /\ CutAt(answer, kept, query.limit)
  BY <1>1, AnswerFacts
<1>3. {rows[k] : k \in DOMAIN rows} = Scope
  BY <1>1, <1>2, RowsInScope
<1> HIDE DEF kept
<1>4. ASSUME NEW j \in DOMAIN kept PROVE kept[j] \in wanted
  <2>1. PICK k \in DOMAIN rows : kept[j] = rows[k] /\ Passes(db, query.filter, rows, k)
    BY <1>2 DEF Keeping
  <2>2. \A m \in DOMAIN query.filter : Holds(query.filter[m], Columns(db, kept[j]))
    BY <1>2, <2>1
  <2>3. kept[j] \in Scope
    BY <1>3, <2>1
  <2> QED
    BY <2>2, <2>3
<1>5. ASSUME NEW i \in wanted PROVE \E j \in DOMAIN kept : kept[j] = i
  <2>1. PICK k \in DOMAIN rows : rows[k] = i
    BY <1>3
  <2>2. Passes(db, query.filter, rows, k)
    BY <1>2, <2>1
  <2> QED
    BY <1>2, <2>1, <2>2 DEF Keeping
<1> HIDE DEF wanted
<1>6. Listed \subseteq wanted
  BY <1>2, <1>4 DEF Listed, CutAt
<1>7. answer = kept => Listed = wanted
  BY <1>4, <1>5 DEF Listed
<1> QED
  BY <1>2, <1>6, <1>7 DEF wanted, CutAt

LEMMA HopsFollow == QueryInv => HopsNearestFirst
<1> SUFFICES ASSUME QueryInv, Answered({"hops"}),
                    NEW i \in DOMAIN answer, NEW j \in DOMAIN answer, NEW k \in 0..query.hops,
                    i < j, db.edges[answer[j]].from \in Ball(k)
             PROVE  db.edges[answer[i]].from \in Ball(k)
  BY DEF HopsNearestFirst
<1> DEFINE kept == Filtered(db, query.filter, rows)
<1>1. stage = "done" /\ ~Ranged(query) /\ query.shape = "hops" /\ Searches(query)
  BY DEF Answered, Ranged, Searches
<1>2. /\ RowsRead /\ Snapshot(db) /\ DOMAIN rows = 1..Len(rows)
      /\ Keeping(kept, db, query.filter, rows, Len(rows))
      /\ CutAt(answer, kept, query.limit)
  BY <1>1, AnswerFacts
<1> HIDE DEF kept
<1>3. PICK m \in DOMAIN rows, n \in DOMAIN rows :
        m < n /\ answer[i] = rows[m] /\ answer[j] = rows[n]
  <2>1. /\ i \in DOMAIN kept /\ answer[i] = kept[i]
        /\ j \in DOMAIN kept /\ answer[j] = kept[j]
    BY <1>2 DEF CutAt
  <2> QED
    BY <1>2, <2>1 DEF Keeping
<1>4. /\ P!SearchInv /\ P!Nearest /\ scan = Here /\ Resolvable(db, query)
      /\ rows = [x \in DOMAIN found |-> found[x].id]
  BY <1>1, <1>2 DEF QueryInv, RowsRead
<1>5. job.src = Src /\ job.algo = "hops" /\ query.hops \in Nat
  BY <1>1, <1>4, JobFacts
<1>6. /\ m \in DOMAIN found /\ n \in DOMAIN found
      /\ found[m] = EdgeOf(db, rows[m]) /\ found[n] = EdgeOf(db, rows[n])
  BY <1>2, <1>3, <1>4, FoundRows
<1>7. found[m].from = db.edges[answer[i]].from /\ found[n].from = db.edges[answer[j]].from
  BY <1>3, <1>6 DEF EdgeOf
<1>8. k \in Nat /\ Ball(k) = P!Ball(k)
  BY <1>2, <1>4, <1>5, BallIsWithin DEF P!Ball
<1>9. found[n].from \in P!Ball(k) => found[m].from \in P!Ball(k)
  BY <1>3, <1>4, <1>5, <1>6, <1>8 DEF P!Nearest, P!Hops
<1> QED
  BY <1>7, <1>8, <1>9

LEMMA SizeIsSize == P!Cardinality(NodeIds) = Cardinality(NodeIds)
  BY DEF P!Cardinality, Cardinality

LEMMA PathsFollow == QueryInv => PathsExact
<1> SUFFICES ASSUME QueryInv PROVE PathsExact
  OBVIOUS
<1>1. ASSUME Answered({"path"}), query.filter = <<>>, query.limit = NoLimit
      PROVE  /\ Listed \subseteq Live(db, AsOf(query))
             /\ \A k \in 1..(Len(answer) - 1) :
                  db.edges[answer[k]].to = db.edges[answer[k + 1]].from
             /\ IF answer = <<>> THEN query.node = query.to
                ELSE /\ ViewEdge(db, answer[1]).from = query.node
                     /\ ViewEdge(db, answer[Len(answer)]).to = query.to
                     /\ db.extIds[query.to] \notin Ball(Len(answer) - 1)
  <2> DEFINE kept == Filtered(db, query.filter, rows)
             live == Live(db, AsOf(query))
  <2>1. stage = "done" /\ ~Ranged(query) /\ query.shape = "path" /\ Searches(query)
    BY <1>1 DEF Answered, Ranged, Searches
  <2>2. /\ RowsRead /\ Snapshot(db) /\ DOMAIN rows = 1..Len(rows)
        /\ \A k \in DOMAIN rows :
             Passes(db, query.filter, rows, k)
               <=> \A j \in DOMAIN query.filter : Holds(query.filter[j], Columns(db, rows[k]))
        /\ kept \in Seq(live) /\ DOMAIN kept = 1..Len(kept)
        /\ Keeping(kept, db, query.filter, rows, Len(rows))
        /\ CutAt(answer, kept, query.limit)
    BY <2>1, AnswerFacts
  <2>3. /\ P!SearchInv /\ scan = Here /\ Resolvable(db, query) /\ pc = "done"
        /\ rows = [x \in DOMAIN found |-> found[x].id]
    BY <2>1, <2>2 DEF QueryInv, RowsRead
  <2>4. job.src = Src /\ job.algo = "path" /\ job.dst = db.extIds[query.to]
    BY <2>1, <2>3, JobFacts
  <2>5. /\ Len(found) \in Nat /\ DOMAIN found = 1..Len(found)
        /\ Len(rows) = Len(found)
        /\ \A k \in DOMAIN found : found[k] = EdgeOf(db, rows[k])
    BY <2>2, <2>3, FoundRows
  <2>6. answer = kept /\ Len(kept) = Len(rows) /\ \A k \in 1..Len(rows) : kept[k] = rows[k]
    <3>1. DOMAIN query.filter = {}
      BY <1>1
    <3>2. \A k \in 1..Len(rows) : Passes(db, query.filter, rows, k)
      BY <2>2, <3>1
    <3> HIDE DEF kept
    <3>3. answer = kept
      BY <1>1, <2>2 DEF CutAt
    <3> QED
      BY <2>2, <3>2, <3>3 DEF Keeping
  <2> HIDE DEF kept, live
  <2>7. /\ Len(answer) = Len(found) /\ DOMAIN answer = 1..Len(found) /\ answer \in Seq(live)
        /\ \A k \in 1..Len(found) : /\ found[k].from = db.edges[answer[k]].from
                                    /\ found[k].to = db.edges[answer[k]].to
    BY <2>2, <2>5, <2>6 DEF EdgeOf
  <2>8. Listed \subseteq live
    BY <2>7, ElementOfSeq DEF Listed
  <2>9. /\ \A i \in 1..(Len(found) - 1) : found[i].to = found[i + 1].from
        /\ IF found = <<>> THEN Src = job.dst
           ELSE /\ found[1].from = Src
                /\ found[Len(found)].to = job.dst
                /\ job.dst \notin P!Within(Here, Src, Len(found) - 1)
    BY <2>3, <2>4 DEF P!SearchInv, P!PathShortest
  <2>10. ASSUME NEW k \in 1..(Len(answer) - 1)
         PROVE  db.edges[answer[k]].to = db.edges[answer[k + 1]].from
    <3>1. k \in 1..Len(found) /\ k + 1 \in 1..Len(found) /\ k \in 1..(Len(found) - 1)
      BY <2>5, <2>7
    <3> QED
      BY <2>7, <2>9, <3>1
  <2>11. /\ query.node \in DOMAIN db.extIds /\ query.to \in DOMAIN db.extIds
         /\ db.nodes[Src].ext = query.node /\ db.nodes[job.dst].ext = query.to
    <3>1. query.node \in DOMAIN db.extIds /\ query.to \in DOMAIN db.extIds
      BY <2>1, <2>3 DEF Resolvable, Named, Ranged
    <3> QED
      BY <2>2, <2>4, <3>1, NamesResolve DEF Src
  <2>12. CASE answer = <<>>
    <3>1. Len(found) = 0
      BY <2>7, <2>12
    <3>2. found = <<>>
      <4>1. found \in Seq(P!Edges(scan))
        BY <2>3 DEF P!SearchInv, P!TypeOK
      <4> QED
        BY <3>1, <4>1, EmptySeq
    <3> QED
      BY <2>8, <2>9, <2>10, <2>11, <2>12, <3>2 DEF live
  <2>13. CASE answer # <<>>
    <3>1. Len(found) \in Nat \ {0} /\ found # <<>>
      <4>1. Len(answer) \in Nat \ {0}
        BY <2>7, <2>13, EmptySeq
      <4>2. found = <<>> => Len(found) = 0
        OBVIOUS
      <4> QED
        BY <2>7, <4>1, <4>2
    <3>2. 1 \in 1..Len(found) /\ Len(found) \in 1..Len(found) /\ Len(found) - 1 \in Nat
      BY <3>1
    <3>3. db.edges[answer[1]].from = Src /\ db.edges[answer[Len(answer)]].to = job.dst
      BY <2>7, <2>9, <3>1, <3>2
    <3>4. ViewEdge(db, answer[1]).from = query.node
          /\ ViewEdge(db, answer[Len(answer)]).to = query.to
      BY <2>11, <3>3 DEF ViewEdge
    <3>5. db.extIds[query.to] \notin Ball(Len(answer) - 1)
      BY <2>2, <2>4, <2>7, <2>9, <3>1, <3>2, BallIsWithin
    <3> QED
      BY <2>8, <2>10, <2>13, <3>4, <3>5 DEF live
  <2> QED
    BY <2>12, <2>13
<1>2. ASSUME stage = "none"
      PROVE  db.extIds[query.to] \notin Ball(Cardinality(NodeIds))
  <2>1. /\ query.shape = "path" /\ Resolvable(db, query) /\ pc = "nopath" /\ Snapshot(db)
        /\ Searches(query)
    BY <1>2 DEF QueryInv, Searches
  <2>2. /\ P!SearchInv /\ scan = Here
        /\ job.src = Src /\ job.algo = "path" /\ job.dst = db.extIds[query.to]
    BY <2>1, JobFacts DEF QueryInv
  <2>3. job.dst \notin P!Within(Here, Src, P!Cardinality(NodeIds))
    BY <2>1, <2>2 DEF P!SearchInv, P!PathShortest
  <2>4. Cardinality(NodeIds) \in Nat
    BY SuiteAssumption, FS_CardinalityType
  <2> QED
    BY <2>1, <2>2, <2>3, <2>4, SizeIsSize, BallIsWithin
<1> QED
  BY <1>1, <1>2 DEF PathsExact

-----------------------------------------------------------------------------
(* The steps of an execution *)

LEMMA InitQuery == Init => QueryInv
<1> SUFFICES ASSUME Init PROVE QueryInv
  OBVIOUS
<1>1. PICK s \in Suites : /\ db \in s.databases
                          /\ \E x \in s.texts : text = x.text /\ asked = x.asked
  BY DEF Init
<1>2. PICK x \in s.texts : text = x.text
  BY <1>1
<1>3. Snapshot(db)
  BY <1>1, SuiteAssumption DEF Snapshot, Good
<1>4. IsText(text)
  BY <1>2, SuiteAssumption DEF IsText
<1>5. query = NoQuery \/ IsTree(query)
  BY <1>4, ParseTyped DEF Init
<1>6. ASSUME Searches(query), Resolvable(db, query)
      PROVE  P!SearchInv /\ P!Nearest /\ job = JobOf(db, query) /\ scan = Here
  <2>1. Search!Start(JobOf(db, query), Here)
    BY <1>6 DEF Init, Here
  <2>2. IsTree(query)
    BY <1>5, <1>6 DEF Resolvable
  <2>3. JobOf(db, query) \in AllJobs /\ Here \in AllScans
    BY <1>3, <1>6, <2>2, JobTyped, ScannerTyped DEF Here
  <2>4. job = JobOf(db, query) /\ scan = Here
    BY <2>1 DEF Search!Start
  <2> QED
    BY <2>1, <2>3, <2>4, SearchInvStart
<1>7. stage = "start"
  BY DEF Init
<1> QED
  BY <1>3, <1>5, <1>6, <1>7 DEF QueryInv, ErrorsAreTheCallers

\* What no step changes.
LEMMA SameQuery ==
  ASSUME QueryInv, UNCHANGED <<db, query>>, Search!Next \/ UNCHANGED searchVars
  PROVE  /\ Snapshot(db)'
         /\ (query = NoQuery \/ IsTree(query))'
         /\ (Searches(query) /\ Resolvable(db, query) =>
               P!SearchInv /\ P!Nearest /\ job = JobOf(db, query) /\ scan = Here)'
         /\ Resolvable(db, query)' = Resolvable(db, query)
         /\ Searches(query)' = Searches(query) /\ Ranged(query)' = Ranged(query)
         /\ Parsed' = Parsed /\ Here' = Here /\ Src' = Src /\ AsOf(query)' = AsOf(query)
<1>1. Snapshot(db)' /\ (query = NoQuery \/ IsTree(query))'
  BY DEF QueryInv
<1>2. /\ Resolvable(db, query)' = Resolvable(db, query)
      /\ Searches(query)' = Searches(query) /\ Ranged(query)' = Ranged(query)
      /\ Parsed' = Parsed /\ Here' = Here /\ Src' = Src /\ AsOf(query)' = AsOf(query)
      /\ JobOf(db, query)' = JobOf(db, query)
  BY DEF Parsed, Here, Src
<1>3. ASSUME Searches(query), Resolvable(db, query)
      PROVE  P!SearchInv' /\ P!Nearest' /\ job' = JobOf(db, query) /\ scan' = Here
  <2>1. P!SearchInv /\ P!Nearest /\ job = JobOf(db, query) /\ scan = Here
    BY <1>3 DEF QueryInv
  <2>2. P!SearchInv' /\ P!Nearest'
    BY <2>1, SearchInvKept
  <2>3. UNCHANGED <<job, scan>>
    BY DEF searchVars, Search!Next, Search!HopsExpand, Search!HopsEdge, Search!HopsDone,
           Search!PathExpand, Search!PathEdge, Search!PathNone, Search!PathBack
  <2> QED
    BY <2>1, <2>2, <2>3
<1> QED
  BY <1>1, <1>2, <1>3

LEMMA RefuseQuery ==
  ASSUME QueryInv, Refuse
  PROVE  QueryInv'
<1>1. /\ UNCHANGED <<db, query, searchVars>> /\ stage' = "error" /\ ~Resolvable(db, query)
  BY DEF Refuse
<1>2. ErrorsAreTheCallers'
  BY <1>1, SameQuery DEF ErrorsAreTheCallers
<1> QED
  BY <1>1, <1>2, SameQuery DEF QueryInv

LEMMA ReadNeighborsQuery ==
  ASSUME QueryInv, ReadNeighbors
  PROVE  QueryInv'
<1>1. /\ UNCHANGED <<db, query, searchVars>> /\ stage' = "rows"
      /\ query.shape = "neighbors" /\ Resolvable(db, query)
      /\ rows' = ScanInOrder(db, db.fwdAdj, Src, AsOf(query))
  BY DEF ReadNeighbors, Src
<1>2. RowsRead'
  BY <1>1, SameQuery DEF RowsRead, Resolvable, Parsed, Ranged, Searches
<1>3. ErrorsAreTheCallers'
  BY <1>1 DEF ErrorsAreTheCallers
<1> QED
  BY <1>1, <1>2, <1>3, SameQuery DEF QueryInv

LEMMA ReadConnectedQuery ==
  ASSUME QueryInv, ReadConnected
  PROVE  QueryInv'
<1>1. /\ UNCHANGED <<db, query, searchVars>> /\ stage' = "rows"
      /\ query.shape = "who" /\ Resolvable(db, query)
      /\ rows' = ScanInOrder(db, db.fwdAdj, Src, AsOf(query))
                   \o ScanInOrder(db, db.revAdj, Src, AsOf(query))
  BY DEF ReadConnected, Src
<1>2. RowsRead'
  BY <1>1, SameQuery DEF RowsRead, Resolvable, Parsed, Ranged, Searches
<1>3. ErrorsAreTheCallers'
  BY <1>1 DEF ErrorsAreTheCallers
<1> QED
  BY <1>1, <1>2, <1>3, SameQuery DEF QueryInv

LEMMA SearchStepQuery ==
  ASSUME QueryInv, SearchStep
  PROVE  QueryInv'
<1>1. UNCHANGED <<db, query>> /\ stage = "start" /\ stage' = "start" /\ Search!Next
  BY DEF SearchStep
<1>2. ErrorsAreTheCallers'
  BY <1>1 DEF ErrorsAreTheCallers
<1> QED
  BY <1>1, <1>2, SameQuery DEF QueryInv

LEMMA EndSearchQuery ==
  ASSUME QueryInv, EndSearch
  PROVE  QueryInv'
<1>1. /\ UNCHANGED <<db, query, searchVars>> /\ UNCHANGED <<pc, found>>
      /\ Searches(query) /\ Resolvable(db, query)
  BY DEF EndSearch, searchVars
<1>2. P!SearchInv /\ job.algo = query.shape
  BY <1>1, JobFacts DEF QueryInv
<1>3. CASE pc = "nopath"
  <2>1. query.shape = "path"
    BY <1>1, <1>2, <1>3 DEF P!SearchInv, P!Hops, Searches
  <2>2. stage' = "none" /\ pc' = "nopath"
    BY <1>1, <1>3 DEF EndSearch
  <2>3. ErrorsAreTheCallers'
    BY <2>2 DEF ErrorsAreTheCallers
  <2> QED
    BY <1>1, <2>1, <2>2, <2>3, SameQuery DEF QueryInv
<1>4. CASE pc = "done"
  <2>1. /\ stage' = "rows" /\ pc' = "done"
        /\ rows' = [k \in DOMAIN found' |-> found'[k].id]
    BY <1>1, <1>4 DEF EndSearch
  <2>2. RowsRead'
    BY <1>1, <2>1, SameQuery DEF RowsRead, Resolvable, Parsed, Ranged, Searches
  <2>3. ErrorsAreTheCallers'
    BY <2>1 DEF ErrorsAreTheCallers
  <2> QED
    BY <1>1, <2>1, <2>2, <2>3, SameQuery DEF QueryInv
<1> QED
  BY <1>3, <1>4 DEF EndSearch

LEMMA ReadDiffQuery ==
  ASSUME QueryInv, ReadDiff
  PROVE  QueryInv'
<1>1. UNCHANGED <<db, query, searchVars>> /\ stage' = "done" /\ Ranged(query)
  BY DEF ReadDiff
<1>2. ErrorsAreTheCallers'
  BY <1>1 DEF ErrorsAreTheCallers
<1> QED
  BY <1>1, <1>2, SameQuery DEF QueryInv

LEMMA DeliverQuery ==
  ASSUME QueryInv, Deliver
  PROVE  QueryInv'
<1>1. UNCHANGED <<db, query, searchVars, rows>> /\ UNCHANGED <<pc, found>> /\ stage = "rows"
  BY DEF Deliver, searchVars
<1>2. RowsRead /\ Snapshot(db)
  BY <1>1 DEF QueryInv
<1>3. RowsRead'
  BY <1>1, <1>2, SameQuery DEF RowsRead
<1>4. CASE Fails(db, query, rows)
  <2>1. stage' = "error"
    BY <1>4 DEF Deliver
  <2>2. PICK k \in DOMAIN rows : \/ Dangling(db, rows[k])
                                 \/ FilterFails(query.filter, Columns(db, rows[k]))
    BY <1>4 DEF Fails
  <2>3. rows[k] \in DOMAIN db.edges
    <3>1. rows \in Seq(Live(db, AsOf(query)))
      BY <1>2, RowsInScope
    <3>2. rows[k] \in Live(db, AsOf(query))
      BY <3>1, LenProperties, ElementOfSeq
    <3> QED
      BY <3>2 DEF Live
  <2>4. ~Dangling(db, rows[k])
    BY <1>2, <2>3, EdgeEnds
  <2>5. \E j \in DOMAIN query.filter : Malformed(query.filter[j])
    BY <2>2, <2>4 DEF FilterFails, Reached
  <2>6. ErrorsAreTheCallers'
    BY <1>1, <2>5 DEF ErrorsAreTheCallers
  <2> QED
    BY <1>1, <2>1, <2>6, SameQuery DEF QueryInv
<1>5. CASE ~Fails(db, query, rows)
  <2>1. stage' = "done" /\ answer' = AnswerOf(db, query, rows)
    BY <1>5 DEF Deliver
  <2>2. ErrorsAreTheCallers'
    BY <2>1 DEF ErrorsAreTheCallers
  <2>3. ~Fails(db, query, rows)' /\ (answer = AnswerOf(db, query, rows))'
    BY <1>1, <1>5, <2>1
  <2> QED
    BY <1>1, <1>3, <2>1, <2>2, <2>3, SameQuery DEF QueryInv
<1> QED
  BY <1>4, <1>5

LEMMA QueryStep == QueryInv /\ [Next]_vars => QueryInv'
<1> SUFFICES ASSUME QueryInv, [Next]_vars PROVE QueryInv'
  OBVIOUS
<1>1. CASE Refuse
  BY <1>1, RefuseQuery
<1>2. CASE ReadNeighbors
  BY <1>2, ReadNeighborsQuery
<1>3. CASE ReadConnected
  BY <1>3, ReadConnectedQuery
<1>4. CASE SearchStep
  BY <1>4, SearchStepQuery
<1>5. CASE EndSearch
  BY <1>5, EndSearchQuery
<1>6. CASE ReadDiff
  BY <1>6, ReadDiffQuery
<1>7. CASE Deliver
  BY <1>7, DeliverQuery
<1>8. CASE UNCHANGED vars
  <2>1. UNCHANGED <<db, query, searchVars>> /\ UNCHANGED <<pc, found, stage, rows, answer>>
    BY <1>8 DEF vars, searchVars
  <2>2. RowsRead' = RowsRead
    BY <2>1, SameQuery DEF RowsRead
  <2>3. ErrorsAreTheCallers'
    BY <2>1 DEF ErrorsAreTheCallers, QueryInv
  <2>4. /\ Fails(db, query, rows)' = Fails(db, query, rows)
        /\ AnswerOf(db, query, rows)' = AnswerOf(db, query, rows)
    BY <2>1
  <2> QED
    BY <2>1, <2>2, <2>3, <2>4, SameQuery DEF QueryInv
<1> QED
  BY <1>1, <1>2, <1>3, <1>4, <1>5, <1>6, <1>7, <1>8 DEF Next

-----------------------------------------------------------------------------
(* The theorems *)

\* What was read, the search in hand and the answer belong to the query and the
\* snapshot from the first step to the last.
LEMMA QueryInvariant == Spec => []QueryInv
  BY InitQuery, QueryStep, PTL DEF Spec

\* A query whose text is well formed and whose names and times resolve never
\* fails inside the snapshot: view_edge finds what every stored id stands for.
THEOREM QueryErrors == Spec => []ErrorsAreTheCallers
<1>1. QueryInv => ErrorsAreTheCallers
  BY DEF QueryInv
<1> QED
  BY <1>1, QueryInvariant, PTL

\* FIND NEIGHBORS, WHO WAS CONNECTED TO and FIND n HOPS answer with exactly the
\* live edges in their scope that pass the filter, in any snapshot and for any
\* accepted text, up to the limit.
THEOREM ListsCorrect == Spec => []ListsExact
  BY ListsFollow, QueryInvariant, PTL

\* FIND n HOPS lists nearer edges first, the filter and the limit included.
THEOREM HopsOrdered == Spec => []HopsNearestFirst
  BY HopsFollow, QueryInvariant, PTL

\* SHOW PATH answers with a shortest live path between the two names, and None
\* only when there is none.
THEOREM ShowPathCorrect == Spec => []PathsExact
  BY PathsFollow, QueryInvariant, PTL

\* Every text is ordinary.
OrdinaryTexts == \A s \in Suites : \A x \in s.texts : IsOrdinary(x.text)

\* A tree that was accepted says, piece by piece, what the text says, however long
\* the text is: no clause is dropped, no number wrapped, no term given to another
\* field.
THEOREM ParseFaithful ==
  ASSUME OrdinaryTexts
  PROVE  Spec => []ParsedAsWritten
<1> DEFINE Faithful == Parsed => Plain(text) = Written(query)
<1>1. Init => Faithful
  <2> SUFFICES ASSUME Init, Parsed PROVE Plain(text) = Written(query)
    OBVIOUS
  <2>1. PICK s \in Suites : \E x \in s.texts : text = x.text
    BY DEF Init
  <2>2. PICK x \in s.texts : text = x.text
    BY <2>1
  <2>3. IsText(text) /\ IsOrdinary(text)
    BY <2>2, SuiteAssumption DEF IsText, OrdinaryTexts
  <2>4. query = Parse(text) /\ query # NoQuery
    BY DEF Init, Parsed
  <2> QED
    BY <2>3, <2>4, TextRead
<1>2. Faithful /\ [Next]_vars => Faithful'
  <2> SUFFICES ASSUME Faithful, [Next]_vars PROVE Faithful'
    OBVIOUS
  <2>1. UNCHANGED <<text, query>>
    BY DEF Next, Refuse, ReadNeighbors, ReadConnected, SearchStep, EndSearch, ReadDiff,
           Deliver, vars
  <2> QED
    BY <2>1 DEF Parsed
<1>3. Faithful => ParsedAsWritten
  BY DEF ParsedAsWritten
<1> HIDE DEF Faithful
<1> QED
  BY <1>1, <1>2, <1>3, PTL DEF Spec

\* Every query that is asked for is one the grammar writes, and its text is the
\* query as written, but for white space and the case of its keywords.
WrittenTexts ==
  \A s \in Suites : \A x \in s.texts :
    x.asked # NoQuery =>
      /\ IsQuestion(x.asked) /\ IsOrdinary(x.text) /\ IsTight(x.text)
      /\ Plain(x.text) = Written(x.asked)

\* The other direction: a query written by the documented grammar, of any length,
\* in any case of its keywords and with white space anywhere but inside an
\* operator, is accepted and read as the tree it was written from.
THEOREM GrammarAccepted ==
  ASSUME WrittenTexts, WidthsGrow, CapitalKeywords
  PROVE  Spec => []WrittenIsParsed
<1>1. Init => WrittenIsParsed
  <2> SUFFICES ASSUME Init, asked # NoQuery PROVE query = asked
    BY DEF WrittenIsParsed
  <2>1. PICK s \in Suites : \E x \in s.texts : text = x.text /\ asked = x.asked
    BY DEF Init
  <2>2. PICK x \in s.texts : text = x.text /\ asked = x.asked
    BY <2>1
  <2>3. IsText(text)
    BY <2>2, SuiteAssumption DEF IsText
  <2>4. /\ IsQuestion(asked) /\ IsOrdinary(text) /\ IsTight(text)
        /\ Plain(text) = Written(asked)
    BY <2>2 DEF WrittenTexts
  <2>5. query = Parse(text)
    BY DEF Init
  <2> QED
    BY <2>3, <2>4, <2>5, TextKept
<1>2. WrittenIsParsed /\ [Next]_vars => WrittenIsParsed'
  <2> SUFFICES ASSUME WrittenIsParsed, [Next]_vars PROVE WrittenIsParsed'
    OBVIOUS
  <2>1. UNCHANGED <<asked, query>>
    BY DEF Next, Refuse, ReadNeighbors, ReadConnected, SearchStep, EndSearch, ReadDiff,
           Deliver, vars
  <2> QED
    BY <2>1 DEF WrittenIsParsed
<1> QED
  BY <1>1, <1>2, PTL DEF Spec

=============================================================================
