----------------------------- MODULE ChronaImport -----------------------------
(***************************************************************************)
(* What `chrona import` (main.rs) makes of a line of a CSV or JSONL file.  *)
(*                                                                         *)
(* A line is what its text gives for each column: a function from some of  *)
(* the columns to cells.  A CSV line has the first columns, a JSON object  *)
(* any; a line that is neither has none.  A cell is a string, an instant,  *)
(* the answer to whether the confidence lies in [0,1], Garbled (no instant *)
(* or number) or Mistyped (in JSON: a value of another type than the       *)
(* column's).  Blank lines, the CSV header, quotes and properties are left *)
(* out.                                                                    *)
(***************************************************************************)
EXTENDS ChronaRead

CONSTANTS Lines, Garbled, Mistyped

Names == {"from", "to", "edge_type", "source"}
Times == {"valid_from", "valid_to", "observed_at"}

ASSUME LineAssumption ==
  \A line \in Lines, c \in Names :
    c \in DOMAIN line => line[c] \in Text \cup {Mistyped}

ASSUME CellAssumption ==
  Mistyped \notin Text \cup Time /\ Empty \notin Time /\ Garbled \notin Time \cup {Empty}

\* get_string and get_number look past a value of another type.
Has(line, c) == c \in DOMAIN line /\ line[c] # Mistyped

Filled(line, c) == Has(line, c) /\ line[c] # Empty

\* The columns a row must have are there (empty ones too), and those that are
\* parsed can be.
Decodes(line) ==
  /\ \A c \in {"from", "to", "edge_type"} : Has(line, c)
  /\ \A c \in Times : Filled(line, c) => line[c] \in Time
  /\ Filled(line, "confidence") => line["confidence"] \in BOOLEAN

Default(line, c, x) == IF Filled(line, c) THEN line[c] ELSE x

\* parse_csv_line, parse_jsonl_line of a line that decodes.
Decode(line, now) ==
  [from |-> line["from"], to |-> line["to"], type |-> line["edge_type"],
   source |-> Default(line, "source", Empty),
   vf |-> Default(line, "valid_from", now),
   vt |-> Default(line, "valid_to", NoTs),
   confident |-> Default(line, "confidence", TRUE)]

-----------------------------------------------------------------------------

\* A stored fact is what the line says, where it says something; a line without
\* a start means some reading of the clock, one without an end an open fact.
Says(fact, line) ==
  /\ fact.from = line["from"] /\ fact.to = line["to"] /\ fact.type = line["edge_type"]
  /\ Filled(line, "valid_from") => fact.vf = line["valid_from"]
  /\ fact.vt = IF Filled(line, "valid_to") THEN line["valid_to"] ELSE NoTs
  /\ fact.source = IF Filled(line, "source") THEN line["source"] ELSE Empty

=============================================================================
