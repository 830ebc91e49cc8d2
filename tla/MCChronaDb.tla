----------------------------- MODULE MCChronaDb -----------------------------
(* Small instances of ChronaDb: two external ids, one edge type, one source. *)
EXTENDS ChronaRefinement

CONSTANTS a, b,       \* external ids
          T, S        \* an edge or node type, a source name

MCText == {a, b, T, S, Empty}

\* Well-formed arguments between the given endpoints, also with valid_to
\* before valid_from, which validate() rejects.
Facts(from, to, source) ==
  [from : from, to : to, type : {T}, source : source,
   vf : Time, vt : Time \cup {NoTs}, confident : {TRUE}]

Rejected == {[from |-> a, to |-> Empty, type |-> T, source |-> Empty,
              vf |-> 0, vt |-> NoTs, confident |-> TRUE],
             [from |-> Empty, to |-> Empty, type |-> T, source |-> Empty,
              vf |-> 0, vt |-> NoTs, confident |-> TRUE],
             [from |-> b, to |-> a, type |-> T, source |-> S,
              vf |-> 1, vt |-> NoTs, confident |-> FALSE],
             [from |-> a, to |-> b, type |-> Empty, source |-> S,
              vf |-> 1, vt |-> NoTs, confident |-> TRUE]}

MixedEdges == Facts({a}, {b}, {Empty}) \cup Facts({b}, {b}, {S}) \cup Rejected
MixedNodes == {[ext |-> b, type |-> T], [ext |-> Empty, type |-> T]}

\* One endpoint, so that the edge ids go to revisions.
ChainEdges == {in \in Facts({a}, {a}, {Empty}) :
                 in.vt = NoTs \/ (in.vf = 1 /\ in.vt = 0)}

\* Facts without an end and two calls that fail half way, for the run whose
\* clock steps back.
ClockEdges == {in \in Facts({a}, {a}, {Empty}) : in.vt = NoTs}
                \cup {in \in Rejected : in.from # Empty /\ in.type = T}
NoNodes    == {}
=============================================================================
