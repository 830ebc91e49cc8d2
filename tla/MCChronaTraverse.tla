-------------------------- MODULE MCChronaTraverse --------------------------
(* All multigraphs with three nodes and up to four edges. *)
EXTENDS ChronaTraverse

CONSTANTS MaxEdges, MaxHops

\* Apart from the edge ids, so that a mix-up of the two shows.
MCNodes == 11..13

\* The scanner over a list of endpoint pairs, in the order of the list.
ScanOf(pairs) ==
  [n \in MCNodes |->
     LET from == {i \in DOMAIN pairs : pairs[i][1] = n}
         nth(k) == CHOOSE i \in from : Cardinality({j \in from : j < i}) = k - 1
     IN [k \in 1..Cardinality(from) |->
           [id |-> nth(k), from |-> n, to |-> pairs[nth(k)][2]]]]

MCScans == {ScanOf(p) : p \in [1..MaxEdges -> MCNodes \X MCNodes]}

\* By symmetry searches start at 11.
MCJobs == [algo : {"hops"}, src : {11}, hops : 0..MaxHops]
            \cup [algo : {"path"}, src : {11}, dst : {11, 13}]
=============================================================================
