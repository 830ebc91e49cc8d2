---------------------------- MODULE TemporalGraph ----------------------------
(***************************************************************************)
(* What a Chrona database promises its clients, with no tables, interned   *)
(* strings, indexes or log: a graph of named nodes and of facts about      *)
(* them, each fact valid over an interval, changed by transactions that    *)
(* publish all their changes at once or none.                              *)
(***************************************************************************)
EXTENDS Integers

CONSTANTS Text, Empty, Time, NoTs

VARIABLES graph,    \* what snapshots see
          draft,    \* what the open transaction has made of it
          phase     \* "idle", "open", "failed"

vars == <<graph, draft, phase>>

\* A graph: the type of every node by name ("" if it has none), and the facts
\* by id.  Fact 0 is no fact.
EmptyGraph == [nodes |-> [x \in {} |-> Empty], facts |-> [i \in {} |-> 0]]

Closed(f) == f.vt # NoTs

WellFormed(f) == Closed(f) => f.vf <= f.vt

\* g and h are one fact, the validity of which h ends, or ends earlier.
EndsEarlier(f, h) == /\ h = [f EXCEPT !.vt = h.vt]
                     /\ Closed(h)
                     /\ WellFormed(h)
                     /\ Closed(f) => h.vt < f.vt

\* Fact i is new in h.  It is about nodes of h, and if it revises another fact
\* that one has ended by the time the new one starts.
Recorded(h, i) ==
  LET f == h.facts[i]
  IN /\ f.from \in DOMAIN h.nodes
     /\ f.to \in DOMAIN h.nodes
     /\ WellFormed(f)
     /\ f.revises # 0 => /\ f.revises \in DOMAIN h.facts \ {i}
                         /\ Closed(h.facts[f.revises])
                         /\ h.facts[f.revises].vt <= f.vf

\* One call turns g into h: it may name new nodes, end one fact and record one.
Evolves(g, h) ==
  /\ DOMAIN g.nodes \subseteq DOMAIN h.nodes
  /\ DOMAIN h.nodes \subseteq Text \ {Empty}
  /\ \A x \in DOMAIN g.nodes : h.nodes[x] = g.nodes[x]
  /\ DOMAIN g.facts \subseteq DOMAIN h.facts
  /\ \A i, j \in DOMAIN h.facts \ DOMAIN g.facts : i = j
  /\ \A i \in DOMAIN h.facts \ DOMAIN g.facts : Recorded(h, i)
  /\ \A i \in DOMAIN g.facts :
       h.facts[i] # g.facts[i] => EndsEarlier(g.facts[i], h.facts[i])
  /\ \A i, j \in DOMAIN g.facts :
       h.facts[i] # g.facts[i] /\ h.facts[j] # g.facts[j] => i = j

Init == graph = EmptyGraph /\ draft = EmptyGraph /\ phase = "idle"

Begin == /\ phase = "idle" /\ phase' = "open"
         /\ draft' = graph
         /\ UNCHANGED graph

\* A call that succeeds, or fails in a way the caller tolerates.
Change == /\ phase = "open" /\ phase' = "open"
          /\ Evolves(draft, draft')
          /\ UNCHANGED graph

\* A call whose error the caller propagates has recorded no fact.
Fail == /\ phase = "open" /\ phase' = "failed"
        /\ Evolves(draft, draft')
        /\ DOMAIN draft'.facts = DOMAIN draft.facts
        /\ UNCHANGED graph

Publish == /\ phase = "open" /\ phase' = "idle"
           /\ graph' = draft
           /\ UNCHANGED draft

Discard == /\ phase # "idle" /\ phase' = "idle"
           /\ draft' = graph
           /\ UNCHANGED graph

Next == Begin \/ Change \/ Fail \/ Publish \/ Discard

Spec == Init /\ [][Next]_vars

=============================================================================
