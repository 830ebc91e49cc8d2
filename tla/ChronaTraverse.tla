---------------------------- MODULE ChronaTraverse ----------------------------
(***************************************************************************)
(* n_hops and shortest_path (crates/chrona-core/src/temporal/traverse.rs), *)
(* one step per turn of their loops, over whatever an EdgeScanner answers. *)
(*                                                                         *)
(* scan[n] is the answer of scan_fwd(n, as_of): the live edges from n in   *)
(* the order of the index.  It does not change during a search, which runs *)
(* on one snapshot.  The code keeps depths only in n_hops; the depth in a  *)
(* queue entry of shortest_path is read by no action.                      *)
(***************************************************************************)
EXTENDS Naturals, Sequences, FiniteSets

CONSTANTS Nodes,
          Scans,      \* the scanners searched: functions from Nodes to edges
          Jobs        \* [algo : "hops", src, hops] or [algo : "path", src, dst]

\* A scanner answers a query for a node with edges that start there; an edge
\* has an id of its own and is filed under one node (fwd_adj, db.rs).
ASSUME ScanAssumption ==
  /\ IsFiniteSet(Nodes)
  /\ \A s \in Scans :
       /\ DOMAIN s = Nodes
       /\ \A n \in Nodes : s[n] \in Seq([id : Nat, from : {n}, to : Nodes])
       /\ \A m, n \in Nodes : \A i \in DOMAIN s[m], j \in DOMAIN s[n] :
            s[m][i].id = s[n][j].id => m = n /\ i = j

ASSUME JobAssumption ==
  \A j \in Jobs : /\ j.src \in Nodes
                  /\ \/ j.algo = "hops" /\ j.hops \in Nat
                     \/ j.algo = "path" /\ j.dst \in Nodes

VARIABLES job, scan,
          queue,      \* nodes to expand, [node, depth]
          cur,        \* the entry being expanded
          pending,    \* what is left of its edges
          visited,    \* nodes ever queued
          seen,       \* ids of the edges n_hops has returned
          found,      \* the result: edges met, or the path
          parent,     \* node |-> the edge by which shortest_path reached it
          pc          \* "search", "back", "done" or "nopath"

vars == <<job, scan, queue, cur, pending, visited, seen, found, parent, pc>>

Entry(n, d) == [node |-> n, depth |-> d]

\* The arguments and locals of a call; two of them return at once.
Start(j, s) ==
  /\ job = j
  /\ scan = s
  /\ queue = <<Entry(j.src, 0)>>
  /\ cur = Entry(j.src, 0)
  /\ pending = <<>>
  /\ visited = {j.src}
  /\ seen = {}
  /\ found = <<>>
  /\ parent = [n \in {} |-> n]
  /\ pc = IF \/ j.algo = "hops" /\ j.hops = 0
             \/ j.algo = "path" /\ j.src = j.dst THEN "done" ELSE "search"

Init == \E j \in Jobs, s \in Scans : Start(j, s)

Searching(algo) == pc = "search" /\ job.algo = algo

-----------------------------------------------------------------------------
(* n_hops *)

\* Mutant: the budget is checked one hop too late.
HopsExpandLate ==
  /\ Searching("hops") /\ pending = <<>> /\ queue # <<>>
  /\ cur' = Head(queue)
  /\ queue' = Tail(queue)
  /\ pending' = IF cur'.depth > job.hops THEN <<>> ELSE scan[cur'.node]
  /\ UNCHANGED <<job, scan, visited, seen, found, parent, pc>>

\* Mutant: `continue` before the entry has been popped.
HopsExpandStuck ==
  /\ Searching("hops") /\ pending = <<>> /\ queue # <<>>
  /\ cur' = Head(queue)
  /\ queue' = IF cur'.depth >= job.hops THEN queue ELSE Tail(queue)
  /\ pending' = IF cur'.depth >= job.hops THEN <<>> ELSE scan[cur'.node]
  /\ UNCHANGED <<job, scan, visited, seen, found, parent, pc>>

\* Mutant: pop_back.
HopsExpandLast ==
  /\ Searching("hops") /\ pending = <<>> /\ queue # <<>>
  /\ cur' = queue[Len(queue)]
  /\ queue' = SubSeq(queue, 1, Len(queue) - 1)
  /\ pending' = IF cur'.depth >= job.hops THEN <<>> ELSE scan[cur'.node]
  /\ UNCHANGED <<job, scan, visited, seen, found, parent, pc>>

\* pop_front; an entry at the hop limit is not scanned.
HopsExpand ==
  /\ Searching("hops") /\ pending = <<>> /\ queue # <<>>
  /\ cur' = Head(queue)
  /\ queue' = Tail(queue)
  /\ pending' = IF cur'.depth >= job.hops THEN <<>> ELSE scan[cur'.node]
  /\ UNCHANGED <<job, scan, visited, seen, found, parent, pc>>

\* Mutant: the set of seen edges is fed with raw node ids.
HopsEdgeSeesNode ==
  /\ Searching("hops") /\ pending # <<>>
  /\ LET e == Head(pending) IN
       /\ IF e.id \in seen THEN UNCHANGED <<seen, found>>
          ELSE seen' = seen \cup {e.to} /\ found' = Append(found, e)
       /\ IF e.id \in seen \/ e.to \in visited THEN UNCHANGED <<visited, queue>>
          ELSE /\ visited' = visited \cup {e.to}
               /\ queue' = Append(queue, Entry(e.to, cur.depth + 1))
  /\ pending' = Tail(pending)
  /\ UNCHANGED <<job, scan, cur, parent, pc>>

HopsEdge ==
  /\ Searching("hops") /\ pending # <<>>
  /\ LET e == Head(pending) IN
       /\ IF e.id \in seen THEN UNCHANGED <<seen, found>>
          ELSE seen' = seen \cup {e.id} /\ found' = Append(found, e)
       /\ IF e.id \in seen \/ e.to \in visited THEN UNCHANGED <<visited, queue>>
          ELSE /\ visited' = visited \cup {e.to}
               /\ queue' = Append(queue, Entry(e.to, cur.depth + 1))
  /\ pending' = Tail(pending)
  /\ UNCHANGED <<job, scan, cur, parent, pc>>

HopsDone ==
  /\ Searching("hops") /\ pending = <<>> /\ queue = <<>>
  /\ pc' = "done"
  /\ UNCHANGED <<job, scan, queue, cur, pending, visited, seen, found, parent>>

-----------------------------------------------------------------------------
(* shortest_path *)

PathExpand ==
  /\ Searching("path") /\ pending = <<>> /\ queue # <<>>
  /\ cur' = Head(queue)
  /\ queue' = Tail(queue)
  /\ IF cur'.node = job.dst THEN pc' = "back" /\ UNCHANGED pending
     ELSE pending' = scan[cur'.node] /\ UNCHANGED pc
  /\ UNCHANGED <<job, scan, visited, seen, found, parent>>

\* Mutant: a later edge to a node takes the place of the first.
PathEdgeLast ==
  /\ Searching("path") /\ pending # <<>>
  /\ LET e == Head(pending) IN
       /\ parent' = [n \in DOMAIN parent \cup {e.to} |->
                       IF n = e.to THEN e ELSE parent[n]]
       /\ IF e.to \in visited THEN UNCHANGED <<visited, queue>>
          ELSE /\ visited' = visited \cup {e.to}
               /\ queue' = Append(queue, Entry(e.to, cur.depth + 1))
  /\ pending' = Tail(pending)
  /\ UNCHANGED <<job, scan, cur, seen, found, pc>>

PathEdge ==
  /\ Searching("path") /\ pending # <<>>
  /\ LET e == Head(pending) IN
       IF e.to \in visited THEN UNCHANGED <<visited, queue, parent>>
       ELSE /\ visited' = visited \cup {e.to}
            /\ parent' = [n \in DOMAIN parent \cup {e.to} |->
                            IF n = e.to THEN e ELSE parent[n]]
            /\ queue' = Append(queue, Entry(e.to, cur.depth + 1))
  /\ pending' = Tail(pending)
  /\ UNCHANGED <<job, scan, cur, seen, found, pc>>

\* Mutant: the search gives up at the first dead end.
PathNoneAtDeadEnd ==
  /\ Searching("path") /\ pending = <<>> /\ cur.node # job.dst
  /\ scan[cur.node] = <<>>
  /\ pc' = "nopath"
  /\ UNCHANGED <<job, scan, queue, cur, pending, visited, seen, found, parent>>

PathNone ==
  /\ Searching("path") /\ pending = <<>> /\ queue = <<>>
  /\ pc' = "nopath"
  /\ UNCHANGED <<job, scan, queue, cur, pending, visited, seen, found, parent>>

\* One turn of the loop that follows the parents back and reverses at the end.
PathBack ==
  /\ pc = "back"
  /\ IF cur.node \in DOMAIN parent
     THEN LET e == parent[cur.node] IN
            /\ found' = <<e>> \o found
            /\ parent' = [n \in DOMAIN parent \ {cur.node} |-> parent[n]]
            /\ cur' = Entry(e.from, 0)
            /\ pc' = IF e.from = job.src THEN "done" ELSE "back"
     ELSE pc' = "done" /\ UNCHANGED <<found, parent, cur>>
  /\ UNCHANGED <<job, scan, queue, pending, visited, seen>>

-----------------------------------------------------------------------------

Next == \/ HopsExpand \/ HopsEdge \/ HopsDone
        \/ PathExpand \/ PathEdge \/ PathNone \/ PathBack

\* A search is one thread's computation: it goes on while it can.
Spec == Init /\ [][Next]_vars /\ WF_vars(Next)

-----------------------------------------------------------------------------
(* What a search should find, by walks and not by queues *)

Edges(s) == UNION {{s[n][i] : i \in DOMAIN s[n]} : n \in Nodes}

\* B and the nodes one edge further.
Onward(s, B) == B \cup {e.to : e \in {x \in Edges(s) : x.from \in B}}

\* The nodes at most k edges away from src.
Within(s, src, k) ==
  LET ball[i \in 0..k] == IF i = 0 THEN {src} ELSE Onward(s, ball[i - 1])
  IN ball[k]

TypeOK ==
  /\ job \in Jobs /\ DOMAIN scan = Nodes
  /\ queue \in Seq([node : Nodes, depth : Nat])
  /\ cur \in [node : Nodes, depth : Nat]
  /\ pending \in Seq(Edges(scan)) /\ found \in Seq(Edges(scan))
  /\ visited \subseteq Nodes
  /\ seen \subseteq {e.id : e \in Edges(scan)}
  /\ DOMAIN parent \subseteq Nodes /\ \A n \in DOMAIN parent : parent[n] \in Edges(scan)
  /\ pc \in {"search", "back", "done", "nopath"}

\* n_hops returns every edge that starts fewer than `hops` hops away, each
\* once, and no other: parallel edges, loops and cycles included.
HopsExact ==
  job.algo = "hops" /\ pc = "done" =>
    /\ {found[i] : i \in DOMAIN found}
         = {e \in Edges(scan) : job.hops > 0 /\ e.from \in Within(scan, job.src, job.hops - 1)}
    /\ \A i, j \in DOMAIN found : found[i].id = found[j].id => i = j

\* shortest_path returns a walk from src to dst that no walk is shorter than,
\* and None only if there is no walk.
PathShortest ==
  /\ job.algo = "path" /\ pc = "done" =>
       /\ \A i \in DOMAIN found : found[i] \in Edges(scan)
       /\ \A i \in 1..(Len(found) - 1) : found[i].to = found[i + 1].from
       /\ IF found = <<>> THEN job.src = job.dst
          ELSE /\ found[1].from = job.src
               /\ found[Len(found)].to = job.dst
               /\ job.dst \notin Within(scan, job.src, Len(found) - 1)
  /\ pc = "nopath" => job.dst \notin Within(scan, job.src, Cardinality(Nodes))

\* Every search ends, on any graph.
Terminates == <>(pc \in {"done", "nopath"})

=============================================================================
