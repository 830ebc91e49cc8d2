------------------------- MODULE ChronaTraverseProofs -------------------------
(***************************************************************************)
(* Both searches return exactly what they promise, on every graph: the     *)
(* classic argument for a breadth-first search, with distances expressed   *)
(* through Within.                                                         *)
(***************************************************************************)
EXTENDS ChronaTraverse, FiniteSetTheorems, SequenceTheorems, WellFoundedInduction, TLAPS

-----------------------------------------------------------------------------
(* Induction, in the form of sets: a set that holds 0 and every successor   *)
(* of its members holds every number, since else there were a least one.    *)

LEMMA NatSet ==
  ASSUME NEW S, 0 \in S, \A n \in Nat : n \in S => n + 1 \in S
  PROVE  Nat \subseteq S
<1> SUFFICES ASSUME Nat \ S # {} PROVE FALSE
  OBVIOUS
<1> DEFINE R == OpToRel(<, Nat)
<1>1. PICK x \in Nat \ S : \A y \in Nat \ S : <<y, x>> \notin R
  <2>1. IsWellFoundedOn(R, Nat)
    BY NatLessThanWellFounded
  <2> HIDE DEF R
  <2>2. Nat \ S \subseteq Nat
    OBVIOUS
  <2> QED
    BY <2>1, <2>2, WFMin
<1>2. \A y \in Nat \ S : ~(y < x)
  BY <1>1 DEF OpToRel
<1>3. x # 0 /\ x - 1 \in Nat /\ x - 1 < x /\ (x - 1) + 1 = x
  OBVIOUS
<1> QED
  BY <1>2, <1>3

-----------------------------------------------------------------------------
(* Within is what its recursive definition says *)

IsBall(g, s, src, k) ==
  g = [i \in 0..k |-> IF i = 0 THEN {src} ELSE Onward(s, g[i - 1])]

LEMMA WithinIsBall ==
  ASSUME NEW s, NEW src, NEW k
  PROVE  Within(s, src, k) = (CHOOSE g : IsBall(g, s, src, k))[k]
  BY DEF Within, IsBall

LEMMA BallExists ==
  ASSUME NEW s, NEW src
  PROVE  \A k \in Nat : \E g : IsBall(g, s, src, k)
<1> DEFINE S == {k \in Nat : \E g : IsBall(g, s, src, k)}
<1>1. 0 \in S
  <2>1. IsBall([i \in 0..0 |-> {src}], s, src, 0)
    BY DEF IsBall
  <2> QED
    BY <2>1
<1>2. ASSUME NEW n \in Nat, n \in S PROVE n + 1 \in S
  <2>1. PICK g : IsBall(g, s, src, n)
    BY <1>2
  <2> DEFINE h == [i \in 0..(n + 1) |-> IF i = n + 1 THEN Onward(s, g[n]) ELSE g[i]]
  <2>2. \A i \in 0..n : g[i] = IF i = 0 THEN {src} ELSE Onward(s, g[i - 1])
    BY <2>1 DEF IsBall
  <2>3. /\ \A i \in 0..n : h[i] = g[i]
        /\ h[n + 1] = Onward(s, g[n])
    OBVIOUS
  <2>4. h = [i \in 0..(n + 1) |-> h[i]]
    OBVIOUS
  <2> HIDE DEF h
  <2>5. ASSUME NEW i \in 0..(n + 1)
        PROVE  h[i] = IF i = 0 THEN {src} ELSE Onward(s, h[i - 1])
    <3>1. CASE i = n + 1
      <4>1. n + 1 # 0 /\ (n + 1) - 1 = n /\ n \in 0..n
        OBVIOUS
      <4> QED
        BY <3>1, <2>3, <4>1
    <3>2. CASE i # n + 1
      <4>1. i \in 0..n /\ (i # 0 => i - 1 \in 0..n)
        BY <3>2
      <4> QED
        BY <4>1, <2>2, <2>3
    <3> QED
      BY <3>1, <3>2
  <2>6. IsBall(h, s, src, n + 1)
    BY <2>4, <2>5 DEF IsBall
  <2> QED
    BY <2>6
<1> HIDE DEF S
<1>3. Nat \subseteq S
  BY <1>1, <1>2, NatSet
<1> QED
  BY <1>3 DEF S

LEMMA BallUnique ==
  ASSUME NEW s, NEW src, NEW g, NEW h, NEW k \in Nat, NEW m \in Nat, k <= m,
         IsBall(g, s, src, k), IsBall(h, s, src, m)
  PROVE  g[k] = h[k]
<1> DEFINE S == {i \in Nat : i <= k => g[i] = h[i]}
<1>1. /\ \A i \in 0..k : g[i] = IF i = 0 THEN {src} ELSE Onward(s, g[i - 1])
      /\ \A i \in 0..m : h[i] = IF i = 0 THEN {src} ELSE Onward(s, h[i - 1])
  BY DEF IsBall
<1>2. 0 \in S
  BY <1>1
<1>3. ASSUME NEW n \in Nat, n \in S PROVE n + 1 \in S
  <2> SUFFICES ASSUME n + 1 <= k PROVE g[n + 1] = h[n + 1]
    OBVIOUS
  <2>1. g[n] = h[n]
    BY <1>3
  <2>2. n + 1 \in 0..k /\ n + 1 \in 0..m /\ n + 1 # 0 /\ (n + 1) - 1 = n
    OBVIOUS
  <2>3. g[n + 1] = Onward(s, g[n]) /\ h[n + 1] = Onward(s, h[n])
    BY <1>1, <2>2
  <2> QED
    BY <2>1, <2>3
<1> HIDE DEF S
<1>4. k \in S
  BY <1>2, <1>3, NatSet
<1> QED
  BY <1>4 DEF S

LEMMA WithinZero ==
  ASSUME NEW s, NEW src
  PROVE  Within(s, src, 0) = {src}
<1> DEFINE g == CHOOSE x : IsBall(x, s, src, 0)
<1>1. IsBall(g, s, src, 0)
  BY BallExists
<1> HIDE DEF g
<1>2. g[0] = {src}
  BY <1>1 DEF IsBall
<1> QED
  BY <1>2, WithinIsBall DEF g

LEMMA WithinNext ==
  ASSUME NEW s, NEW src, NEW k \in Nat
  PROVE  Within(s, src, k + 1) = Onward(s, Within(s, src, k))
<1> DEFINE g == CHOOSE x : IsBall(x, s, src, k)
           h == CHOOSE x : IsBall(x, s, src, k + 1)
<1>1. IsBall(g, s, src, k) /\ IsBall(h, s, src, k + 1)
  BY BallExists
<1>2. Within(s, src, k) = g[k] /\ Within(s, src, k + 1) = h[k + 1]
  BY WithinIsBall
<1> HIDE DEF g, h
<1>3. g[k] = h[k]
  <2>1. k + 1 \in Nat /\ k <= k + 1
    OBVIOUS
  <2> DEFINE m == k + 1
  <2> HIDE DEF m
  <2>2. m \in Nat /\ k <= m /\ IsBall(h, s, src, m)
    BY <1>1, <2>1 DEF m
  <2> QED
    BY <1>1, <2>2, BallUnique
<1>4. k + 1 \in 0..(k + 1) /\ k + 1 # 0 /\ (k + 1) - 1 = k
  OBVIOUS
<1>5. h[k + 1] = Onward(s, h[k])
  BY <1>1, <1>4 DEF IsBall
<1> QED
  BY <1>2, <1>3, <1>5

\* A ball holds those of smaller radius.
LEMMA WithinGrows ==
  ASSUME NEW s, NEW src, NEW i \in Nat, NEW j \in Nat, i <= j
  PROVE  Within(s, src, i) \subseteq Within(s, src, j)
<1> DEFINE S == {k \in Nat : i <= k => Within(s, src, i) \subseteq Within(s, src, k)}
<1>1. 0 \in S
  OBVIOUS
<1>2. ASSUME NEW k \in Nat, k \in S PROVE k + 1 \in S
  <2> SUFFICES ASSUME i <= k + 1
               PROVE  Within(s, src, i) \subseteq Within(s, src, k + 1)
    OBVIOUS
  <2>1. CASE i = k + 1
    BY <2>1
  <2>2. CASE i <= k
    <3>1. Within(s, src, i) \subseteq Within(s, src, k)
      BY <1>2, <2>2
    <3>2. Within(s, src, k) \subseteq Within(s, src, k + 1)
      BY WithinNext DEF Onward
    <3> QED
      BY <3>1, <3>2
  <2> QED
    BY <2>1, <2>2
<1> HIDE DEF S
<1>3. j \in S
  BY <1>1, <1>2, NatSet
<1> QED
  BY <1>3 DEF S

\* A set that is closed under the edges that start in it up to radius k holds
\* the ball of radius k + 1.
LEMMA ClosedHoldsBalls ==
  ASSUME NEW s, NEW src, NEW V, NEW bound \in Nat, src \in V,
         \A e \in Edges(s) : \A k \in Nat :
            k < bound /\ e.from \in V /\ e.from \in Within(s, src, k) => e.to \in V
  PROVE  Within(s, src, bound) \subseteq V
<1> DEFINE S == {k \in Nat : k <= bound => Within(s, src, k) \subseteq V}
<1>1. 0 \in S
  BY WithinZero
<1>2. ASSUME NEW k \in Nat, k \in S PROVE k + 1 \in S
  <2> SUFFICES ASSUME k + 1 <= bound PROVE Within(s, src, k + 1) \subseteq V
    OBVIOUS
  <2>1. Within(s, src, k) \subseteq V /\ k < bound
    BY <1>2
  <2>2. Within(s, src, k + 1) = Onward(s, Within(s, src, k))
    BY WithinNext
  <2> QED
    BY <2>1, <2>2 DEF Onward
<1> HIDE DEF S
<1>3. bound \in S
  BY <1>1, <1>2, NatSet
<1> QED
  BY <1>3 DEF S

-----------------------------------------------------------------------------
(* The inductive invariant *)

Ball(k) == Within(scan, job.src, k)

\* n is exactly k edges away from the source.
At(n, k) == n \in Ball(k) /\ (k # 0 => n \notin Ball(k - 1))

Hops == job.algo = "hops"
Path == job.algo = "path"

\* Nothing is left to do about edge e.
Met(e) == e.to \in visited /\ (Hops => \E i \in DOMAIN found : found[i] = e)

\* What the search keeps between its steps.  The queue holds entries of at most
\* two depths, in order, each at its node's true distance; all that is nearer
\* than the entry in hand has been visited.
Frontier ==
  /\ Hops => job.hops > 0
  /\ Path => job.src # job.dst
  /\ job.src \in visited
  /\ At(cur.node, cur.depth)
  /\ Ball(cur.depth) \subseteq visited
  /\ \A i \in DOMAIN queue : /\ queue[i].node \in visited
                             /\ At(queue[i].node, queue[i].depth)
                             /\ cur.depth <= queue[i].depth
                             /\ queue[i].depth <= cur.depth + 1
                             /\ Hops => queue[i].depth <= job.hops
  /\ \A i, j \in DOMAIN queue : i <= j => queue[i].depth <= queue[j].depth
  /\ \A i \in DOMAIN pending : pending[i].from = cur.node
  /\ pending # <<>> /\ Hops => cur.depth < job.hops

Queued(n)  == \E i \in DOMAIN queue : queue[i].node = n
Pending(e) == \E i \in DOMAIN pending : pending[i] = e

\* A visited node still waits, or its edges have been looked at.
Covered ==
  \A n \in visited :
    Queued(n) \/ /\ Path => n # job.dst
                 /\ \A e \in Edges(scan) :
                      e.from = n /\ (Hops => n \in Ball(job.hops - 1))
                        => Met(e) \/ Pending(e)

\* What n_hops has returned so far.
Listed ==
  /\ \A i \in DOMAIN found : /\ job.hops > 0
                             /\ found[i].from \in Ball(job.hops - 1)
                             /\ found[i].to \in visited
                             /\ found[i].id \in seen
  /\ \A i, j \in DOMAIN found : found[i].id = found[j].id => i = j
  /\ \A x \in seen : \E i \in DOMAIN found : found[i].id = x

\* A parent edge comes from one step nearer to the source.
Parents ==
  \A n \in DOMAIN parent :
    /\ parent[n].to = n
    /\ \E k \in Nat : At(n, k + 1) /\ At(parent[n].from, k)

Consecutive == \A i \in 1..(Len(found) - 1) : found[i].to = found[i + 1].from

\* The path found so far goes from the node in hand to the destination, and
\* the parents of all that is not farther than that node are still there.
WayBack ==
  /\ Path /\ cur.node # job.src
  /\ IF found = <<>> THEN cur.node = job.dst
     ELSE found[1].from = cur.node /\ found[Len(found)].to = job.dst
  /\ Consecutive
  /\ \E k \in Nat : /\ At(cur.node, k)
                    /\ At(job.dst, k + Len(found))
                    /\ Ball(k) \ {job.src} \subseteq DOMAIN parent

SearchInv ==
  /\ TypeOK
  /\ job \in Jobs /\ scan \in Scans
  /\ pc = "search" => Frontier /\ Covered
  /\ Hops => Listed /\ pc \in {"search", "done"}
  /\ Path /\ pc \in {"search", "back"} => Parents
  /\ Path /\ pc = "search" => found = <<>> /\ DOMAIN parent = visited \ {job.src}
  /\ pc = "back" => WayBack
  /\ pc \in {"done", "nopath"} => HopsExact /\ PathShortest

-----------------------------------------------------------------------------
(* Graphs and distances *)

LEMMA EdgeFacts ==
  ASSUME scan \in Scans
  PROVE  /\ \A e \in Edges(scan) : e.from \in Nodes /\ e.to \in Nodes
         /\ \A e, f \in Edges(scan) : e.id = f.id => e = f
         /\ \A n \in Nodes : scan[n] \in Seq(Edges(scan))
         /\ \A n \in Nodes : \A i \in DOMAIN scan[n] : scan[n][i].from = n
         /\ \A e \in Edges(scan) : \E i \in DOMAIN scan[e.from] : e = scan[e.from][i]
<1> DEFINE From(n) == [id : Nat, from : {n}, to : Nodes]
<1>1. ASSUME NEW n \in Nodes
      PROVE  /\ scan[n] \in [1..Len(scan[n]) -> From(n)]
             /\ DOMAIN scan[n] = 1..Len(scan[n]) /\ Len(scan[n]) \in Nat
             /\ \A i \in DOMAIN scan[n] : scan[n][i] \in From(n)
  <2>1. scan[n] \in Seq(From(n))
    BY ScanAssumption
  <2> HIDE DEF From
  <2> QED
    BY <2>1, LenProperties, ElementOfSeq
<1>2. \A n \in Nodes : \A i \in DOMAIN scan[n] :
        scan[n][i].from = n /\ scan[n][i].to \in Nodes
  BY <1>1
<1>3. \A e \in Edges(scan) : \E n \in Nodes : \E i \in DOMAIN scan[n] : e = scan[n][i]
  BY DEF Edges
<1>4. \A e \in Edges(scan) : e.from \in Nodes /\ e.to \in Nodes
  BY <1>2, <1>3
<1>5. \A e \in Edges(scan) : \E i \in DOMAIN scan[e.from] : e = scan[e.from][i]
  BY <1>2, <1>3
<1>6. \A e, f \in Edges(scan) : e.id = f.id => e = f
  BY <1>3, ScanAssumption
<1>7. ASSUME NEW n \in Nodes PROVE scan[n] \in Seq(Edges(scan))
  <2>1. \A i \in 1..Len(scan[n]) : scan[n][i] \in Edges(scan)
    BY <1>1 DEF Edges
  <2>2. scan[n] \in [1..Len(scan[n]) -> Edges(scan)]
    <3> HIDE DEF From
    <3> QED
      BY <1>1, <2>1
  <2> QED
    BY <1>1, <2>2, SeqDef
<1> QED
  BY <1>2, <1>4, <1>5, <1>6, <1>7

LEMMA BallFacts ==
  /\ Ball(0) = {job.src}
  /\ \A k \in Nat : Ball(k + 1) = Onward(scan, Ball(k))
  /\ \A i, j \in Nat : i <= j => Ball(i) \subseteq Ball(j)
  BY WithinZero, WithinNext, WithinGrows DEF Ball

\* A node is at no more than one distance, and in no ball of smaller radius.
LEMMA AtLeast ==
  ASSUME NEW n, NEW k \in Nat, NEW j \in Nat, At(n, k), n \in Ball(j)
  PROVE  k <= j
<1> SUFFICES ASSUME j < k PROVE FALSE
  OBVIOUS
<1>1. k # 0 /\ k - 1 \in Nat /\ j <= k - 1
  OBVIOUS
<1>2. n \in Ball(k - 1)
  BY <1>1, BallFacts
<1> QED
  BY <1>1, <1>2 DEF At

LEMMA AtOnward ==
  ASSUME NEW e \in Edges(scan), NEW k \in Nat, At(e.from, k)
  PROVE  /\ e.to \in Ball(k + 1)
         /\ e.to \notin Ball(k) => At(e.to, k + 1)
<1>1. e.to \in Ball(k + 1)
  BY BallFacts DEF At, Onward
<1>2. (k + 1) - 1 = k
  OBVIOUS
<1> QED
  BY <1>1, <1>2 DEF At

LEMMA AtSource == At(job.src, 0)
  BY BallFacts DEF At

-----------------------------------------------------------------------------
(* Sequences and the queue *)

QueueEntry == [node : Nodes, depth : Nat]

LEMMA AppendFacts ==
  ASSUME NEW S, NEW q \in Seq(S), NEW e \in S
  PROVE  /\ Append(q, e) \in Seq(S)
         /\ \A i \in DOMAIN q : i \in DOMAIN Append(q, e) /\ Append(q, e)[i] = q[i]
         /\ \E j \in DOMAIN Append(q, e) :
              /\ Append(q, e)[j] = e
              /\ \A i \in DOMAIN Append(q, e) : i # j => i \in DOMAIN q /\ i < j
<1> DEFINE t == Append(q, e)
<1>1. /\ t \in Seq(S) /\ Len(t) = Len(q) + 1 /\ t[Len(q) + 1] = e
      /\ \A i \in 1..Len(q) : t[i] = q[i]
  BY AppendProperties
<1>2. /\ DOMAIN q = 1..Len(q) /\ DOMAIN t = 1..Len(t) /\ Len(q) \in Nat
  BY <1>1, LenProperties
<1> HIDE DEF t
<1>3. \A i \in DOMAIN q : i \in DOMAIN t /\ t[i] = q[i]
  BY <1>1, <1>2
<1>4. /\ Len(q) + 1 \in DOMAIN t
      /\ \A i \in DOMAIN t : i # Len(q) + 1 => i \in DOMAIN q /\ i < Len(q) + 1
  BY <1>1, <1>2
<1> QED
  BY <1>1, <1>3, <1>4 DEF t

LEMMA TailFacts ==
  ASSUME NEW S, NEW q \in Seq(S), q # <<>>
  PROVE  /\ Head(q) = q[1] /\ 1 \in DOMAIN q /\ q[1] \in S
         /\ Tail(q) \in Seq(S)
         /\ \A i \in DOMAIN Tail(q) : i + 1 \in DOMAIN q /\ Tail(q)[i] = q[i + 1]
         /\ \A i \in DOMAIN q : i # 1 => i - 1 \in DOMAIN Tail(q)
                                         /\ Tail(q)[i - 1] = q[i]
<1>1. /\ Head(q) \in S
      /\ Tail(q) \in Seq(S)
      /\ Len(Tail(q)) = Len(q) - 1
      /\ \A i \in 1..Len(Tail(q)) : Tail(q)[i] = q[i + 1]
  BY HeadTailProperties
<1>2. /\ Len(q) \in Nat /\ Len(q) # 0
      /\ DOMAIN q = 1..Len(q)
      /\ DOMAIN Tail(q) = 1..Len(Tail(q))
  BY <1>1, LenProperties, EmptySeq
<1>3. Head(q) = q[1]
  OBVIOUS
<1>4. \A i \in DOMAIN q : i # 1 => /\ i - 1 \in 1..Len(Tail(q))
                                   /\ (i - 1) + 1 = i
  BY <1>1, <1>2
<1> QED
  BY <1>1, <1>2, <1>3, <1>4

\* All that is at most as far away as the next entry has been visited.
LEMMA NextReached ==
  ASSUME SearchInv, pc = "search", pending = <<>>, queue # <<>>
  PROVE  Ball(queue[1].depth) \subseteq visited
<1>1. TypeOK /\ Frontier /\ Covered /\ scan \in Scans /\ job \in Jobs
  BY DEF SearchInv
<1>2. /\ cur.depth \in Nat /\ queue[1].depth \in Nat /\ 1 \in DOMAIN queue
      /\ cur.depth <= queue[1].depth /\ queue[1].depth <= cur.depth + 1
      /\ \A i \in DOMAIN queue : queue[i].depth \in Nat
  <2>1. cur.depth \in Nat /\ queue \in Seq(QueueEntry)
    BY <1>1 DEF TypeOK, QueueEntry
  <2>2. 1 \in DOMAIN queue
    BY <2>1, TailFacts
  <2>3. \A i \in DOMAIN queue : queue[i].depth \in Nat
    <3>1. \A i \in DOMAIN queue : queue[i] \in QueueEntry
      BY <2>1, LenProperties, ElementOfSeq
    <3> QED
      BY <3>1 DEF QueueEntry
  <2> QED
    BY <1>1, <2>1, <2>2, <2>3 DEF Frontier
<1>3. CASE queue[1].depth = cur.depth
  BY <1>1, <1>3 DEF Frontier
<1>4. CASE queue[1].depth = cur.depth + 1
  <2> SUFFICES ASSUME NEW e \in Edges(scan), e.from \in Ball(cur.depth)
               PROVE  e.to \in visited
    BY <1>1, <1>2, <1>4, BallFacts DEF Frontier, Onward
  <2>1. e.from \in visited
    BY <1>1 DEF Frontier
  <2>2. ~Queued(e.from)
    <3> SUFFICES ASSUME NEW i \in DOMAIN queue, queue[i].node = e.from PROVE FALSE
      BY DEF Queued
    <3>1. 1 <= i /\ queue[1].depth <= queue[i].depth
      <4>1. i \in 1..Len(queue)
        BY <1>1, LenProperties DEF TypeOK
      <4> QED
        BY <1>1, <1>2, <4>1 DEF Frontier
    <3>2. At(e.from, queue[i].depth)
      BY <1>1 DEF Frontier
    <3>3. queue[i].depth <= cur.depth
      BY <1>2, <3>2, AtLeast
    <3> QED
      BY <1>2, <1>4, <3>1, <3>3
  <2>3. Hops => e.from \in Ball(job.hops - 1)
    <3> SUFFICES ASSUME Hops PROVE e.from \in Ball(job.hops - 1)
      OBVIOUS
    <3>1. job.hops \in Nat /\ queue[1].depth <= job.hops
      BY <1>1, <1>2, JobAssumption DEF Frontier, Hops
    <3>2. cur.depth <= job.hops - 1 /\ job.hops - 1 \in Nat
      BY <1>2, <1>4, <3>1
    <3> QED
      BY <1>2, <3>2, BallFacts
  <2>4. ~Pending(e)
    BY DEF Pending
  <2> QED
    BY <1>1, <2>1, <2>2, <2>3, <2>4 DEF Covered, Met
<1> QED
  BY <1>2, <1>3, <1>4

-----------------------------------------------------------------------------
(* One step of the queue, in either search *)

LEMMA Stays ==
  ASSUME UNCHANGED <<job, scan>>
  PROVE  /\ \A k : Ball(k)' = Ball(k)
         /\ \A n, k : At(n, k)' <=> At(n, k)
         /\ Hops' <=> Hops
         /\ Path' <=> Path
  BY DEF Ball, At, Hops, Path

LEMMA FrontierAfterPop ==
  ASSUME SearchInv, pc = "search", pending = <<>>, queue # <<>>,
         cur' = Head(queue), queue' = Tail(queue),
         UNCHANGED <<job, scan, visited>>,
         \A i \in DOMAIN pending' : pending'[i].from = cur'.node,
         pending' # <<>> /\ Hops => cur'.depth < job.hops
  PROVE  Frontier'
<1>1. TypeOK /\ Frontier
  BY DEF SearchInv
<1>2. /\ cur' = queue[1] /\ 1 \in DOMAIN queue
      /\ \A i \in DOMAIN queue' : i + 1 \in DOMAIN queue /\ queue'[i] = queue[i + 1]
  <2>1. queue \in Seq(QueueEntry)
    BY <1>1 DEF TypeOK, QueueEntry
  <2> QED
    BY <2>1, TailFacts
<1>3. /\ DOMAIN queue \subseteq Nat /\ DOMAIN queue' \subseteq Nat
      /\ cur.depth \in Nat
      /\ \A i \in DOMAIN queue : 1 <= i /\ queue[i].depth \in Nat
  <2>1. queue \in Seq(QueueEntry) /\ cur \in QueueEntry
    BY <1>1 DEF TypeOK, QueueEntry
  <2>2. Tail(queue) \in Seq(QueueEntry)
    BY <2>1, HeadTailProperties
  <2>3. \A i \in DOMAIN queue : queue[i] \in QueueEntry
    BY <2>1, LenProperties, ElementOfSeq
  <2>4. DOMAIN queue = 1..Len(queue) /\ DOMAIN queue' = 1..Len(queue')
    BY <2>1, <2>2, LenProperties
  <2> QED
    BY <2>1, <2>3, <2>4 DEF QueueEntry
<1>4. Ball(cur'.depth) \subseteq visited
  BY <1>2, NextReached
<1>5. At(cur'.node, cur'.depth)
  BY <1>1, <1>2 DEF Frontier
<1>6. ASSUME NEW i \in DOMAIN queue'
      PROVE  /\ queue'[i].node \in visited
             /\ At(queue'[i].node, queue'[i].depth)
             /\ cur'.depth <= queue'[i].depth
             /\ queue'[i].depth <= cur'.depth + 1
             /\ Hops => queue'[i].depth <= job.hops
  <2>1. i + 1 \in DOMAIN queue /\ queue'[i] = queue[i + 1] /\ 1 <= i + 1
    BY <1>2, <1>3
  <2>2. cur'.depth <= queue'[i].depth
    BY <1>1, <1>2, <2>1 DEF Frontier
  <2>3. queue[i + 1].depth <= cur.depth + 1 /\ cur.depth <= queue[1].depth
    BY <1>1, <1>2, <2>1 DEF Frontier
  <2>4. queue'[i].depth <= cur'.depth + 1
    BY <1>2, <1>3, <2>1, <2>3
  <2> QED
    BY <1>1, <2>1, <2>2, <2>4 DEF Frontier
<1>7. ASSUME NEW i \in DOMAIN queue', NEW j \in DOMAIN queue', i <= j
      PROVE  queue'[i].depth <= queue'[j].depth
  <2>1. i + 1 <= j + 1
    BY <1>3, <1>7
  <2> QED
    BY <1>1, <1>2, <2>1 DEF Frontier
<1>8. /\ Hops => job.hops > 0
      /\ Path => job.src # job.dst
      /\ job.src \in visited
  BY <1>1 DEF Frontier
<1> QED
  BY <1>4, <1>5, <1>6, <1>7, <1>8, Stays DEF Frontier

\* Either search queues what it meets for the first time.
Discovers(n) ==
  \/ n \in visited /\ UNCHANGED <<visited, queue>>
  \/ /\ n \notin visited
     /\ visited' = visited \cup {n}
     /\ queue' = Append(queue, Entry(n, cur.depth + 1))

LEMMA FrontierAfterEdge ==
  ASSUME SearchInv, pc = "search", pending # <<>>,
         pending' = Tail(pending), UNCHANGED <<job, scan, cur>>,
         Discovers(Head(pending).to)
  PROVE  Frontier' /\ visited \subseteq visited' /\ Head(pending).to \in visited'
<1> DEFINE e == Head(pending)
           n == Entry(e.to, cur.depth + 1)
<1>1. TypeOK /\ Frontier /\ scan \in Scans /\ job \in Jobs
  BY DEF SearchInv
<1>2. /\ pending \in Seq(Edges(scan)) /\ queue \in Seq(QueueEntry) /\ cur \in QueueEntry
  BY <1>1 DEF TypeOK, QueueEntry
<1>3. /\ e = pending[1] /\ 1 \in DOMAIN pending /\ e \in Edges(scan)
      /\ \A i \in DOMAIN pending' : i + 1 \in DOMAIN pending
                                    /\ pending'[i] = pending[i + 1]
  BY <1>2, TailFacts
<1>4. e.from = cur.node /\ (Hops => cur.depth < job.hops)
  BY <1>1, <1>3 DEF Frontier
<1>5. cur.depth \in Nat /\ e.to \in Nodes /\ At(e.from, cur.depth)
  BY <1>1, <1>2, <1>3, <1>4, EdgeFacts DEF Frontier, QueueEntry
<1>6. e.to \notin visited => At(e.to, cur.depth + 1)
  BY <1>1, <1>3, <1>5, AtOnward DEF Frontier
<1>7. visited \subseteq visited' /\ e.to \in visited'
  BY DEF Discovers
<1>8. \A i \in DOMAIN queue : queue[i].depth \in Nat
  <2>1. \A i \in DOMAIN queue : queue[i] \in QueueEntry
    BY <1>2, LenProperties, ElementOfSeq
  <2> QED
    BY <2>1 DEF QueueEntry
<1>9. Hops => job.hops \in Nat
  BY <1>1, JobAssumption DEF Hops
<1> HIDE DEF e
<1>10. /\ \A i \in DOMAIN queue' : /\ queue'[i].node \in visited'
                                   /\ At(queue'[i].node, queue'[i].depth)
                                   /\ cur.depth <= queue'[i].depth
                                   /\ queue'[i].depth <= cur.depth + 1
                                   /\ Hops => queue'[i].depth <= job.hops
       /\ \A i, j \in DOMAIN queue' : i <= j => queue'[i].depth <= queue'[j].depth
  <2>1. CASE UNCHANGED <<visited, queue>>
    BY <1>1, <2>1 DEF Frontier
  <2>2. CASE e.to \notin visited /\ visited' = visited \cup {e.to}
             /\ queue' = Append(queue, n)
    <3>1. n \in QueueEntry /\ n.node = e.to /\ n.depth = cur.depth + 1
      BY <1>5 DEF Entry, QueueEntry
    <3> HIDE DEF n
    <3>2. PICK j \in DOMAIN queue' :
            /\ queue'[j] = n
            /\ \A i \in DOMAIN queue' : i # j => i \in DOMAIN queue /\ i < j
      BY <1>2, <2>2, <3>1, AppendFacts
    <3>3. \A i \in DOMAIN queue' : i # j => queue'[i] = queue[i]
      BY <1>2, <2>2, <3>1, <3>2, AppendFacts
    <3>4. Hops => cur.depth + 1 <= job.hops
      BY <1>4, <1>5, <1>9
    <3>5. ASSUME NEW i \in DOMAIN queue'
          PROVE  /\ queue'[i].node \in visited'
                 /\ At(queue'[i].node, queue'[i].depth)
                 /\ cur.depth <= queue'[i].depth
                 /\ queue'[i].depth <= cur.depth + 1
                 /\ Hops => queue'[i].depth <= job.hops
      <4>1. CASE i = j
        BY <4>1, <1>5, <1>6, <2>2, <3>1, <3>2, <3>4
      <4>2. CASE i # j
        BY <4>2, <1>1, <2>2, <3>2, <3>3 DEF Frontier
      <4> QED
        BY <4>1, <4>2
    <3>6. ASSUME NEW h \in DOMAIN queue', NEW i \in DOMAIN queue', h <= i
          PROVE  queue'[h].depth <= queue'[i].depth
      <4>1. DOMAIN queue' \subseteq Nat
        BY <1>2, <2>2, <3>1, AppendProperties, LenProperties
      <4>2. CASE i = j
        <5>1. queue'[h].depth <= cur.depth + 1
          BY <3>5
        <5> QED
          BY <4>2, <5>1, <3>1, <3>2
      <4>3. CASE i # j
        <5>1. h # j
          BY <3>6, <4>1, <4>3, <3>2
        <5> QED
          BY <1>1, <3>6, <4>3, <5>1, <3>2, <3>3 DEF Frontier
      <4> QED
        BY <4>2, <4>3
    <3> QED
      BY <3>5, <3>6
  <2> QED
    BY <2>1, <2>2 DEF Discovers, e
<1>11. /\ \A i \in DOMAIN pending' : pending'[i].from = cur.node
       /\ Ball(cur.depth) \subseteq visited'
       /\ At(cur.node, cur.depth)
       /\ job.src \in visited'
       /\ Hops => job.hops > 0
       /\ Path => job.src # job.dst
  BY <1>1, <1>3, <1>7 DEF Frontier
<1>12. Frontier'
  BY <1>4, <1>10, <1>11, Stays DEF Frontier
<1> QED
  BY <1>7, <1>12 DEF e

LEMMA CoveredAfterPop ==
  ASSUME SearchInv, pc = "search", pending = <<>>, queue # <<>>,
         cur' = Head(queue), queue' = Tail(queue),
         UNCHANGED <<job, scan, visited, found>>,
         Path => cur'.node # job.dst,
         \A e \in Edges(scan) : e.from = cur'.node /\ (Hops => cur'.depth < job.hops)
                                  => \E i \in DOMAIN pending' : pending'[i] = e
  PROVE  Covered'
<1>1. TypeOK /\ Frontier /\ Covered /\ job \in Jobs
  BY DEF SearchInv
<1>2. queue \in Seq(QueueEntry)
  BY <1>1 DEF TypeOK, QueueEntry
<1>3. /\ cur' = queue[1] /\ 1 \in DOMAIN queue /\ cur' \in QueueEntry
      /\ \A i \in DOMAIN queue : i # 1 => i - 1 \in DOMAIN queue'
                                          /\ queue'[i - 1] = queue[i]
  BY <1>2, TailFacts
<1>4. ASSUME NEW e \in Edges(scan), e.from = cur'.node,
             Hops => cur'.node \in Ball(job.hops - 1)
      PROVE  Hops => cur'.depth < job.hops
  <2> SUFFICES ASSUME Hops PROVE cur'.depth < job.hops
    OBVIOUS
  <2>1. /\ job.hops - 1 \in Nat /\ job.hops \in Nat /\ cur'.depth \in Nat
    BY <1>1, <1>3, JobAssumption DEF Frontier, Hops, QueueEntry
  <2>2. At(cur'.node, cur'.depth)
    BY <1>1, <1>3 DEF Frontier
  <2>3. cur'.depth <= job.hops - 1
    BY <1>4, <2>1, <2>2, AtLeast
  <2> QED
    BY <2>1, <2>3
<1> SUFFICES ASSUME NEW n \in visited, ~Queued(n)'
             PROVE  /\ Path => n # job.dst
                    /\ \A e \in Edges(scan) :
                         e.from = n /\ (Hops => n \in Ball(job.hops - 1))
                           => Met(e) \/ Pending(e)'
  BY Stays DEF Covered, Met
<1>5. CASE n = cur'.node
  BY <1>4, <1>5 DEF Pending
<1>6. CASE n # cur'.node
  <2>1. ~Queued(n)
    <3> SUFFICES ASSUME NEW i \in DOMAIN queue, queue[i].node = n PROVE FALSE
      BY DEF Queued
    <3>1. i # 1
      BY <1>3, <1>6
    <3> QED
      BY <1>3, <3>1 DEF Queued
  <2>2. \A e : ~Pending(e)
    BY DEF Pending
  <2> QED
    BY <1>1, <2>1, <2>2 DEF Covered
<1> QED
  BY <1>5, <1>6

LEMMA CoveredAfterEdge ==
  ASSUME SearchInv, pc = "search", pending # <<>>,
         pending' = Tail(pending), UNCHANGED <<job, scan>>,
         Discovers(Head(pending).to),
         \A i \in DOMAIN found : \E j \in DOMAIN found' : found'[j] = found[i],
         Hops => \E j \in DOMAIN found' : found'[j] = Head(pending)
  PROVE  Covered'
<1>0. PICK e : e = Head(pending)
  OBVIOUS
<1> DEFINE q == Entry(e.to, cur.depth + 1)
<1>1. TypeOK /\ Frontier /\ Covered /\ scan \in Scans
  BY DEF SearchInv
<1>2. /\ pending \in Seq(Edges(scan)) /\ queue \in Seq(QueueEntry) /\ cur \in QueueEntry
  BY <1>1 DEF TypeOK, QueueEntry
<1>3. /\ e = pending[1] /\ 1 \in DOMAIN pending /\ e \in Edges(scan)
      /\ \A i \in DOMAIN pending : i # 1 => i - 1 \in DOMAIN pending'
                                            /\ pending'[i - 1] = pending[i]
  BY <1>0, <1>2, TailFacts
<1>4. Met(e)'
  BY <1>0, Stays DEF Met, Discovers
<1>5. \A x : Met(x) => Met(x)'
  <2>1. visited \subseteq visited'
    BY DEF Discovers
  <2> QED
    BY <2>1, Stays DEF Met
<1>6. \A x : Pending(x) => Met(x)' \/ Pending(x)'
  <2> SUFFICES ASSUME NEW x, NEW i \in DOMAIN pending, pending[i] = x
               PROVE  Met(x)' \/ Pending(x)'
    BY DEF Pending
  <2>1. CASE i = 1
    BY <1>3, <1>4, <2>1
  <2>2. CASE i # 1
    <3>1. i - 1 \in DOMAIN pending' /\ pending'[i - 1] = x
      BY <1>3, <2>2
    <3> QED
      BY <3>1 DEF Pending
  <2> QED
    BY <2>1, <2>2
<1>7. \A n : Queued(n) => Queued(n)'
  <2>1. CASE queue' = queue
    BY <2>1 DEF Queued
  <2>2. CASE queue' = Append(queue, q)
    <3>1. q \in QueueEntry
      BY <1>1, <1>2, <1>3, EdgeFacts DEF Entry, QueueEntry
    <3> HIDE DEF q
    <3>2. \A i \in DOMAIN queue : i \in DOMAIN queue' /\ queue'[i] = queue[i]
      BY <1>2, <2>2, <3>1, AppendFacts
    <3> QED
      BY <3>2 DEF Queued
  <2> QED
    BY <1>0, <2>1, <2>2 DEF Discovers
<1>8. ASSUME NEW n \in visited', n \notin visited PROVE Queued(n)'
  <2>1. n = e.to /\ queue' = Append(queue, q)
    BY <1>0, <1>8 DEF Discovers
  <2>2. q \in QueueEntry /\ q.node = e.to
    BY <1>1, <1>2, <1>3, EdgeFacts DEF Entry, QueueEntry
  <2> HIDE DEF q
  <2>3. PICK j \in DOMAIN queue' : queue'[j] = q
    BY <1>2, <2>1, <2>2, AppendFacts
  <2> QED
    BY <2>1, <2>2, <2>3 DEF Queued
<1> SUFFICES ASSUME NEW n \in visited', ~Queued(n)'
             PROVE  /\ Path => n # job.dst
                    /\ \A x \in Edges(scan) :
                         x.from = n /\ (Hops => n \in Ball(job.hops - 1))
                           => Met(x)' \/ Pending(x)'
  BY Stays DEF Covered
<1>9. n \in visited /\ ~Queued(n)
  BY <1>7, <1>8
<1> QED
  BY <1>1, <1>5, <1>6, <1>9 DEF Covered

-----------------------------------------------------------------------------
(* n_hops *)

LEMMA HopsExpandInv ==
  ASSUME SearchInv, HopsExpand
  PROVE  SearchInv'
<1>1. /\ TypeOK /\ Frontier /\ Covered /\ scan \in Scans /\ job \in Jobs
      /\ pc = "search" /\ Hops /\ ~Path /\ pending = <<>> /\ queue # <<>>
      /\ Listed
  BY DEF SearchInv, HopsExpand, Searching, Hops, Path
<1>2. /\ cur' = Head(queue) /\ queue' = Tail(queue)
      /\ UNCHANGED <<job, scan, visited, seen, found, parent, pc>>
  BY DEF HopsExpand
<1>3. pending' = IF cur'.depth >= job.hops THEN <<>> ELSE scan[cur'.node]
  BY DEF HopsExpand
<1>4. queue \in Seq(QueueEntry) /\ job.hops \in Nat
  BY <1>1, JobAssumption DEF TypeOK, QueueEntry, Hops
<1>5. /\ cur' \in QueueEntry /\ queue' \in Seq(QueueEntry)
  BY <1>1, <1>2, <1>4, TailFacts
<1>6. cur'.node \in Nodes /\ cur'.depth \in Nat
  BY <1>5 DEF QueueEntry
<1>7. /\ pending' \in Seq(Edges(scan))
      /\ \A i \in DOMAIN pending' : pending'[i].from = cur'.node
      /\ pending' # <<>> => cur'.depth < job.hops
  <2>1. CASE cur'.depth >= job.hops
    BY <1>3, <2>1, EmptySeq
  <2>2. CASE ~(cur'.depth >= job.hops)
    BY <1>1, <1>3, <1>4, <1>6, <2>2, EdgeFacts
  <2> QED
    BY <2>1, <2>2
<1>8. \A e \in Edges(scan) : e.from = cur'.node /\ cur'.depth < job.hops
                               => \E i \in DOMAIN pending' : pending'[i] = e
  <2> SUFFICES ASSUME NEW e \in Edges(scan), e.from = cur'.node, cur'.depth < job.hops
               PROVE  \E i \in DOMAIN pending' : pending'[i] = e
    OBVIOUS
  <2>1. pending' = scan[cur'.node]
    BY <1>3, <1>4, <1>6
  <2> QED
    BY <1>1, <2>1, EdgeFacts
<1>9. Frontier'
  BY <1>1, <1>2, <1>7, FrontierAfterPop
<1>10. Covered'
  BY <1>1, <1>2, <1>8, CoveredAfterPop
<1>11. TypeOK'
  BY <1>1, <1>2, <1>5, <1>7 DEF TypeOK, QueueEntry
<1>12. Listed'
  BY <1>1, <1>2, Stays DEF Listed
<1> QED
  BY <1>1, <1>2, <1>9, <1>10, <1>11, <1>12, Stays DEF SearchInv

LEMMA HopsEdgeInv ==
  ASSUME SearchInv, HopsEdge
  PROVE  SearchInv'
<1>1. /\ TypeOK /\ Frontier /\ Covered /\ scan \in Scans /\ job \in Jobs
      /\ pc = "search" /\ Hops /\ ~Path /\ pending # <<>>
      /\ Listed
  BY DEF SearchInv, HopsEdge, Searching, Hops, Path
<1>2. PICK e : e = Head(pending)
  OBVIOUS
<1>3. /\ pending' = Tail(pending)
      /\ UNCHANGED <<job, scan, cur, parent, pc>>
      /\ IF e.id \in seen THEN UNCHANGED <<seen, found>>
         ELSE seen' = seen \cup {e.id} /\ found' = Append(found, e)
      /\ IF e.id \in seen \/ e.to \in visited THEN UNCHANGED <<visited, queue>>
         ELSE /\ visited' = visited \cup {e.to}
              /\ queue' = Append(queue, Entry(e.to, cur.depth + 1))
  BY <1>2 DEF HopsEdge
<1>4. /\ pending \in Seq(Edges(scan)) /\ found \in Seq(Edges(scan))
      /\ queue \in Seq(QueueEntry) /\ cur \in QueueEntry /\ visited \subseteq Nodes
      /\ seen \subseteq {x.id : x \in Edges(scan)} /\ job.hops \in Nat
  BY <1>1, JobAssumption DEF TypeOK, QueueEntry, Hops
<1>5. /\ e \in Edges(scan) /\ pending' \in Seq(Edges(scan)) /\ e = pending[1]
      /\ 1 \in DOMAIN pending
  BY <1>1, <1>2, <1>3, <1>4, TailFacts
<1>6. /\ e.from = cur.node /\ cur.depth < job.hops /\ job.hops > 0
      /\ At(cur.node, cur.depth)
  BY <1>1, <1>5 DEF Frontier
<1>7. e.from \in Ball(job.hops - 1) /\ e.from \in Nodes /\ e.to \in Nodes
  <2>1. cur.depth \in Nat /\ cur.depth <= job.hops - 1 /\ job.hops - 1 \in Nat
    BY <1>4, <1>6 DEF QueueEntry
  <2> QED
    BY <1>1, <1>5, <1>6, <2>1, EdgeFacts, BallFacts DEF At
<1>8. ASSUME e.id \in seen
      PROVE  e.to \in visited /\ \E i \in DOMAIN found : found[i] = e
  <2>1. PICK i \in DOMAIN found : found[i].id = e.id
    BY <1>1, <1>8 DEF Listed
  <2>2. found[i] \in Edges(scan)
    BY <1>4, LenProperties, ElementOfSeq
  <2>3. found[i] = e
    BY <1>1, <1>5, <2>1, <2>2, EdgeFacts
  <2> QED
    BY <1>1, <2>3 DEF Listed
<1>9. Discovers(e.to)
  BY <1>3, <1>8 DEF Discovers
<1>10. /\ found' \in Seq(Edges(scan))
       /\ \A i \in DOMAIN found : i \in DOMAIN found' /\ found'[i] = found[i]
       /\ \E j \in DOMAIN found' : found'[j] = e
  <2>1. CASE e.id \in seen
    BY <1>3, <1>4, <1>8, <2>1
  <2>2. CASE e.id \notin seen
    <3>1. found' = Append(found, e)
      BY <1>3, <2>2
    <3> DEFINE S == Edges(scan)
    <3>2. found \in Seq(S) /\ e \in S
      BY <1>4, <1>5
    <3> HIDE DEF S
    <3>3. /\ found' \in Seq(S)
          /\ \A i \in DOMAIN found : i \in DOMAIN found' /\ found'[i] = found[i]
          /\ \E j \in DOMAIN found' : found'[j] = e
      BY <3>1, <3>2, AppendFacts
    <3> QED
      BY <3>3 DEF S
  <2> QED
    BY <2>1, <2>2
<1>11. Frontier' /\ visited \subseteq visited' /\ e.to \in visited'
  BY <1>1, <1>2, <1>3, <1>9, FrontierAfterEdge
<1>12. Covered'
  <2>1. \A i \in DOMAIN found : \E j \in DOMAIN found' : found'[j] = found[i]
    BY <1>10
  <2> QED
    BY <1>1, <1>2, <1>3, <1>9, <1>10, <2>1, CoveredAfterEdge
<1>13. Listed'
  <2>1. CASE e.id \in seen
    BY <1>1, <1>3, <1>11, <2>1, Stays DEF Listed
  <2>2. CASE e.id \notin seen
    <3>1. found' = Append(found, e) /\ seen' = seen \cup {e.id}
      BY <1>3, <2>2
    <3>2. PICK j \in DOMAIN found' :
            /\ found'[j] = e
            /\ \A i \in DOMAIN found' : i # j => i \in DOMAIN found /\ i < j
      <4> DEFINE S == Edges(scan)
      <4>1. found \in Seq(S) /\ e \in S
        BY <1>4, <1>5
      <4> HIDE DEF S
      <4> QED
        BY <3>1, <4>1, AppendFacts
    <3>3. \A i \in DOMAIN found' : i # j => i \in DOMAIN found /\ found'[i] = found[i]
      BY <1>10, <3>2
    <3>4. ASSUME NEW i \in DOMAIN found'
          PROVE  /\ found'[i].from \in Ball(job.hops - 1)
                 /\ found'[i].to \in visited'
                 /\ found'[i].id \in seen'
      <4>1. CASE i = j
        BY <1>7, <1>11, <3>1, <3>2, <4>1
      <4>2. CASE i # j
        BY <1>1, <1>11, <3>1, <3>3, <4>2 DEF Listed
      <4> QED
        BY <4>1, <4>2
    <3>5. ASSUME NEW h \in DOMAIN found', NEW i \in DOMAIN found',
                 found'[h].id = found'[i].id
          PROVE  h = i
      <4>1. \A k \in DOMAIN found : found[k].id # e.id
        BY <1>1, <2>2 DEF Listed
      <4> QED
        BY <1>1, <3>2, <3>3, <3>5, <4>1 DEF Listed
    <3>6. \A x \in seen' : \E i \in DOMAIN found' : found'[i].id = x
      <4>1. \A x \in seen : \E i \in DOMAIN found' : found'[i].id = x
        BY <1>1, <1>10 DEF Listed
      <4> QED
        BY <3>1, <3>2, <4>1
    <3> QED
      BY <1>3, <1>6, <3>4, <3>5, <3>6, Stays DEF Listed
  <2> QED
    BY <2>1, <2>2
<1>14. TypeOK'
  <2>1. queue' \in Seq(QueueEntry) /\ visited' \subseteq Nodes
    <3> DEFINE q == Entry(e.to, cur.depth + 1)
    <3>1. q \in QueueEntry
      BY <1>4, <1>7 DEF Entry, QueueEntry
    <3>2. visited' \subseteq visited \cup {e.to} /\ queue' \in {queue, Append(queue, q)}
      BY <1>9 DEF Discovers
    <3> HIDE DEF q
    <3>3. Append(queue, q) \in Seq(QueueEntry)
      BY <1>4, <3>1, AppendFacts
    <3> QED
      BY <1>4, <1>7, <3>2, <3>3
  <2>2. seen' \subseteq {x.id : x \in Edges(scan)}
    BY <1>3, <1>4, <1>5
  <2> QED
    BY <1>1, <1>3, <1>5, <1>10, <2>1, <2>2 DEF TypeOK, QueueEntry
<1> QED
  BY <1>1, <1>3, <1>11, <1>12, <1>13, <1>14, Stays DEF SearchInv

LEMMA HopsDoneInv ==
  ASSUME SearchInv, HopsDone
  PROVE  SearchInv'
<1>1. /\ TypeOK /\ Frontier /\ Covered /\ scan \in Scans /\ job \in Jobs
      /\ pc = "search" /\ Hops /\ ~Path /\ pending = <<>> /\ queue = <<>>
      /\ Listed
  BY DEF SearchInv, HopsDone, Searching, Hops, Path
<1>2. /\ UNCHANGED <<job, scan, queue, cur, pending, visited, seen, found, parent>>
      /\ pc' = "done"
  BY DEF HopsDone
<1>3. job.hops \in Nat /\ job.hops > 0 /\ job.hops - 1 \in Nat
  BY <1>1, JobAssumption DEF Frontier, Hops
<1>4. \A n : ~Queued(n)
  BY <1>1 DEF Queued
<1>5. \A e : ~Pending(e)
  BY <1>1 DEF Pending
<1>6. \A e \in Edges(scan) :
        e.from \in visited /\ e.from \in Ball(job.hops - 1) => Met(e)
  BY <1>1, <1>4, <1>5 DEF Covered
<1>7. Ball(job.hops - 1) \subseteq visited
  <2>1. ASSUME NEW e \in Edges(scan), NEW k \in Nat, k < job.hops - 1,
               e.from \in visited, e.from \in Within(scan, job.src, k)
        PROVE  e.to \in visited
    <3>1. Ball(k) \subseteq Ball(job.hops - 1)
      BY <1>3, <2>1, BallFacts
    <3> QED
      BY <1>6, <2>1, <3>1 DEF Ball, Met
  <2>2. job.src \in visited
    BY <1>1 DEF Frontier
  <2> QED
    BY <1>3, <2>1, <2>2, ClosedHoldsBalls DEF Ball
<1>8. {found[i] : i \in DOMAIN found}
        = {e \in Edges(scan) : job.hops > 0 /\ e.from \in Ball(job.hops - 1)}
  <2>1. ASSUME NEW i \in DOMAIN found
        PROVE  found[i] \in Edges(scan) /\ found[i].from \in Ball(job.hops - 1)
    <3>1. found \in Seq(Edges(scan))
      BY <1>1 DEF TypeOK
    <3> QED
      BY <1>1, <3>1, LenProperties, ElementOfSeq DEF Listed
  <2>2. ASSUME NEW e \in Edges(scan), e.from \in Ball(job.hops - 1)
        PROVE  \E i \in DOMAIN found : found[i] = e
    BY <1>1, <1>6, <1>7, <2>2 DEF Met
  <2> QED
    BY <1>3, <2>1, <2>2
<1>9. HopsExact'
  BY <1>1, <1>2, <1>8 DEF HopsExact, Listed, Ball
<1>10. PathShortest'
  BY <1>1, <1>2 DEF PathShortest, Path
<1>11. TypeOK' /\ Listed'
  BY <1>1, <1>2, Stays DEF TypeOK, Listed
<1> QED
  BY <1>1, <1>2, <1>9, <1>10, <1>11, Stays DEF SearchInv

-----------------------------------------------------------------------------
(* shortest_path *)

LEMMA PathExpandInv ==
  ASSUME SearchInv, PathExpand
  PROVE  SearchInv'
<1>1. /\ TypeOK /\ Frontier /\ Covered /\ scan \in Scans /\ job \in Jobs
      /\ pc = "search" /\ Path /\ ~Hops /\ pending = <<>> /\ queue # <<>>
      /\ Parents /\ found = <<>> /\ DOMAIN parent = visited \ {job.src}
  BY DEF SearchInv, PathExpand, Searching, Hops, Path
<1>2. /\ cur' = Head(queue) /\ queue' = Tail(queue)
      /\ UNCHANGED <<job, scan, visited, seen, found, parent>>
  BY DEF PathExpand
<1>3. queue \in Seq(QueueEntry)
  BY <1>1 DEF TypeOK, QueueEntry
<1>4. /\ cur' \in QueueEntry /\ queue' \in Seq(QueueEntry) /\ cur' = queue[1]
      /\ 1 \in DOMAIN queue
  BY <1>1, <1>2, <1>3, TailFacts
<1>5. cur'.node \in Nodes /\ cur'.depth \in Nat
  BY <1>4 DEF QueueEntry
<1>6. Parents'
  BY <1>1, <1>2, Stays DEF Parents
<1>7. CASE cur'.node = job.dst
  <2>1. pc' = "back" /\ pending' = pending
    BY <1>7 DEF PathExpand
  <2>2. TypeOK'
    BY <1>1, <1>2, <1>4, <2>1 DEF TypeOK, QueueEntry
  <2>3. /\ At(cur'.node, cur'.depth) /\ At(job.dst, cur'.depth)
        /\ Ball(cur'.depth) \ {job.src} \subseteq DOMAIN parent
        /\ job.src # job.dst
    BY <1>1, <1>4, <1>7, NextReached DEF Frontier
  <2>4. WayBack'
    <3>1. Len(found') = 0 /\ found' = <<>>
      BY <1>1, <1>2
    <3>2. Consecutive'
      BY <3>1 DEF Consecutive
    <3>3. \E k \in Nat : /\ At(cur'.node, k)
                         /\ At(job.dst, k + Len(found'))
                         /\ Ball(k) \ {job.src} \subseteq DOMAIN parent
      BY <1>5, <2>3, <3>1
    <3> QED
      BY <1>1, <1>2, <1>7, <2>3, <3>1, <3>2, <3>3, Stays DEF WayBack
  <2> QED
    BY <1>1, <1>2, <1>6, <2>1, <2>2, <2>4, Stays DEF SearchInv
<1>8. CASE cur'.node # job.dst
  <2>1. pc' = pc /\ pending' = scan[cur'.node]
    BY <1>8 DEF PathExpand
  <2>2. /\ pending' \in Seq(Edges(scan))
        /\ \A i \in DOMAIN pending' : pending'[i].from = cur'.node
        /\ \A e \in Edges(scan) : e.from = cur'.node
                                    => \E i \in DOMAIN pending' : pending'[i] = e
    BY <1>1, <1>5, <2>1, EdgeFacts
  <2>3. Frontier'
    BY <1>1, <1>2, <2>2, FrontierAfterPop
  <2>4. Covered'
    BY <1>1, <1>2, <1>8, <2>2, CoveredAfterPop
  <2>5. TypeOK'
    BY <1>1, <1>2, <1>4, <2>1, <2>2 DEF TypeOK, QueueEntry
  <2> QED
    BY <1>1, <1>2, <1>6, <2>1, <2>3, <2>4, <2>5, Stays DEF SearchInv
<1> QED
  BY <1>7, <1>8

LEMMA PathEdgeInv ==
  ASSUME SearchInv, PathEdge
  PROVE  SearchInv'
<1>1. /\ TypeOK /\ Frontier /\ Covered /\ scan \in Scans /\ job \in Jobs
      /\ pc = "search" /\ Path /\ ~Hops /\ pending # <<>>
      /\ Parents /\ found = <<>> /\ DOMAIN parent = visited \ {job.src}
  BY DEF SearchInv, PathEdge, Searching, Hops, Path
<1>2. PICK e : e = Head(pending)
  OBVIOUS
<1>3. /\ pending' = Tail(pending)
      /\ UNCHANGED <<job, scan, cur, seen, found, pc>>
      /\ IF e.to \in visited THEN UNCHANGED <<visited, queue, parent>>
         ELSE /\ visited' = visited \cup {e.to}
              /\ parent' = [n \in DOMAIN parent \cup {e.to} |->
                              IF n = e.to THEN e ELSE parent[n]]
              /\ queue' = Append(queue, Entry(e.to, cur.depth + 1))
  BY <1>2 DEF PathEdge
<1>4. /\ pending \in Seq(Edges(scan)) /\ queue \in Seq(QueueEntry) /\ cur \in QueueEntry
      /\ visited \subseteq Nodes /\ cur.depth \in Nat
  BY <1>1 DEF TypeOK, QueueEntry
<1>5. /\ e \in Edges(scan) /\ pending' \in Seq(Edges(scan)) /\ e = pending[1]
      /\ 1 \in DOMAIN pending
  BY <1>1, <1>2, <1>3, <1>4, TailFacts
<1>6. e.from = cur.node /\ At(e.from, cur.depth) /\ e.to \in Nodes
  BY <1>1, <1>5, EdgeFacts DEF Frontier
<1>7. Discovers(e.to)
  BY <1>3 DEF Discovers
<1>8. Frontier'
  BY <1>1, <1>2, <1>3, <1>7, FrontierAfterEdge
<1>9. Covered'
  BY <1>1, <1>2, <1>3, <1>7, CoveredAfterEdge
<1>10. /\ Parents' /\ DOMAIN parent' = visited' \ {job.src}
       /\ \A n \in DOMAIN parent' : parent'[n] \in Edges(scan)
  <2>1. CASE e.to \in visited
    BY <1>1, <1>3, <2>1, Stays DEF Parents, TypeOK
  <2>2. CASE e.to \notin visited
    <3>1. /\ DOMAIN parent' = DOMAIN parent \cup {e.to}
          /\ visited' = visited \cup {e.to}
          /\ parent'[e.to] = e
          /\ \A n \in DOMAIN parent : n # e.to => parent'[n] = parent[n]
      BY <1>3, <2>2
    <3>2. job.src \in visited /\ Ball(cur.depth) \subseteq visited
      BY <1>1 DEF Frontier
    <3>3. At(e.to, cur.depth + 1)
      BY <1>4, <1>5, <1>6, <2>2, <3>2, AtOnward
    <3>4. ASSUME NEW n \in DOMAIN parent'
          PROVE  /\ parent'[n].to = n
                 /\ \E k \in Nat : At(n, k + 1) /\ At(parent'[n].from, k)
      <4>1. CASE n = e.to
        BY <1>4, <1>6, <3>1, <3>3, <4>1
      <4>2. CASE n # e.to
        BY <1>1, <3>1, <4>2 DEF Parents
      <4> QED
        BY <4>1, <4>2
    <3>5. Parents'
      BY <1>3, <3>4, Stays DEF Parents
    <3> QED
      BY <1>1, <1>5, <2>2, <3>1, <3>2, <3>5 DEF TypeOK
  <2> QED
    BY <2>1, <2>2
<1>11. TypeOK'
  <2>1. queue' \in Seq(QueueEntry) /\ visited' \subseteq Nodes
    <3> DEFINE q == Entry(e.to, cur.depth + 1)
    <3>1. q \in QueueEntry
      BY <1>4, <1>6 DEF Entry, QueueEntry
    <3>2. visited' \subseteq visited \cup {e.to} /\ queue' \in {queue, Append(queue, q)}
      BY <1>7 DEF Discovers
    <3> HIDE DEF q
    <3>3. Append(queue, q) \in Seq(QueueEntry)
      BY <1>4, <3>1, AppendFacts
    <3> QED
      BY <1>4, <1>6, <3>2, <3>3
  <2> QED
    BY <1>1, <1>3, <1>5, <1>10, <2>1 DEF TypeOK, QueueEntry
<1> QED
  BY <1>1, <1>3, <1>8, <1>9, <1>10, <1>11, Stays DEF SearchInv

LEMMA PathNoneInv ==
  ASSUME SearchInv, PathNone
  PROVE  SearchInv'
<1>1. /\ TypeOK /\ Frontier /\ Covered /\ scan \in Scans /\ job \in Jobs
      /\ pc = "search" /\ Path /\ ~Hops /\ pending = <<>> /\ queue = <<>>
  BY DEF SearchInv, PathNone, Searching, Hops, Path
<1>2. /\ UNCHANGED <<job, scan, queue, cur, pending, visited, seen, found, parent>>
      /\ pc' = "nopath"
  BY DEF PathNone
<1>3. /\ \A n : ~Queued(n)
      /\ \A e : ~Pending(e)
  BY <1>1 DEF Queued, Pending
<1>4. /\ job.dst \notin visited
      /\ \A e \in Edges(scan) : e.from \in visited => e.to \in visited
  BY <1>1, <1>3 DEF Covered, Met
<1>5. Cardinality(Nodes) \in Nat
  BY ScanAssumption, FS_CardinalityType
<1>6. Within(scan, job.src, Cardinality(Nodes)) \subseteq visited
  BY <1>1, <1>4, <1>5, ClosedHoldsBalls DEF Frontier
<1>7. PathShortest' /\ HopsExact'
  BY <1>1, <1>2, <1>4, <1>6 DEF PathShortest, HopsExact, Hops
<1>8. TypeOK'
  BY <1>1, <1>2 DEF TypeOK
<1> QED
  BY <1>1, <1>2, <1>7, <1>8, Stays DEF SearchInv

LEMMA ConsFacts ==
  ASSUME NEW S, NEW q \in Seq(S), NEW e \in S
  PROVE  LET t == <<e>> \o q
         IN /\ t \in Seq(S) /\ Len(t) = Len(q) + 1 /\ Len(q) \in Nat
            /\ t[1] = e
            /\ \A i \in 1..Len(q) : t[i + 1] = q[i]
<1>1. <<e>> \in Seq(S) /\ Len(<<e>>) = 1 /\ <<e>>[1] = e
  OBVIOUS
<1>2. Len(q) \in Nat
  BY LenProperties
<1> QED
  BY <1>1, <1>2, ConcatProperties

LEMMA PathBackInv ==
  ASSUME SearchInv, PathBack
  PROVE  SearchInv'
<1>1. /\ TypeOK /\ scan \in Scans /\ job \in Jobs
      /\ pc = "back" /\ Path /\ ~Hops /\ WayBack /\ Parents
  BY DEF SearchInv, PathBack, WayBack, Hops, Path
<1>2. PICK k \in Nat : /\ At(cur.node, k)
                       /\ At(job.dst, k + Len(found))
                       /\ Ball(k) \ {job.src} \subseteq DOMAIN parent
  BY <1>1 DEF WayBack
<1>3. cur.node \in DOMAIN parent
  BY <1>1, <1>2 DEF WayBack, At
<1>4. PICK e \in Edges(scan) : e = parent[cur.node]
  BY <1>1, <1>3 DEF TypeOK
<1>5. /\ found' = <<e>> \o found
      /\ parent' = [n \in DOMAIN parent \ {cur.node} |-> parent[n]]
      /\ cur' = Entry(e.from, 0)
      /\ pc' = IF e.from = job.src THEN "done" ELSE "back"
      /\ UNCHANGED <<job, scan, queue, pending, visited, seen>>
  BY <1>3, <1>4 DEF PathBack
<1>6. cur'.node = e.from /\ cur' \in [node : Nodes, depth : Nat]
  BY <1>1, <1>5, EdgeFacts DEF Entry
<1>7. PICK m \in Nat : At(cur.node, m + 1) /\ At(e.from, m)
  BY <1>1, <1>3, <1>4 DEF Parents
<1>8. k = m + 1
  <2>1. m + 1 \in Nat
    OBVIOUS
  <2>2. k <= m + 1 /\ m + 1 <= k
    BY <1>2, <1>7, <2>1, AtLeast DEF At
  <2> QED
    BY <2>2
<1>9. found \in Seq(Edges(scan)) /\ e.to = cur.node
  BY <1>1, <1>3, <1>4 DEF TypeOK, Parents
<1>10. /\ found' \in Seq(Edges(scan)) /\ Len(found') = Len(found) + 1 /\ Len(found) \in Nat
       /\ found'[1] = e
       /\ \A i \in 1..Len(found) : found'[i + 1] = found[i]
  <2> DEFINE S == Edges(scan)
  <2>1. found \in Seq(S) /\ e \in S
    BY <1>9
  <2> HIDE DEF S
  <2>2. /\ found' \in Seq(S) /\ Len(found') = Len(found) + 1 /\ Len(found) \in Nat
        /\ found'[1] = e
        /\ \A i \in 1..Len(found) : found'[i + 1] = found[i]
    BY <1>5, <2>1, ConsFacts
  <2> QED
    BY <2>2 DEF S
<1>11. /\ found' # <<>>
       /\ found'[1].from = e.from
       /\ found'[Len(found')].to = job.dst
  <2>1. found' # <<>>
    <3>1. Len(found') # 0
      BY <1>10
    <3> QED
      BY <1>10, <3>1, EmptySeq
  <2>2. CASE found = <<>>
    <3>1. Len(found) = 0
      BY <2>2
    <3>2. Len(found') = 1
      BY <1>10, <3>1
    <3>3. cur.node = job.dst
      BY <1>1, <2>2 DEF WayBack
    <3> QED
      BY <1>9, <1>10, <2>1, <3>2, <3>3
  <2>3. CASE found # <<>>
    <3>1. Len(found) \in 1..Len(found)
      BY <1>9, <1>10, <2>3, EmptySeq
    <3>2. found'[Len(found')] = found[Len(found)]
      BY <1>10, <3>1
    <3>3. found[Len(found)].to = job.dst
      BY <1>1, <2>3 DEF WayBack
    <3> QED
      BY <1>10, <2>1, <3>2, <3>3
  <2> QED
    BY <2>2, <2>3
<1>12. Consecutive'
  <2> SUFFICES ASSUME NEW i \in 1..(Len(found') - 1)
               PROVE  found'[i].to = found'[i + 1].from
    BY DEF Consecutive
  <2>1. i \in 1..Len(found) /\ found'[i + 1] = found[i]
    BY <1>10
  <2>2. CASE i = 1
    <3>1. found # <<>> /\ found[1].from = cur.node
      BY <1>1, <1>9, <2>1, <2>2, EmptySeq DEF WayBack
    <3> QED
      BY <1>9, <1>10, <2>1, <2>2, <3>1
  <2>3. CASE i # 1
    <3>1. i - 1 \in 1..(Len(found) - 1) /\ i - 1 \in 1..Len(found) /\ (i - 1) + 1 = i
      BY <1>10, <2>1, <2>3
    <3>2. found'[i] = found[i - 1]
      BY <1>10, <3>1
    <3>3. found[i - 1].to = found[i].from
      BY <1>1, <3>1 DEF WayBack, Consecutive
    <3> QED
      BY <2>1, <3>2, <3>3
  <2> QED
    BY <2>2, <2>3
<1>13. /\ At(job.dst, m + Len(found'))
       /\ Ball(m) \ {job.src} \subseteq DOMAIN parent'
  <2>1. k + Len(found) = m + Len(found')
    BY <1>8, <1>10
  <2>2. m <= k /\ (m + 1) - 1 = m /\ m + 1 # 0
    BY <1>8
  <2>3. Ball(m) \subseteq Ball(k)
    BY <2>2, BallFacts
  <2>4. cur.node \notin Ball(m)
    BY <1>7, <2>2 DEF At
  <2> QED
    BY <1>2, <1>5, <2>1, <2>3, <2>4
<1>14. TypeOK'
  BY <1>1, <1>5, <1>6, <1>10 DEF TypeOK
<1>15. Parents'
  BY <1>1, <1>5, Stays DEF Parents
<1>16. CASE e.from = job.src
  <2>1. m = 0
    <3>1. m <= 0
      BY <1>7, <1>16, AtLeast, AtSource DEF At
    <3> QED
      BY <3>1
  <2>2. job.dst \notin Within(scan, job.src, Len(found') - 1)
    <3>1. 0 + Len(found') = Len(found') /\ Len(found') # 0
      BY <1>10
    <3> QED
      BY <1>13, <2>1, <3>1 DEF At, Ball
  <2>3. \A i \in DOMAIN found' : found'[i] \in Edges(scan)
    BY <1>10, LenProperties, ElementOfSeq
  <2>4. pc' = "done"
    BY <1>5, <1>16
  <2>5. PathShortest' /\ HopsExact'
    BY <1>1, <1>5, <1>11, <1>12, <1>16, <2>2, <2>3, <2>4
       DEF PathShortest, HopsExact, Hops, Consecutive
  <2> QED
    BY <1>1, <1>5, <1>14, <2>4, <2>5, Stays DEF SearchInv
<1>17. CASE e.from # job.src
  <2>1. WayBack'
    BY <1>1, <1>5, <1>6, <1>7, <1>11, <1>12, <1>13, <1>17, Stays DEF WayBack
  <2> QED
    BY <1>1, <1>5, <1>14, <1>15, <1>17, <2>1, Stays DEF SearchInv
<1> QED
  BY <1>16, <1>17

-----------------------------------------------------------------------------
(* The invariant *)

LEMMA InitSearch == Init => SearchInv
<1> SUFFICES ASSUME NEW j \in Jobs, NEW s \in Scans, Start(j, s)
             PROVE  SearchInv
  BY DEF Init
<1>1. /\ job = j /\ scan = s /\ j.src \in Nodes
      /\ queue = <<Entry(j.src, 0)>> /\ cur = Entry(j.src, 0)
      /\ pending = <<>> /\ visited = {j.src} /\ seen = {} /\ found = <<>>
      /\ parent = [n \in {} |-> n]
      /\ pc \in {"search", "done"}
  BY JobAssumption DEF Start
<1>2. cur.node = j.src /\ cur.depth = 0 /\ cur \in QueueEntry
  BY <1>1 DEF Entry, QueueEntry
<1>3. /\ queue \in Seq(QueueEntry) /\ DOMAIN queue = {1} /\ queue[1] = cur
  BY <1>1, <1>2
<1>4. TypeOK
  <2>1. pending \in Seq(Edges(scan)) /\ found \in Seq(Edges(scan))
    BY <1>1
  <2>2. DOMAIN parent = {}
    BY <1>1
  <2>3. DOMAIN scan = Nodes
    BY <1>1, ScanAssumption
  <2> QED
    BY <1>1, <1>2, <1>3, <2>1, <2>2, <2>3 DEF TypeOK, QueueEntry
<1>5. Ball(0) = {j.src} /\ At(j.src, 0)
  BY <1>1, BallFacts, AtSource
<1>6. CASE pc = "search"
  <2>1. /\ Hops => job.hops # 0
        /\ Path => job.src # job.dst
    BY <1>1, <1>6 DEF Start, Hops, Path
  <2>2. Hops => job.hops \in Nat
    BY <1>1, JobAssumption DEF Hops
  <2>3. Frontier
    BY <1>1, <1>2, <1>3, <1>5, <2>1, <2>2 DEF Frontier
  <2>4. Covered
    BY <1>1, <1>2, <1>3 DEF Covered, Queued
  <2>5. Listed
    BY <1>1 DEF Listed
  <2>6. Parents /\ DOMAIN parent = visited \ {job.src}
    BY <1>1 DEF Parents
  <2> QED
    BY <1>1, <1>4, <1>6, <2>3, <2>4, <2>5, <2>6 DEF SearchInv
<1>7. CASE pc = "done"
  <2>1. /\ Hops => job.hops = 0
        /\ Path => job.src = job.dst
    BY <1>1, <1>7 DEF Start, Hops, Path
  <2>2. HopsExact
    BY <1>1, <2>1 DEF HopsExact, Hops
  <2>3. PathShortest
    BY <1>1, <1>7, <2>1 DEF PathShortest, Path
  <2>4. Listed
    BY <1>1 DEF Listed
  <2> QED
    BY <1>1, <1>4, <1>7, <2>2, <2>3, <2>4 DEF SearchInv
<1> QED
  BY <1>1, <1>6, <1>7

LEMMA SearchStep == SearchInv /\ [Next]_vars => SearchInv'
<1> SUFFICES ASSUME SearchInv, [Next]_vars
             PROVE  SearchInv'
  OBVIOUS
<1>1. CASE HopsExpand
  BY <1>1, HopsExpandInv
<1>2. CASE HopsEdge
  BY <1>2, HopsEdgeInv
<1>3. CASE HopsDone
  BY <1>3, HopsDoneInv
<1>4. CASE PathExpand
  BY <1>4, PathExpandInv
<1>5. CASE PathEdge
  BY <1>5, PathEdgeInv
<1>6. CASE PathNone
  BY <1>6, PathNoneInv
<1>7. CASE PathBack
  BY <1>7, PathBackInv
<1>8. CASE UNCHANGED vars
  BY <1>8 DEF vars, SearchInv, TypeOK, Frontier, Covered, Queued, Pending, Met, Listed,
              Parents, Consecutive, WayBack, HopsExact, PathShortest, Ball, At, Hops, Path
<1> QED
  BY <1>1, <1>2, <1>3, <1>4, <1>5, <1>6, <1>7, <1>8 DEF Next

-----------------------------------------------------------------------------
(* The order of the results *)

\* What n_hops has returned so far starts no farther away than the entry in
\* hand, and nearer edges come first.
Nearest ==
  Hops =>
    /\ \A i \in DOMAIN found : found[i].from \in Ball(cur.depth)
    /\ \A i, j \in DOMAIN found, k \in Nat :
         i < j /\ found[j].from \in Ball(k) => found[i].from \in Ball(k)

LEMMA InitNearest == Init => Nearest
<1> SUFFICES ASSUME Init PROVE Nearest
  OBVIOUS
<1>1. found = <<>> /\ DOMAIN found = {}
  BY DEF Init, Start
<1> QED
  BY <1>1 DEF Nearest

LEMMA HopsExpandNearest ==
  ASSUME SearchInv, HopsExpand, Nearest
  PROVE  Nearest'
<1>1. /\ Frontier /\ Hops /\ queue # <<>> /\ queue \in Seq(QueueEntry) /\ cur \in QueueEntry
      /\ cur' = Head(queue) /\ UNCHANGED <<job, scan, found>>
  BY DEF SearchInv, HopsExpand, Searching, Hops, TypeOK, QueueEntry
<1>2. 1 \in DOMAIN queue /\ cur' = queue[1] /\ queue[1] \in QueueEntry
  BY <1>1, TailFacts
<1>3. cur.depth <= cur'.depth /\ cur.depth \in Nat /\ cur'.depth \in Nat
  BY <1>1, <1>2 DEF Frontier, QueueEntry
<1>4. Ball(cur.depth) \subseteq Ball(cur'.depth)
  BY <1>3, BallFacts
<1> QED
  BY <1>1, <1>4, Stays DEF Nearest

LEMMA HopsEdgeNearest ==
  ASSUME SearchInv, HopsEdge, Nearest
  PROVE  Nearest'
<1>1. /\ Frontier /\ Hops /\ pending # <<>> /\ pending \in Seq(Edges(scan))
      /\ found \in Seq(Edges(scan)) /\ cur.depth \in Nat
      /\ UNCHANGED <<job, scan, cur>>
  BY DEF SearchInv, HopsEdge, Searching, Hops, TypeOK
<1>2. PICK e : /\ e = Head(pending)
               /\ found' = found \/ found' = Append(found, e)
  BY DEF HopsEdge
<1>3. e = pending[1] /\ 1 \in DOMAIN pending /\ e \in Edges(scan)
  BY <1>1, <1>2, TailFacts
<1>4. At(e.from, cur.depth)
  BY <1>1, <1>3 DEF Frontier
<1>5. CASE found' = found
  BY <1>1, <1>5, Stays DEF Nearest
<1>6. CASE found' = Append(found, e)
  <2> DEFINE S == Edges(scan)
  <2>1. found \in Seq(S) /\ e \in S
    BY <1>1, <1>3
  <2> HIDE DEF S
  <2>2. PICK n \in DOMAIN found' :
          /\ found'[n] = e
          /\ \A i \in DOMAIN found' : i # n => i \in DOMAIN found /\ i < n
    BY <1>6, <2>1, AppendFacts
  <2>3. \A i \in DOMAIN found : i \in DOMAIN found' /\ found'[i] = found[i]
    BY <1>6, <2>1, AppendFacts
  <2>4. \A i \in DOMAIN found' : found'[i].from \in Ball(cur.depth)
    BY <1>1, <1>4, <2>2, <2>3 DEF Nearest, At
  <2>5. ASSUME NEW i \in DOMAIN found', NEW j \in DOMAIN found', NEW k \in Nat,
               i < j, found'[j].from \in Ball(k)
        PROVE  found'[i].from \in Ball(k)
    <3>1. CASE j = n
      <4>1. cur.depth <= k
        BY <1>1, <1>4, <2>2, <2>5, <3>1, AtLeast
      <4>2. Ball(cur.depth) \subseteq Ball(k)
        BY <1>1, <4>1, BallFacts
      <4> QED
        BY <2>4, <4>2
    <3>2. CASE j # n
      <4>0. DOMAIN found' \subseteq Int
        <5>1. found' \in Seq(S)
          BY <1>6, <2>1, AppendFacts
        <5> QED
          BY <5>1, LenProperties
      <4>1. j \in DOMAIN found /\ j < n
        BY <2>2, <3>2
      <4>2. i # n /\ i \in DOMAIN found
        BY <2>2, <2>5, <4>0, <4>1
      <4> QED
        BY <1>1, <2>3, <2>5, <4>1, <4>2 DEF Nearest
    <3> QED
      BY <3>1, <3>2
  <2> QED
    BY <1>1, <2>4, <2>5, Stays DEF Nearest
<1> QED
  BY <1>2, <1>5, <1>6

LEMMA NearestStep == SearchInv /\ Nearest /\ [Next]_vars => Nearest'
<1> SUFFICES ASSUME SearchInv, Nearest, [Next]_vars
             PROVE  Nearest'
  OBVIOUS
<1>1. CASE HopsExpand
  BY <1>1, HopsExpandNearest
<1>2. CASE HopsEdge
  BY <1>2, HopsEdgeNearest
<1>3. CASE HopsDone \/ UNCHANGED vars
  BY <1>3, Stays DEF HopsDone, vars, Nearest
<1>4. CASE PathExpand \/ PathEdge \/ PathNone
  BY <1>4 DEF PathExpand, PathEdge, PathNone, Searching, Nearest, Hops
<1>5. CASE PathBack
  BY <1>5 DEF PathBack, SearchInv, WayBack, Path, Nearest, Hops
<1> QED
  BY <1>1, <1>2, <1>3, <1>4, <1>5 DEF Next

-----------------------------------------------------------------------------
(* The theorems *)

\* The invariant the search keeps between its steps: breadth first order of the
\* queue, everything nearer than the entry in hand visited, and every edge of a
\* visited node that is not queued any more met.
THEOREM SearchInvariant == Spec => []SearchInv
  BY InitSearch, SearchStep, PTL DEF Spec

\* The queue holds nodes with depths, the results hold edges of the scanner, and
\* the parents are edges of the scanner filed under nodes.
THEOREM SearchTypeCorrect == Spec => []TypeOK
<1>1. SearchInv => TypeOK
  BY DEF SearchInv
<1> QED
  BY <1>1, SearchInvariant, PTL

\* n_hops, on every finite graph and from every node, returns exactly the edges
\* that start fewer than `hops` hops from the source, each once.
THEOREM HopsCorrect == Spec => []HopsExact
<1>1. SearchInv => HopsExact
  BY DEF SearchInv, TypeOK, HopsExact
<1> QED
  BY <1>1, SearchInvariant, PTL

\* shortest_path, on every finite graph, returns a walk that no walk is shorter
\* than, and None only when no walk leads to the destination.
THEOREM PathCorrect == Spec => []PathShortest
<1>1. SearchInv => PathShortest
  BY DEF SearchInv, TypeOK, PathShortest
<1> QED
  BY <1>1, SearchInvariant, PTL

=============================================================================
