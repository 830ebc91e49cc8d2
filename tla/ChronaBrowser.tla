----------------------------- MODULE ChronaBrowser -----------------------------
(***************************************************************************)
(* `chrona tui` (tui.rs) on a file that `chrona demo` seeded, or was       *)
(* seeding when it died.  The browser holds the file's lock while it runs, *)
(* so db stays as it is.  Drawing is left out; so are the header's counts, *)
(* and the highlighted edge, which is always the first.                    *)
(*                                                                         *)
(* A key stands for its aliases too: "q" for Q, "j" for Down, "k" for Up,  *)
(* ":" for / and i, "+" for =, "-" for _.                                  *)
(***************************************************************************)
EXTENDS ChronaDemo

CONSTANTS FirstTs, LastTs,    \* Ts::MIN and Ts::MAX
          Ticks,              \* what Ts::now() says, in any order
          Day, Week, Month,   \* the cursor's steps, in instants
          Typed, MaxInput,    \* characters typed; how many at most
          Accepted            \* the queries that parse and execute

ASSUME BrowserAssumption ==
  /\ {FirstTs, LastTs} \subseteq Int /\ Time = FirstTs .. LastTs /\ Ticks \subseteq Time
  /\ {Day, Week, Month, MaxInput} \subseteq Nat
  /\ \A q \in Accepted : q # <<>> /\ q[1] # " " /\ q[Len(q)] # " "

VARIABLES nodes,     \* names in the left pane
          sel,       \* the selected one, 0 if none
          edges,     \* ids in the right pane
          cursor,    \* the time cursor, NoTs when live
          mode, help,
          input,     \* the query line
          status,    \* what the query pane says of the last query
          shown,     \* the query whose output it shows, <<>> when cleared
          asked      \* history: the query last entered, {} before the first

demoVars  == <<db, seeded>>
listVars  == <<nodes, sel, edges, cursor>>
queryVars == <<input, status, shown, asked>>
vars == <<demoVars, phase, clock, listVars, mode, help, queryVars>>

-----------------------------------------------------------------------------
(* What the panes are filled with *)

\* all_nodes scans the nodes table, whose key is the id.
AllNodes ==
  LET ids == DOMAIN db.nodes
      Nth(k) == CHOOSE i \in ids : Cardinality({j \in ids : j < i}) = k - 1
  IN [k \in 1..Cardinality(ids) |-> db.nodes[Nth(k)].ext]

\* refresh_edges, for the rows, the selection and the cursor given.
EdgesOf(rows, row, at) ==
  IF row = 0 \/ rows[row] \notin DOMAIN db.extIds THEN <<>>
  ELSE ScanInOrder(db, db.fwdAdj, db.extIds[rows[row]],
                   IF at = NoTs THEN clock ELSE at)

\* App::new: nothing loaded, nothing selected.
BeforeOpen == /\ nodes = <<>> /\ sel = 0 /\ edges = <<>> /\ cursor = NoTs
              /\ mode = "normal" /\ help = FALSE
              /\ input = <<>> /\ status = "none" /\ shown = <<>> /\ asked = {}

Init == /\ db = EmptyDb /\ seeded = 0 /\ phase = "seeding" /\ clock \in Ticks
        /\ BeforeOpen

\* refresh: rows and selection first, then the edges.
Refresh ==
  /\ nodes' = AllNodes
  /\ sel' = IF AllNodes = <<>> THEN 0
            ELSE IF sel = 0 THEN 1
            ELSE IF sel > Len(AllNodes) THEN Len(AllNodes) ELSE sel
  /\ edges' = EdgesOf(nodes', sel', cursor)
  /\ UNCHANGED cursor

Open == /\ phase = "seeding"
        /\ phase' = "browsing"
        /\ Refresh
        /\ UNCHANGED <<demoVars, clock, mode, help, queryVars>>

Select(row) == /\ sel' = row
               /\ edges' = EdgesOf(nodes, row, cursor)
               /\ UNCHANGED <<nodes, cursor, mode, help, queryVars>>

PointTo(t) == /\ cursor' = t
              /\ edges' = EdgesOf(nodes, sel, t)
              /\ UNCHANGED <<nodes, sel, mode, help, queryVars>>

-----------------------------------------------------------------------------
(* One key in normal mode *)

Help   == help' = TRUE /\ UNCHANGED <<listVars, mode, queryVars>>
Reload == Refresh /\ UNCHANGED <<mode, help, queryVars>>
Focus  == mode' = "query" /\ UNCHANGED <<listVars, help, queryVars>>

\* Mutant: the selection runs past the last row.
MoveOver(delta) == nodes # <<>> /\ Select(sel + delta)

Move(delta) == nodes # <<>> /\ Select(((sel - 1 + delta) % Len(nodes)) + 1)

Top == nodes # <<>> /\ Select(1)
Bottom == nodes # <<>> /\ Select(Len(nodes))

\* bump_time: the step is taken from the cursor or, when live, from now.
Bumped(delta) ==
  LET next == (IF cursor = NoTs THEN clock ELSE cursor) + delta
  IN IF next < FirstTs THEN FirstTs ELSE IF next > LastTs THEN LastTs ELSE next

\* Mutant: the cursor moves and the edges stay.
BumpAlone(delta) == /\ cursor' = Bumped(delta)
                    /\ UNCHANGED <<nodes, sel, edges, mode, help, queryVars>>

Bump(delta) == PointTo(Bumped(delta))

PressNormal(key) ==
  \/ key = "?"  /\ Help
  \/ key = "r"  /\ Reload
  \/ key = ":"  /\ Focus
  \/ key = "j"  /\ Move(1)
  \/ key = "k"  /\ Move(-1)
  \/ key = "g"  /\ Top
  \/ key = "G"  /\ Bottom
  \/ key = "n"  /\ PointTo(NoTs)
  \/ key = "+"  /\ Bump(Day)
  \/ key = "-"  /\ Bump(-Day)
  \/ key = "]"  /\ Bump(Week)
  \/ key = "["  /\ Bump(-Week)
  \/ key = "shift ]" /\ Bump(Month)
  \/ key = "shift [" /\ Bump(-Month)

-----------------------------------------------------------------------------
(* One key in query mode *)

Trim(s) == LET solid == {k \in DOMAIN s : s[k] # " "}
           IN IF solid = {} THEN <<>>
              ELSE SubSeq(s, CHOOSE k \in solid : \A j \in solid : k <= j,
                             CHOOSE k \in solid : \A j \in solid : j <= k)

\* Mutant: an error leaves the output of an earlier query in the pane.
RunQueryOver ==
  LET q == Trim(input) IN
  /\ \/ q = <<>> /\ status' = "empty" /\ shown' = <<>> /\ UNCHANGED mode
     \/ q \in Accepted /\ status' = "lines" /\ shown' = q /\ mode' = "normal"
     \/ q # <<>> /\ q \notin Accepted /\ status' = "error" /\ UNCHANGED <<mode, shown>>
  /\ asked' = {q}
  /\ UNCHANGED input

RunQuery ==
  LET q == Trim(input) IN
  /\ \/ q = <<>> /\ status' = "empty" /\ shown' = <<>> /\ UNCHANGED mode
     \/ q \in Accepted /\ status' = "lines" /\ shown' = q /\ mode' = "normal"
     \/ q # <<>> /\ q \notin Accepted /\ status' = "error" /\ shown' = <<>> /\ UNCHANGED mode
  /\ asked' = {q}
  /\ UNCHANGED input

Edit(text) == input' = text /\ UNCHANGED <<mode, status, shown, asked>>

\* Mutant: Esc in the query line empties it.
LeaveLineEmpties == Edit(<<>>)

LeaveLine == mode' = "normal" /\ UNCHANGED queryVars

PressQuery(key) ==
  /\ \/ key = "Esc" /\ LeaveLine
     \/ key = "Enter" /\ RunQuery
     \/ key = "Backspace" /\ input # <<>> /\ Edit(SubSeq(input, 1, Len(input) - 1))
     \/ key \in Typed /\ Len(input) < MaxInput /\ Edit(Append(input, key))
  /\ UNCHANGED <<listVars, help>>

-----------------------------------------------------------------------------

Keys == {"q", "Esc", "?", "r", ":", "j", "k", "g", "G", "n", "+", "-", "]", "[",
         "shift ]", "shift [", "Enter", "Backspace"} \cup Typed

\* handle_key; a key that is not listed does nothing.
Press(key) ==
  /\ phase = "browsing"
  /\ \/ help /\ help' = FALSE /\ UNCHANGED <<phase, listVars, mode, queryVars>>
     \/ /\ ~help /\ mode = "normal" /\ key \in {"q", "Esc"}
        /\ phase' = "quit" /\ UNCHANGED <<listVars, mode, help, queryVars>>
     \/ ~help /\ mode = "normal" /\ PressNormal(key) /\ UNCHANGED phase
     \/ ~help /\ mode = "query" /\ PressQuery(key) /\ UNCHANGED phase
  /\ UNCHANGED <<demoVars, clock>>

\* Time passes, or the clock is set back, while the browser waits for a key.
Tick == /\ phase = "browsing"
        /\ clock' \in Ticks
        /\ UNCHANGED <<demoVars, phase, listVars, mode, help, queryVars>>

SeedNext == Seed /\ UNCHANGED <<listVars, mode, help, queryVars>>

Next == SeedNext \/ Open \/ (\E key \in Keys : Press(key)) \/ Tick

Spec == Init /\ [][Next]_vars

-----------------------------------------------------------------------------

TypeOK ==
  /\ phase \in {"seeding", "browsing", "quit"} /\ seeded \in 0..6 /\ clock \in Ticks
  /\ sel \in 0..Len(nodes) /\ (sel = 0 <=> nodes = <<>>)
  /\ \A k \in DOMAIN edges : edges[k] \in DOMAIN db.edges
  /\ cursor \in Time \cup {NoTs}
  /\ mode \in {"normal", "query"} /\ help \in BOOLEAN
  /\ Len(input) <= MaxInput
  /\ status \in {"none", "empty", "error", "lines"}
  /\ shown \in Accepted \cup {<<>>}

ShowsLive(t) ==
  LET live == {i \in DOMAIN db.edges : /\ LiveAt(db.edges[i], t)
                                       /\ ViewEdge(db, i).from = nodes[sel]}
  IN /\ {edges[k] : k \in DOMAIN edges} = live
     /\ Len(edges) = Cardinality(live)
     /\ \A j, k \in DOMAIN edges : j < k => db.edges[edges[j]].vf <= db.edges[edges[k]].vf

\* The right pane is about the row the left pane highlights and the time its own
\* title names, whatever keys led there (refresh_edges is called by hand after
\* each change of selection or cursor).  Live, the time is that of a past key.
PaneExact ==
  phase = "browsing" /\ sel # 0 =>
    IF cursor = NoTs THEN \E t \in Ticks : ShowsLive(t) ELSE ShowsLive(cursor)

\* The query pane answers the query entered last, trimmed, whatever was typed,
\* edited or pressed since: its status is that query's, and it shows that query's
\* output if it was accepted and none of an earlier one if it was not.
OutputAnswers ==
  /\ asked = {} <=> status = "none"
  /\ \A q \in asked :
       status = IF q = <<>> THEN "empty" ELSE IF q \in Accepted THEN "lines" ELSE "error"
  /\ IF status = "lines" THEN shown \in asked ELSE shown = <<>>

\* From the help, the query line or the lists, a user who keeps pressing Esc and
\* no other key leaves the browser.
EscLeaves ==
  <>[][Press("Esc") \/ Tick]_vars /\ WF_vars(Press("Esc"))
    => (phase = "browsing" ~> phase = "quit")

=============================================================================
