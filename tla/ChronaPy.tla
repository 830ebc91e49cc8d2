------------------------------- MODULE ChronaPy -------------------------------
(***************************************************************************)
(* Threads of a Python program that share one chrona.Db (crates/chrona-py).*)
(*                                                                         *)
(* Three locks meet in a call: the GIL, which a thread holds all through a *)
(* method of the module, as none releases it; the mutex around the core    *)
(* handle, held while a transaction or a snapshot is begun; and the writer *)
(* lock of the core, held by an open WriteTxn from Db.write() until        *)
(* commit(), __exit__ or its drop.  A WriteTxn is used by its own thread   *)
(* only (unsendable), so the writer lock is named by its thread.           *)
(*                                                                         *)
(* The GIL is external: between two calls a thread may lose it at any      *)
(* time.  What is stored is the matter of ChronaDb and left out.           *)
(***************************************************************************)
CONSTANTS Thread, NoThread,
          Writers       \* the threads that open write transactions

ASSUME ThreadAssumption == NoThread \notin Thread /\ Writers \subseteq Thread

VARIABLES gil, mutex, writer,  \* the holder of each lock, or NoThread
          pc,                  \* where a thread is
          txn,                 \* a thread's WriteTxn: what its cell holds
          snaps                \* the threads with an open Snapshot

vars == <<gil, mutex, writer, pc, txn, snaps>>

Init ==
  /\ gil = NoThread
  /\ mutex = NoThread
  /\ writer = NoThread
  /\ pc = [t \in Thread |-> "python"]
  /\ txn = [t \in Thread |-> "none"]
  /\ snaps = {}

-----------------------------------------------------------------------------
(* The interpreter *)

Runs(t) == gil = t /\ pc[t] = "python"

Goes(t, from, to) == pc[t] = from /\ pc' = [pc EXCEPT ![t] = to]

TakeGil(t) ==
  /\ gil = NoThread
  /\ gil' = t
  /\ UNCHANGED <<mutex, writer, pc, txn, snaps>>

YieldGil(t) ==
  /\ Runs(t)
  /\ gil' = NoThread
  /\ UNCHANGED <<mutex, writer, pc, txn, snaps>>

-----------------------------------------------------------------------------
(* Db.write and WriteTxn *)

\* Nothing keeps a thread from calling it inside its own transaction.
CallWrite(t) ==
  /\ t \in Writers
  /\ gil = t
  /\ Goes(t, "python", "write")
  /\ UNCHANGED <<gil, mutex, writer, txn, snaps>>

LockForWrite(t) ==
  /\ mutex = NoThread
  /\ Goes(t, "write", "begin")
  /\ mutex' = t
  /\ UNCHANGED <<gil, writer, txn, snaps>>

\* The wait for the writer lock, whoever has it, is with the GIL and the mutex.
\* A WriteTxn the thread had before is closed, and dropped with its name.
BeginWrite(t) ==
  /\ writer = NoThread
  /\ Goes(t, "begin", "python")
  /\ writer' = t
  /\ mutex' = NoThread
  /\ txn' = [txn EXCEPT ![t] = "open"]
  /\ UNCHANGED <<gil, snaps>>

\* Mutant: the cell is emptied and the core's transaction is kept elsewhere.
CommitTxnKeeps(t) ==
  /\ txn[t] = "open"
  /\ Runs(t)
  /\ txn' = [txn EXCEPT ![t] = "closed"]
  /\ UNCHANGED <<gil, mutex, writer, pc, snaps>>

\* commit() takes the transaction out of its cell, also when it then fails;
\* later calls raise "transaction closed".
CommitTxn(t) ==
  /\ txn[t] = "open"
  /\ Runs(t)
  /\ txn' = [txn EXCEPT ![t] = "closed"]
  /\ writer' = NoThread
  /\ UNCHANGED <<gil, mutex, pc, snaps>>

\* Mutant: the exit empties the cell and leaves the transaction unfinished.
LeaveTxnUnfinished(t) ==
  /\ txn[t] # "none"
  /\ Runs(t)
  /\ txn' = [txn EXCEPT ![t] = "none"]
  /\ UNCHANGED <<gil, mutex, writer, pc, snaps>>

\* __exit__, which commits or with an exception aborts what commit() has left
\* open, or the drop of the object, which aborts it.
LeaveTxn(t) ==
  /\ txn[t] # "none"
  /\ Runs(t)
  /\ txn' = [txn EXCEPT ![t] = "none"]
  /\ writer' = IF txn[t] = "open" THEN NoThread ELSE writer
  /\ UNCHANGED <<gil, mutex, pc, snaps>>

-----------------------------------------------------------------------------
(* Db.read, Db.query and Snapshot *)

CallRead(t) ==
  /\ gil = t
  /\ Goes(t, "python", "read")
  /\ UNCHANGED <<gil, mutex, writer, txn, snaps>>

\* Mutant: a snapshot is begun only when nobody writes.
ReadAfterWriter(t) ==
  /\ mutex = NoThread
  /\ writer = NoThread
  /\ Goes(t, "read", "python")
  /\ snaps' = snaps \cup {t}
  /\ UNCHANGED <<gil, mutex, writer, txn>>

\* read() leaves a snapshot open, query() and query_json() drop theirs.  The
\* mutex is taken and given back within the call, in which nothing waits.
Read(t) ==
  /\ mutex = NoThread
  /\ Goes(t, "read", "python")
  /\ snaps' \in {snaps, snaps \cup {t}}
  /\ UNCHANGED <<gil, mutex, writer, txn>>

CloseSnapshot(t) ==
  /\ t \in snaps
  /\ Runs(t)
  /\ snaps' = snaps \ {t}
  /\ UNCHANGED <<gil, mutex, writer, pc, txn>>

-----------------------------------------------------------------------------

Next == \E t \in Thread :
  \/ TakeGil(t) \/ YieldGil(t)
  \/ CallWrite(t) \/ LockForWrite(t) \/ BeginWrite(t)
  \/ CommitTxn(t) \/ LeaveTxn(t)
  \/ CallRead(t) \/ Read(t) \/ CloseSnapshot(t)

\* Native code runs on when it can; the interpreter makes every thread give the
\* GIL up and lets each have its turn; a program leaves its `with` block if it
\* gets to run.  Nothing makes it call anything.
Fairness == \A t \in Thread :
  /\ WF_vars(LockForWrite(t)) /\ WF_vars(BeginWrite(t)) /\ WF_vars(Read(t))
  /\ SF_vars(YieldGil(t)) /\ SF_vars(TakeGil(t))
  /\ SF_vars(LeaveTxn(t))

Spec == Init /\ [][Next]_vars /\ Fairness

-----------------------------------------------------------------------------

TypeOK ==
  /\ {gil, mutex, writer} \subseteq Thread \cup {NoThread}
  /\ pc \in [Thread -> {"python", "write", "begin", "read"}]
  /\ txn \in [Thread -> {"none", "open", "closed"}]
  /\ snaps \subseteq Thread

\* Whoever is in a call holds the GIL, the mutex is held exactly by the thread
\* that waits for the writer lock, and that lock by the one whose WriteTxn is
\* open: none outlives a commit(), a `with` block or an object.
LocksHeld ==
  /\ TypeOK
  /\ \A t \in Thread : pc[t] # "python" => gil = t
  /\ \A t \in Thread : mutex = t <=> pc[t] = "begin"
  /\ \A t \in Thread : writer = t <=> txn[t] = "open"

\* A thread has called write() inside its own transaction: it waits for itself.
SelfBlocked == \E t \in Thread : pc[t] = "begin" /\ txn[t] = "open"

\* Every call of the module returns, unless a thread waits for itself.
CallsReturn ==
  \A t \in Thread : pc[t] # "python" ~> (pc[t] = "python" \/ SelfBlocked)

\* chrona-py/src/lib.rs:159: snapshots "can run concurrently with a writer": a
\* thread with an open snapshot gets to use or to close it, unless a thread waits
\* for itself.
SnapshotsRun ==
  \A t \in Thread : t \in snaps ~> (gil = t \/ t \notin snaps \/ SelfBlocked)

=============================================================================
