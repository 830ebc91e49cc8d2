---------------------------- MODULE ChronaPyProofs ----------------------------
(* The lock discipline of the bindings, for any number of threads. *)
EXTENDS ChronaPy, TLAPS

LEMMA NextLocks == LocksHeld /\ [Next]_vars => LocksHeld'
<1> SUFFICES ASSUME LocksHeld, [Next]_vars
             PROVE  LocksHeld'
  OBVIOUS
<1> USE ThreadAssumption DEF LocksHeld, TypeOK, Goes, Runs
<1>1. ASSUME NEW t \in Thread, TakeGil(t)
      PROVE  LocksHeld'
  BY <1>1 DEF TakeGil
<1>2. ASSUME NEW t \in Thread, YieldGil(t)
      PROVE  LocksHeld'
  BY <1>2 DEF YieldGil
<1>3. ASSUME NEW t \in Thread, CallWrite(t)
      PROVE  LocksHeld'
  BY <1>3 DEF CallWrite
<1>4. ASSUME NEW t \in Thread, LockForWrite(t)
      PROVE  LocksHeld'
  BY <1>4 DEF LockForWrite
<1>5. ASSUME NEW t \in Thread, BeginWrite(t)
      PROVE  LocksHeld'
  BY <1>5 DEF BeginWrite
<1>6. ASSUME NEW t \in Thread, CommitTxn(t)
      PROVE  LocksHeld'
  BY <1>6 DEF CommitTxn
<1>7. ASSUME NEW t \in Thread, LeaveTxn(t)
      PROVE  LocksHeld'
  BY <1>7 DEF LeaveTxn
<1>8. ASSUME NEW t \in Thread, CallRead(t)
      PROVE  LocksHeld'
  BY <1>8 DEF CallRead
<1>9. ASSUME NEW t \in Thread, Read(t)
      PROVE  LocksHeld'
  BY <1>9 DEF Read
<1>10. ASSUME NEW t \in Thread, CloseSnapshot(t)
      PROVE  LocksHeld'
  BY <1>10 DEF CloseSnapshot
<1>11. CASE UNCHANGED vars
  BY <1>11 DEF vars
<1> QED
  BY <1>1, <1>2, <1>3, <1>4, <1>5, <1>6, <1>7, <1>8, <1>9, <1>10,
     <1>11 DEF Next

\* Whoever waits inside a call waits with the GIL, and a waiting writer also
\* with the mutex of the handle: what makes two writer threads deadlock.
THEOREM LocksCorrect == Spec => []LocksHeld
<1>1. Init => LocksHeld
  BY ThreadAssumption DEF Init, LocksHeld, TypeOK
<1> QED
  BY <1>1, NextLocks, PTL DEF Spec

=============================================================================
