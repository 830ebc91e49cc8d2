SPECIFICATION Spec
CONSTANTS
  Thread = {t1, t2, t3}
  NoThread = NoThread
  Writers = {t1}
CHECK_DEADLOCK FALSE
INVARIANT LocksHeld
PROPERTIES CallsReturn SnapshotsRun
