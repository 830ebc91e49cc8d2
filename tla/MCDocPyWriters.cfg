SPECIFICATION Spec
CONSTANTS
  Thread = {t1, t2, t3}
  NoThread = NoThread
  Writers = {t1,t2}
CHECK_DEADLOCK FALSE
PROPERTY SnapshotsRun
