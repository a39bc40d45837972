SPECIFICATION Spec
CONSTANTS
  t1 = t1
  t2 = t2
  t3 = t3
  Tasks = {t1, t2, t3}
  NULL = NULL
  BOOT = BOOT
  CountMod = 1
  Chars = {"a"}
  LDISC_BUF_SIZE = 2
  ReadSizes = {1, 2}
  RxDepth = 1
SYMMETRY Symmetry
INVARIANTS TypeOK NeverSpins NoLostWakeup RunsCurrent LeavesByOwnFrame NoPanic
  IdlesOnlyWhenNothingReady
PROPERTIES DeadNeverRunsAgain
