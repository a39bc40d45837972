SPECIFICATION Spec
CONSTANTS
  t1 = t1
  t2 = t2
  t3 = t3
  t4 = t4
  Tasks = {t1, t2, t3, t4}
  NULL = NULL
SYMMETRY Symmetry
INVARIANTS TypeOK OneRing BoundedWait
PROPERTIES ImplementsReadyQueue
CHECK_DEADLOCK FALSE
