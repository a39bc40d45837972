SPECIFICATION Spec
CONSTANTS
  PAGE_SIZE = 2
  Memmap <- MCMemmap
  LEVELS = 3
  FANOUT = 4
  BOOT_ROOT = 11
  HHDM_PAGE = 37
  STACK_BYTES = 80
  CtxIds = {c1, c2}
  TaskIds = {"t1"}
  Images <- MCImages
  KSTACK_PAGES = 2
  BootTables <- MCBootTables
  DemandRange <- MCDemandRange
  StackTop = 8
  Touched = {13, 52}
  MapAt = 13
  ArgLists <- MCArgLists
  Starts <- MCStarts
SYMMETRY Contexts
INVARIANTS TypeOK ResourcesAccounted KernelHalfAgrees TlbCoherent ImageLoaded StackWellFormed
CHECK_DEADLOCK FALSE
