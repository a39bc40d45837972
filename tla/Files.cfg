SPECIFICATION Spec
CONSTANTS
  PAGE_SIZE = 3
  W = 5
  MAX_SLOTS = 8
  Tasks = {"t1"}
  FileIds = {f1, f2, f3}
  Nodes <- AllNodes
  Kind <- KindOf
  MAX_OPEN_FILES = 5
  COPY_BUFFER_SIZE = 2
  VMM_ADDR_SPLIT = 20
  Buffer <- Bytes
  Seeks <- SeekTo
  Line <- TypedLine
  Programs <- TwoPrograms
  TotalPages = 2
SYMMETRY OpenFileIds
INVARIANTS DescriptorsCounted PagesAccounted
PROPERTIES KeepsPromises
CHECK_DEADLOCK FALSE
