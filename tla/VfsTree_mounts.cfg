SPECIFICATION Spec
CONSTANTS
  VFS_NAME_SIZE = 7
  VFS_PATH_MAX = 11
  TAR_BLOCK_SIZE = 2
  TAR_NAME_SIZE = 6
  DIRENT_NAME_OFFSET = 3
  DIRENT_ALIGN = 2
  Initrds <- SomeInitrds
  ConsolePath <- Console
  TestPaths <- Tests
  Dir <- DirA
  Buffers <- SomeBuffers
  Heaps <- SomeHeaps
INVARIANTS MountsCoverSubtrees
CHECK_DEADLOCK FALSE
