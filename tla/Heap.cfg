SPECIFICATION HeapSpec
CONSTANTS
  PAGE_SIZE = 20
  Memmap <- MCMemmap
  MaxRun = 2
  HEAP_ALIGNMENT = 2
  SIZEOF_BLOCK = 3
  SIZE_MAX = 127
  HHDM_OFFSET = 200
  Ids = {a, b, c}
  Sizes = {0, 2, 19, 127}
  Arrays <- MCArrays
SYMMETRY Callers
INVARIANTS HeapTypeOK PagesConserved NothingOverwritten BlocksTileHeap
