SPECIFICATION Spec
CONSTANTS
  Tasks = {t1, t2}
  ucHeap = 3
  HEAP_SIZE = 33
  ALIGN = 2
  xHeapStructSize = 2
  SIZE_MAX = 127
  Requests = {0, 1, 3, 8, 70, 125, 127}
INVARIANTS
  BlocksTile
  FreeListExact
PROPERTIES
  ImplementsAllocator
