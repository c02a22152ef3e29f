SPECIFICATION Spec
CONSTANTS
  Files = {a, b}
  Root = Root
  None = None
  Programs = {a}
  Clusters = {2, 3, 4, 5}
  first_cluster = 2
  MaxChain = 2
  sec_per_cluster = 2
  lba_start = 1
  reserved_area_nsec = 2
  nsec_per_fat = 1
  HeapSize = 36
  Room = 16
CHECK_DEADLOCK FALSE
INVARIANTS
  WholeFile
