\* At most one block of the memory menu at a time. The clients stop when the heap is full.
CHECK_DEADLOCK FALSE

CONSTANTS
  HeapSize = 200
  Header = 20
  NULL = NULL
  Slots = {1}
  PcbSizes <- MCPcbSizes
  LeakSize = 4
  MessageSize = 15
  AlarmSize = 16
  UserSizes = {40}
  MaxUserBlocks = 1
  PageSize = 64
  TableSpan = 8
  DirSize = 128
  TableSize = 64
  NFrames = 28
  HeapPage = 28
  HeapPages = 5
  Margin = 256
  KernelEnds = {180, 192, 322}

SPECIFICATION BootSpec

INVARIANTS HeapTypeOK AllocatedDisjoint Removable Ascends Tiled AlarmsAllocated NoAlarmLeaked
           IdentityMapped HeapBacked
