CONSTANTS
  Task = {"t1", "t2"}
  Align = 2
  Header = 2
  SizeMax = 127
  Start = 3
  TotalSize = 33
  Requests <- MCRequests
SPECIFICATION Spec
INVARIANTS Tiled FreeListExact GrantedWhenRoom
PROPERTY ImplementsAllocator
