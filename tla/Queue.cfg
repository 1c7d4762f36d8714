SPECIFICATION Spec
CONSTANTS
  Total = 3
  Frames = {f1, f2}
  Empty = Empty
  Torn = Torn
  Threads = {"recv", "read"}
  Uses <- BothUses
INVARIANTS TypeOK CopiesStayInside PopsTheOldest
PROPERTIES IsBoundedQueue
