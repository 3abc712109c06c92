SPECIFICATION MCSpec
CONSTANTS
  Parts = {"vmm"}
  OpSets = {{"fork", "evict"}}
  p1 = p1
  p2 = p2
  f1 = f1
  f2 = f2
  f3 = f3
  s1 = s1
  s2 = s2
  None = None
  Junk = Junk
  Proc <- TwoProcs
  Frame <- ThreeFrames
  Slot <- TwoSlots
  Value = {0, 1}
  NumPages = 5
  StackBottom = 3
  MaxOrder = 2
  HeapStart = 4
  HeapSize = 10
  MaxAddr = 11
  HeapFrames = 1
SYMMETRY VmSymmetry
CHECK_DEADLOCK FALSE
INVARIANT FramesOwned
