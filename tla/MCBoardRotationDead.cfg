SPECIFICATION Spec
CONSTANTS
  a1 = a1
  a2 = a2
  a3 = a3
  b1 = b1
  greenhouse = greenhouse
  darwinbox = darwinbox
  Boards = {a1, a2, a3, b1}
  AtsOf <- SmallAtsOf
  Routed = {darwinbox}
  Slots = 2
  DropAfter = 1
  BlockHold = 2
  MinSample = 2
  MaxTime = 4
SYMMETRY Symmetry
CHECK_DEADLOCK FALSE
INVARIANTS
  OnlyWallsHold
