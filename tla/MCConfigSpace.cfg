CONSTANTS
  StdFirst = 32
  ExtFirst = 128
  StdHops = 3
  ExtHops = 2
  Images <- MCImages
  Lengths <- MCLengths
SPECIFICATION Spec
CHECK_DEADLOCK FALSE
INVARIANTS PCIeFoundIfListed ACSFoundIfListed
PROPERTY WalkEnds
