CONSTANTS
  Gpu = {g1}
  Name = {link}
  NoCheck = NoCheck
  Detail <- MCDetail
  Check <- MCCheck
  Counts = {0}
  ReadCap = 2
SPECIFICATION Spec
CHECK_DEADLOCK FALSE
INVARIANT AnyFailExits3
