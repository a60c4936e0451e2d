CONSTANTS
  Cmd = {query, nvlink, topo}
  Max = 2
  Chunk = {1, 3}
  WriteCap = 4
SPECIFICATION Spec
CHECK_DEADLOCK FALSE
INVARIANTS TypeOK WholeOrNothing
PROPERTIES KeepsPromise RunReturns
