\* Each kind of fifo, of four cells: indices wrap after two rounds.
CONSTANTS
  Base = 2
  IndexRange = 8
  Requests = {5}
  RecSizes = {0, 1, 2}
  Payload = {0, 1}
  MaxLen = 2
  Oversized = FALSE
SPECIFICATION Spec
INVARIANT RegionsDisjoint
PROPERTY ImplementsFifo
