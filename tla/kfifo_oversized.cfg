\* kfifo_in() of records longer than their length field can tell.
CONSTANTS
  Base = 2
  IndexRange = 8
  Requests = {4}
  RecSizes = {1}
  Payload = {0, 1}
  MaxLen = 2
  Oversized = TRUE
SPECIFICATION Spec
INVARIANT RecordsWhole
