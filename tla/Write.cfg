CONSTANTS
  TAM_BUFFER = 6
  NUM_COLUMNS = 4
  NUM_ROWS = 3
  FirstRow = 1
  ClockColumns = {2, 3}
  PAGE_SIZE = 4
  USER_FIRST_PAGE = 2
  NUM_PAG_CODE = 1
  NUM_PAG_DATA = 3
  Addresses = 32
  Lengths <- MCLengths
  Buffers <- MCBuffers
  Newlines <- MCNewlines
  Fds = {0, 1}
SPECIFICATION Spec
CHECK_DEADLOCK FALSE
INVARIANTS
  SentInOrder
  TextOnScreen
  OwnBufferWritten
