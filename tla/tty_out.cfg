SPECIFICATION Spec
CONSTANTS
  NR_CONSOLES = 2
  SCREEN_WIDTH = 2
  SCREEN_SIZE = 4
  V_MEM_LIMIT = 7
  TTY_IN_BYTES = 2
  Printing = {0, 1}
  Key <- MCKey
CHECK_DEADLOCK TRUE
INVARIANTS TypeOK CursorInConsole OwnCells ScrollEnds ShowsCurrent EchoedFirst
PROPERTIES OutCharReturns
