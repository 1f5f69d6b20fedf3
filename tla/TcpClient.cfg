SPECIFICATION Spec
CONSTANTS
  Addresses = 2
  Length = 2
  Fds <- SmallFds
  MaxData = 2
INVARIANTS OneSocket NothingLeft
PROPERTIES MainEnds ReaderEnds
CHECK_DEADLOCK FALSE
