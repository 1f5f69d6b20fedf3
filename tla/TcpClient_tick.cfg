SPECIFICATION Spec
CONSTANTS
  Addresses = 2
  Length = 2
  Fds <- SmallFds
  MaxData = 2
PROPERTIES DataIsRead
CHECK_DEADLOCK FALSE
