SPECIFICATION Spec
CONSTANTS
  Services <- BleServices
  Absent = Absent
  MaxChara = 5
  MaxDesc = 5
  Batch = 3
INVARIANTS TypeOK ScanPermission NoOverflow ConfiguresAll AccessOfPeer
PROPERTY ConfiguresPlain
CHECK_DEADLOCK FALSE
