SPECIFICATION Spec
CONSTANTS
  MaxTry = 3
  NoMore = 7
  FrameTypes <- AllFrames
  MaxFrames = 2
  MaxQueue = 2
INVARIANTS MisuseNeedsRepeat
PROPERTIES RequestsStop SnOrReset AttachHappens SelfTestEnds
CHECK_DEADLOCK FALSE
