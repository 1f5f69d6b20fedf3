SPECIFICATION Spec
CONSTANTS
  MaxTry = 3
  NoMore = 7
  FrameTypes <- AnswerFrames
  MaxFrames = 1
  MaxQueue = 1
PROPERTIES ResetOnlyWithoutSn
CHECK_DEADLOCK FALSE
