SPECIFICATION Spec
CONSTANTS
  Stream <- UartStream
  Ends <- UartEnds
  ChunkSizes <- UartSizes
  StaleBytes <- StaleChoices
  MaxLen = 257
  Sent <- UartSent
  Garbage <- LineGarbage
  MaxDamaged = 14
INVARIANTS Completable Resync LengthAgrees RoundTrip
CHECK_DEADLOCK FALSE
