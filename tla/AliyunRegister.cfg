SPECIFICATION AliyunSpec
CONSTANTS
  t1 = t1
  t2 = t2
  t3 = t3
  main = main
  callback = callback
  Threads <- ThreeThreads
  Main <- main
  Callback <- callback
  MaxConnects = 4
  MaxCloses = 3
INVARIANT RegistrationSettled
CHECK_DEADLOCK FALSE
