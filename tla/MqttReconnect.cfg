SPECIFICATION Spec
CONSTANTS
  t1 = t1
  t2 = t2
  t3 = t3
  t4 = t4
  main = main
  callback = callback
  Threads <- FourThreads
  Main <- main
  Callback <- callback
  MaxConnects = 3
  MaxCloses = 1
INVARIANTS Population
PROPERTIES GivesUpWhenRefused AnswerOrStuck
CHECK_DEADLOCK FALSE
