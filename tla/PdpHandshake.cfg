SPECIFICATION Spec
CONSTANT Script <- WholeScript
INVARIANTS NoSignalAfterFree FreedDrained ArmPersists
PROPERTIES OwnAnswers WaitsReturn
CHECK_DEADLOCK FALSE
