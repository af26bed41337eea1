SPECIFICATION EngineSpec
CONSTANT Inputs <- MCInputs
INVARIANTS
  NoPhantomBlock
  NoUnearnedPass
  EveryAnswerIsHeard
PROPERTY FindingsStick
CHECK_DEADLOCK FALSE
