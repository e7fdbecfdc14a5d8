SPECIFICATION Spec
CONSTANTS
  Messages <- MCMessages
  MaxPackets = 2
  Chunks = {1, 3}
INVARIANT InStep
PROPERTY StreamOfPackets
CHECK_DEADLOCK FALSE
