SPECIFICATION Spec
CONSTANTS
  Packets <- MCAllPackets
  EditValues = {0, 1, 2, 3, 5, 32, 48, 98, 128, 162, 176, 194, 224, 255}
  MaxEdits = 1
INVARIANTS RoundTripUnlessDefect PrefixesAreRefused
CHECK_DEADLOCK FALSE
