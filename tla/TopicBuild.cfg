SPECIFICATION Spec
CONSTANTS
    MAXIMUM_TOPIC_BYTE_LENGTH = 5
    Paths = {"a", "bb"}
    Joined = "/"
    Invalid = "a+"
    Bytes <- MCBytes
    MaxInputLevels = 2
INVARIANTS FilterIsWellFormed LengthIsBounded MatchesWhereLengthsFit
