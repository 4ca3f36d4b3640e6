SPECIFICATION FairSpec
CONSTANTS
    Sessions = {s1, s2}
    Exits = {}
    Clears = {}
PROPERTIES JoinEnds SilentClientFreed
CHECK_DEADLOCK FALSE
