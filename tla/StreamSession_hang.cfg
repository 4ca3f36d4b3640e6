SPECIFICATION FairSpec
CONSTANTS
    Sessions = {s1, s2}
    Exits = {"app"}
    Clears = {}
PROPERTIES JoinEnds
CHECK_DEADLOCK FALSE
