SPECIFICATION Spec
CONSTANTS
    Sessions = {s1, s2}
    Exits = {"app", "service"}
    Clears = {"all", "record"}
SYMMETRY Symmetry
INVARIANTS FreedIsUnused ContextServesWorkers
PROPERTIES StopIsFinal
CHECK_DEADLOCK FALSE
