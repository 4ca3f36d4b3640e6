SPECIFICATION Spec
CONSTANTS
    Configs <- MCRetaining
    Keys = {k1}
    NoKey = NoKey
    MaxStreams = 1
INVARIANT StopsOnlyFailedSession
