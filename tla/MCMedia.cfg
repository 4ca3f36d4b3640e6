SPECIFICATION SuiteSpec
CONSTANTS
    Checked = {"queue", "keys", "pads", "combos", "capture", "hdr", "probe", "rate",
               "pace", "idr"}
    Packets <- MCPackets
    Capacity = 2
    MaxShort = 2
    MaxSent = 4
    MaxResets = 1
    LettersTyped <- MCLetters
    MaxKeyEvents = 5
    PadSessions = {"c1", "c2", "d1"}
    PadOwners <- MCClientOf
    PadSlots = {1, 2}
    Controllers = {1}
    MaxPadInputs = 3
    MaxPadTasks = 2
    PadButtons = {"start", "back", "a"}
    TurboTargets = {"start", "back", "a"}
    TurboModifiers = {"start"}
    SavedShortcuts <- MCShortcuts
    MaxShortcuts = 2
    MaxReports = 3
    MaxEdits = 3
    Streams = {"a", "b"}
    MaxDisplays = 2
    Players = {"a"}
    MaxChanges = 1
    Order <- MCOrder
    Modes = {0, 3}
    MaxProbes = 2
    Ceilings = {40, 12}
    AdminMax = 30
    MaxWindows = 6
    Period = 2
    StaticAfter = 3
    Keepalive = 5
    Lag = 3
    MaxTicks = 12
    Viewers = {"a", "b"}
    Window = 2
    MaxMoments = 3
    MaxLosses = 1
INVARIANTS
    InputIsAccounted
    NoStreamWithoutCapture
    SessionPolicyHolds
    RateIsSteady
    AcceptedIdrIsKept
CHECK_DEADLOCK FALSE
