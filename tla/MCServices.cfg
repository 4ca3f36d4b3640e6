SPECIFICATION SuiteSpec
CONSTANTS
    Clients = {c1, c2}
    Plain = {c1}
    MaxLaunch = 3
    Checked = {"launch", "route", "app", "threads", "pool", "mail", "web", "api",
               "settings", "performance", "terminal", "recording", "pairing"}
    Commands = 3
    BigPictures = {2}
    Tasks = {"t1", "t2", "t3"}
    Delays = {0, 1, 2}
    PoolTime = 3
    Producers = {"p", "q"}
    MaxSent = 2
    MaxElements = 1
    Ids = {"i", "j"}
    Lifetime = 2
    Limit = 1
    Window = 1
    WebTime = 2
    MaxCreds = 2
    Shells = {"s", "t"}
    Persistent = {"s"}
    Conns = {"c"}
    Feeds = {"f", "g"}
    QueueBytes = 2
    Capacities = {1, 2}
    MaxCommands = 2
    MaxFrames = 2
    MaxFiles = 2
    Devices = {"d", "e"}
    Uids = {"u", "v"}
    MaxPending = 2
    Timeout = 2
    PingTimeout = 1
    MaxClock = 3
    MaxIds = 2
    OwnedKeys = {"gpu"}
    PlainKeys = {"plain"}
    SettingValues = {1, 2}
    Players = {"c"}
    Networks = {"lan", "wan"}
    HomeNetwork = "lan"
    MaxProfiles = 2
    CustomProfiles = {"mine"}
    LowestPower = 2
    HighestPower = 4
INVARIANTS
    PendingIsRemoved
    RouteAsDocumented
    ApplicationIsUndone
    WaitersAreServed
    WebIsGuarded
    SettingsAreKept
    NoShellLeftBehind
    OneStreamPerRecording
    OnlyApprovedClients
PROPERTIES
    LaunchDiscarded
    PhysicalUndoRuns
CHECK_DEADLOCK FALSE
