SPECIFICATION SuiteSpec
CONSTANTS
    Checked = {"screen", "portal", "steam", "identity", "display", "parse",
               "boot", "options", "network", "sources"}
    ScreenBuffers = {"b1"}
    ScreenImages <- TwoImages
    PortalRequests = 6
    SteamPids = {1, 2}
    SteamCompositor = 9
    SteamStarts = 2
    HostPids = {1, 2, 3}
    HostStarts = 4
    ServiceLaunches = 1
    Monitors = {"tv", "lcd"}
    DisplayEvents = 4
    RemapEntries <- Entries
    MaxRemaps = 2
    ConfigFiles <- OptionTexts
    CommandLines <- OptionArgs
    HostServices = {"config", "x52"}
    RouterPorts = {"rtsp", "web"}
    RouterRounds = 1
    ScreenHosts <- AnyHost
    SourceChanges = 3
INVARIANTS
    SourcesAreVerified
    

    
CHECK_DEADLOCK FALSE
