SPECIFICATION SuiteSpec
CONSTANTS
    Checked = {"kms", "wlr", "wlrStart", "dxgi", "convert", "fbc", "nvenc", "wire",
               "audioWire", "control", "send", "qos", "audio", "pointer", "pad"}
    KmsPlanes <- Scanouts
    KmsImages = {"i", "j"}
    KmsChanges = 2
    WlrImages = {"i"}
    OutputSizes = {1, 2}
    WlrBuffers = 3
    WlrOpen = 2
    DxgiImages = {"i", "j", "k"}
    DxgiChanges = 2
    Pictures = {1, 2, 3, 4, 5, 7, 8, 9}
    ConvertImages = 4
    FbcToggles = 2
    NvencEncoders = 2
    NvencFrames = 6
    PacketBytes = 2
    PacketHeader = 1
    FrameHeader = 1
    WireSizes = {1, 2, 3, 24, 25, 26, 423, 424, 425, 1693, 1695, 1697, 1698}
    Percents = {1, 20, 100, 255}
    Parities = {0, 2}
    FramesSent = 2
    AudioSpace = 8
    AudioPackets = 13
    Segments = 2
    BatchShards = 5
    SendFaults = 2
    Streamers = {"a", "b"}
    Listeners = {"a", "b"}
    HostEvents = 1
    HoldRetries = 1
    FrameSize = 2
    DeviceFrames = 1
    MaxBurst = 5
    MaxGenerations = 2
    Padders = {"a", "b"}
    Levels = {1, 2}
INVARIANTS
    PicturesAreCurrent
    WireIsSound
    DevicesAreShared
PROPERTIES
    FramesStayWhole
    
CHECK_DEADLOCK FALSE
