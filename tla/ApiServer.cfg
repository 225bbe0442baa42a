SPECIFICATION Spec
CONSTANTS
    Conns = {c1, c2}
    Keys = {"microphone_muted", "network_adb", "speaker", "speaker_playing", "alexa_command"}
    Values = {0, 1, 2, 3, 4, 5, 6, 7, 8, 9, 10, 11}
    None = None
    MaxConns = 2
    SendQueue = 1
    ListFrames = 1
    MicNone = MicNone
    MicAsks = 2
    MicFaults = 1
    AdbNone = AdbNone
    AdbAsks = 2
    AdbFaults = 1
    VolMax = 2
    VolAsks = 3
    VolFaults = 1
    Texts = {0, 1}
    Empty = 0
    Workers = {w1, w2}
    CommandQueue = 2
    CmdAsks = 5
    Clips = 2
    ClipFaults = 1
    SoundOnDelay = 2
    SoundOffDelay = 2
    SoundGap = 2
    NoTime = NoTime
    SoundFlips = 2
    HeavyEvery = 2
    Foci = {"clients", "press", "sound", "mic", "adb", "volume", "mute", "command", "play"}
INVARIANTS
    TypeOK
    NoSendAfterClose
    SubscribersAgree
    LastAskStands
    CommandsInOrder
PROPERTIES
    EventuallyTold
    PlayingEnds
CHECK_DEADLOCK FALSE
