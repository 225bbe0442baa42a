SPECIFICATION Spec
CONSTANTS
    Streams = {s1, s2, s3}
    NoStream = NoStream
    Rates = {44, 48}
    ChimeRate = 48
    PlayerDies = TRUE
    Peers = {p1, p2}
    Nobody = Nobody
    MaxConns = 2
    Delays = {0, 1}
    Volumes = {0, 1}
    Untold = Untold
    Speaker = 48
    Bluetooth = 44
    Foci = {"stream", "delay", "output", "volume", "close", "duck"}
    DuckedEvents = 2
    Clients = {alexa, alarm}
    Requests = {3}
    NoClient = NoClient
    Untouched = Untouched
    DuckEvents = 3
    Visits = 2
    Events = 5
INVARIANTS
    TypeOK
    SettledIsTold
    OpenIsNeverRefused
    OpenIsHeard
    DuckedAsHeld
SYMMETRY Interchangeable
CHECK_DEADLOCK FALSE
