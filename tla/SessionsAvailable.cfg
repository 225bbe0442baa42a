SPECIFICATION Spec
CONSTANTS
    Streams = {s1}
    NoStream = NoStream
    Rates = {44, 48}
    ChimeRate = 48
    PlayerDies = FALSE
    Peers = {p1}
    Nobody = Nobody
    MaxConns = 2
    Delays = {0, 1}
    Volumes = {0, 1}
    Untold = Untold
    Speaker = 48
    Bluetooth = 44
    Foci = {"delay"}
    DuckedEvents = 2
    Clients = {alexa, alarm}
    Requests = {2, 3}
    NoClient = NoClient
    Untouched = Untouched
    DuckEvents = 3
    Visits = 1
    Events = 4
PROPERTIES
    NeverWithdrawn
CHECK_DEADLOCK FALSE
