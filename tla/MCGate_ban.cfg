\* A client is banned, then another connects from its host.
CONSTANTS
    Client = {1, 2}
    Host = {h1, h2}
    h1 = h1
    h2 = h2
    HostOf <- MCHostOf
    MuteArg <- MCMuteArg
    NoArg = noarg
    BadArg = badarg
    DefaultMute = 2
    NoTask = notask
    PerSecond = 2
    PerMinute = 2
    Second = 1
    Minute = 1
    TimeoutTicks = 1
    NoMute = nomute
    Forever = forever
    Never = never
    Worker = {w1}
    Chunk <- MCChunkBan
    MaxChunks = 2
    MaxTotal = 2
    MaxTime = 1
SPECIFICATION Spec
CHECK_DEADLOCK FALSE
INVARIANT BannedHostStaysOut
