\* Two workers take two chunks of one client at once.
CONSTANTS
    Client = {1, 2}
    Host = {h1, h2}
    h1 = h1
    h2 = h2
    HostOf <- MCHostOf
    MuteArg <- MCMuteArg
    NoArg = noarg
    BadArg = badarg
    DefaultMute = 2
    NoTask = notask
    PerSecond = 2
    PerMinute = 1
    Second = 1
    Minute = 1
    TimeoutTicks = 1
    NoMute = nomute
    Forever = forever
    Never = never
    Worker = {w1, w2}
    Chunk <- MCChunkText
    MaxChunks = 2
    MaxTotal = 2
    MaxTime = 1
SPECIFICATION Spec
CHECK_DEADLOCK FALSE
INVARIANT RateLimitHolds
