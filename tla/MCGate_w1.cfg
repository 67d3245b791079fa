\* One pool worker: rate and connection limits hold.
CONSTANTS
    Client = {1, 2}
    Host = {h1, h2}
    h1 = h1
    h2 = h2
    HostOf <- MCHostOf
    MuteArg <- MCMuteArg
    NoArg = noarg
    BadArg = badarg
    DefaultMute = 2
    NoTask = notask
    PerSecond = 2
    PerMinute = 1
    Second = 1
    Minute = 1
    TimeoutTicks = 1
    NoMute = nomute
    Forever = forever
    Never = never
    Worker = {w1}
    Chunk <- MCChunk
    MaxChunks = 2
    MaxTotal = 1
    MaxTime = 2
SPECIFICATION Spec
CHECK_DEADLOCK FALSE
INVARIANT TypeOK
INVARIANT RateLimitHolds
