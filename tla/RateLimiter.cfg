\* Two stages, Redis failing at will, two requests at a time: two windows of
\* the clock in memory, three seconds of Redis.
CONSTANTS
    Key = {k1}
    Handler = {h1, h2}
    None = None
    Stages <- MCStages
    MaxBurst = 2
    MinWindow = 2
    CleanupAge = 3
    MaxClock = 5
    MaxUnix = 2
SPECIFICATION Spec
SYMMETRY Interchangeable
INVARIANTS TypeOK TwoBursts RefusedOnlyIfSlow
PROPERTIES RefusedOnlyWhenFull
