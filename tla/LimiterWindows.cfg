\* Bursts of one key: three requests of one second while Redis answers, four on
\* either side of a window's end while it does not.
CONSTANTS
    Key = {k1}
    Handler = {h1}
    None = None
    Stages <- MCStages
    MaxBurst = 2
    MinWindow = 2
    CleanupAge = 3
    MaxClock = 3
    MaxUnix = 1
    TicksPerSecond = 2
SPECIFICATION SpecWindows
INVARIANT SlidingWindow
CHECK_DEADLOCK FALSE
