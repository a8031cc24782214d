\* Two requests, one connection; ten seconds are a unit, the 30 seconds of a
\* forwarded request and of a shutdown count as two.
CONSTANTS
    Handler = {h1, h2}
    None = None
    Endpoint = {change, read}
    RequiresAuth = {change}
    RateLimited = {change}
    Replayable = {read}
    Files <- MCFiles
    ReadTimeout = 1
    WriteTimeout = 1
    RequestTimeout = 2
    ShutdownTimeout = 2
    Late = 1
    MaxCopies = 2
SPECIFICATION FairSpec
INVARIANTS TypeOK CheckedFirst
PROPERTIES RequestsEnd ChangesAtMostOnce NoAnswerLostToShutdown
