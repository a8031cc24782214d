\* Up to three goroutines; two requests with bodies of two chunks.
CONSTANTS
    a = a  b = b  c = c
    incoming = incoming  other = other
    None = None
    Key = {a, b}
    Field = {a, b, c}
    Source = {incoming, other}
    Services = {"auth-service"}
    Lists <- MCLists
    Chunks = 2
    MaxParts = 3
SPECIFICATION FairSpec
CHECK_DEADLOCK FALSE
INVARIANTS TypeOK FailuresReported BodiesApart MergeComplete ListInOrder
PROPERTIES GathersAll CallEnds
