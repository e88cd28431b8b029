\* Two connections, two requests.  The process exits, and that is the end.
CONSTANTS
    c1 = c1
    c2 = c2
    list = list
    Connections = {c1, c2}
    Routes = {list}
    NoRoute = unmatched
    Statuses = {200, 301, 404, 500}
    MaxServed = 2
CHECK_DEADLOCK FALSE
SPECIFICATION ProcessSpec
INVARIANTS CleanExit FailureIsReported ErrorsAreRequests ServedAndCounted
PROPERTIES Terminates CountedAsReceived
