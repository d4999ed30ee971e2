\* Ticks of 5 s: calls of up to 35 s, responses of up to 15 s, a shutdown of
\* 10 s, three probes 10 s apart.
SPECIFICATION Spec
CONSTANTS
    Requests = {r1, r2}
    Queries = 3
    Calls = 2
    QueryLimit = 7
    WriteTimeout = 3
    ShutdownTimeout = 2
    Period = 2
    Threshold = 3
    MaxFaults = 2
INVARIANT CleanExit
INVARIANT DroppedOnlyLate
PROPERTY Stops
PROPERTY Recovers
