\* Two first requests at once.
CONSTANTS
    Requests = {r1, r2}
    Nobody = Nobody
    Garbage = Garbage
    EndOfFile = EndOfFile
    MaxCrashes = 1
SPECIFICATION Spec
INVARIANTS
    SerializedIpc
\* All requests are answered: the bounded system stops.
CHECK_DEADLOCK FALSE
