\* Two requests, which can race for the first engine or share one; two crashes,
\* so that a restarted engine may crash again.  A liveness property: no symmetry.
CONSTANTS
    Requests = {r1, r2}
    Nobody = Nobody
    Garbage = Garbage
    EndOfFile = EndOfFile
    MaxCrashes = 2
SPECIFICATION Spec
INVARIANTS
    TypeOK
    AnswersMatch
PROPERTIES
    RestartsReported
    Answered
\* All requests are answered: the bounded system stops.
CHECK_DEADLOCK FALSE
