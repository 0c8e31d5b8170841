\* The run that ends in a counterexample: one record, of a trade (4); the lowest
\* bit of one byte flips, and a type that was 4 is a tick's (5).
CONSTANTS
    Types = {4}
    Payloads <- SamplePayloads
    Checksum <- Code
    Junk = {0, 4}
    MaxSize = 2
    Damages = {5}
    MaxZeros = 4
    MaxRecords = 1
    MaxFiles = 1
SPECIFICATION JournalSpec
INVARIANT
    CorruptionCaught
\* All calls of open_write are used up: the bounded system stops.
CHECK_DEADLOCK FALSE
