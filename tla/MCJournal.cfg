\* Two files of up to two records; a full disk, a crash, or one bad cell to a file.
CONSTANTS
    Types = {2, 3}
    Payloads <- SamplePayloads
    Checksum <- Code
    Junk = {0, 4}
    MaxSize = 2
    Damages = {0, 2, 3}
    MaxZeros = 4
    MaxRecords = 2
    MaxFiles = 2
SPECIFICATION JournalSpec
INVARIANTS
    ReadIsPrefix
    SoundRecordsReturned
\* All calls of open_write are used up: the bounded system stops.
CHECK_DEADLOCK FALSE
