------------------------------- MODULE Journal ------------------------------
(***************************************************************************)
(* BinaryJournal (src/src/journal/journal.{hpp,cpp}): a file of framed     *)
(* records, how it may be cut off or damaged, and read_all, one record a   *)
(* step.  A cell stands for a field of the frame, or for a piece of the    *)
(* payload that is written or lost as a whole; a cell is 0 if all its      *)
(* bytes are.  The file is written by one object and read by another one.  *)
(***************************************************************************)
EXTENDS Integers, Sequences, FiniteSets, SequencesExt

CONSTANTS
    Types,          \* JournalRecordType
    Payloads,       \* the cells of the packed records
    Checksum(_),    \* of a sequence of cells; collisions are not modelled
    Junk,           \* what crc_stored may be when nothing was assigned to it
    MaxSize,        \* 2^20: the largest payload size that is read
    Damages,        \* the values a damaged cell may have
    MaxZeros,       \* bound: cells of zeros at the end of a file after a crash
    MaxRecords,     \* bound: records written to one file
    MaxFiles        \* bound: calls of open_write

\* A payload starts with an id or a time, which is not 0; and none is another
\* one with its end zeroed.
ZeroedFrom(p, n) == [i \in DOMAIN p |-> IF i < n THEN p[i] ELSE 0]
ASSUME PayloadsAssumption ==
    \A p \in Payloads : /\ p \in Seq(Range(p)) /\ Len(p) \in 1 .. MaxSize /\ p[1] # 0
                        /\ \A n \in 1 .. Len(p) : ZeroedFrom(p, n) \in Payloads => ZeroedFrom(p, n) = p

Magic == 1

\* What a cell may hold besides a checksum; the size and a zero are in 0 .. MaxSize.
PlainCells == {Magic} \cup Types \cup 0 .. MaxSize \cup Damages \cup Junk \cup UNION {Range(p) : p \in Payloads}
Cells == PlainCells \cup {Checksum(p) : p \in Payloads}

\* What read_all may take the checksum of.
Readable == BoundedSeq(Cells, MaxSize)

\* The CRC-32 of nothing is 0, and that of anything else is taken to be neither
\* that of another sequence nor what some other cell holds.
ASSUME ChecksumAssumption ==
    /\ Checksum(<< >>) = 0
    /\ \A p, q \in Readable : Checksum(p) = Checksum(q) => p = q
    /\ \A p \in Readable \ {<< >>} : Checksum(p) \notin PlainCells

ASSUME SizesAssumption == MaxSize \in Nat /\ Damages \subseteq Nat /\ MaxZeros \in Nat

VARIABLES
    disk,               \* the cells of the file; the first is the magic header
    writing, failed,    \* wfile_.is_open(), and its failbit
    records_written,
    reading, pos,       \* rfile_.is_open(), and the cell it is at
    crc_stored,         \* the local variable's place on the stack
    records             \* what read_all has collected

VARIABLES               \* history
    files,              \* calls of open_write
    written,            \* the records written to the file, and where they begin
    sound,              \* the cells before this one are as they were written
    fault               \* what happened to the file since

journal == <<disk, writing, failed, records_written, reading, pos, crc_stored, records,
          files, written, sound, fault>>

JournalInit ==
    /\ disk = << >> /\ writing = FALSE /\ failed = FALSE /\ records_written = 0
    /\ reading = FALSE /\ pos = 1 /\ crc_stored = 0 /\ records = << >>
    /\ files = 0 /\ written = << >> /\ sound = 1 /\ fault = "none"
-----------------------------------------------------------------------------
(* Writing.                                                                *)

\* A file that is there is truncated.
OpenWrite ==
    /\ ~writing /\ ~reading /\ files < MaxFiles
    /\ files' = files + 1
    /\ writing' = TRUE /\ failed' = FALSE
    /\ disk' = <<Magic>> /\ written' = << >> /\ sound' = 2 /\ fault' = "none"
    /\ records' = << >>
    /\ UNCHANGED <<records_written, reading, pos, crc_stored>>

\* open fails on a stream that is open, and leaves it unusable.
OpenWriteAgain ==
    /\ writing /\ files < MaxFiles
    /\ files' = files + 1
    /\ failed' = TRUE
    /\ UNCHANGED <<disk, writing, records_written, reading, pos, crc_stored, records,
                   written, sound, fault>>

Framed(type, payload) == <<type, Len(payload)>> \o payload \o <<Checksum(payload)>>

\* write_record: it is counted whether or not it can be written.
WriteRecord(type, payload) ==
    /\ writing /\ records_written < MaxRecords * MaxFiles /\ Len(written) < MaxRecords
    /\ records_written' = records_written + 1
    /\ IF failed
       THEN UNCHANGED <<disk, written, sound>>
       ELSE /\ disk' = disk \o Framed(type, payload)
            /\ written' = Append(written, [type |-> type, payload |-> payload, at |-> sound])
            /\ sound' = Len(disk') + 1
    /\ UNCHANGED <<writing, failed, reading, pos, crc_stored, records, files, fault>>

\* The disk is full in the middle of a record.
DiskFull(type, payload, kept) ==
    /\ writing /\ ~failed /\ records_written < MaxRecords * MaxFiles
    /\ kept < Len(Framed(type, payload))
    /\ records_written' = records_written + 1
    /\ disk' = disk \o SubSeq(Framed(type, payload), 1, kept)
    /\ failed' = TRUE
    /\ written' = Append(written, [type |-> type, payload |-> payload, at |-> sound])
    /\ sound' = Len(disk') + 1
    /\ fault' = "cut"
    /\ UNCHANGED <<writing, reading, pos, crc_stored, records, files>>

Close ==
    /\ writing
    /\ writing' = FALSE
    /\ UNCHANGED <<disk, failed, records_written, reading, pos, crc_stored, records,
                   files, written, sound, fault>>

\* The process or the machine stops: what was not flushed is lost, and the
\* file may keep its length with zeros instead.
WriterCrash(kept, zeros) ==
    /\ writing
    /\ kept <= Len(disk)
    /\ writing' = FALSE
    /\ records_written' = 0
    /\ disk' = SubSeq(disk, 1, kept) \o [i \in 1 .. zeros |-> 0]
    /\ sound' = kept + 1
    /\ fault' = IF zeros > 0 THEN "zeroed" ELSE "cut"
    /\ UNCHANGED <<failed, reading, pos, crc_stored, records, files, written>>

\* A cell of a closed file goes bad.
Damage(i, value) ==
    /\ ~writing /\ ~reading /\ fault = "none"
    /\ i \in DOMAIN disk /\ disk[i] # value
    /\ disk' = [disk EXCEPT ![i] = value]
    /\ sound' = i
    /\ fault' = IF \E k \in DOMAIN written : written[k].at = i THEN "type" ELSE "damaged"
    /\ UNCHANGED <<writing, failed, records_written, reading, pos, crc_stored, records,
                   files, written>>
-----------------------------------------------------------------------------
(* Reading.                                                                *)

\* The magic header is read, and not looked at.
OpenRead ==
    /\ ~writing /\ ~reading /\ files > 0
    /\ reading' = TRUE /\ pos' = 2 /\ records' = << >> /\ crc_stored' \in Junk
    /\ UNCHANGED <<disk, writing, failed, records_written, files, written, sound, fault>>

Size == disk[pos + 1]

\* A read at the end of the file leaves the rest of a payload as it was
\* initialized, with zeros, and crc_stored as it was.
Payload == [i \in 1 .. Size |-> IF pos + 1 + i \in DOMAIN disk THEN disk[pos + 1 + i] ELSE 0]
Crcs == LET i == pos + 2 + Size IN IF i \in DOMAIN disk THEN {disk[i]} ELSE Junk \cup {crc_stored}

\* Mutant of AtEnd: the end of the file is seen once the last record is read,
\* so a file that ends there has lost it.
AtEndEarly == IF pos + 1 \in DOMAIN disk THEN Size > MaxSize \/ pos + 3 + Size > Len(disk) ELSE TRUE

\* The type or the size is missing, or the size is too large.
AtEnd == IF pos + 1 \in DOMAIN disk THEN Size > MaxSize ELSE TRUE

ReadEnd ==
    /\ reading /\ AtEnd
    /\ reading' = FALSE
    /\ UNCHANGED <<disk, writing, failed, records_written, pos, crc_stored, records,
                   files, written, sound, fault>>

\* Mutant of Verified: a record is believed when its file ends.
VerifiedIfWhole(payload, crc) ==
    pos + 2 + Size \notin DOMAIN disk \/ crc = Checksum(payload)

Verified(payload, crc) == crc = Checksum(payload)

\* One turn of the loop of read_all; it ends at the first record that does not
\* check.
ReadRecord ==
    /\ reading /\ ~AtEnd
    /\ \E crc \in Crcs :
          /\ crc_stored' = crc
          /\ IF Verified(Payload, crc)
             THEN /\ records' = Append(records, [type |-> disk[pos], payload |-> Payload])
                  /\ pos' = pos + 3 + Size
                  /\ UNCHANGED reading
             ELSE reading' = FALSE /\ UNCHANGED <<records, pos>>
    /\ UNCHANGED <<disk, writing, failed, records_written, files, written, sound, fault>>

JournalNext ==
    \/ OpenWrite \/ OpenWriteAgain \/ Close
    \/ \E type \in Types, payload \in Payloads :
          \/ WriteRecord(type, payload)
          \/ \E kept \in 0 .. Len(payload) + 2 : DiskFull(type, payload, kept)
    \/ \E kept \in 0 .. Len(disk), zeros \in 0 .. MaxZeros : WriterCrash(kept, zeros)
    \/ \E i \in DOMAIN disk, value \in Damages : Damage(i, value)
    \/ OpenRead \/ ReadEnd \/ ReadRecord

JournalSpec == JournalInit /\ [][JournalNext]_journal
-----------------------------------------------------------------------------
(* Properties.                                                             *)

Content(w) == [type |-> w.type, payload |-> w.payload]

\* A zeroed end reads as records without a payload: the CRC-32 of nothing is 0.
Empty(r) == r.payload = << >>

\* Whatever is cut off, zeroed or damaged, read_all returns nothing that was not
\* written, and in the order written: a torn record with a stale crc_stored is
\* not taken for another.  The checksum leaves out the type: at most the one
\* record whose type byte went bad has another type.  Only a zeroed end adds
\* records, and those are empty and come last.
ReadIsPrefix ==
    \E n \in 0 .. Len(records) :
        /\ n <= Len(written)
        /\ \A k \in 1 .. n :
              /\ records[k].payload = written[k].payload
              /\ records[k].type = written[k].type \/ (fault = "type" /\ written[k].at = sound)
        /\ \A k \in n + 1 .. Len(records) : Empty(records[k]) /\ fault = "zeroed"

\* read_all is about to return.
Over == reading /\ (AtEnd \/ \A crc \in Crcs : ~Verified(Payload, crc))

\* When read_all is over, it has returned every record that lies whole before
\* the first bad cell; a bad header is not even noticed.
Whole == {k \in DOMAIN written : written[k].at + Len(written[k].payload) + 2 < sound}
SoundRecordsReturned == Over => Len(records) >= Cardinality(Whole)

\* README.md:274 of a bit-flip in a record: "CRC32 per record catches corruption
\* during read-back".  A record that is returned was written, type and payload.
\* (What a zeroed end reads is empty, and left to ReadIsPrefix.)
CorruptionCaught ==
    \A k \in DOMAIN records :
        Empty(records[k]) \/ \E j \in DOMAIN written : records[k] = Content(written[j])
=============================================================================
