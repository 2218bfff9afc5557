---------------------------- MODULE LogRotation ----------------------------
(***************************************************************************)
(* RotatingFileWriter of config/logging.rs: records are appended to a file *)
(* which, when the next record would make it too long, is read, compressed *)
(* into a backup named after the second, and truncated.                    *)
(*                                                                         *)
(* The mutex makes writes one at a time, so what interleaves with them is  *)
(* the clock, and failures of the file system and crashes of the process   *)
(* between any two system calls.  A record is written whole or not at all, *)
(* and is named by its number; reading a backup back is gunzip's business. *)
(***************************************************************************)
EXTENDS Integers, Sequences, SequencesExt

CONSTANTS
    MaxSize,    \* max_size
    Lengths,    \* lengths records may have
    Seconds,    \* what the local clock may show, to the second
    MaxRecords  \* bound on the records offered

ASSUME SizeAssumption    == MaxSize \in Nat
ASSUME LengthsAssumption == Lengths \subseteq Nat \ {0}
ASSUME BoundAssumption   == MaxRecords \in Nat

VARIABLES
    file,       \* the log file: its records, in order
    backups,    \* the backup of each second, empty if there is none or a torn one
    length,     \* the lengths of the records offered so far
    pc,         \* where the writer is
    open,       \* RotatingInner.file is there
    bytes,      \* RotatingInner.bytes_written
    content,    \* what rotate has read
    name,       \* the second in the backup's name
    now,        \* the local clock
    kept,       \* history: the records for which write returned Ok
    lost,       \* history: those an unreadable file or a name used twice destroyed
    cut         \* history: those in the file when a rotation was cut short

memory == <<pc, open, bytes, content, name>>
vars == <<file, backups, length, memory, now, kept, lost, cut>>

Records  == 1 .. MaxRecords
Rotating == {"reading", "naming", "filling", "reopening"}

\* The length of a file that holds the records.
SizeOf(records) ==
    LET sum[k \in 0 .. Len(records)] == IF k = 0 THEN 0 ELSE sum[k-1] + length[records[k]]
    IN  sum[Len(records)]

\* Every variable has its type; a record is only written to a file that is open,
\* so that the unwrap after a rotation does not panic.
TypeOK ==
    /\ file \in Seq(Records) /\ content \in Seq(Records)
    /\ DOMAIN backups = Seconds /\ \A s \in Seconds : backups[s] \in Seq(Records)
    /\ length \in Seq(Lengths) /\ Len(length) <= MaxRecords
    /\ pc \in Rotating \cup {"ready", "writing", "dead", "down"}
    /\ open \in BOOLEAN /\ bytes \in Nat /\ (pc = "writing" => open)
    /\ name \in Seconds /\ now \in Seconds
    /\ kept \cup lost \cup cut \subseteq Records

Init ==
    /\ file = << >> /\ backups = [s \in Seconds |-> << >>]
    /\ length = << >>
    /\ pc = "down" /\ open = FALSE /\ bytes = 0 /\ content = << >>
    /\ now \in Seconds /\ name = now
    /\ kept = {} /\ lost = {} /\ cut = {}

-----------------------------------------------------------------------------

Goes(from, to) == pc = from /\ pc' = to

\* Mutant of Start: the counter starts from zero.
StartAtZero ==
    /\ Goes("down", "ready")
    /\ open' = TRUE /\ bytes' = 0
    /\ UNCHANGED <<file, backups, length, content, name, now, kept, lost, cut>>

\* new: append to what an earlier process left.
Start ==
    /\ Goes("down", "ready")
    /\ open' = TRUE /\ bytes' = SizeOf(file)
    /\ UNCHANGED <<file, backups, length, content, name, now, kept, lost, cut>>

\* Mutant of TooLong: the record to be written does not count.
TooLongAlready(len) == bytes > MaxSize

TooLong(len) == bytes + len > MaxSize /\ bytes > 0

\* write is called; rotate takes the file.  Without a file, which a rotation that
\* failed does not put back, either unwrap panics and the mutex is poisoned.
Offer(len) ==
    /\ Len(length) < MaxRecords
    /\ length' = Append(length, len)
    /\ Goes("ready", IF ~open THEN "dead" ELSE IF TooLong(len) THEN "reading" ELSE "writing")
    /\ open' = (open /\ ~TooLong(len))
    /\ UNCHANGED <<file, backups, bytes, content, name, now, kept, lost, cut>>

\* Mutant of Read: the file is emptied at once.
ReadAndTruncate ==
    /\ Goes("reading", "naming")
    /\ content' = file /\ file' = << >>
    /\ UNCHANGED <<backups, length, open, bytes, name, now, kept, lost, cut>>

Read ==
    /\ Goes("reading", "naming")
    /\ content' = file
    /\ UNCHANGED <<file, backups, length, open, bytes, name, now, kept, lost, cut>>

\* unwrap_or_default: a file that cannot be read counts as an empty one, and gets
\* no backup.
ReadFails ==
    /\ Goes("reading", "reopening")
    /\ content' = << >>
    /\ lost' = lost \cup ToSet(file)
    /\ UNCHANGED <<file, backups, length, open, bytes, name, now, kept, cut>>

\* fs::write creates the backup or empties the one of that name, then fills it.
CreateBackup ==
    /\ Goes("naming", "filling")
    /\ name' = now
    /\ lost' = lost \cup ToSet(backups[now])
    /\ backups' = [backups EXCEPT ![now] = << >>]
    /\ UNCHANGED <<file, length, open, bytes, content, now, kept, cut>>

FillBackup ==
    /\ Goes("filling", "reopening")
    /\ backups' = [backups EXCEPT ![name] = content]
    /\ UNCHANGED <<file, length, open, bytes, content, name, now, kept, lost, cut>>

\* Mutant of Reopen: opened for appending, as in new.
ReopenAppending ==
    /\ Goes("reopening", "writing")
    /\ open' = TRUE /\ bytes' = 0
    /\ UNCHANGED <<file, backups, length, content, name, now, kept, lost, cut>>

\* Mutant of Reopen: the new file is not put in place of the one taken.
ReopenOnly ==
    /\ Goes("reopening", "writing")
    /\ file' = << >> /\ bytes' = 0
    /\ UNCHANGED <<backups, length, open, content, name, now, kept, lost, cut>>

\* Truncated on opening; the record is still to be written.
Reopen ==
    /\ Goes("reopening", "writing")
    /\ file' = << >> /\ open' = TRUE /\ bytes' = 0
    /\ UNCHANGED <<backups, length, content, name, now, kept, lost, cut>>

WriteRecord ==
    /\ Goes("writing", "ready")
    /\ file' = Append(file, Len(length))
    /\ bytes' = bytes + length[Len(length)]
    /\ kept' = kept \cup {Len(length)}
    /\ UNCHANGED <<backups, length, open, content, name, now, lost, cut>>

-----------------------------------------------------------------------------
(* What may go wrong.                                                      *)

WriteFails ==
    /\ Goes("writing", "ready")
    /\ UNCHANGED <<file, backups, length, open, bytes, content, name, now, kept, lost, cut>>

\* `?' in rotate: the error goes to the caller, the file stays taken.
RotationFails ==
    /\ \E step \in {"naming", "filling", "reopening"} : Goes(step, "ready")
    /\ cut' = cut \cup ToSet(file)
    /\ UNCHANGED <<file, backups, length, open, bytes, content, name, now, kept, lost>>

\* The process ends, at any point.
Crash ==
    /\ pc # "down" /\ pc' = "down"
    /\ open' = FALSE /\ bytes' = 0 /\ content' = << >>
    /\ cut' = IF pc \in Rotating THEN cut \cup ToSet(file) ELSE cut
    /\ UNCHANGED <<file, backups, length, name, now, kept, lost>>

\* Time passes, or the local clock is set back (at the end of summer time, say).
Tick ==
    /\ now' \in Seconds \ {now}
    /\ UNCHANGED <<file, backups, length, memory, kept, lost, cut>>

-----------------------------------------------------------------------------

Next ==
    \/ Start
    \/ \E len \in Lengths : Offer(len)
    \/ Read \/ ReadFails \/ CreateBackup \/ FillBackup \/ Reopen
    \/ WriteRecord \/ WriteFails
    \/ RotationFails \/ Crash \/ Tick

Spec == Init /\ [][Next]_vars

-----------------------------------------------------------------------------
(* Properties.                                                             *)

Stored == ToSet(file) \cup UNION {ToSet(backups[s]) : s \in Seconds}

\* Wherever a rotation fails or the process crashes, a record that was written is
\* in the file or in a backup; only a file that could not be read and a second
\* rotation under the same name destroy any.
NothingLost == kept \subseteq Stored \cup lost

\* However often the process restarts, the file grows beyond its limit only for a
\* single record that is longer than the limit itself.
FileBounded == Len(file) > 1 => SizeOf(file) <= MaxSize

\* A writer that has its file knows the file's length.
CounterExact == pc \in {"ready", "writing"} /\ open => bytes = SizeOf(file)

\* Backups hold what came before the file, and nothing is stored twice, but for
\* what a rotation that was cut short left in the file.
InOrderOnce ==
    pc \notin Rotating =>
        /\ \A s \in Seconds : \A old \in ToSet(backups[s]), new \in ToSet(file) \ cut : old < new
        /\ \A s, t \in Seconds : s # t => ToSet(backups[s]) \cap ToSet(backups[t]) \subseteq cut

=============================================================================
