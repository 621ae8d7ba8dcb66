---------------------------- MODULE LogRotation ----------------------------
(***************************************************************************)
(* rotatingFileWriter (internal/logging/logging.go): one process appends   *)
(* records to the log file and shifts it through numbered backups when it  *)
(* is full.  Slot 0 is the log file, slot i its backup ".i".               *)
(*                                                                         *)
(* w.mu makes a Write atomic for the goroutines of the process, not for    *)
(* the file system: every system call may fail, and the process may crash  *)
(* between two of them and be started again on what it left behind.        *)
(***************************************************************************)
EXTENDS Naturals

CONSTANTS
    MaxBackups,     \* cfg.MaxBackups, 5 when it is not positive
    MaxSize,        \* maxSize in bytes, 10 MB when it is not positive
    Lengths,        \* lengths of the records that are written
    MaxRecords      \* bound on the records written

ASSUME Parameters ==
    /\ MaxBackups \in Nat \ {0} /\ MaxSize \in Nat \ {0}
    /\ Lengths \in SUBSET (Nat \ {0}) /\ MaxRecords \in Nat

VARIABLES
    pc,         \* where the writer stands, or "down"
    file,       \* w.file: "open", "nil", or "stale" after a failed Close
    size,       \* w.size
    incoming,   \* the length of the record under way
    slot,       \* i of shiftBackups
    exists,     \* the slots that are files
    content,    \* the records each slot holds
    bytes,      \* the size of each slot's file
    written,    \* history: how many records were written, in this order
    intact,     \* history: no rename of a backup has failed
    closed      \* history: Close has been called in this process

diskVars == <<exists, content, bytes>>
historyVars == <<written, intact, closed>>
vars == <<pc, file, size, incoming, slot, exists, content, bytes,
          written, intact, closed>>

-----------------------------------------------------------------------------
Slots == 0 .. MaxBackups
Kept == UNION {content[i] : i \in Slots}

TypeOK ==
    /\ pc \in {"down", "idle", "remove", "shift", "open", "write"}
    /\ file \in {"open", "nil", "stale"}
    /\ size \in Nat
    /\ incoming \in Lengths \cup {0}
    /\ slot \in Slots
    /\ exists \in SUBSET Slots
    /\ content \in [Slots -> SUBSET (Nat \ {0})]
    /\ bytes \in [Slots -> Nat]
    /\ written \in Nat
    /\ intact \in BOOLEAN /\ closed \in BOOLEAN

Init ==
    /\ pc = "down" /\ file = "nil" /\ size = 0 /\ incoming = 0 /\ slot = 0
    /\ exists = {}
    /\ content = [i \in Slots |-> {}]
    /\ bytes = [i \in Slots |-> 0]
    /\ written = 0 /\ intact = TRUE /\ closed = FALSE

-----------------------------------------------------------------------------
(* Mutant: a log file that is there is taken for an empty one.              *)
ForgetsSize == 0

(* newRotatingFileWriter takes the size of the file it opens for appending. *)
SizeOnOpen == bytes[0]

(* Mutant: the file is truncated when it is opened.                         *)
StartTruncates ==
    /\ pc = "down"
    /\ pc' = "idle" /\ file' = "open" /\ size' = 0 /\ closed' = FALSE
    /\ exists' = exists \cup {0}
    /\ content' = [content EXCEPT ![0] = {}]
    /\ bytes' = [bytes EXCEPT ![0] = 0]
    /\ UNCHANGED <<incoming, slot, written, intact>>

Start ==
    /\ pc = "down"
    /\ pc' = "idle" /\ file' = "open" /\ size' = SizeOnOpen /\ closed' = FALSE
    /\ exists' = exists \cup {0}
    /\ UNCHANGED <<incoming, slot, content, bytes, written, intact>>

(* A write that fits goes to the file as it is; with a file that is nil, or *)
(* closed already, it fails and the record is dropped.                      *)
Fits(n) ==
    /\ pc = "idle" /\ file = "open" /\ size + n <= MaxSize
    /\ pc' = "write" /\ incoming' = n
    /\ UNCHANGED <<file, size, slot, diskVars, historyVars>>

(* rotateIfNeeded closes a file that is too full for the record ...         *)
Rotates(n) ==
    /\ pc = "idle" /\ file = "open" /\ size + n > MaxSize
    /\ pc' = "remove" /\ incoming' = n /\ file' = "nil"
    /\ UNCHANGED <<size, slot, diskVars, historyVars>>

(* ... and if that fails, leaves w.file at the file it could not close.     *)
CloseFails(n) ==
    /\ pc = "idle" /\ file = "open" /\ size + n > MaxSize
    /\ file' = "stale"
    /\ UNCHANGED <<pc, size, incoming, slot, diskVars, historyVars>>

-----------------------------------------------------------------------------
(* shiftBackups                                                             *)

(* Mutant: the loop starts at MaxBackups.                                   *)
RemovesAndStartsAbove ==
    /\ pc = "remove"
    /\ pc' = "shift" /\ slot' = MaxBackups
    /\ UNCHANGED <<file, size, incoming, diskVars, historyVars>>

(* os.Remove of the oldest backup; its error is dropped.                    *)
RemovesOldest ==
    /\ pc = "remove"
    /\ pc' = "shift" /\ slot' = MaxBackups - 1
    /\ \/ /\ exists' = exists \ {MaxBackups}
          /\ content' = [content EXCEPT ![MaxBackups] = {}]
          /\ bytes' = [bytes EXCEPT ![MaxBackups] = 0]
       \/ UNCHANGED diskVars
    /\ UNCHANGED <<file, size, incoming, historyVars>>

(* Mutant: the source is left in place.                                     *)
Copy(i) ==
    /\ exists' = exists \cup {i + 1}
    /\ content' = [content EXCEPT ![i + 1] = content[i]]
    /\ bytes' = [bytes EXCEPT ![i + 1] = bytes[i]]

(* os.Rename replaces what is there.                                        *)
Rename(i) ==
    /\ exists' = (exists \ {i}) \cup {i + 1}
    /\ content' = [content EXCEPT ![i + 1] = content[i], ![i] = {}]
    /\ bytes' = [bytes EXCEPT ![i + 1] = bytes[i], ![i] = 0]

(* Mutant: the loop stops before the first backup.                          *)
ShiftsAllButFirst ==
    /\ pc = "shift" /\ slot > 0
    /\ slot' = slot - 1
    /\ IF slot \in exists \ {1} THEN Rename(slot) ELSE UNCHANGED diskVars
    /\ UNCHANGED <<pc, file, size, incoming, historyVars>>

(* The loop over the backups; a source that is not there changes nothing.   *)
ShiftsBackup ==
    /\ pc = "shift" /\ slot > 0
    /\ slot' = slot - 1
    /\ IF slot \in exists THEN Rename(slot) ELSE UNCHANGED diskVars
    /\ UNCHANGED <<pc, file, size, incoming, historyVars>>

(* The error of a rename in the loop is dropped.                            *)
ShiftFails ==
    /\ pc = "shift" /\ slot > 0 /\ slot \in exists
    /\ slot' = slot - 1
    /\ intact' = FALSE
    /\ UNCHANGED <<pc, file, size, incoming, diskVars, written, closed>>

(* The log file itself, if it is there.                                     *)
ShiftsLog ==
    /\ pc = "shift" /\ slot = 0
    /\ pc' = "open"
    /\ IF 0 \in exists THEN Rename(0) ELSE UNCHANGED diskVars
    /\ UNCHANGED <<file, size, incoming, slot, historyVars>>

(* The rename of the log file, or the opening of the new one, fails: Write  *)
(* returns the error and w.file stays nil.                                  *)
RotationFails ==
    /\ (pc = "shift" /\ slot = 0 /\ 0 \in exists) \/ pc = "open"
    /\ pc' = "idle"
    /\ UNCHANGED <<file, size, incoming, slot, diskVars, historyVars>>

OpensNewLog ==
    /\ pc = "open"
    /\ pc' = "write" /\ file' = "open" /\ size' = 0
    /\ exists' = exists \cup {0}
    /\ content' = [content EXCEPT ![0] = {}]
    /\ bytes' = [bytes EXCEPT ![0] = 0]
    /\ UNCHANGED <<incoming, slot, historyVars>>

-----------------------------------------------------------------------------
Writes ==
    /\ pc = "write" /\ written < MaxRecords
    /\ pc' = "idle"
    /\ written' = written + 1
    /\ content' = [content EXCEPT ![0] = @ \cup {written'}]
    /\ bytes' = [bytes EXCEPT ![0] = @ + incoming]
    /\ size' = size + incoming
    /\ UNCHANGED <<file, incoming, slot, exists, intact, closed>>

(* A write may fail half-way, on a full disk for example.                   *)
WriteFails ==
    /\ pc = "write"
    /\ pc' = "idle"
    /\ \E n \in 0 .. (incoming - 1) :
          /\ bytes' = [bytes EXCEPT ![0] = @ + n]
          /\ size' = size + n
    /\ UNCHANGED <<file, incoming, slot, exists, content, historyVars>>

(* writer.Close, deferred in runServe; goroutines may log after it.         *)
Close ==
    /\ pc = "idle" /\ file # "nil"
    /\ file' = "nil" /\ closed' = TRUE
    /\ UNCHANGED <<pc, size, incoming, slot, diskVars, written, intact>>

(* The end of the process, at any point.                                    *)
Crash ==
    /\ pc # "down"
    /\ pc' = "down" /\ file' = "nil" /\ incoming' = 0 /\ slot' = 0
    /\ UNCHANGED <<size, diskVars, historyVars>>

-----------------------------------------------------------------------------
WriteStep == \E n \in Lengths : Fits(n) \/ Rotates(n) \/ CloseFails(n)

RotateStep ==
    \/ RemovesOldest \/ ShiftsBackup \/ ShiftFails \/ ShiftsLog
    \/ RotationFails \/ OpensNewLog

Next ==
    \/ Start \/ WriteStep \/ RotateStep
    \/ Writes \/ WriteFails
    \/ Close \/ Crash

Spec == Init /\ [][Next]_vars

-----------------------------------------------------------------------------
(* "slog 文件日志按大小自动轮转" (README.md:12): no file outgrows MaxSize, unless   *)
(* by the one record it was opened for, so the log takes MaxBackups + 1     *)
(* times the larger of MaxSize and the longest record at most, whatever     *)
(* failed on the way and however often the process was restarted.           *)
FilesAreBounded ==
    \A i \in Slots :
        bytes[i] <= MaxSize \/ \E n \in Lengths : bytes[i] <= n

(* Reading the backups from the highest number down to the log file gives   *)
(* the latest records in the order in which they were written, without a    *)
(* hole, as long as no rename of a backup has failed.                       *)
HistoryIsContiguous ==
    intact =>
        /\ \A i, j \in Slots : i < j =>
              \A a \in content[i], b \in content[j] : b < a
        /\ \A a \in Kept : \A b \in a .. written : b \in Kept

(* A step gives up only records of the oldest backup, and a failed rename   *)
(* of a backup is the one way to lose others.                               *)
OnlyTheOldestBackupIsLost ==
    [][intact' => Kept \ Kept' \subseteq content[MaxBackups]]_vars

(* The log keeps the promise of RetainedLog.                                *)
Retained == INSTANCE RetainedLog WITH kept <- Kept
LogIsRetained == Retained!Spec

(* "log writer is closed" (logging.go:111) is what a Write without a file   *)
(* reports: between two writes, the writer has no file only once Close has  *)
(* been called.                                                             *)
NoFileMeansClosed == pc = "idle" /\ file = "nil" => closed
=============================================================================
