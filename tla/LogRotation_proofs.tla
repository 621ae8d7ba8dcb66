------------------------- MODULE LogRotation_proofs -------------------------
(***************************************************************************)
(* Proofs about LogRotation, for any number of backups, any size of files  *)
(* and any lengths of records: files stay bounded, the history that can be *)
(* read is contiguous, and the log implements RetainedLog.                 *)
(***************************************************************************)
EXTENDS LogRotation, TLAPS

Rotating == {"remove", "shift", "open"}

(* Slots that are no files hold nothing.                                    *)
AbsentIsEmpty ==
    \A i \in Slots \ exists : content[i] = {} /\ bytes[i] = 0

(* An open file is slot 0, and w.size is its size.                          *)
SizeIsKnown ==
    /\ file = "open" => pc \in {"idle", "write"} /\ 0 \in exists /\ size = bytes[0]
    /\ pc = "write" => file = "open"
    /\ pc \in Rotating => file = "nil"

(* A record is written to a file that has room for it, or to an empty one.  *)
RecordFits ==
    /\ pc \in Rotating \cup {"write"} => incoming \in Lengths
    /\ pc = "write" => size + incoming <= MaxSize \/ size = 0

RecordsWereWritten == \A i \in Slots : \A a \in content[i] : a <= written

(* The target of the next rename is free, or the oldest backup.             *)
TargetIsFree ==
    /\ pc = "shift" =>
          /\ slot < MaxBackups
          /\ intact /\ slot + 1 # MaxBackups => slot + 1 \notin exists
    /\ pc = "open" => 0 \notin exists

Ordered ==
    \A i, j \in Slots : i < j => \A a \in content[i], b \in content[j] : b < a

Contiguous == \A a \in Kept : \A b \in a .. written : b \in Kept

IInv ==
    /\ TypeOK /\ AbsentIsEmpty /\ SizeIsKnown /\ RecordFits
    /\ FilesAreBounded /\ RecordsWereWritten /\ TargetIsFree
    /\ HistoryIsContiguous

-----------------------------------------------------------------------------
LEMMA KeptRecords == \A a : a \in Kept <=> \E i \in Slots : a \in content[i]
  BY DEF Kept

LEMMA KeptRecordsNext == \A a : a \in Kept' <=> \E i \in Slots : a \in content'[i]
  BY DEF Kept, Slots

LEMMA HistoryParts == HistoryIsContiguous <=> (intact => Ordered /\ Contiguous)
  BY DEF HistoryIsContiguous, Ordered, Contiguous

LEMMA HistoryPartsNext ==
    HistoryIsContiguous' <=> (intact' => Ordered' /\ Contiguous')
  BY DEF HistoryIsContiguous, Ordered, Contiguous

(* A step that keeps the content keeps what is said about it.               *)
LEMMA SameContent ==
    ASSUME IInv, content' = content, written' = written, intact' = intact
    PROVE  HistoryIsContiguous' /\ RecordsWereWritten' /\ Kept' = Kept
<1>1. Kept' = Kept
  BY DEF Kept, Slots
<1>2. Ordered' = Ordered /\ Contiguous' = Contiguous
  BY <1>1 DEF Ordered, Contiguous, Slots
<1> QED BY <1>1, <1>2, HistoryParts, HistoryPartsNext DEF IInv, RecordsWereWritten, Slots

LEMMA SlotFacts ==
    /\ 0 \in Slots /\ MaxBackups \in Slots /\ 0 < MaxBackups
    /\ \A i \in Slots : i \in Nat /\ i <= MaxBackups
    /\ \A i \in Slots : i < MaxBackups => i + 1 \in Slots
    /\ \A i \in Slots : i > 0 => i - 1 \in Slots
    /\ MaxBackups - 1 \in Slots
  BY Parameters DEF Slots

(* Emptying a slot that is the oldest or empty already.                     *)
LEMMA Emptying ==
    ASSUME IInv, NEW i \in Slots, i = MaxBackups \/ content[i] = {},
           content' = [content EXCEPT ![i] = {}],
           written' = written, intact' = intact
    PROVE  HistoryIsContiguous' /\ RecordsWereWritten'
           /\ Kept' \subseteq Kept /\ Kept \ Kept' \subseteq content[i]
<1>1. \A j \in Slots : content'[j] = IF j = i THEN {} ELSE content[j]
  BY DEF IInv, TypeOK
<1>2. Kept' \subseteq Kept /\ Kept \ Kept' \subseteq content[i]
  BY <1>1, KeptRecords, KeptRecordsNext
<1>3. Ordered => Ordered'
  BY <1>1 DEF Ordered, Slots
<1>4. ASSUME Ordered, Contiguous PROVE Contiguous'
  <2> SUFFICES ASSUME NEW a \in Kept', NEW b \in a .. written PROVE b \in Kept'
    BY DEF Contiguous
  <2>1. b \in Kept
    BY <1>2, <1>4 DEF Contiguous
  <2>2. PICK j \in Slots : a \in content[j] /\ j # i
    BY <1>1, KeptRecordsNext
  <2>3. a \in Nat /\ b \in Nat /\ a <= b
    BY <2>2 DEF IInv, TypeOK
  <2>4. b \notin content[i]
    <3>1. CASE content[i] = {}
      BY <3>1
    <3>2. CASE i = MaxBackups
      <4>1. j < i
        BY <3>2, <2>2, SlotFacts
      <4> QED BY <4>1, <2>2, <2>3, <1>4 DEF Ordered
    <3> QED BY <3>1, <3>2
  <2> QED BY <1>1, <2>1, <2>4, KeptRecords, KeptRecordsNext
<1>5. RecordsWereWritten'
  BY <1>1 DEF IInv, RecordsWereWritten, Slots
<1> QED BY <1>2, <1>3, <1>4, <1>5, HistoryParts, HistoryPartsNext DEF IInv
-----------------------------------------------------------------------------
(* Renaming slot i to a target that is free, or the oldest backup.          *)
LEMMA Renaming ==
    ASSUME IInv, NEW i \in Slots, i < MaxBackups, Rename(i),
           intact => i + 1 = MaxBackups \/ content[i + 1] = {},
           written' = written, intact' = intact
    PROVE  HistoryIsContiguous' /\ RecordsWereWritten' /\ AbsentIsEmpty'
           /\ FilesAreBounded' /\ Kept' \subseteq Kept
           /\ (intact => Kept \ Kept' \subseteq content[MaxBackups])
           /\ exists' \in SUBSET Slots
           /\ content' \in [Slots -> SUBSET (Nat \ {0})]
           /\ bytes' \in [Slots -> Nat]
<1> i + 1 \in Slots /\ i \in Nat /\ i + 1 # i
  BY SlotFacts
<1>1. \A j \in Slots : content'[j] = IF j = i THEN {} ELSE
                          IF j = i + 1 THEN content[i] ELSE content[j]
  BY DEF IInv, TypeOK, Rename
<1>2. \A j \in Slots : bytes'[j] = IF j = i THEN 0 ELSE
                          IF j = i + 1 THEN bytes[i] ELSE bytes[j]
  BY DEF IInv, TypeOK, Rename
<1>3. /\ exists' \in SUBSET Slots
      /\ content' \in [Slots -> SUBSET (Nat \ {0})]
      /\ bytes' \in [Slots -> Nat]
  BY DEF IInv, TypeOK, Rename
<1>4. AbsentIsEmpty'
  BY <1>1, <1>2 DEF IInv, AbsentIsEmpty, Rename, Slots
<1>5. FilesAreBounded'
  BY <1>2, Parameters DEF IInv, FilesAreBounded, Slots
<1>6. RecordsWereWritten'
  BY <1>1 DEF IInv, RecordsWereWritten, Slots
<1>7. Kept' \subseteq Kept
  BY <1>1, KeptRecords, KeptRecordsNext
<1>8. ASSUME intact PROVE Kept \ Kept' \subseteq content[MaxBackups]
  <2> SUFFICES ASSUME NEW a \in Kept, a \notin Kept' PROVE a \in content[MaxBackups]
    OBVIOUS
  <2>1. PICK j \in Slots : a \in content[j]
    BY KeptRecords
  <2>2. j # i
    BY <1>1, <2>1, KeptRecordsNext
  <2>3. j = i + 1
    BY <1>1, <2>1, <2>2, KeptRecordsNext
  <2> QED BY <1>8, <2>1, <2>3
<1>9. ASSUME Ordered PROVE Ordered'
  <2> SUFFICES ASSUME NEW j \in Slots, NEW k \in Slots, j < k,
                      NEW a \in content'[j], NEW b \in content'[k]
               PROVE  b < a
    BY DEF Ordered, Slots
  <2>1. j # i /\ k # i /\ j \in Nat /\ k \in Nat
    BY <1>1, SlotFacts
  <2>2. CASE j = i + 1
    BY <1>1, <1>9, <2>1, <2>2 DEF Ordered
  <2>3. CASE k = i + 1
    BY <1>1, <1>9, <2>1, <2>3 DEF Ordered
  <2>4. CASE j # i + 1 /\ k # i + 1
    BY <1>1, <1>9, <2>1, <2>4 DEF Ordered
  <2> QED BY <2>2, <2>3, <2>4
<1>10. ASSUME intact, Ordered, Contiguous PROVE Contiguous'
  <2> SUFFICES ASSUME NEW a \in Kept', NEW b \in a .. written PROVE b \in Kept'
    BY DEF Contiguous
  <2>1. b \in Kept
    BY <1>7, <1>10 DEF Contiguous
  <2>2. PICK j \in Slots : a \in content'[j] /\ j # i
    BY <1>1, KeptRecordsNext
  <2>3. a \in Nat /\ b \in Nat /\ a <= b
    BY <2>2, <1>3
  <2>4. CASE b \in content[MaxBackups]
    <3>1. j = MaxBackups \/ j < MaxBackups
      BY SlotFacts
    <3>2. PICK k \in Slots : a \in content[k] /\ (k < MaxBackups \/ content[k] = content'[j])
      BY <1>1, <2>2, SlotFacts
    <3>3. ASSUME a \in content[MaxBackups] PROVE b \in Kept'
      <4>1. j = MaxBackups /\ content'[j] = content[MaxBackups]
        <5>1. \A l \in Slots : l < MaxBackups => a \notin content[l]
          BY <1>10, <3>3, <2>3, SlotFacts DEF Ordered
        <5> QED BY <5>1, <1>1, <2>2, <3>1, SlotFacts
      <4> QED BY <4>1, <2>4, KeptRecordsNext
    <3>4. ASSUME a \notin content[MaxBackups] PROVE FALSE
      <4>1. PICK l \in Slots : a \in content[l] /\ l < MaxBackups
        BY <3>4, <1>7, KeptRecords, SlotFacts
      <4> QED BY <4>1, <2>3, <2>4, <1>10, SlotFacts DEF Ordered
    <3> QED BY <3>3, <3>4
  <2>5. CASE b \notin content[MaxBackups]
    BY <2>1, <2>5, <1>8, <1>10
  <2> QED BY <2>4, <2>5
<1> QED BY <1>3, <1>4, <1>5, <1>6, <1>7, <1>8, <1>9, <1>10,
           HistoryParts, HistoryPartsNext DEF IInv

-----------------------------------------------------------------------------
LEMMA InitIInv == ASSUME Init PROVE IInv
<1>1. Kept = {}
  BY DEF Init, Kept
<1>2. closed \in BOOLEAN /\ intact \in BOOLEAN
  BY DEF Init
<1>3. TypeOK
  BY <1>2, SlotFacts DEF Init, TypeOK
<1>4. HistoryIsContiguous
  BY <1>1 DEF Init, HistoryIsContiguous
<1> QED BY <1>3, <1>4, Parameters DEF Init, IInv, AbsentIsEmpty, SizeIsKnown, RecordFits,
           FilesAreBounded, RecordsWereWritten, TargetIsFree, Rotating

(* A step of the writer keeps the invariant.                                *)
LEMMA NextIInv == ASSUME IInv, Next PROVE IInv'
<1> USE DEF diskVars, historyVars
<1>1. CASE Start
  <2>1. HistoryIsContiguous' /\ RecordsWereWritten'
    BY <1>1, SameContent DEF Start
  <2>2. TypeOK'
    BY <1>1, Parameters, SlotFacts DEF IInv, Start, SizeOnOpen, TypeOK
  <2>3. AbsentIsEmpty'
    BY <1>1, Parameters, SlotFacts DEF IInv, Start, SizeOnOpen, AbsentIsEmpty,
       TypeOK, SizeIsKnown, Slots
  <2>4. SizeIsKnown'
    BY <1>1, Parameters, SlotFacts DEF IInv, Start, SizeOnOpen, TypeOK,
       SizeIsKnown, Rotating
  <2>5. RecordFits'
    BY <1>1, Parameters, SlotFacts DEF IInv, Start, SizeOnOpen, TypeOK,
       Rotating, RecordFits
  <2>6. FilesAreBounded'
    BY <1>1, Parameters, SlotFacts DEF IInv, Start, SizeOnOpen, TypeOK,
       FilesAreBounded, SizeIsKnown, Slots, RecordFits
  <2>7. TargetIsFree'
    BY <1>1, Parameters, SlotFacts DEF IInv, Start, SizeOnOpen, TypeOK,
       TargetIsFree
  <2> QED BY <2>1, <2>2, <2>3, <2>4, <2>5, <2>6, <2>7 DEF IInv
<1>2. ASSUME NEW n \in Lengths, Fits(n) PROVE IInv'
  <2>1. HistoryIsContiguous' /\ RecordsWereWritten'
    BY <1>2, SameContent DEF Fits
  <2>2. TypeOK'
    BY <1>2, Parameters, SlotFacts DEF IInv, Fits, TypeOK
  <2>3. AbsentIsEmpty'
    BY <1>2, Parameters, SlotFacts DEF IInv, Fits, AbsentIsEmpty, TypeOK,
       SizeIsKnown, Slots
  <2>4. SizeIsKnown'
    BY <1>2, Parameters, SlotFacts DEF IInv, Fits, TypeOK, SizeIsKnown,
       Rotating
  <2>5. RecordFits'
    BY <1>2, Parameters, SlotFacts DEF IInv, Fits, TypeOK, Rotating,
       RecordFits
  <2>6. FilesAreBounded'
    BY <1>2, Parameters, SlotFacts DEF IInv, Fits, TypeOK, FilesAreBounded,
       SizeIsKnown, Slots, RecordFits
  <2>7. TargetIsFree'
    BY <1>2, Parameters, SlotFacts DEF IInv, Fits, TypeOK, TargetIsFree
  <2> QED BY <2>1, <2>2, <2>3, <2>4, <2>5, <2>6, <2>7 DEF IInv
<1>3. ASSUME NEW n \in Lengths, Rotates(n) PROVE IInv'
  <2>1. HistoryIsContiguous' /\ RecordsWereWritten'
    BY <1>3, SameContent DEF Rotates
  <2>2. TypeOK'
    BY <1>3, Parameters, SlotFacts DEF IInv, Rotates, TypeOK
  <2>3. AbsentIsEmpty'
    BY <1>3, Parameters, SlotFacts DEF IInv, Rotates, AbsentIsEmpty, TypeOK,
       SizeIsKnown, Slots
  <2>4. SizeIsKnown'
    BY <1>3, Parameters, SlotFacts DEF IInv, Rotates, TypeOK, SizeIsKnown,
       Rotating
  <2>5. RecordFits'
    BY <1>3, Parameters, SlotFacts DEF IInv, Rotates, TypeOK, Rotating,
       RecordFits
  <2>6. FilesAreBounded'
    BY <1>3, Parameters, SlotFacts DEF IInv, Rotates, TypeOK, FilesAreBounded,
       SizeIsKnown, Slots, RecordFits
  <2>7. TargetIsFree'
    BY <1>3, Parameters, SlotFacts DEF IInv, Rotates, TypeOK, TargetIsFree
  <2> QED BY <2>1, <2>2, <2>3, <2>4, <2>5, <2>6, <2>7 DEF IInv
<1>4. ASSUME NEW n \in Lengths, CloseFails(n) PROVE IInv'
  <2>1. HistoryIsContiguous' /\ RecordsWereWritten'
    BY <1>4, SameContent DEF CloseFails
  <2>2. TypeOK'
    BY <1>4, Parameters, SlotFacts DEF IInv, CloseFails, TypeOK
  <2>3. AbsentIsEmpty'
    BY <1>4, Parameters, SlotFacts DEF IInv, CloseFails, AbsentIsEmpty,
       TypeOK, SizeIsKnown, Slots
  <2>4. SizeIsKnown'
    BY <1>4, Parameters, SlotFacts DEF IInv, CloseFails, TypeOK, SizeIsKnown,
       Rotating
  <2>5. RecordFits'
    BY <1>4, Parameters, SlotFacts DEF IInv, CloseFails, TypeOK, Rotating,
       RecordFits
  <2>6. FilesAreBounded'
    BY <1>4, Parameters, SlotFacts DEF IInv, CloseFails, TypeOK,
       FilesAreBounded, SizeIsKnown, Slots, RecordFits
  <2>7. TargetIsFree'
    BY <1>4, Parameters, SlotFacts DEF IInv, CloseFails, TypeOK, TargetIsFree
  <2> QED BY <2>1, <2>2, <2>3, <2>4, <2>5, <2>6, <2>7 DEF IInv
<1>5. CASE RemovesOldest
  <2>1. HistoryIsContiguous' /\ RecordsWereWritten'
    <3>1. CASE UNCHANGED diskVars
      BY <1>5, <3>1, SameContent DEF RemovesOldest
    <3>2. CASE content' = [content EXCEPT ![MaxBackups] = {}]
      BY <1>5, <3>2, Emptying, SlotFacts DEF RemovesOldest
    <3> QED BY <1>5, <3>1, <3>2 DEF RemovesOldest
  <2>2. TypeOK'
    BY <1>5, Parameters, SlotFacts DEF IInv, RemovesOldest, TypeOK
  <2>3. AbsentIsEmpty'
    BY <1>5, Parameters, SlotFacts DEF IInv, RemovesOldest, AbsentIsEmpty,
       TypeOK, SizeIsKnown, Slots
  <2>4. SizeIsKnown'
    BY <1>5, Parameters, SlotFacts DEF IInv, RemovesOldest, TypeOK,
       SizeIsKnown, Rotating
  <2>5. RecordFits'
    BY <1>5, Parameters, SlotFacts DEF IInv, RemovesOldest, TypeOK, Rotating,
       RecordFits
  <2>6. FilesAreBounded'
    BY <1>5, Parameters, SlotFacts DEF IInv, RemovesOldest, TypeOK,
       FilesAreBounded, SizeIsKnown, Slots, RecordFits
  <2>7. TargetIsFree'
    BY <1>5, Parameters, SlotFacts DEF IInv, RemovesOldest, TypeOK,
       TargetIsFree
  <2> QED BY <2>1, <2>2, <2>3, <2>4, <2>5, <2>6, <2>7 DEF IInv
<1>6. CASE ShiftsBackup
  <2>1. slot \in Slots /\ slot < MaxBackups
    BY <1>6, SlotFacts DEF IInv, TypeOK, TargetIsFree, ShiftsBackup
  <2>2. intact => slot + 1 = MaxBackups \/ content[slot + 1] = {}
    BY <1>6, <2>1, SlotFacts DEF IInv, TargetIsFree, AbsentIsEmpty,
       ShiftsBackup
  <2>3. /\ HistoryIsContiguous' /\ RecordsWereWritten' /\ AbsentIsEmpty'
        /\ FilesAreBounded' /\ exists' \in SUBSET Slots
        /\ content' \in [Slots -> SUBSET (Nat \ {0})] /\ bytes' \in [Slots -> Nat]
    <3>1. CASE slot \in exists
      BY <1>6, <3>1, <2>1, <2>2, Renaming DEF ShiftsBackup
    <3>2. CASE slot \notin exists
      BY <1>6, <3>2, SameContent DEF IInv, ShiftsBackup, TypeOK,
         AbsentIsEmpty, FilesAreBounded, Slots
    <3> QED BY <3>1, <3>2
  <2>4. TypeOK'
    BY <1>6, Parameters, SlotFacts, <2>1, <2>3 DEF IInv, ShiftsBackup, TypeOK
  <2>5. SizeIsKnown'
    BY <1>6, Parameters, SlotFacts, <2>1, <2>3 DEF IInv, ShiftsBackup, TypeOK,
       SizeIsKnown, Rotating, Rename
  <2>6. RecordFits'
    BY <1>6, Parameters, SlotFacts, <2>1, <2>3 DEF IInv, ShiftsBackup, TypeOK,
       Rotating, RecordFits
  <2>7. TargetIsFree'
    BY <1>6, Parameters, SlotFacts, <2>1, <2>3 DEF IInv, ShiftsBackup, TypeOK,
       TargetIsFree, Rename
  <2> QED BY <2>1, <2>3, <2>4, <2>5, <2>6, <2>7 DEF IInv
<1>7. CASE ShiftFails
  <2>1. RecordsWereWritten'
    BY <1>7 DEF IInv, ShiftFails, RecordsWereWritten, Slots
  <2>2. HistoryIsContiguous'
    BY <1>7 DEF ShiftFails, HistoryIsContiguous
  <2>3. TypeOK'
    BY <1>7, Parameters, SlotFacts DEF IInv, ShiftFails, TypeOK
  <2>4. AbsentIsEmpty'
    BY <1>7, Parameters, SlotFacts DEF IInv, ShiftFails, AbsentIsEmpty,
       TypeOK, SizeIsKnown, Slots
  <2>5. SizeIsKnown'
    BY <1>7, Parameters, SlotFacts DEF IInv, ShiftFails, TypeOK, SizeIsKnown,
       Rotating
  <2>6. RecordFits'
    BY <1>7, Parameters, SlotFacts DEF IInv, ShiftFails, TypeOK, Rotating,
       RecordFits
  <2>7. FilesAreBounded'
    BY <1>7, Parameters, SlotFacts DEF IInv, ShiftFails, TypeOK,
       FilesAreBounded, SizeIsKnown, Slots, RecordFits
  <2>8. TargetIsFree'
    BY <1>7, Parameters, SlotFacts DEF IInv, ShiftFails, TypeOK, TargetIsFree
  <2> QED BY <2>1, <2>2, <2>3, <2>4, <2>5, <2>6, <2>7, <2>8 DEF IInv
<1>8. CASE ShiftsLog
  <2>1. 0 \in Slots /\ 0 < MaxBackups
    BY <1>8, SlotFacts DEF IInv, TypeOK, TargetIsFree, ShiftsLog
  <2>2. intact => 0 + 1 = MaxBackups \/ content[0 + 1] = {}
    BY <1>8, <2>1, SlotFacts DEF IInv, TargetIsFree, AbsentIsEmpty, ShiftsLog
  <2>3. /\ HistoryIsContiguous' /\ RecordsWereWritten' /\ AbsentIsEmpty'
        /\ FilesAreBounded' /\ exists' \in SUBSET Slots
        /\ content' \in [Slots -> SUBSET (Nat \ {0})] /\ bytes' \in [Slots -> Nat]
    <3>1. CASE 0 \in exists
      BY <1>8, <3>1, <2>1, <2>2, Renaming DEF ShiftsLog
    <3>2. CASE 0 \notin exists
      BY <1>8, <3>2, SameContent DEF IInv, ShiftsLog, TypeOK, AbsentIsEmpty,
         FilesAreBounded, Slots
    <3> QED BY <3>1, <3>2
  <2>4. TypeOK'
    BY <1>8, Parameters, SlotFacts, <2>1, <2>3 DEF IInv, ShiftsLog, TypeOK
  <2>5. SizeIsKnown'
    BY <1>8, Parameters, SlotFacts, <2>1, <2>3 DEF IInv, ShiftsLog, TypeOK,
       SizeIsKnown, Rotating, Rename
  <2>6. RecordFits'
    BY <1>8, Parameters, SlotFacts, <2>1, <2>3 DEF IInv, ShiftsLog, TypeOK,
       Rotating, RecordFits
  <2>7. TargetIsFree'
    BY <1>8, Parameters, SlotFacts, <2>1, <2>3 DEF IInv, ShiftsLog, TypeOK,
       TargetIsFree, Rename
  <2> QED BY <2>1, <2>3, <2>4, <2>5, <2>6, <2>7 DEF IInv
<1>9. CASE RotationFails
  <2>1. HistoryIsContiguous' /\ RecordsWereWritten'
    BY <1>9, SameContent DEF RotationFails
  <2>2. TypeOK'
    BY <1>9, Parameters, SlotFacts DEF IInv, RotationFails, TypeOK
  <2>3. AbsentIsEmpty'
    BY <1>9, Parameters, SlotFacts DEF IInv, RotationFails, AbsentIsEmpty,
       TypeOK, SizeIsKnown, Slots
  <2>4. SizeIsKnown'
    BY <1>9, Parameters, SlotFacts DEF IInv, RotationFails, TypeOK,
       SizeIsKnown, Rotating
  <2>5. RecordFits'
    BY <1>9, Parameters, SlotFacts DEF IInv, RotationFails, TypeOK, Rotating,
       RecordFits
  <2>6. FilesAreBounded'
    BY <1>9, Parameters, SlotFacts DEF IInv, RotationFails, TypeOK,
       FilesAreBounded, SizeIsKnown, Slots, RecordFits
  <2>7. TargetIsFree'
    BY <1>9, Parameters, SlotFacts DEF IInv, RotationFails, TypeOK,
       TargetIsFree
  <2> QED BY <2>1, <2>2, <2>3, <2>4, <2>5, <2>6, <2>7 DEF IInv
<1>10. CASE OpensNewLog
  <2>1. content[0] = {} /\ 0 \in Slots
    BY <1>10, SlotFacts DEF IInv, OpensNewLog, TargetIsFree, AbsentIsEmpty
  <2>2. HistoryIsContiguous' /\ RecordsWereWritten'
    BY <1>10, <2>1, Emptying DEF OpensNewLog
  <2>3. TypeOK'
    BY <1>10, Parameters, SlotFacts, <2>1 DEF IInv, OpensNewLog, TypeOK
  <2>4. AbsentIsEmpty'
    BY <1>10, Parameters, SlotFacts, <2>1 DEF IInv, OpensNewLog,
       AbsentIsEmpty, TypeOK, SizeIsKnown, Slots
  <2>5. SizeIsKnown'
    BY <1>10, Parameters, SlotFacts, <2>1 DEF IInv, OpensNewLog, TypeOK,
       SizeIsKnown, Rotating
  <2>6. RecordFits'
    BY <1>10, Parameters, SlotFacts, <2>1 DEF IInv, OpensNewLog, TypeOK,
       Rotating, RecordFits
  <2>7. FilesAreBounded'
    BY <1>10, Parameters, SlotFacts, <2>1 DEF IInv, OpensNewLog, TypeOK,
       FilesAreBounded, SizeIsKnown, Slots, RecordFits
  <2>8. TargetIsFree'
    BY <1>10, Parameters, SlotFacts, <2>1 DEF IInv, OpensNewLog, TypeOK,
       TargetIsFree
  <2> QED BY <2>1, <2>2, <2>3, <2>4, <2>5, <2>6, <2>7, <2>8 DEF IInv
<1>11. CASE Writes
  <2>1. \A i \in Slots : content'[i] =
            IF i = 0 THEN content[0] \cup {written + 1} ELSE content[i]
    BY <1>11, SlotFacts DEF IInv, TypeOK, Writes
  <2>2. RecordsWereWritten'
    BY <1>11, <2>1 DEF IInv, TypeOK, RecordsWereWritten, Writes, Slots
  <2>3. Kept' = Kept \cup {written + 1}
    BY <2>1, KeptRecords, KeptRecordsNext, SlotFacts
  <2>4. Ordered => Ordered'
    BY <1>11, <2>1, SlotFacts DEF IInv, TypeOK, RecordsWereWritten, Ordered,
       Writes, Slots
  <2>5. Contiguous => Contiguous'
    <3> SUFFICES ASSUME Contiguous, NEW a \in Kept', NEW b \in a .. written'
                 PROVE  b \in Kept'
      BY DEF Contiguous
    <3>1. written \in Nat /\ written' = written + 1 /\ a \in Nat
      BY <1>11, <2>3, KeptRecords DEF IInv, TypeOK, Writes
    <3>2. CASE b = written + 1
      BY <3>2, <2>3
    <3>3. CASE b # written + 1
      <4>1. b \in Nat /\ a <= b /\ b <= written
        BY <3>1, <3>3
      <4>2. a \in Kept
        BY <3>1, <4>1, <2>3
      <4> QED BY <4>1, <4>2, <3>1, <2>3 DEF Contiguous
    <3> QED BY <3>2, <3>3
  <2>6. HistoryIsContiguous'
    BY <1>11, <2>4, <2>5, HistoryParts, HistoryPartsNext DEF IInv, Writes
  <2>7. TypeOK'
    BY <1>11, Parameters, SlotFacts DEF IInv, Writes, TypeOK
  <2>8. AbsentIsEmpty'
    BY <1>11, Parameters, SlotFacts DEF IInv, Writes, AbsentIsEmpty, TypeOK,
       SizeIsKnown, Slots
  <2>9. SizeIsKnown'
    BY <1>11, Parameters, SlotFacts DEF IInv, Writes, TypeOK, SizeIsKnown,
       Rotating
  <2>10. RecordFits'
    BY <1>11, Parameters, SlotFacts DEF IInv, Writes, TypeOK, Rotating,
       RecordFits
  <2>11. FilesAreBounded'
    BY <1>11, Parameters, SlotFacts DEF IInv, Writes, TypeOK, FilesAreBounded,
       SizeIsKnown, Slots, RecordFits
  <2>12. TargetIsFree'
    BY <1>11, Parameters, SlotFacts DEF IInv, Writes, TypeOK, TargetIsFree
  <2> QED BY <2>2, <2>6, <2>7, <2>8, <2>9, <2>10, <2>11, <2>12 DEF IInv
<1>12. CASE WriteFails
  <2>1. HistoryIsContiguous' /\ RecordsWereWritten'
    BY <1>12, SameContent DEF WriteFails
  <2>2. TypeOK'
    BY <1>12, Parameters, SlotFacts DEF IInv, WriteFails, TypeOK
  <2>3. AbsentIsEmpty'
    BY <1>12, Parameters, SlotFacts DEF IInv, WriteFails, AbsentIsEmpty,
       TypeOK, SizeIsKnown, Slots
  <2>4. SizeIsKnown'
    BY <1>12, Parameters, SlotFacts DEF IInv, WriteFails, TypeOK, SizeIsKnown,
       Rotating
  <2>5. RecordFits'
    BY <1>12, Parameters, SlotFacts DEF IInv, WriteFails, TypeOK, Rotating,
       RecordFits
  <2>6. FilesAreBounded'
    BY <1>12, Parameters, SlotFacts DEF IInv, WriteFails, TypeOK,
       FilesAreBounded, SizeIsKnown, Slots, RecordFits
  <2>7. TargetIsFree'
    BY <1>12, Parameters, SlotFacts DEF IInv, WriteFails, TypeOK, TargetIsFree
  <2> QED BY <2>1, <2>2, <2>3, <2>4, <2>5, <2>6, <2>7 DEF IInv
<1>13. CASE Close
  <2>1. HistoryIsContiguous' /\ RecordsWereWritten'
    BY <1>13, SameContent DEF Close
  <2>2. TypeOK'
    BY <1>13, Parameters, SlotFacts DEF IInv, Close, TypeOK
  <2>3. AbsentIsEmpty'
    BY <1>13, Parameters, SlotFacts DEF IInv, Close, AbsentIsEmpty, TypeOK,
       SizeIsKnown, Slots
  <2>4. SizeIsKnown'
    BY <1>13, Parameters, SlotFacts DEF IInv, Close, TypeOK, SizeIsKnown,
       Rotating
  <2>5. RecordFits'
    BY <1>13, Parameters, SlotFacts DEF IInv, Close, TypeOK, Rotating,
       RecordFits
  <2>6. FilesAreBounded'
    BY <1>13, Parameters, SlotFacts DEF IInv, Close, TypeOK, FilesAreBounded,
       SizeIsKnown, Slots, RecordFits
  <2>7. TargetIsFree'
    BY <1>13, Parameters, SlotFacts DEF IInv, Close, TypeOK, TargetIsFree
  <2> QED BY <2>1, <2>2, <2>3, <2>4, <2>5, <2>6, <2>7 DEF IInv
<1>14. CASE Crash
  <2>1. HistoryIsContiguous' /\ RecordsWereWritten'
    BY <1>14, SameContent DEF Crash
  <2>2. TypeOK'
    BY <1>14, Parameters, SlotFacts DEF IInv, Crash, TypeOK
  <2>3. AbsentIsEmpty'
    BY <1>14, Parameters, SlotFacts DEF IInv, Crash, AbsentIsEmpty, TypeOK,
       SizeIsKnown, Slots
  <2>4. SizeIsKnown'
    BY <1>14, Parameters, SlotFacts DEF IInv, Crash, TypeOK, SizeIsKnown,
       Rotating
  <2>5. RecordFits'
    BY <1>14, Parameters, SlotFacts DEF IInv, Crash, TypeOK, Rotating,
       RecordFits
  <2>6. FilesAreBounded'
    BY <1>14, Parameters, SlotFacts DEF IInv, Crash, TypeOK, FilesAreBounded,
       SizeIsKnown, Slots, RecordFits
  <2>7. TargetIsFree'
    BY <1>14, Parameters, SlotFacts DEF IInv, Crash, TypeOK, TargetIsFree
  <2> QED BY <2>1, <2>2, <2>3, <2>4, <2>5, <2>6, <2>7 DEF IInv
<1> QED BY <1>1, <1>2, <1>3, <1>4, <1>5, <1>6, <1>7,
           <1>8, <1>9, <1>10, <1>11, <1>12, <1>13, <1>14 DEF Next, WriteStep, RotateStep

LEMMA StepIInv == ASSUME IInv, [Next]_vars PROVE IInv'
<1>1. CASE UNCHANGED vars
  <2>1. HistoryIsContiguous' /\ RecordsWereWritten'
    BY <1>1, SameContent DEF vars
  <2> QED BY <1>1, <2>1 DEF vars, IInv, TypeOK, AbsentIsEmpty, SizeIsKnown,
             RecordFits, FilesAreBounded, TargetIsFree, Slots
<1> QED BY <1>1, NextIInv

-----------------------------------------------------------------------------
(* What a step does to the records that can be read.                        *)
LEMMA KeptByStep ==
    ASSUME IInv, [Next]_vars
    PROVE  \/ /\ written' = written + 1 /\ Kept' = Kept \cup {written'}
              /\ intact' = intact
           \/ /\ written' = written /\ Kept' \subseteq Kept
              /\ intact' => intact
              /\ intact' => Kept \ Kept' \subseteq content[MaxBackups]
<1> DEFINE Gone == /\ written' = written /\ Kept' \subseteq Kept
                   /\ intact' => intact
                   /\ intact' => Kept \ Kept' \subseteq content[MaxBackups]
<1> USE DEF diskVars, historyVars
<1>1. CASE Writes
  <2>1. \A i \in Slots : content'[i] =
            IF i = 0 THEN content[0] \cup {written + 1} ELSE content[i]
    BY <1>1, SlotFacts DEF IInv, TypeOK, Writes
  <2>2. Kept' = Kept \cup {written + 1}
    BY <2>1, KeptRecords, KeptRecordsNext, SlotFacts
  <2> QED BY <1>1, <2>2 DEF Writes
<1>2. CASE RemovesOldest
  <2>1. CASE UNCHANGED diskVars
    BY <1>2, <2>1, SameContent DEF RemovesOldest
  <2>2. CASE content' = [content EXCEPT ![MaxBackups] = {}]
    BY <1>2, <2>2, Emptying, SlotFacts DEF RemovesOldest
  <2> QED BY <1>2, <2>1, <2>2 DEF RemovesOldest
<1>3. ASSUME NEW i \in Slots, i = slot, pc = "shift", written' = written,
             intact' = intact, Rename(i)
      PROVE  Gone
  <2>1. i < MaxBackups
    BY <1>3 DEF IInv, TargetIsFree
  <2>2. intact => i + 1 = MaxBackups \/ content[i + 1] = {}
    BY <1>3, <2>1, SlotFacts DEF IInv, TargetIsFree, AbsentIsEmpty
  <2> QED BY <1>3, <2>1, <2>2, Renaming
<1>4. CASE ShiftsBackup \/ ShiftsLog
  <2>1. CASE slot \in exists
    BY <1>4, <2>1, <1>3 DEF IInv, TypeOK, ShiftsBackup, ShiftsLog
  <2>2. CASE slot \notin exists
    BY <1>4, <2>2, SameContent DEF ShiftsBackup, ShiftsLog
  <2> QED BY <2>1, <2>2
<1>5. CASE ShiftFails
  BY <1>5 DEF ShiftFails, Kept, Slots
<1>6. CASE OpensNewLog
  <2>1. content[0] = {} /\ 0 \in Slots
    BY <1>6, SlotFacts DEF IInv, OpensNewLog, TargetIsFree, AbsentIsEmpty
  <2>2. Kept' \subseteq Kept /\ Kept \ Kept' \subseteq content[0]
    BY <1>6, <2>1, Emptying DEF OpensNewLog
  <2> QED BY <1>6, <2>1, <2>2 DEF OpensNewLog
<1>7. CASE \/ Start \/ WriteStep \/ RotationFails \/ WriteFails
           \/ Close \/ Crash \/ UNCHANGED vars
  <2>1. content' = content /\ written' = written /\ intact' = intact
    BY <1>7 DEF Start, WriteStep, Fits, Rotates, CloseFails, RotationFails,
                WriteFails, Close, Crash, vars
  <2> QED BY <2>1, SameContent
<1> QED BY <1>1, <1>2, <1>4, <1>5, <1>6, <1>7 DEF Next, RotateStep

(* Only the oldest of what is kept is given up.                             *)
LEMMA RetainedStep ==
    ASSUME IInv, IInv', [Next]_vars
    PROVE  [Retained!Next]_<<written, Kept, intact>>
<1>1. CASE /\ written' = written + 1 /\ Kept' = Kept \cup {written'}
           /\ intact' = intact
  BY <1>1 DEF Retained!Next, Retained!Append
<1>2. CASE /\ written' = written /\ Kept' \subseteq Kept /\ (intact' => intact)
  <2>1. intact \in BOOLEAN /\ intact' \in BOOLEAN
    BY DEF IInv, TypeOK
  <2>2. CASE ~intact'
    <3>1. intact' = FALSE
      BY <2>1, <2>2
    <3> QED BY <1>2, <3>1 DEF Retained!Next, Retained!Damage
  <2>3. CASE intact'
    <3>1. Contiguous' /\ intact' = intact
      <4>1. Contiguous'
        BY <2>3, HistoryPartsNext DEF IInv
      <4>2. intact' = intact
        BY <1>2, <2>1, <2>3
      <4> QED BY <4>1, <4>2
    <3>2. ASSUME NEW a \in Kept', NEW b \in Kept, a < b PROVE b \in Kept'
      <4>1. a \in Kept
        BY <1>2
      <4>2. a \in Nat /\ b \in Nat /\ b <= written /\ written \in Nat
        BY <4>1, KeptRecords DEF IInv, TypeOK, RecordsWereWritten
      <4>3. b \in a .. written
        BY <4>2, <3>2
      <4> QED BY <3>1, <4>3, <1>2 DEF Contiguous
    <3> QED BY <1>2, <3>1, <3>2 DEF Retained!Next, Retained!Discard
  <2> QED BY <2>2, <2>3
<1> QED BY <1>1, <1>2, KeptByStep

-----------------------------------------------------------------------------
(* The invariant holds in every reachable state.                            *)
THEOREM Inductive == Spec => []IInv
  BY InitIInv, StepIInv, PTL DEF Spec

(* Every variable keeps its type.                                           *)
THEOREM TypeCorrect == Spec => []TypeOK
<1>1. IInv => TypeOK
  BY DEF IInv
<1> QED BY <1>1, Inductive, PTL

(* No log file outgrows MaxSize or the one record it holds, whatever fails. *)
THEOREM FilesStayBounded == Spec => []FilesAreBounded
<1>1. IInv => FilesAreBounded
  BY DEF IInv
<1> QED BY <1>1, Inductive, PTL

(* The records that can be read are the latest ones, in order, without a    *)
(* hole, unless a rename of a backup has failed.                            *)
THEOREM HistoryStaysContiguous == Spec => []HistoryIsContiguous
<1>1. IInv => HistoryIsContiguous
  BY DEF IInv
<1> QED BY <1>1, Inductive, PTL

(* A step gives up only records of the oldest backup.                       *)
THEOREM LosesTheOldest == Spec => OnlyTheOldestBackupIsLost
<1>1. IInv /\ [Next]_vars => [intact' => Kept \ Kept' \subseteq content[MaxBackups]]_vars
  <2> SUFFICES ASSUME IInv, [Next]_vars, intact'
               PROVE  Kept \ Kept' \subseteq content[MaxBackups]
    OBVIOUS
  <2>1. CASE Kept' = Kept \cup {written'}
    BY <2>1
  <2> QED BY <2>1, KeptByStep
<1> QED BY <1>1, Inductive, PTL DEF Spec, OnlyTheOldestBackupIsLost

(* The rotated log implements RetainedLog.                                  *)
THEOREM KeepsPromise == Spec => LogIsRetained
<1>1. Init => Retained!Init
  BY DEF Init, Kept, Retained!Init
<1>2. IInv /\ IInv' /\ [Next]_vars => [Retained!Next]_<<written, Kept, intact>>
  BY RetainedStep
<1> QED BY <1>1, <1>2, Inductive, PTL DEF Spec, Retained!Spec, LogIsRetained

-----------------------------------------------------------------------------
(* What is true instead of "no file means closed": between two writes, a    *)
(* writer without an open file refuses every record.                        *)
Mute == pc = "idle" /\ file # "open"

(* Close apart, only a log that could not be closed, renamed or opened anew *)
(* in a rotation mutes the writer; one such error does so for the rest of   *)
(* the process, and leaves the disk as it is (logging.go:109-147).          *)
MuteIsForGood ==
    [][/\ ~Mute /\ Mute' =>
              Close \/ RotationFails \/ \E n \in Lengths : CloseFails(n)
       /\ Mute => (Mute' \/ pc' = "down") /\ UNCHANGED <<written, diskVars>>]_vars

(* A writer that is not mute goes mute by a failed rotation or by Close.    *)
THEOREM MuteWritersStayMute == Spec => MuteIsForGood
<1>1. ASSUME IInv, [Next]_vars, ~Mute, Mute'
      PROVE  Close \/ RotationFails \/ \E n \in Lengths : CloseFails(n)
  BY <1>1
  DEF Mute, IInv, SizeIsKnown, Next, WriteStep, RotateStep, Start, Fits, Rotates,
      RemovesOldest, ShiftsBackup, ShiftFails, ShiftsLog, OpensNewLog,
      Writes, WriteFails, Crash, vars
<1>2. ASSUME [Next]_vars, Mute
      PROVE  (Mute' \/ pc' = "down") /\ UNCHANGED <<written, diskVars>>
  BY <1>2
  DEF Mute, Next, WriteStep, RotateStep, Start, Fits, Rotates, CloseFails,
      RemovesOldest, ShiftsBackup, ShiftFails, ShiftsLog, RotationFails,
      OpensNewLog, Writes, WriteFails, Close, Crash, vars, historyVars, diskVars
<1> QED BY <1>1, <1>2, Inductive, PTL DEF Spec, MuteIsForGood
=============================================================================
