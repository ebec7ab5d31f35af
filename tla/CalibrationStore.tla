-------------------------- MODULE CalibrationStore --------------------------
(***************************************************************************)
(* The calibration half of the non-volatile memory as its users see it:    *)
(* one operation at a time shares one callback slot, the validity query    *)
(* has a slot of its own, and a request that finds its slot taken is       *)
(* dropped without an answer.  NonVolatileMemory.tla refines the phases.   *)
(***************************************************************************)
EXTENDS CalibrationRuns

CONSTANT Blank   \* no valid record: erased, half written or never written

ASSUME BlankAssumption == Blank \notin Records

VARIABLES
    stored,            \* what the region holds
    saving,            \* the record a save in flight is writing
    onCalibrationDone, \* the operation that owns the shared slot
    onIsValidDone      \* TRUE while a validity query is in flight

storeVars == <<stored, saving, onCalibrationDone, onIsValidDone>>

StoreTypeOK ==
    /\ stored \in Records \cup {Blank}
    /\ saving \in Records
    /\ onCalibrationDone \in {"none", "save", "load", "invalidate"}
    /\ onIsValidDone \in BOOLEAN

StoreBusy == onCalibrationDone # "none"

\* Copies the record and starts the erase, or is dropped.
SaveCalibration(record) ==
    /\ onCalibrationDone' = IF StoreBusy THEN onCalibrationDone ELSE "save"
    /\ saving' = IF StoreBusy THEN saving ELSE record
    /\ UNCHANGED <<stored, onIsValidDone>>

\* LoadCalibration and InvalidateCalibration share the slot with the save.
RequestStore(operation) ==
    /\ onCalibrationDone' = IF StoreBusy THEN onCalibrationDone ELSE operation
    /\ UNCHANGED <<stored, saving>>

\* An operation of the shared slot ends and leaves content in the region.
StoreDone(operation, content) ==
    /\ onCalibrationDone = operation
    /\ onCalibrationDone' = "none"
    /\ stored' = content
    /\ saving' = DefaultRecord
    /\ UNCHANGED onIsValidDone

\* What the validity query may answer: the region is in flux during a save
\* or an invalidation, so both answers are possible then, and a read may go
\* wrong at any time.
ValidityAnswers ==
    IF onCalibrationDone \in {"save", "invalidate"}
    THEN BOOLEAN
    ELSE {FALSE, stored # Blank}

\* Mutant: a torn write is taken for a record.
TornWriteAccepted ==
    CASE onCalibrationDone = "save" -> {stored, DefaultRecord, saving}
      [] onCalibrationDone = "invalidate" -> {stored, Blank}
      [] OTHER -> {stored}

\* What a power cycle leaves: a write in flight may not have begun, may be
\* torn (the CRC rejects it) or may be complete.
AfterPowerCycle ==
    CASE onCalibrationDone = "save" -> {stored, Blank, saving}
      [] onCalibrationDone = "invalidate" -> {stored, Blank}
      [] OTHER -> {stored}

-----------------------------------------------------------------------------
(* The store by itself, for whatever its users request.                    *)

StoreInit ==
    /\ stored = Blank
    /\ saving = DefaultRecord
    /\ onCalibrationDone = "none"
    /\ onIsValidDone = FALSE

StoreRequest ==
    \/ \E record \in Records : SaveCalibration(record)
    \/ /\ \E operation \in {"load", "invalidate"} : RequestStore(operation)
       /\ UNCHANGED onIsValidDone
    \/ /\ onIsValidDone' = TRUE
       /\ UNCHANGED <<stored, saving, onCalibrationDone>>

StoreAnswer ==
    \/ StoreDone("load", stored)
    \/ \E content \in {Blank, saving} : StoreDone("save", content)
    \/ \E content \in {Blank, stored} : StoreDone("invalidate", content)
    \/ /\ onIsValidDone' = FALSE
       /\ UNCHANGED <<stored, saving, onCalibrationDone>>

StoreFormatted ==
    /\ stored' = Blank
    /\ UNCHANGED <<saving, onCalibrationDone, onIsValidDone>>

StorePowerCycle ==
    /\ stored' \in AfterPowerCycle
    /\ saving' = DefaultRecord
    /\ onCalibrationDone' = "none"
    /\ onIsValidDone' = FALSE

StoreNext ==
    StoreRequest \/ StoreAnswer \/ StoreFormatted \/ StorePowerCycle

StoreSpec == StoreInit /\ [][StoreNext]_storeVars
=============================================================================
