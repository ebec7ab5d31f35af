------------------------- MODULE NonVolatileMemory -------------------------
(***************************************************************************)
(* NonVolatileMemoryImpl over two regions of one EEPROM.  A request starts *)
(* an access; the device performs each access some time later and then     *)
(* calls back, in the order of the requests.  A save is a chain of three   *)
(* accesses.  Power may fail between any two steps.                        *)
(*                                                                         *)
(* One operation of a region owns the region's callback slot; the validity *)
(* query and the formatting have slots of their own, so their accesses     *)
(* come in between, and the query shares the read-back buffer.             *)
(***************************************************************************)
EXTENDS CalibrationRuns, Sequences

CONSTANTS
    Blank,           \* an erased region
    Torn,            \* anything else magic, version or CRC reject
    Calibrations,    \* calibration records the callers save
    Configs,         \* configurations they save
    DefaultConfig,   \* MakeDefaultConfigData
    Faulty,          \* the accesses the device may get wrong
    MaxPending       \* bound: accesses the callers keep in flight

ASSUME ContentsAssumption ==
    /\ Calibrations \subseteq Records
    /\ DefaultConfig \in Configs
    /\ Blank # Torn
    /\ {Blank, Torn} \cap (Records \cup Configs) = {}
    /\ Faulty \subseteq {"write", "read"}
    /\ MaxPending \in Nat

VARIABLES
    region,           \* region -> what it holds
    buffer,           \* calibrationBuffer, configBuffer
    readBackBuffer,   \* calibrationReadBackBuffer, configReadBackBuffer
    output,           \* the record this step hands out, Blank if none
    onDone,           \* the operation that owns the slot of a region
    onIsCalibrationValidDone,
    onFormatDone,
    accesses,         \* accesses begun and not yet called back, in order
    performed,        \* how many of them the device has performed
    answer,           \* the answer this step gives, "none" if it gives none
    held              \* history: the record the users count on, or Blank

nvmVars == <<region, buffer, readBackBuffer, output, onDone,
             onIsCalibrationValidDone, onFormatDone, accesses, performed,
             answer, held>>

Regions == {"calibration", "config"}
Values(r) == IF r = "calibration" THEN Calibrations ELSE Configs
Contents(r) == Values(r) \cup {Blank, Torn}
Unwritten(r) == IF r = "calibration" THEN DefaultRecord ELSE DefaultConfig
Operations == {"none", "save", "load", "invalidate"}
Access == [on : Regions, kind : {"erase", "write", "read"},
           by : {"save", "load", "invalidate", "valid", "format"}]

TypeOK ==
    /\ \A r \in Regions :
          /\ region[r] \in Contents(r)
          /\ buffer[r] \in Values(r) \cup {Unwritten(r)}
          /\ readBackBuffer[r] \in Contents(r)
    /\ accesses \in Seq(Access)
    /\ performed \in 0 .. Len(accesses)
    /\ output \in Calibrations \cup Configs \cup {Blank}
    /\ onDone \in [Regions -> Operations]
    /\ onIsCalibrationValidDone \in BOOLEAN
    /\ onFormatDone \in BOOLEAN
    /\ answer \in {"none", "ok", "error", "valid", "notValid"}
    /\ held \in Calibrations \cup {Blank}

\* The checks on magic, version and CRC.
Valid(content) == content \notin {Blank, Torn}
Decoded(content) == IF Valid(content) THEN content ELSE Blank

\* The memory of the processor after a reset.
Idle == [
    buffer |-> [r \in Regions |-> Unwritten(r)],
    readBackBuffer |-> [r \in Regions |-> Blank],
    onDone |-> [r \in Regions |-> "none"]]

Init ==
    /\ buffer = Idle.buffer
    /\ readBackBuffer = Idle.readBackBuffer
    /\ output = Blank
    /\ onDone = Idle.onDone
    /\ onIsCalibrationValidDone = FALSE
    /\ onFormatDone = FALSE
    /\ accesses = <<>>
    /\ performed = 0
    /\ answer = "none"
    /\ region = [r \in Regions |-> Blank]
    /\ held = Blank

-----------------------------------------------------------------------------
(* Requests.  One that finds its slot taken returns without calling back   *)
(* and changes nothing, so it has no step.                                 *)

Begin(r, kind, by) ==
    /\ Len(accesses) < MaxPending
    /\ accesses' = Append(accesses, [on |-> r, kind |-> kind, by |-> by])

Own(r, operation) ==
    /\ onDone[r] = "none"
    /\ onDone' = [onDone EXCEPT ![r] = operation]

\* The step answers nobody.
Silent ==
    /\ answer' = "none"
    /\ output' = Blank

Quietly ==
    /\ Silent
    /\ UNCHANGED <<region, readBackBuffer, performed, held>>

\* Mutant: the record is copied before the guard is looked at.
CopiedBeforeGuard(r) ==
    /\ \E v \in Values(r) : buffer' = [buffer EXCEPT ![r] = v]
    /\ \/ Own(r, "save") /\ Begin(r, "erase", "save")
       \/ onDone[r] # "none" /\ UNCHANGED <<onDone, accesses>>
    /\ Quietly
    /\ UNCHANGED <<onIsCalibrationValidDone, onFormatDone>>

\* SaveCalibration, SaveConfig; ResetConfigToDefaults saves DefaultConfig.
Save(r) ==
    /\ Own(r, "save")
    /\ \E v \in Values(r) : buffer' = [buffer EXCEPT ![r] = v]
    /\ Begin(r, "erase", "save")
    /\ Quietly
    /\ UNCHANGED <<onIsCalibrationValidDone, onFormatDone>>

Load(r) ==
    /\ Own(r, "load")
    /\ Begin(r, "read", "load")
    /\ Quietly
    /\ UNCHANGED <<buffer, onIsCalibrationValidDone, onFormatDone>>

InvalidateCalibration ==
    /\ Own("calibration", "invalidate")
    /\ Begin("calibration", "erase", "invalidate")
    /\ Quietly
    /\ UNCHANGED <<buffer, onIsCalibrationValidDone, onFormatDone>>

IsCalibrationValid ==
    /\ ~onIsCalibrationValidDone
    /\ onIsCalibrationValidDone' = TRUE
    /\ Begin("calibration", "read", "valid")
    /\ Quietly
    /\ UNCHANGED <<buffer, onDone, onFormatDone>>

Format ==
    /\ ~onFormatDone
    /\ onFormatDone' = TRUE
    /\ Begin("calibration", "erase", "format")
    /\ Quietly
    /\ UNCHANGED <<buffer, onDone, onIsCalibrationValidDone>>

-----------------------------------------------------------------------------
(* The device.                                                             *)

NextAccess == accesses[performed + 1]

Outcome(kind, right) == {right} \cup IF kind \in Faulty THEN {Torn} ELSE {}

PerformErase(r) ==
    /\ NextAccess.kind = "erase"
    /\ region' = [region EXCEPT ![r] = Blank]
    /\ held' = IF r = "calibration" /\ NextAccess.by = "format"
               THEN Blank ELSE held
    /\ UNCHANGED readBackBuffer

PerformWrite(r) ==
    /\ NextAccess.kind = "write"
    /\ \E v \in Outcome("write", buffer[r]) :
          region' = [region EXCEPT ![r] = v]
    /\ UNCHANGED <<readBackBuffer, held>>

PerformRead(r) ==
    /\ NextAccess.kind = "read"
    /\ \E v \in Outcome("read", region[r]) :
          readBackBuffer' = [readBackBuffer EXCEPT ![r] = v]
    /\ UNCHANGED <<region, held>>

Perform ==
    /\ performed < Len(accesses)
    /\ performed' = performed + 1
    /\ \E r \in {NextAccess.on} :
          PerformErase(r) \/ PerformWrite(r) \/ PerformRead(r)
    /\ Silent
    /\ UNCHANGED <<buffer, onDone, onIsCalibrationValidDone, onFormatDone,
                   accesses>>

\* Erasing half a record reads like erasing all of it, a write may be torn.
PowerCycle ==
    /\ \/ UNCHANGED region
       \/ /\ performed < Len(accesses)
          /\ NextAccess.kind = "write"
          /\ region' = [region EXCEPT ![NextAccess.on] = Torn]
    /\ held' = Decoded(region'["calibration"])
    /\ buffer' = Idle.buffer
    /\ readBackBuffer' = Idle.readBackBuffer
    /\ onDone' = Idle.onDone
    /\ onIsCalibrationValidDone' = FALSE
    /\ onFormatDone' = FALSE
    /\ accesses' = <<>>
    /\ performed' = 0
    /\ Silent

-----------------------------------------------------------------------------
(* Callbacks of the device, one for each kind of access and caller.        *)

CalledBack(r, kind, by) ==
    /\ performed > 0
    /\ Head(accesses) = [on |-> r, kind |-> kind, by |-> by]
    /\ performed' = performed - 1
    /\ UNCHANGED <<region, buffer, readBackBuffer>>

\* The callback ends: no further access.
Last == accesses' = Tail(accesses)

\* The callback begins the next access of the same operation.
Then(r, kind, by) ==
    accesses' = Append(Tail(accesses), [on |-> r, kind |-> kind, by |-> by])

OnErased(r) ==
    /\ CalledBack(r, "erase", "save")
    /\ Then(r, "write", "save")
    /\ Silent
    /\ UNCHANGED <<onDone, onIsCalibrationValidDone, onFormatDone, held>>

OnWritten(r) ==
    /\ CalledBack(r, "write", "save")
    /\ Then(r, "read", "save")
    /\ Silent
    /\ UNCHANGED <<onDone, onIsCalibrationValidDone, onFormatDone, held>>

\* The owner of the slot is answered and the slot is free again.
Answer(r, result) ==
    /\ onDone' = [onDone EXCEPT ![r] = "none"]
    /\ answer' = result
    /\ held' = IF r = "calibration" THEN Decoded(region[r]) ELSE held
    /\ UNCHANGED <<onIsCalibrationValidDone, onFormatDone>>

\* Mutants: the read-back is not compared; a mismatch is not answered.
NotCompared(r) == Answer(r, "ok")
NotAnswered(r) ==
    IF buffer[r] = readBackBuffer[r]
    THEN Answer(r, "ok")
    ELSE /\ answer' = "none"
         /\ UNCHANGED <<onDone, onIsCalibrationValidDone, onFormatDone, held>>

Verify(r) ==
    Answer(r, IF buffer[r] = readBackBuffer[r] THEN "ok" ELSE "error")

OnReadBack(r) ==
    /\ CalledBack(r, "read", "save")
    /\ Last
    /\ Verify(r)
    /\ output' = Blank

\* Mutant: the record is handed out without looking at its CRC.
HandedOut(r) ==
    /\ output' = readBackBuffer[r]
    /\ Answer(r, "ok")

\* A rejected calibration is an error, a rejected configuration the default.
Checked(r) ==
    \/ /\ Valid(readBackBuffer[r])
       /\ output' = readBackBuffer[r]
       /\ Answer(r, "ok")
    \/ /\ ~Valid(readBackBuffer[r])
       /\ r = "calibration"
       /\ output' = Blank
       /\ Answer(r, "error")
    \/ /\ ~Valid(readBackBuffer[r])
       /\ r = "config"
       /\ output' = DefaultConfig
       /\ Answer(r, "ok")

OnReadForLoad(r) ==
    /\ CalledBack(r, "read", "load")
    /\ Last
    /\ Checked(r)

OnInvalidated ==
    /\ CalledBack("calibration", "erase", "invalidate")
    /\ Last
    /\ Answer("calibration", "ok")
    /\ output' = Blank

\* Mutant: the query answers from the record that was saved last.
FromWriteBuffer ==
    IF buffer["calibration"] # DefaultRecord THEN "valid" ELSE "notValid"

FromReadBack ==
    IF Valid(readBackBuffer["calibration"]) THEN "valid" ELSE "notValid"

OnReadForIsValid ==
    /\ CalledBack("calibration", "read", "valid")
    /\ Last
    /\ onIsCalibrationValidDone' = FALSE
    /\ answer' = FromReadBack
    /\ output' = Blank
    /\ UNCHANGED <<onDone, onFormatDone, held>>

OnCalibrationSectorFormattedDuringFormat ==
    /\ CalledBack("calibration", "erase", "format")
    /\ Then("config", "erase", "format")
    /\ Silent
    /\ UNCHANGED <<onDone, onIsCalibrationValidDone, onFormatDone, held>>

OnFormatted ==
    /\ CalledBack("config", "erase", "format")
    /\ Last
    /\ onFormatDone' = FALSE
    /\ answer' = "ok"
    /\ output' = Blank
    /\ UNCHANGED <<onDone, onIsCalibrationValidDone, held>>

Callback(r) ==
    \/ OnErased(r) \/ OnWritten(r) \/ OnReadBack(r) \/ OnReadForLoad(r)
    \/ r = "calibration" /\ OnInvalidated
    \/ r = "calibration" /\ OnReadForIsValid
    \/ r = "calibration" /\ OnCalibrationSectorFormattedDuringFormat
    \/ r = "config" /\ OnFormatted

Requests ==
    \/ \E r \in Regions : Save(r) \/ Load(r)
    \/ InvalidateCalibration \/ IsCalibrationValid \/ Format

Next ==
    \/ Requests
    \/ Perform
    \/ \E r \in Regions : Callback(r)
    \/ PowerCycle

Spec == Init /\ [][Next]_nvmVars

\* The device performs what was requested and the dispatcher calls back.
FairSpec ==
    /\ Spec
    /\ WF_nvmVars(Perform)
    /\ WF_nvmVars(\E r \in Regions : Callback(r))

-----------------------------------------------------------------------------
(* Properties.                                                             *)

\* What a caller is told agrees with the region at that moment: a save that
\* is answered ok is in the region whole, a load hands out what the region
\* holds or the default, whatever query came in between.  Formatting is the
\* exception (OnCalibrationReadBack, OnCalibrationReadForLoad).
AnswersMatchRegion ==
    [][\A r \in Regions :
          onDone[r] # "none" /\ onDone'[r] = "none" /\ answer' = "ok"
                             /\ ~onFormatDone =>
             CASE onDone[r] = "save" -> region[r] = buffer[r]
               [] onDone[r] = "load" ->
                     \/ output' = region[r]
                     \/ r = "config" /\ output' = DefaultConfig
               [] OTHER -> region[r] = Blank]_nvmVars

\* The validity query shares its buffer with saves and loads, and still only
\* says valid of a region that holds a record; while an erase is under way
\* the answer may be late (IsCalibrationValid).
ValidIsCurrent ==
    [][answer' = "valid" /\ onDone["calibration"] \notin {"save", "invalidate"}
                         /\ ~onFormatDone =>
          Valid(region["calibration"])]_nvmVars

\* Every operation that was accepted is answered or lost to a power cycle:
\* none waits for a slot or a buffer that another one holds.
OperationsEnd ==
    /\ \A r \in Regions : onDone[r] # "none" ~> onDone[r] = "none"
    /\ onIsCalibrationValidDone ~> ~onIsCalibrationValidDone
    /\ onFormatDone ~> ~onFormatDone

\* The calibration half implements the store the state machine is checked
\* against: a save leaves the old record, none or the new one.
Store == INSTANCE CalibrationStore WITH
    stored <- held,
    saving <- IF onDone["calibration"] = "save" THEN buffer["calibration"]
              ELSE DefaultRecord,
    onCalibrationDone <- onDone["calibration"],
    onIsValidDone <- onIsCalibrationValidDone
ImplementsStore == Store!StoreSpec
=============================================================================
