----------------------- MODULE NonVolatileMemoryProofs -----------------------
(***************************************************************************)
(* The memory access by access, for every set of records and any number of *)
(* accesses in flight: what an answer says of the region, and that the     *)
(* calibration half implements the store the state machine uses.           *)
(***************************************************************************)
EXTENDS NonVolatileMemory, TLAPS

-----------------------------------------------------------------------------
(* The accesses in flight.  Each belongs to a slot that is held for it, and *)
(* a slot has one access at a time.                                        *)

Queue == accesses \in Seq(Access) /\ performed \in Nat /\ performed <= Len(accesses)

InFlight == 1 .. Len(accesses)

Owners == {"save", "load", "invalidate"}

Slot(a) == IF a.by \in Owners THEN a.on ELSE a.by

\* Which accesses an operation consists of.
Fits(a) ==
    /\ a.by \in {"load", "valid"} => a.kind = "read"
    /\ a.by \in {"invalidate", "format"} => a.kind = "erase"
    /\ a.by \in {"valid", "invalidate"} => a.on = "calibration"

OneEach == \A i, j \in InFlight : Slot(accesses[i]) = Slot(accesses[j]) => i = j

AllFit == \A i \in InFlight : Fits(accesses[i])

OwnersHold ==
    \A i \in InFlight :
        accesses[i].by \in Owners => onDone[accesses[i].on] = accesses[i].by

FlagsHold ==
    \A i \in InFlight :
        /\ accesses[i].by = "valid" => onIsCalibrationValidDone
        /\ accesses[i].by = "format" => onFormatDone

QueueInv == Queue /\ OneEach /\ AllFit /\ OwnersHold /\ FlagsHold

-----------------------------------------------------------------------------
(* What the memory holds.                                                  *)

Memory == Calibrations \cup Configs \cup {Blank, Torn}

MemoryTypes ==
    /\ region \in [Regions -> Memory]
    /\ readBackBuffer \in [Regions -> Memory]
    /\ buffer \in [Regions -> Memory \cup {DefaultRecord}]
    /\ onDone \in [Regions -> Operations]
    /\ \A r \in Regions :
          /\ region[r] \in Contents(r) /\ readBackBuffer[r] \in Contents(r)
          /\ buffer[r] \in Values(r) \cup {Unwritten(r)}
          /\ onDone[r] = "save" => buffer[r] \in Values(r)
    /\ output \in Calibrations \cup Configs \cup {Blank}
    /\ answer \in {"none", "ok", "error", "valid", "notValid"}
    /\ held \in Calibrations \cup {Blank}

Flags == onIsCalibrationValidDone \in BOOLEAN /\ onFormatDone \in BOOLEAN

\* Since access i was performed the region it is on has only been read.
OnlyReadSince(i) ==
    \A j \in i + 1 .. performed :
        accesses[j].on = accesses[i].on => accesses[j].kind = "read"

Fresh ==
    \A i \in 1 .. performed :
        accesses[i].kind = "read" /\ OnlyReadSince(i) =>
            readBackBuffer[accesses[i].on] \in {Torn, region[accesses[i].on]}

\* What a save and an invalidation have left once their erase is performed.
Landed ==
    \A i \in InFlight :
        /\ accesses[i].by = "save" /\ (accesses[i].kind = "erase" => i <= performed)
             => region[accesses[i].on] \in {Blank, Torn, buffer[accesses[i].on]}
        /\ accesses[i].by = "invalidate" /\ i <= performed
             => region[accesses[i].on] = Blank

\* The record the users count on is in the region unless it is being replaced.
HeldFits ==
    Decoded(region["calibration"]) \in
        {held}
        \cup (IF onDone["calibration"] \in {"save", "invalidate"} THEN {Blank} ELSE {})
        \cup (IF onDone["calibration"] = "save" THEN {buffer["calibration"]} ELSE {})

NvmInv == QueueInv /\ MemoryTypes /\ Flags /\ Fresh /\ Landed /\ HeldFits

LEMMA Names ==
    /\ "calibration" \in Regions /\ "config" \in Regions
    /\ \A r \in Regions : r = "calibration" \/ r = "config"
    /\ Blank # Torn
    /\ \A v \in Calibrations \cup Configs : v # Blank /\ v # Torn
    /\ Calibrations \subseteq Records
    /\ DefaultConfig \in Configs
    /\ DefaultRecord \in Records
    /\ DefaultRecord # Blank /\ DefaultRecord # Torn
<1>1. DefaultRecord \in Records
  BY DEF DefaultRecord, Records, Callbacks, Runs, NoRun
<1> QED
  BY <1>1, ContentsAssumption DEF Regions

LEMMA NvmInvInit == Init => NvmInv
<1> SUFFICES ASSUME Init PROVE NvmInv
  OBVIOUS
<1>1. accesses = <<>> /\ performed = 0 /\ Len(accesses) = 0
  BY DEF Init
<1>2. QueueInv /\ Fresh /\ Landed
  BY <1>1, SMT DEF QueueInv, Queue, OneEach, AllFit, OwnersHold, FlagsHold,
     InFlight, Fresh, Landed
<1>3. MemoryTypes
  <2>1. \A r \in Regions : Unwritten(r) \in Memory \cup {DefaultRecord}
    BY Names DEF Unwritten, Memory
  <2> QED
    BY <2>1, Names DEF Init, Idle, MemoryTypes, Memory, Contents, Operations
<1>4. Flags
  BY Zenon DEF Init, Flags
<1>5. HeldFits
  BY Names DEF Init, HeldFits, Decoded, Valid
<1> QED
  BY <1>2, <1>3, <1>4, <1>5 DEF NvmInv

LEMMA AccessFields ==
    ASSUME Queue, NEW i \in InFlight
    PROVE  /\ accesses[i].on \in Regions
           /\ accesses[i].kind \in {"erase", "write", "read"}
           /\ accesses[i].by \in {"save", "load", "invalidate", "valid", "format"}
<1>1. accesses[i] \in Access
  BY SMT DEF Queue, InFlight
<1> QED
  BY <1>1 DEF Access

\* Slots of owners are regions, the others have names of their own.
LEMMA SlotNames ==
    ASSUME Queue, NEW i \in InFlight
    PROVE  /\ accesses[i].by \in Owners => Slot(accesses[i]) = accesses[i].on
           /\ accesses[i].by \notin Owners => Slot(accesses[i]) = accesses[i].by
           /\ accesses[i].by \notin Owners <=> accesses[i].by \in {"valid", "format"}
           /\ Slot(accesses[i]) \in {"calibration", "config", "valid", "format"}
  BY AccessFields DEF Slot, Owners, Regions

-----------------------------------------------------------------------------
(* Requests.                                                               *)

\* The queue after a request.
LEMMA Begun ==
    ASSUME Queue, NEW r \in Regions, NEW kind \in {"erase", "write", "read"},
           NEW by \in {"save", "load", "invalidate", "valid", "format"},
           Begin(r, kind, by), UNCHANGED performed
    PROVE  /\ Queue' /\ Len(accesses') = Len(accesses) + 1
           /\ \A i \in InFlight : accesses'[i] = accesses[i]
           /\ accesses'[Len(accesses')].on = r
           /\ accesses'[Len(accesses')].kind = kind
           /\ accesses'[Len(accesses')].by = by
           /\ Len(accesses) \in Nat
<1> DEFINE a == [on |-> r, kind |-> kind, by |-> by]
<1>1. a \in Access
  BY DEF Access
<1>2. accesses' = Append(accesses, a)
  BY DEF Begin
<1>3. a.on = r /\ a.kind = kind /\ a.by = by
  OBVIOUS
<1> HIDE DEF a
<1> QED
  BY <1>1, <1>2, <1>3, SMT DEF Queue, InFlight

LEMMA RequestKeepsQueue ==
    ASSUME NvmInv, NEW r \in Regions, NEW kind \in {"erase", "write", "read"},
           NEW by \in {"save", "load", "invalidate", "valid", "format"},
           Begin(r, kind, by), Quietly,
           Fits([on |-> r, kind |-> kind, by |-> by]),
           \A i \in InFlight : /\ by \in Owners => Slot(accesses[i]) # r
                               /\ by \notin Owners => Slot(accesses[i]) # by
    PROVE  Queue' /\ OneEach' /\ AllFit' /\ Fresh'
<1>1. UNCHANGED <<region, readBackBuffer, performed>>
  BY DEF Quietly
<1>2. /\ Queue' /\ Len(accesses') = Len(accesses) + 1
      /\ \A i \in InFlight : accesses'[i] = accesses[i]
      /\ accesses'[Len(accesses')].on = r
      /\ accesses'[Len(accesses')].kind = kind
      /\ accesses'[Len(accesses')].by = by
      /\ Len(accesses) \in Nat
  BY <1>1, Begun DEF NvmInv, QueueInv
<1>3. OneEach'
  BY <1>2, SMT DEF NvmInv, QueueInv, OneEach, InFlight, Slot
<1>4. AllFit'
  BY <1>2, SMT DEF NvmInv, QueueInv, AllFit, InFlight, Fits
<1>5. Fresh'
  <2> SUFFICES ASSUME NEW i \in 1 .. performed, accesses'[i].kind = "read",
                      OnlyReadSince(i)'
               PROVE  readBackBuffer[accesses'[i].on]
                          \in {Torn, region[accesses'[i].on]}
    BY <1>1, Zenon DEF Fresh
  <2>1. \A j \in 1 .. performed : accesses'[j] = accesses[j]
    BY <1>2, SMT DEF NvmInv, QueueInv, Queue, InFlight
  <2>2. OnlyReadSince(i)
    BY <1>1, <2>1, SMT DEF NvmInv, QueueInv, Queue, OnlyReadSince
  <2> QED
    BY <2>1, <2>2 DEF NvmInv, Fresh
<1> QED
  BY <1>2, <1>3, <1>4, <1>5

\* A request of an owner: the slot was free, and is not afterwards.
LEMMA OwnerRequestKeeps ==
    ASSUME NvmInv, NEW r \in Regions, Save(r) \/ Load(r) \/
                                      (r = "calibration" /\ InvalidateCalibration)
    PROVE  NvmInv'
<1>0. PICK by \in Owners, kind \in {"erase", "read"} :
          /\ Own(r, by) /\ Begin(r, kind, by) /\ Quietly
          /\ UNCHANGED <<onIsCalibrationValidDone, onFormatDone>>
          /\ by = "load" => kind = "read"
          /\ by # "load" => kind = "erase"
          /\ by = "invalidate" => r = "calibration"
          /\ \/ by = "save" /\ \E v \in Values(r) : buffer' = [buffer EXCEPT ![r] = v]
             \/ by # "save" /\ UNCHANGED buffer
  BY Zenon DEF Save, Load, InvalidateCalibration, Owners
<1>1. /\ onDone[r] = "none" /\ onDone' = [onDone EXCEPT ![r] = by]
      /\ UNCHANGED <<region, readBackBuffer, performed, held,
                     onIsCalibrationValidDone, onFormatDone>>
      /\ output' = Blank /\ answer' = "none"
  BY <1>0, Zenon DEF Own, Quietly, Silent
<1>2. onDone' \in [Regions -> Operations] /\ onDone'[r] = by
      /\ \A s \in Regions \ {r} : onDone'[s] = onDone[s]
  BY <1>1 DEF NvmInv, MemoryTypes, Owners, Operations
<1>3. \A i \in InFlight : accesses[i].by \in Owners => accesses[i].on # r
  BY <1>1 DEF NvmInv, QueueInv, OwnersHold, Owners
<1>4. \A i \in InFlight : Slot(accesses[i]) # r
  BY <1>3, SlotNames, Names DEF NvmInv, QueueInv
<1>5. Fits([on |-> r, kind |-> kind, by |-> by])
  BY <1>0, SMT DEF Fits, Owners
<1>6. Queue' /\ OneEach' /\ AllFit' /\ Fresh'
  BY <1>0, <1>4, <1>5, RequestKeepsQueue DEF Owners
<1>7. /\ Len(accesses') = Len(accesses) + 1
      /\ \A i \in InFlight : accesses'[i] = accesses[i]
      /\ accesses'[Len(accesses')].on = r
      /\ accesses'[Len(accesses')].kind = kind
      /\ accesses'[Len(accesses')].by = by
      /\ Len(accesses) \in Nat /\ performed <= Len(accesses) /\ performed \in Nat
      /\ accesses \in Seq(Access)
  BY <1>0, <1>1, Begun DEF NvmInv, QueueInv, Queue, Owners
<1>8. OwnersHold'
  <2> SUFFICES ASSUME NEW i \in InFlight', accesses'[i].by \in Owners
               PROVE  onDone'[accesses'[i].on] = accesses'[i].by
    BY DEF OwnersHold
  <2>1. CASE i \in InFlight
    <3>1. accesses'[i] = accesses[i] /\ accesses[i].by \in Owners
          /\ accesses[i].on # r /\ accesses[i].on \in Regions
      BY <1>3, <1>7, <2>1, AccessFields DEF NvmInv, QueueInv
    <3> QED
      BY <1>2, <2>1, <3>1 DEF NvmInv, QueueInv, OwnersHold
  <2>2. CASE i = Len(accesses')
    BY <1>2, <1>7, <2>2
  <2> QED
    BY <1>7, <2>1, <2>2 DEF InFlight
<1>9. FlagsHold'
  BY <1>1, <1>7, SMT DEF NvmInv, QueueInv, FlagsHold, InFlight, Owners
<1>10. buffer' \in [Regions -> Memory \cup {DefaultRecord}]
       /\ (by = "save" => buffer'[r] \in Values(r))
       /\ (by # "save" => buffer'[r] = buffer[r])
       /\ \A s \in Regions \ {r} : buffer'[s] = buffer[s]
  <2>1. Values(r) \subseteq Memory
    BY DEF Values, Memory
  <2> QED
    BY <1>0, <2>1 DEF NvmInv, MemoryTypes
<1>11. MemoryTypes'
  BY <1>1, <1>2, <1>10 DEF NvmInv, MemoryTypes
<1>12. Landed'
  <2>1. ASSUME NEW i \in InFlight, accesses[i].by \in Owners
        PROVE  /\ accesses'[i] = accesses[i] /\ accesses[i].on \in Regions \ {r}
               /\ buffer'[accesses[i].on] = buffer[accesses[i].on]
    BY <1>3, <1>7, <1>10, <2>1, AccessFields DEF NvmInv, QueueInv
  <2>2. \A i \in InFlight' \ InFlight : i = Len(accesses') /\ ~(i <= performed)
    BY <1>7 DEF InFlight
  <2> QED
    BY <1>0, <1>1, <1>7, <2>1, <2>2, SMT DEF NvmInv, Landed, Owners
<1>13. HeldFits'
  BY <1>1, <1>2, <1>10, Names, SMT DEF NvmInv, HeldFits, Decoded, Valid
<1>14. Flags'
  BY <1>1, Zenon DEF NvmInv, Flags
<1> QED
  BY <1>6, <1>8, <1>9, <1>11, <1>12, <1>13, <1>14 DEF NvmInv, QueueInv

\* A request with a flag of its own: the validity query, the formatting.
LEMMA FlagRequestKeeps ==
    ASSUME NvmInv, IsCalibrationValid \/ Format
    PROVE  NvmInv'
<1>0. PICK by \in {"valid", "format"}, kind \in {"erase", "read"} :
          /\ Begin("calibration", kind, by) /\ Quietly
          /\ UNCHANGED <<buffer, onDone>>
          /\ \/ /\ by = "valid" /\ kind = "read" /\ ~onIsCalibrationValidDone
                /\ onIsCalibrationValidDone' = TRUE /\ UNCHANGED onFormatDone
             \/ /\ by = "format" /\ kind = "erase" /\ ~onFormatDone
                /\ onFormatDone' = TRUE /\ UNCHANGED onIsCalibrationValidDone
  BY Zenon DEF IsCalibrationValid, Format
<1>1. /\ UNCHANGED <<region, readBackBuffer, performed, held, buffer, onDone>>
      /\ output' = Blank /\ answer' = "none"
  BY <1>0, Zenon DEF Quietly, Silent
<1>2. Flags'
  BY <1>0, Zenon DEF NvmInv, Flags
<1>3. \A i \in InFlight : accesses[i].by # by
  <2>1. CASE by = "valid"
    BY <1>0, <2>1, Zenon DEF NvmInv, QueueInv, FlagsHold
  <2>2. CASE by = "format"
    BY <1>0, <2>2, Zenon DEF NvmInv, QueueInv, FlagsHold
  <2> QED
    BY <2>1, <2>2
<1>4. \A i \in InFlight : Slot(accesses[i]) # by
  BY <1>3, SlotNames, AccessFields DEF NvmInv, QueueInv, Regions
<1>5. Fits([on |-> "calibration", kind |-> kind, by |-> by])
  BY <1>0, SMT DEF Fits
<1>6. Queue' /\ OneEach' /\ AllFit' /\ Fresh'
  <2>1. by \notin Owners
    BY DEF Owners
  <2>2. /\ by \in {"save", "load", "invalidate", "valid", "format"}
        /\ kind \in {"erase", "write", "read"} /\ "calibration" \in Regions
    BY Names
  <2>3. Begin("calibration", kind, by) /\ Quietly
    BY <1>0, Zenon
  <2> QED
    BY <1>4, <1>5, <2>1, <2>2, <2>3, RequestKeepsQueue, ZenonT(60)
<1>7. /\ Len(accesses') = Len(accesses) + 1
      /\ \A i \in InFlight : accesses'[i] = accesses[i]
      /\ accesses'[Len(accesses')].on = "calibration"
      /\ accesses'[Len(accesses')].kind = kind
      /\ accesses'[Len(accesses')].by = by
      /\ Len(accesses) \in Nat /\ performed <= Len(accesses) /\ performed \in Nat
  BY <1>0, <1>1, Names, Begun DEF NvmInv, QueueInv, Queue
<1>8. OwnersHold'
  <2>1. \A i \in InFlight' \ InFlight : accesses'[i].by \notin Owners
    BY <1>7 DEF InFlight, Owners
  <2> QED
    BY <1>1, <1>7, <2>1, SMT DEF NvmInv, QueueInv, OwnersHold
<1>9. FlagsHold'
  <2>1. /\ onIsCalibrationValidDone => onIsCalibrationValidDone'
        /\ onFormatDone => onFormatDone'
        /\ by = "valid" => onIsCalibrationValidDone'
        /\ by = "format" => onFormatDone'
    BY <1>0
  <2> QED
    BY <1>7, <2>1, SMT DEF NvmInv, QueueInv, FlagsHold, InFlight
<1>10. MemoryTypes'
  BY <1>1 DEF NvmInv, MemoryTypes
<1>11. Landed'
  BY <1>1, <1>7, SMT DEF NvmInv, Landed, InFlight
<1>12. HeldFits'
  BY <1>1 DEF NvmInv, HeldFits
<1> QED
  BY <1>2, <1>6, <1>8, <1>9, <1>10, <1>11, <1>12 DEF NvmInv, QueueInv

LEMMA RequestsKeep == NvmInv /\ Requests => NvmInv'
  BY OwnerRequestKeeps, FlagRequestKeeps, Names DEF Requests

-----------------------------------------------------------------------------
(* The device performs an access; the queue stays as it is.                *)

LEMMA PerformKeeps == NvmInv /\ Perform => NvmInv'
<1> SUFFICES ASSUME NvmInv, Perform PROVE NvmInv'
  OBVIOUS
<1> DEFINE p == performed + 1
<1> DEFINE r == accesses[p].on
<1>1. /\ performed < Len(accesses) /\ performed' = p
      /\ UNCHANGED <<buffer, onDone, onIsCalibrationValidDone, onFormatDone,
                     accesses>>
      /\ output' = Blank /\ answer' = "none"
      /\ PerformErase(r) \/ PerformWrite(r) \/ PerformRead(r)
  BY Zenon DEF Perform, Silent, NextAccess
<1>2. /\ Queue /\ Queue' /\ p \in InFlight /\ performed \in Nat
      /\ \A i \in 1 .. p : i \in InFlight
  BY <1>1, SMT DEF NvmInv, QueueInv, Queue, InFlight
<1>3. /\ r \in Regions /\ accesses[p].by \in Owners \cup {"valid", "format"}
      /\ Fits(accesses[p])
  BY <1>2, AccessFields DEF NvmInv, QueueInv, AllFit, Owners
<1>4. \A i \in InFlight : /\ accesses[i].on \in Regions
                          /\ i # p => Slot(accesses[i]) # Slot(accesses[p])
  BY <1>2, AccessFields DEF NvmInv, QueueInv, OneEach
<1>5. QueueInv'
  <2>1. OneEach' /\ AllFit' /\ OwnersHold' /\ FlagsHold'
    BY <1>1, Zenon DEF NvmInv, QueueInv, OneEach, AllFit, OwnersHold, FlagsHold,
       InFlight
  <2> QED
    BY <1>2, <2>1 DEF QueueInv
<1>6. Flags'
  BY <1>1, Zenon DEF NvmInv, Flags
<1>7. /\ region' \in [Regions -> Memory]
      /\ \A s \in Regions \ {r} : region'[s] = region[s]
      /\ accesses[p].kind = "erase" => region'[r] = Blank
      /\ accesses[p].kind = "write" => region'[r] \in {buffer[r], Torn}
                                       /\ accesses[p].by = "save"
                                       /\ buffer[r] \in Values(r)
      /\ accesses[p].kind = "read" => region' = region
      /\ accesses[p].kind \in {"erase", "write", "read"}
  <2>1. accesses[p].kind = "write" =>
            accesses[p].by = "save" /\ buffer[r] \in Values(r)
    BY <1>2, <1>3 DEF Fits, Owners, NvmInv, QueueInv, OwnersHold, MemoryTypes
  <2>2. Values(r) \subseteq Memory
    BY DEF Values, Memory
  <2>3. CASE PerformErase(r)
    BY <1>3, <2>3 DEF PerformErase, NextAccess, NvmInv, MemoryTypes, Memory
  <2>4. CASE PerformWrite(r)
    <3>1. /\ accesses[p].kind = "write"
          /\ \E v \in {buffer[r], Torn} : region' = [region EXCEPT ![r] = v]
      BY <2>4 DEF PerformWrite, NextAccess, Outcome
    <3>2. buffer[r] \in Memory /\ Torn \in Memory
      BY <2>1, <2>2, <3>1 DEF Memory
    <3> HIDE DEF r, p
    <3> QED
      BY <1>3, <2>1, <3>1, <3>2 DEF NvmInv, MemoryTypes
  <2>5. CASE PerformRead(r)
    BY <2>5 DEF PerformRead, NextAccess, NvmInv, MemoryTypes
  <2> QED
    BY <1>1, <2>3, <2>4, <2>5
<1>8. /\ readBackBuffer' \in [Regions -> Memory]
      /\ \A s \in Regions \ {r} : readBackBuffer'[s] = readBackBuffer[s]
      /\ accesses[p].kind # "read" => readBackBuffer' = readBackBuffer
      /\ accesses[p].kind = "read" => readBackBuffer'[r] \in {region[r], Torn}
  <2>1. CASE accesses[p].kind = "read"
    <3>1. \E v \in {region[r], Torn} :
             readBackBuffer' = [readBackBuffer EXCEPT ![r] = v]
      BY <1>1, <2>1 DEF PerformErase, PerformWrite, PerformRead, NextAccess,
         Outcome
    <3>2. region[r] \in Memory /\ Torn \in Memory
      BY <1>3 DEF NvmInv, MemoryTypes, Memory
    <3> HIDE DEF r, p
    <3> QED
      BY <1>3, <2>1, <3>1, <3>2 DEF NvmInv, MemoryTypes
  <2>2. CASE accesses[p].kind # "read"
    BY <1>1, <2>2 DEF PerformErase, PerformWrite, PerformRead, NextAccess,
       NvmInv, MemoryTypes
  <2> QED
    BY <2>1, <2>2
<1>9. /\ held' \in {held, Blank}
      /\ held' = Blank /\ held # Blank => region'["calibration"] = Blank
      /\ held' = held \/ held' = Blank
  BY <1>1, <1>7 DEF PerformErase, PerformWrite, PerformRead, NextAccess
<1>10. r # "calibration" => held' = held
  BY <1>1 DEF PerformErase, PerformWrite, PerformRead, NextAccess
<1>11. accesses[p].by # "format" => held' = held
  BY <1>1 DEF PerformErase, PerformWrite, PerformRead, NextAccess
<1>12. accesses[p].by = "format" /\ r = "calibration" => held' = Blank
  BY <1>1, <1>3 DEF PerformErase, PerformWrite, PerformRead, NextAccess, Fits
<1> HIDE DEF p, r
<1>13. MemoryTypes'
  <2>1. \A s \in Regions : /\ region'[s] \in Contents(s)
                           /\ readBackBuffer'[s] \in Contents(s)
    BY <1>3, <1>7, <1>8 DEF NvmInv, MemoryTypes, Contents
  <2> QED
    BY <1>1, <1>7, <1>8, <1>9, <2>1 DEF NvmInv, MemoryTypes
<1>14. Fresh'
  <2> SUFFICES ASSUME NEW i \in 1 .. p, accesses[i].kind = "read",
                      OnlyReadSince(i)'
               PROVE  readBackBuffer'[accesses[i].on]
                          \in {Torn, region'[accesses[i].on]}
    BY <1>1, Zenon DEF Fresh
  <2>0. r = accesses[p].on /\ p = performed + 1 /\ accesses[i].on \in Regions
    BY <1>2, <1>4 DEF r, p
  <2>1. CASE i = p
    BY <1>7, <1>8, <2>0, <2>1
  <2>2. CASE i # p
    <3>1. i \in 1 .. performed /\ p \in i + 1 .. p
      BY <1>2, <2>0, <2>2
    <3>2. OnlyReadSince(i)
      BY <1>1, <1>2, <2>0, SMT DEF OnlyReadSince
    <3>3. accesses[p].on = accesses[i].on => accesses[p].kind = "read"
      BY <1>1, <3>1 DEF OnlyReadSince
    <3>4. readBackBuffer[accesses[i].on] \in {Torn, region[accesses[i].on]}
      BY <3>1, <3>2 DEF NvmInv, Fresh
    <3> QED
      BY <1>7, <1>8, <2>0, <3>3, <3>4
  <2> QED
    BY <2>1, <2>2
<1>15. Landed'
  <2> SUFFICES ASSUME NEW i \in InFlight
               PROVE  /\ /\ accesses[i].by = "save"
                         /\ accesses[i].kind = "erase" => i <= p
                         => region'[accesses[i].on]
                                \in {Blank, Torn, buffer[accesses[i].on]}
                      /\ accesses[i].by = "invalidate" /\ i <= p
                         => region'[accesses[i].on] = Blank
    BY <1>1, Zenon DEF Landed, InFlight
  <2>0. /\ r = accesses[p].on /\ p = performed + 1 /\ i \in Nat
        /\ i # p => (i <= p <=> i <= performed)
    BY <1>2, SMT DEF r, p, InFlight
  <2>1. CASE i = p
    <3>1. accesses[p].by = "invalidate" => accesses[p].kind = "erase"
      BY <1>3 DEF Fits
    <3>2. accesses[p].by = "save" /\ accesses[p].kind = "read"
            => region[r] \in {Blank, Torn, buffer[r]}
      BY <1>2, <2>0 DEF NvmInv, Landed
    <3> QED
      BY <1>7, <2>0, <2>1, <3>1, <3>2
  <2>2. CASE i # p /\ accesses[i].on # r
    BY <1>4, <1>7, <2>0, <2>2 DEF NvmInv, Landed
  <2>3. CASE i # p /\ accesses[i].on = r /\ accesses[i].by \in Owners
    <3>1. accesses[p].by \notin Owners
      BY <1>2, <1>4, <2>0, <2>3, SlotNames
    <3>2. accesses[p].kind = "read" \/ accesses[p].kind = "erase"
      BY <1>3, <3>1 DEF Fits
    <3> QED
      BY <1>7, <2>0, <2>3, <3>2 DEF NvmInv, Landed
  <2> QED
    BY <2>1, <2>2, <2>3 DEF Owners
<1>16. HeldFits'
  <2>1. UNCHANGED <<buffer, onDone>>
    BY <1>1
  <2>2. CASE r = "config"
    BY <1>7, <1>10, <2>1, <2>2, Names DEF NvmInv, HeldFits, Decoded, Valid
  <2>3. CASE r = "calibration" /\ accesses[p].kind = "read"
    <3>1. held' = held
      BY <1>3, <1>11, <2>3 DEF Fits
    <3> QED
      BY <1>7, <2>1, <2>3, <3>1 DEF NvmInv, HeldFits, Decoded, Valid
  <2>4. CASE r = "calibration" /\ accesses[p].by = "format"
    BY <1>3, <1>7, <1>12, <2>1, <2>4, Names DEF Fits, HeldFits, Decoded, Valid
  <2>5. CASE r = "calibration" /\ accesses[p].by \in {"save", "invalidate"}
    <3>1. held' = held
      BY <1>11, <2>5
    <3>2. onDone["calibration"] = accesses[p].by
      BY <1>2, <2>5 DEF NvmInv, QueueInv, OwnersHold, Owners, r
    <3>3. accesses[p].by = "invalidate" => accesses[p].kind = "erase"
      BY <1>3 DEF Fits
    <3>4. CASE accesses[p].kind = "read"
      BY <2>3, <2>5, <3>4
    <3>5. CASE accesses[p].kind = "erase"
      BY <1>7, <2>1, <2>5, <3>2, <3>5, Names DEF HeldFits, Decoded, Valid
    <3>6. CASE accesses[p].kind = "write"
      <4>1. accesses[p].by = "save"
            /\ Decoded(region'["calibration"]) \in {buffer["calibration"], Blank}
        BY <1>7, <2>5, <3>6, Names DEF Decoded, Valid
      <4> QED
        BY <2>1, <3>2, <4>1 DEF HeldFits
    <3> QED
      BY <1>7, <3>4, <3>5, <3>6
  <2>6. accesses[p].by \in {"load", "valid"} => accesses[p].kind = "read"
    BY <1>3 DEF Fits
  <2> QED
    BY <1>3, <2>2, <2>3, <2>4, <2>5, <2>6 DEF Owners, Regions
<1> QED
  BY <1>5, <1>6, <1>13, <1>14, <1>15, <1>16 DEF NvmInv

-----------------------------------------------------------------------------
(* Callbacks.  The head of the queue was performed; the rest moves up, and  *)
(* the next access of the same operation may join at the end.              *)

Shifted(a) ==
    accesses' = Tail(accesses) \/ accesses' = Append(Tail(accesses), a)

LEMMA QueueMovesUp ==
    ASSUME Queue, NEW a \in Access, performed > 0, performed' = performed - 1,
           Shifted(a)
    PROVE  /\ Queue' /\ 1 \in InFlight /\ performed' \in Nat
           /\ \A i \in InFlight' :
                 \/ i + 1 \in InFlight /\ accesses'[i] = accesses[i + 1]
                 \/ accesses' # Tail(accesses) /\ i = Len(accesses') /\ accesses'[i] = a
           /\ \A i \in 1 .. performed' : i \in InFlight' /\ i + 1 \in InFlight
                                         /\ accesses'[i] = accesses[i + 1]
           /\ \A j \in 2 .. Len(accesses) : j - 1 \in InFlight'
                                            /\ accesses'[j - 1] = accesses[j]
<1>1. /\ accesses \in Seq(Access) /\ Len(accesses) \in Nat /\ performed \in Nat
      /\ performed <= Len(accesses) /\ accesses # <<>> /\ Len(accesses) > 0
  BY SMT DEF Queue
<1>2. /\ Tail(accesses) \in Seq(Access)
      /\ Len(Tail(accesses)) = Len(accesses) - 1
      /\ \A i \in 1 .. Len(accesses) - 1 : Tail(accesses)[i] = accesses[i + 1]
  BY <1>1, SMT
<1>3. CASE accesses' = Tail(accesses)
  <2>1. /\ accesses' \in Seq(Access) /\ Len(accesses') = Len(accesses) - 1
        /\ \A i \in 1 .. Len(accesses) - 1 : accesses'[i] = accesses[i + 1]
    BY <1>2, <1>3
  <2> QED
    BY <1>1, <2>1, SMT DEF Queue, InFlight
<1>4. CASE accesses' = Append(Tail(accesses), a)
  <2>1. /\ accesses' \in Seq(Access) /\ Len(accesses') = Len(accesses)
        /\ \A i \in 1 .. Len(accesses) - 1 : accesses'[i] = accesses[i + 1]
        /\ accesses'[Len(accesses)] = a
    BY <1>1, <1>2, <1>4, SMT
  <2>2. accesses' # Tail(accesses)
    BY <1>1, <1>2, <2>1
  <2> QED
    BY <1>1, <2>1, <2>2, SMT DEF Queue, InFlight
<1> QED
  BY <1>3, <1>4 DEF Shifted

\* What holds of the queue and of the buffers after any callback whose access,
\* if it begins one, takes the place of the head's in its slot.
LEMMA ShiftKeeps ==
    ASSUME NvmInv, NEW a \in Access, performed > 0, performed' = performed - 1,
           Shifted(a), UNCHANGED <<region, buffer, readBackBuffer>>,
           accesses' # Tail(accesses) =>
              /\ Fits(a) /\ Slot(a) = Slot(Head(accesses))
              /\ a.by = "save" => /\ a.kind # "erase"
                                  /\ region[a.on] \in {Blank, Torn, buffer[a.on]}
              /\ a.by # "invalidate"
    PROVE  Queue' /\ OneEach' /\ AllFit' /\ Fresh' /\ Landed'
<1>0. /\ Queue' /\ Queue /\ 1 \in InFlight /\ performed' \in Nat
      /\ \A i \in InFlight' :
            \/ i + 1 \in InFlight /\ accesses'[i] = accesses[i + 1]
            \/ accesses' # Tail(accesses) /\ i = Len(accesses') /\ accesses'[i] = a
      /\ \A i \in 1 .. performed' : i \in InFlight' /\ i + 1 \in InFlight
                                    /\ accesses'[i] = accesses[i + 1]
      /\ \A j \in 2 .. Len(accesses) : j - 1 \in InFlight'
                                       /\ accesses'[j - 1] = accesses[j]
  BY QueueMovesUp DEF NvmInv, QueueInv
<1>1. Head(accesses) = accesses[1]
  BY <1>0, SMT DEF Queue, InFlight
<1>2. \A i \in InFlight' : i \in Nat /\ i + 1 # 1
  BY <1>0, SMT DEF InFlight, Queue
<1>3. OneEach'
  <2> SUFFICES ASSUME NEW i \in InFlight', NEW j \in InFlight',
                      Slot(accesses'[i]) = Slot(accesses'[j])
               PROVE  i = j
    BY Zenon DEF OneEach, Slot
  <2>1. CASE /\ i + 1 \in InFlight /\ accesses'[i] = accesses[i + 1]
             /\ j + 1 \in InFlight /\ accesses'[j] = accesses[j + 1]
    <3>1. i + 1 = j + 1
      BY <2>1 DEF NvmInv, QueueInv, OneEach
    <3> QED
      BY <1>2, <3>1
  <2>2. accesses' # Tail(accesses) =>
          \A k \in InFlight' : k + 1 \in InFlight /\ accesses'[k] = accesses[k + 1]
                               => Slot(accesses'[k]) # Slot(a)
    BY <1>0, <1>1, <1>2 DEF NvmInv, QueueInv, OneEach
  <2> QED
    BY <1>0, <2>1, <2>2
<1>4. AllFit'
  <2>1. \A i \in InFlight' : Fits(accesses'[i])
    BY <1>0 DEF NvmInv, QueueInv, AllFit
  <2> QED
    BY <2>1, Zenon DEF AllFit, Fits
<1>5. Fresh'
  <2> SUFFICES ASSUME NEW i \in 1 .. performed', accesses'[i].kind = "read",
                      OnlyReadSince(i)'
               PROVE  readBackBuffer[accesses'[i].on]
                          \in {Torn, region[accesses'[i].on]}
    BY Zenon DEF Fresh
  <2>1. /\ i + 1 \in 1 .. performed /\ i \in Nat /\ performed \in Nat
        /\ performed <= Len(accesses) /\ accesses'[i] = accesses[i + 1]
    BY <1>0, SMT DEF Queue
  <2>2. OnlyReadSince(i + 1)
    <3> SUFFICES ASSUME NEW j \in (i + 1) + 1 .. performed,
                        accesses[j].on = accesses[i + 1].on
                 PROVE  accesses[j].kind = "read"
      BY Zenon DEF OnlyReadSince
    <3>1. j \in 2 .. Len(accesses) /\ j - 1 \in i + 1 .. performed'
      BY <2>1, <1>0
    <3>2. accesses'[j - 1] = accesses[j]
      BY <1>0, <3>1
    <3>3. accesses'[j - 1].on = accesses'[i].on => accesses'[j - 1].kind = "read"
      BY <3>1, Zenon DEF OnlyReadSince
    <3> QED
      BY <2>1, <3>2, <3>3
  <2> QED
    BY <2>1, <2>2 DEF NvmInv, Fresh
<1>6. Landed'
  <2> SUFFICES ASSUME NEW i \in InFlight'
               PROVE  /\ /\ accesses'[i].by = "save"
                         /\ accesses'[i].kind = "erase" => i <= performed'
                         => region[accesses'[i].on]
                                \in {Blank, Torn, buffer[accesses'[i].on]}
                      /\ accesses'[i].by = "invalidate" /\ i <= performed'
                         => region[accesses'[i].on] = Blank
    BY Zenon DEF Landed
  <2>1. CASE accesses' # Tail(accesses) /\ accesses'[i] = a
    BY <2>1
  <2>2. CASE i + 1 \in InFlight /\ accesses'[i] = accesses[i + 1]
    <3>1. i <= performed' <=> i + 1 <= performed
      BY <1>0, <1>2 DEF Queue
    <3> QED
      BY <2>2, <3>1 DEF NvmInv, Landed
  <2> QED
    BY <1>0, <2>1, <2>2
<1> QED
  BY <1>0, <1>3, <1>4, <1>5, <1>6

\* The access a callback is for, with all that is known of it.
LEMMA HeadOf ==
    ASSUME NvmInv, NEW r \in Regions, NEW kind, NEW by, CalledBack(r, kind, by)
    PROVE  /\ performed > 0 /\ performed' = performed - 1 /\ 1 \in InFlight
           /\ UNCHANGED <<region, buffer, readBackBuffer>>
           /\ Head(accesses) = accesses[1] /\ accesses[1] \in Access
           /\ accesses[1].on = r /\ accesses[1].kind = kind /\ accesses[1].by = by
           /\ 1 \in 1 .. performed
<1>1. /\ performed > 0 /\ performed' = performed - 1
      /\ UNCHANGED <<region, buffer, readBackBuffer>>
      /\ Head(accesses) = [on |-> r, kind |-> kind, by |-> by]
  BY DEF CalledBack
<1>2. /\ 1 \in InFlight /\ Head(accesses) = accesses[1] /\ accesses[1] \in Access
      /\ 1 \in 1 .. performed
  BY <1>1, SMT DEF NvmInv, QueueInv, Queue, InFlight
<1> QED
  BY <1>1, <1>2

\* The next access of the same operation.
LEMMA ChainKeeps ==
    ASSUME NvmInv,
           \/ \E r \in Regions : OnErased(r) \/ OnWritten(r)
           \/ OnCalibrationSectorFormattedDuringFormat
    PROVE  NvmInv'
<1>0. PICK r \in Regions, from \in {"erase", "write"}, by \in {"save", "format"},
           to \in Regions, kind \in {"erase", "write", "read"} :
          /\ CalledBack(r, from, by) /\ Then(to, kind, by) /\ Silent
          /\ UNCHANGED <<onDone, onIsCalibrationValidDone, onFormatDone, held>>
          /\ \/ by = "save" /\ to = r /\ kind # "erase"
             \/ by = "format" /\ kind = "erase"
  BY Names, Zenon DEF OnErased, OnWritten, OnCalibrationSectorFormattedDuringFormat
<1> DEFINE a == [on |-> to, kind |-> kind, by |-> by]
<1>1. /\ performed > 0 /\ performed' = performed - 1 /\ 1 \in InFlight
      /\ UNCHANGED <<region, buffer, readBackBuffer>>
      /\ Head(accesses) = accesses[1] /\ accesses[1] \in Access
      /\ accesses[1].on = r /\ accesses[1].kind = from /\ accesses[1].by = by
      /\ 1 \in 1 .. performed
  BY <1>0, HeadOf
<1>2. /\ a \in Access /\ a.on = to /\ a.kind = kind /\ a.by = by
  BY DEF Access
<1>3. Fits(a) /\ Slot(a) = Slot(Head(accesses))
  BY <1>0, <1>1, <1>2 DEF Fits, Slot, Owners
<1>4. by = "save" => region[r] \in {Blank, Torn, buffer[r]}
  BY <1>1 DEF NvmInv, Landed
<1>5. accesses' = Append(Tail(accesses), a)
  BY <1>0, Zenon DEF Then
<1> HIDE DEF a
<1>6. a.by # "invalidate"
      /\ (a.by = "save" => /\ a.kind # "erase"
                           /\ region[a.on] \in {Blank, Torn, buffer[a.on]})
  BY <1>0, <1>2, <1>4
<1>7. Queue' /\ OneEach' /\ AllFit' /\ Fresh' /\ Landed'
  BY <1>1, <1>2, <1>3, <1>5, <1>6, ShiftKeeps DEF Shifted
<1>8. \A i \in InFlight' :
         \/ i + 1 \in InFlight /\ accesses'[i] = accesses[i + 1]
         \/ accesses'[i] = a
  BY <1>1, <1>2, <1>5, QueueMovesUp DEF Shifted, NvmInv, QueueInv
<1>9. OwnersHold'
  <2>1. by = "save" => onDone[to] = "save"
    BY <1>0, <1>1 DEF NvmInv, QueueInv, OwnersHold, Owners
  <2> QED
    BY <1>0, <1>2, <1>8, <2>1 DEF NvmInv, QueueInv, OwnersHold, Owners
<1>10. FlagsHold'
  <2>1. by = "format" => onFormatDone
    BY <1>1, Zenon DEF NvmInv, QueueInv, FlagsHold
  <2> QED
    BY <1>0, <1>2, <1>8, <2>1, SMT DEF NvmInv, QueueInv, FlagsHold
<1>11. MemoryTypes'
  BY <1>0, <1>1 DEF NvmInv, MemoryTypes, Silent
<1>12. Flags' /\ HeldFits'
  BY <1>0, <1>1, Zenon DEF NvmInv, Flags, HeldFits, Decoded
<1> QED
  BY <1>7, <1>9, <1>10, <1>11, <1>12 DEF NvmInv, QueueInv

\* The end of an operation: its access leaves the queue and nothing joins.
LEMMA LastKeeps ==
    ASSUME NvmInv, NEW r \in Regions, NEW kind, NEW by,
           CalledBack(r, kind, by), Last
    PROVE  /\ Queue' /\ OneEach' /\ AllFit' /\ Fresh' /\ Landed'
           /\ \A i \in InFlight' :
                 /\ i + 1 \in InFlight /\ accesses'[i] = accesses[i + 1]
                 /\ Slot(accesses'[i]) # Slot(accesses[1])
<1>1. /\ performed > 0 /\ performed' = performed - 1 /\ 1 \in InFlight
      /\ UNCHANGED <<region, buffer, readBackBuffer>>
      /\ accesses[1] \in Access
  BY HeadOf
<1>2. accesses' = Tail(accesses) /\ Queue
  BY DEF Last, NvmInv, QueueInv
<1>3. Queue' /\ OneEach' /\ AllFit' /\ Fresh' /\ Landed'
  BY <1>1, <1>2, ShiftKeeps DEF Shifted
<1>4. \A i \in InFlight' : i + 1 \in InFlight /\ accesses'[i] = accesses[i + 1]
  BY <1>1, <1>2, QueueMovesUp DEF Shifted
<1>5. \A i \in InFlight' : i \in Nat /\ i > 0
  BY <1>3, SMT DEF InFlight, Queue
<1>6. \A i \in InFlight' : Slot(accesses'[i]) # Slot(accesses[1])
  BY <1>1, <1>4, <1>5 DEF NvmInv, QueueInv, OneEach
<1> QED
  BY <1>3, <1>4, <1>6

\* An owner is answered: its slot is free, and nothing in flight is its own.
LEMMA AnswerKeeps ==
    ASSUME NvmInv, NEW r \in Regions, NEW kind, NEW by \in Owners,
           NEW result \in {"ok", "error"},
           CalledBack(r, kind, by), Last, Answer(r, result),
           output' \in Calibrations \cup Configs \cup {Blank}
    PROVE  NvmInv'
<1>1. /\ UNCHANGED <<region, buffer, readBackBuffer>> /\ 1 \in InFlight
      /\ accesses[1].on = r /\ accesses[1].by = by
  BY HeadOf
<1>2. /\ Queue' /\ OneEach' /\ AllFit' /\ Fresh' /\ Landed'
      /\ \A i \in InFlight' :
            /\ i + 1 \in InFlight /\ accesses'[i] = accesses[i + 1]
            /\ Slot(accesses'[i]) # Slot(accesses[1])
  BY LastKeeps
<1>3. /\ onDone' = [onDone EXCEPT ![r] = "none"] /\ answer' = result
      /\ held' = IF r = "calibration" THEN Decoded(region[r]) ELSE held
      /\ UNCHANGED <<onIsCalibrationValidDone, onFormatDone>>
  BY Zenon DEF Answer
<1>4. /\ onDone' \in [Regions -> Operations] /\ onDone'[r] = "none"
      /\ \A s \in Regions \ {r} : onDone'[s] = onDone[s]
  BY <1>3 DEF NvmInv, MemoryTypes, Operations
<1>5. OwnersHold'
  <2> SUFFICES ASSUME NEW i \in InFlight', accesses'[i].by \in Owners
               PROVE  onDone'[accesses'[i].on] = accesses'[i].by
    BY DEF OwnersHold
  <2>1. i + 1 \in InFlight /\ accesses'[i] = accesses[i + 1]
    BY <1>2
  <2>2. accesses[i + 1].on # r /\ accesses[i + 1].on \in Regions
    BY <1>1, <1>2, <2>1, SlotNames, AccessFields DEF NvmInv, QueueInv
  <2> QED
    BY <1>4, <2>1, <2>2 DEF NvmInv, QueueInv, OwnersHold
<1>6. FlagsHold'
  BY <1>2, <1>3, SMT DEF NvmInv, QueueInv, FlagsHold
<1>7. region["calibration"] \in Contents("calibration")
  BY Names DEF NvmInv, MemoryTypes
<1>8. Decoded(region["calibration"]) \in Calibrations \cup {Blank}
  BY <1>7 DEF Contents, Values, Decoded, Valid
<1>9. MemoryTypes'
  <2>1. held' \in Calibrations \cup {Blank}
    BY <1>3, <1>8 DEF NvmInv, MemoryTypes
  <2>2. \A s \in Regions : onDone'[s] = "save" => buffer[s] \in Values(s)
    BY <1>4 DEF NvmInv, MemoryTypes
  <2> QED
    BY <1>1, <1>3, <1>4, <2>1, <2>2 DEF NvmInv, MemoryTypes
<1>10. Flags'
  BY <1>3, Zenon DEF NvmInv, Flags
<1>11. HeldFits'
  <2>1. CASE r = "calibration"
    BY <1>1, <1>3, <2>1 DEF HeldFits, Decoded, Valid
  <2>2. CASE r # "calibration"
    BY <1>1, <1>3, <1>4, <2>2, Names DEF NvmInv, HeldFits, Decoded, Valid
  <2> QED
    BY <2>1, <2>2
<1> QED
  BY <1>2, <1>5, <1>6, <1>9, <1>10, <1>11 DEF NvmInv, QueueInv

\* The end of a validity query or of a formatting.
LEMMA FlagEndKeeps ==
    ASSUME NvmInv, OnReadForIsValid \/ OnFormatted
    PROVE  NvmInv'
<1>0. PICK r \in Regions, kind \in {"read", "erase"}, by \in {"valid", "format"} :
          /\ CalledBack(r, kind, by) /\ Last /\ output' = Blank
          /\ UNCHANGED <<onDone, held>>
          /\ \/ /\ by = "valid" /\ onIsCalibrationValidDone' = FALSE
                /\ UNCHANGED onFormatDone
             \/ /\ by = "format" /\ onFormatDone' = FALSE
                /\ UNCHANGED onIsCalibrationValidDone
  BY Names, Zenon DEF OnReadForIsValid, OnFormatted
<1>1. answer' \in {"ok", "valid", "notValid"}
  BY DEF OnReadForIsValid, OnFormatted, FromReadBack
<1>2. /\ UNCHANGED <<region, buffer, readBackBuffer>> /\ 1 \in InFlight
      /\ accesses[1].by = by
  BY <1>0, HeadOf
<1>3. /\ Queue' /\ OneEach' /\ AllFit' /\ Fresh' /\ Landed'
      /\ \A i \in InFlight' :
            /\ i + 1 \in InFlight /\ accesses'[i] = accesses[i + 1]
            /\ Slot(accesses'[i]) # Slot(accesses[1])
  BY <1>0, LastKeeps
<1>4. \A i \in InFlight' : accesses'[i].by # by
  <2>1. by \notin Owners
    BY DEF Owners
  <2> QED
    BY <1>2, <1>3, <2>1 DEF Slot
<1>5. OwnersHold'
  BY <1>0, <1>3 DEF NvmInv, QueueInv, OwnersHold
<1>6. FlagsHold'
  <2>1. CASE by = "valid"
    BY <1>0, <1>3, <1>4, <2>1, SMT DEF NvmInv, QueueInv, FlagsHold
  <2>2. CASE by = "format"
    BY <1>0, <1>3, <1>4, <2>2, SMT DEF NvmInv, QueueInv, FlagsHold
  <2> QED
    BY <2>1, <2>2
<1>7. MemoryTypes'
  BY <1>0, <1>1, <1>2 DEF NvmInv, MemoryTypes
<1>8. Flags' /\ HeldFits'
  BY <1>0, <1>2, Zenon DEF NvmInv, Flags, HeldFits, Decoded
<1> QED
  BY <1>3, <1>5, <1>6, <1>7, <1>8 DEF NvmInv, QueueInv

LEMMA CallbacksKeep == ASSUME NvmInv, NEW r \in Regions, Callback(r) PROVE NvmInv'
<1>1. CASE OnReadBack(r)
  <2>1. PICK result \in {"ok", "error"} : Answer(r, result)
    BY <1>1 DEF OnReadBack, Verify
  <2> QED
    BY <1>1, <2>1, AnswerKeeps DEF OnReadBack, Owners
<1>2. CASE OnReadForLoad(r)
  <2>1. PICK result \in {"ok", "error"} : Answer(r, result)
    BY <1>2 DEF OnReadForLoad, Checked
  <2>2. readBackBuffer[r] \in Contents(r)
    BY DEF NvmInv, MemoryTypes
  <2>3. output' \in Calibrations \cup Configs \cup {Blank}
    BY <1>2, <2>2, Names DEF OnReadForLoad, Checked, Valid, Contents, Values
  <2> QED
    BY <1>2, <2>1, <2>3, AnswerKeeps DEF OnReadForLoad, Owners
<1>3. CASE OnInvalidated
  BY <1>3, Names, AnswerKeeps DEF OnInvalidated, Owners
<1> QED
  BY <1>1, <1>2, <1>3, ChainKeeps, FlagEndKeeps DEF Callback

-----------------------------------------------------------------------------
LEMMA PowerCycleKeeps == NvmInv /\ PowerCycle => NvmInv'
<1> SUFFICES ASSUME NvmInv, PowerCycle PROVE NvmInv'
  OBVIOUS
<1>1. accesses' = <<>> /\ performed' = 0 /\ Len(accesses') = 0
  BY DEF PowerCycle
<1>2. QueueInv' /\ Fresh' /\ Landed'
  BY <1>1, SMT DEF QueueInv, Queue, OneEach, AllFit, OwnersHold, FlagsHold,
     InFlight, Fresh, Landed
<1>3. /\ region' \in [Regions -> Memory]
      /\ \A r \in Regions : region'[r] \in Contents(r)
  <2>1. CASE UNCHANGED region
    BY <2>1 DEF NvmInv, MemoryTypes
  <2>2. CASE /\ performed < Len(accesses)
             /\ region' = [region EXCEPT ![NextAccess.on] = Torn]
    BY <2>2 DEF NvmInv, MemoryTypes, Memory, Contents
  <2> QED
    BY <2>1, <2>2, Zenon DEF PowerCycle
<1>4. /\ held' = Decoded(region'["calibration"])
      /\ held' \in Calibrations \cup {Blank}
  BY <1>3, Names DEF PowerCycle, Decoded, Valid, Contents, Values
<1>5. MemoryTypes'
  <2>1. \A r \in Regions : Unwritten(r) \in Memory \cup {DefaultRecord}
    BY Names DEF Unwritten, Memory
  <2> QED
    BY <1>3, <1>4, <2>1 DEF PowerCycle, Silent, Idle, MemoryTypes, Memory,
       Contents, Operations
<1>6. Flags'
  BY Zenon DEF PowerCycle, Flags
<1>7. HeldFits'
  BY <1>4 DEF HeldFits
<1> QED
  BY <1>2, <1>5, <1>6, <1>7 DEF NvmInv

LEMMA NvmInvStep == NvmInv /\ [Next]_nvmVars => NvmInv'
<1>1. NvmInv /\ UNCHANGED nvmVars => NvmInv'
  <2> SUFFICES ASSUME NvmInv, UNCHANGED nvmVars PROVE NvmInv'
    OBVIOUS
  <2>1. QueueInv' /\ Fresh' /\ Landed' /\ MemoryTypes' /\ HeldFits' /\ Flags'
    BY Zenon DEF NvmInv, nvmVars, QueueInv, Queue, OneEach, AllFit, OwnersHold,
       FlagsHold, InFlight, Fresh, OnlyReadSince, Landed, MemoryTypes, HeldFits,
       Flags
  <2> QED
    BY <2>1 DEF NvmInv
<1> QED
  BY <1>1, RequestsKeep, PerformKeeps, CallbacksKeep, PowerCycleKeeps DEF Next

-----------------------------------------------------------------------------
(* What the answers say.                                                   *)

\* Every variable keeps its type: only a buffer that a save has filled is ever
\* written, however many accesses of other callers lie in between.
THEOREM MemoryTypeCorrect == Spec => []TypeOK
<1>1. NvmInv => TypeOK
  <2> SUFFICES ASSUME NvmInv PROVE TypeOK
    OBVIOUS
  <2>1. performed \in 0 .. Len(accesses) /\ accesses \in Seq(Access)
    BY SMT DEF NvmInv, QueueInv, Queue
  <2>2. onIsCalibrationValidDone \in BOOLEAN /\ onFormatDone \in BOOLEAN
    BY DEF NvmInv, Flags
  <2> QED
    BY <2>1, <2>2, Zenon DEF NvmInv, MemoryTypes, TypeOK
<1> QED
  BY <1>1, NvmInvInit, NvmInvStep, PTL DEF Spec

\* While an owner's access is called back, only the validity query can have
\* come after it on the same region.
LEMMA NothingWrittenSince ==
    ASSUME NvmInv, NEW r \in Regions, NEW kind, NEW by,
           CalledBack(r, kind, by), ~onFormatDone,
           \/ by \in Owners
           \/ onDone[r] \notin {"save", "invalidate"}
    PROVE  OnlyReadSince(1)
<1> SUFFICES ASSUME NEW j \in 1 + 1 .. performed, accesses[j].on = accesses[1].on
             PROVE  accesses[j].kind = "read"
  BY DEF OnlyReadSince
<1>1. /\ 1 \in InFlight /\ accesses[1].on = r /\ accesses[1].by = by
  BY HeadOf
<1>2. j \in InFlight /\ j # 1
  BY SMT DEF NvmInv, QueueInv, Queue, InFlight
<1>3. accesses[j].by # "format"
  BY <1>2, Zenon DEF NvmInv, QueueInv, FlagsHold
<1>4. accesses[j].by \in Owners => by \notin Owners
  BY <1>1, <1>2, SlotNames DEF NvmInv, QueueInv, OneEach
<1>5. accesses[j].by \in Owners => accesses[j].by = onDone[r]
  BY <1>1, <1>2 DEF NvmInv, QueueInv, OwnersHold
<1>6. accesses[j].by \in {"load", "valid"}
  BY <1>2, <1>3, <1>4, <1>5, AccessFields DEF Owners, NvmInv, QueueInv
<1> QED
  BY <1>2, <1>6 DEF NvmInv, QueueInv, AllFit, Fits

Freed(r) ==
    onDone[r] # "none" /\ onDone'[r] = "none" /\ answer' = "ok" /\ ~onFormatDone

Agrees(r) ==
    CASE onDone[r] = "save" -> region[r] = buffer[r]
      [] onDone[r] = "load" ->
            \/ output' = region[r]
            \/ r = "config" /\ output' = DefaultConfig
      [] OTHER -> region[r] = Blank

\* A slot is only freed with an answer by the last callback of its operation.
LEMMA WhoFrees ==
    ASSUME NvmInv, [Next]_nvmVars, NEW r \in Regions, Freed(r)
    PROVE  \/ OnReadBack(r) \/ OnReadForLoad(r)
           \/ r = "calibration" /\ OnInvalidated
<1> USE DEF Freed
<1>0. onDone \in [Regions -> Operations]
  BY DEF NvmInv, MemoryTypes
<1>1. CASE Requests
  BY <1>1 DEF Requests, Save, Load, InvalidateCalibration, IsCalibrationValid,
     Format, Quietly, Silent
<1>2. CASE Perform \/ PowerCycle
  BY <1>2 DEF Perform, PowerCycle, Silent
<1>3. ASSUME NEW s \in Regions, Callback(s)
      PROVE  \/ OnReadBack(r) \/ OnReadForLoad(r)
             \/ r = "calibration" /\ OnInvalidated
  <2>1. CASE OnErased(s) \/ OnWritten(s) \/ OnReadForIsValid
             \/ OnCalibrationSectorFormattedDuringFormat \/ OnFormatted
    BY <2>1 DEF OnErased, OnWritten, OnReadForIsValid, OnFormatted,
       OnCalibrationSectorFormattedDuringFormat
  <2>2. CASE OnReadBack(s)
    BY <1>0, <2>2 DEF OnReadBack, Verify, Answer
  <2>3. CASE OnReadForLoad(s)
    BY <1>0, <2>3 DEF OnReadForLoad, Checked, Answer
  <2>4. CASE OnInvalidated
    BY <1>0, <2>4, Names DEF OnInvalidated, Answer
  <2> QED
    BY <1>3, <2>1, <2>2, <2>3, <2>4 DEF Callback
<1>4. CASE UNCHANGED nvmVars
  BY <1>4 DEF nvmVars
<1> QED
  BY <1>1, <1>2, <1>3, <1>4 DEF Next

LEMMA FreedAgrees ==
    ASSUME NvmInv, [Next]_nvmVars, NEW r \in Regions, Freed(r)
    PROVE  Agrees(r)
<1>1. CASE OnReadBack(r)
  <2>1. CalledBack(r, "read", "save") /\ Answer(r, IF buffer[r] = readBackBuffer[r]
                                                   THEN "ok" ELSE "error")
    BY <1>1 DEF OnReadBack, Verify
  <2>2. /\ 1 \in InFlight /\ accesses[1].on = r /\ accesses[1].kind = "read"
        /\ accesses[1].by = "save" /\ 1 \in 1 .. performed
    BY <2>1, HeadOf
  <2>3. onDone[r] = "save"
    BY <2>2 DEF NvmInv, QueueInv, OwnersHold, Owners
  <2>4. readBackBuffer[r] \in {Torn, region[r]}
    BY <2>1, <2>2, NothingWrittenSince DEF NvmInv, Fresh, Freed, Owners
  <2>5. buffer[r] = readBackBuffer[r]
    BY <2>1 DEF Answer, Freed
  <2>6. buffer[r] # Torn
    BY <2>3, Names DEF NvmInv, MemoryTypes, Values
  <2> QED
    BY <2>3, <2>4, <2>5, <2>6 DEF Agrees
<1>2. CASE OnReadForLoad(r)
  <2>1. CalledBack(r, "read", "load") /\ Checked(r)
    BY <1>2 DEF OnReadForLoad
  <2>2. /\ 1 \in InFlight /\ accesses[1].on = r /\ accesses[1].kind = "read"
        /\ accesses[1].by = "load" /\ 1 \in 1 .. performed
    BY <2>1, HeadOf
  <2>3. onDone[r] = "load"
    BY <2>2 DEF NvmInv, QueueInv, OwnersHold, Owners
  <2>4. readBackBuffer[r] \in {Torn, region[r]}
    BY <2>1, <2>2, NothingWrittenSince DEF NvmInv, Fresh, Freed, Owners
  <2>5. \/ Valid(readBackBuffer[r]) /\ output' = readBackBuffer[r]
        \/ r = "config" /\ output' = DefaultConfig
    BY <2>1 DEF Checked, Answer, Freed
  <2> QED
    BY <2>3, <2>4, <2>5 DEF Agrees, Valid
<1>3. CASE r = "calibration" /\ OnInvalidated
  <2>1. CalledBack(r, "erase", "invalidate")
    BY <1>3 DEF OnInvalidated
  <2>2. /\ 1 \in InFlight /\ accesses[1].on = r
        /\ accesses[1].by = "invalidate" /\ 1 \in 1 .. performed
    BY <2>1, HeadOf
  <2>3. onDone[r] = "invalidate" /\ region[r] = Blank
    BY <2>2 DEF NvmInv, QueueInv, OwnersHold, Owners, Landed
  <2> QED
    BY <2>3 DEF Agrees
<1> QED
  BY <1>1, <1>2, <1>3, WhoFrees

\* A caller that is told ok can rely on the region: the save is in it whole,
\* the load has handed out what it holds, the record is erased.  The read-back
\* buffer shared with the validity query does not spoil it, for any number of
\* accesses in flight (OnCalibrationReadBack, OnCalibrationReadForLoad).
THEOREM OkAgreesWithRegion == Spec => AnswersMatchRegion
<1>1. NvmInv /\ [Next]_nvmVars => [\A r \in Regions : Freed(r) => Agrees(r)]_nvmVars
  BY FreedAgrees
<1> QED
  BY <1>1, NvmInvInit, NvmInvStep, PTL DEF Spec, AnswersMatchRegion, Freed, Agrees

ValidTold ==
    answer' = "valid" /\ onDone["calibration"] \notin {"save", "invalidate"}
                      /\ ~onFormatDone

LEMMA ValidToldRightly ==
    ASSUME NvmInv, [Next]_nvmVars, ValidTold
    PROVE  Valid(region["calibration"]) \/ UNCHANGED nvmVars
<1> USE DEF ValidTold
<1>1. CASE Requests
  BY <1>1 DEF Requests, Save, Load, InvalidateCalibration, IsCalibrationValid,
     Format, Quietly, Silent
<1>2. CASE Perform \/ PowerCycle
  BY <1>2 DEF Perform, PowerCycle, Silent
<1>3. ASSUME NEW s \in Regions, Callback(s)
      PROVE  Valid(region["calibration"])
  <2>1. CASE \/ OnErased(s) \/ OnWritten(s) \/ OnReadBack(s) \/ OnReadForLoad(s)
             \/ OnInvalidated \/ OnCalibrationSectorFormattedDuringFormat
             \/ OnFormatted
    BY <2>1 DEF OnErased, OnWritten, OnReadBack, Verify, OnReadForLoad, Checked,
       OnInvalidated, Answer, OnCalibrationSectorFormattedDuringFormat,
       OnFormatted, Silent
  <2>2. CASE OnReadForIsValid
    <3>1. CalledBack("calibration", "read", "valid")
          /\ Valid(readBackBuffer["calibration"])
      BY <2>2 DEF OnReadForIsValid, FromReadBack
    <3>2. /\ accesses[1].on = "calibration" /\ accesses[1].kind = "read"
          /\ 1 \in 1 .. performed
      BY <3>1, Names, HeadOf
    <3>3. OnlyReadSince(1)
      BY <3>1, Names, NothingWrittenSince
    <3>4. readBackBuffer["calibration"] \in {Torn, region["calibration"]}
      BY <3>2, <3>3 DEF NvmInv, Fresh
    <3> QED
      BY <3>1, <3>4 DEF Valid
  <2> QED
    BY <1>3, <2>1, <2>2 DEF Callback
<1> QED
  BY <1>1, <1>2, <1>3 DEF Next

\* The validity query never reports a record that is not there, although saves
\* and loads read into the buffer it answers from (OnReadForIsValid).
THEOREM ValidIsNotStale == Spec => ValidIsCurrent
<1>1. NvmInv /\ [Next]_nvmVars
      => [ValidTold => Valid(region["calibration"])]_nvmVars
  BY ValidToldRightly
<1> QED
  BY <1>1, NvmInvInit, NvmInvStep, PTL DEF Spec, ValidIsCurrent, ValidTold

-----------------------------------------------------------------------------
(* The calibration half implements the store.                              *)

Saving ==
    IF onDone["calibration"] = "save" THEN buffer["calibration"] ELSE DefaultRecord

Owner == onDone["calibration"]

StoreStep ==
    Store!StoreNext \/ UNCHANGED <<held, Saving, Owner, onIsCalibrationValidDone>>

LEMMA SameRecords ==
    Store!Records = Records /\ Store!DefaultRecord = DefaultRecord
  BY Zenon DEF Store!Records, Store!DefaultRecord, Store!Fields, Store!Callbacks,
     Store!Runs, Store!NoRun, Records, DefaultRecord, Fields, Callbacks, Runs, NoRun

\* Requests of the configuration are not seen.
LEMMA RequestsImplement == NvmInv /\ Requests => StoreStep
<1> SUFFICES ASSUME NvmInv, Requests PROVE StoreStep
  OBVIOUS
<1>0. /\ onDone \in [Regions -> Operations] /\ "calibration" \in Regions
      /\ buffer \in [Regions -> Memory \cup {DefaultRecord}] /\ held' = held
  BY Names, Zenon DEF NvmInv, MemoryTypes, Requests, Save, Load,
     InvalidateCalibration, IsCalibrationValid, Format, Quietly
<1>1. ASSUME NEW r \in Regions, r # "calibration", Save(r) \/ Load(r)
      PROVE  UNCHANGED <<held, Saving, Owner, onIsCalibrationValidDone>>
  BY <1>0, <1>1 DEF Save, Load, Own, Saving, Owner
<1>2. CASE Save("calibration")
  <2>1. PICK v \in Calibrations : buffer' = [buffer EXCEPT !["calibration"] = v]
    BY <1>2 DEF Save, Values
  <2>2. /\ Owner = "none" /\ Owner' = "save" /\ Saving' = v
        /\ UNCHANGED onIsCalibrationValidDone
    BY <1>0, <1>2, <2>1 DEF Save, Own, Owner, Saving
  <2>3. v \in Records
    BY Names
  <2>4. Store!SaveCalibration(v)
    BY <1>0, <2>2 DEF Store!SaveCalibration, Store!StoreBusy, Owner, Saving
  <2> QED
    BY <2>3, <2>4, SameRecords, Zenon DEF StoreStep, Store!StoreNext,
       Store!StoreRequest
<1>3. ASSUME NEW by \in {"load", "invalidate"}, Own("calibration", by),
             UNCHANGED <<buffer, onIsCalibrationValidDone>>
      PROVE  Store!StoreRequest
  <2>1. Owner = "none" /\ Owner' = by /\ Saving' = Saving
    BY <1>0, <1>3 DEF Own, Owner, Saving
  <2>2. Store!RequestStore(by)
    BY <1>0, <2>1 DEF Store!RequestStore, Store!StoreBusy, Owner, Saving
  <2> QED
    BY <1>3, <2>2 DEF Store!StoreRequest
<1>4. CASE IsCalibrationValid
  <2>1. onIsCalibrationValidDone' = TRUE /\ UNCHANGED <<held, Saving, Owner>>
    BY <1>0, <1>4, Zenon DEF IsCalibrationValid, Owner, Saving
  <2> QED
    BY <2>1, Zenon DEF StoreStep, Store!StoreNext, Store!StoreRequest, Saving, Owner
<1>5. CASE Format
  BY <1>0, <1>5, Zenon DEF Format, StoreStep, Saving, Owner
<1>6. CASE Load("calibration") \/ InvalidateCalibration
  BY <1>3, <1>6, Zenon DEF Load, InvalidateCalibration, StoreStep, Store!StoreNext
<1> QED
  BY <1>1, <1>2, <1>4, <1>5, <1>6 DEF Requests, StoreStep

\* The device is only seen when a formatting erases the record.
LEMMA PerformImplements == Perform => StoreStep
<1> SUFFICES ASSUME Perform PROVE StoreStep
  OBVIOUS
<1>1. /\ held' \in {held, Blank}
      /\ UNCHANGED <<Saving, Owner, onIsCalibrationValidDone>>
  BY DEF Perform, PerformErase, PerformWrite, PerformRead, Saving, Owner
<1>2. CASE held' = Blank
  BY <1>1, <1>2, Zenon DEF StoreStep, Store!StoreNext, Store!StoreFormatted,
     Saving, Owner
<1> QED
  BY <1>1, <1>2 DEF StoreStep

\* The owner's last callback ends the operation; what the region then holds
\* is what the store allows.
LEMMA AnswersImplement ==
    ASSUME NvmInv, NEW kind, NEW by \in Owners, NEW result,
           CalledBack("calibration", kind, by), Answer("calibration", result)
    PROVE  Store!StoreAnswer
<1>1. /\ 1 \in InFlight /\ accesses[1].on = "calibration"
      /\ accesses[1].kind = kind /\ accesses[1].by = by /\ 1 <= performed
  BY Names, HeadOf
<1>2. Owner = by
  BY <1>1 DEF NvmInv, QueueInv, OwnersHold, Owner
<1>3. /\ Owner' = "none" /\ Saving' = DefaultRecord
      /\ held' = Decoded(region["calibration"])
      /\ UNCHANGED onIsCalibrationValidDone
  BY Names DEF NvmInv, MemoryTypes, Answer, Owner, Saving
<1>4. CASE by = "load"
  <2>1. held' = held
    BY <1>2, <1>3, <1>4 DEF NvmInv, HeldFits, Owner
  <2>2. Store!StoreDone("load", held)
    BY <1>2, <1>3, <1>4, <2>1, SameRecords DEF Store!StoreDone, Owner, Saving
  <2> QED
    BY <2>2 DEF Store!StoreAnswer
<1>5. CASE by = "save"
  <2>1. /\ region["calibration"] \in {Blank, Torn, buffer["calibration"]}
        /\ Saving = buffer["calibration"]
    BY <1>1, <1>2, <1>5 DEF NvmInv, Landed, Saving, Owner
  <2>2. held' \in {Blank, Saving}
    BY <1>3, <2>1 DEF Decoded, Valid
  <2>3. Store!StoreDone("save", held')
    BY <1>2, <1>3, <1>5, SameRecords DEF Store!StoreDone, Owner, Saving
  <2> QED
    BY <2>2, <2>3 DEF Store!StoreAnswer, Saving
<1>6. CASE by = "invalidate"
  <2>1. held' = Blank
    BY <1>1, <1>3, <1>6 DEF NvmInv, Landed, Decoded, Valid
  <2>2. Store!StoreDone("invalidate", Blank)
    BY <1>2, <1>3, <1>6, <2>1, SameRecords DEF Store!StoreDone, Owner, Saving
  <2> QED
    BY <2>2 DEF Store!StoreAnswer
<1> QED
  BY <1>4, <1>5, <1>6 DEF Owners

LEMMA CallbacksImplement ==
    ASSUME NvmInv, NEW r \in Regions, Callback(r) PROVE StoreStep
<1> USE DEF StoreStep, Store!StoreNext
<1>0. UNCHANGED buffer
  BY Zenon DEF Callback, OnErased, OnWritten, OnReadBack, OnReadForLoad,
     OnInvalidated, OnReadForIsValid, OnFormatted, CalledBack,
     OnCalibrationSectorFormattedDuringFormat
<1>1. CASE OnErased(r) \/ OnWritten(r) \/ OnFormatted
           \/ OnCalibrationSectorFormattedDuringFormat
  <2>1. UNCHANGED <<onDone, held, onIsCalibrationValidDone>>
    BY <1>1, Zenon DEF OnErased, OnWritten, OnFormatted,
       OnCalibrationSectorFormattedDuringFormat
  <2> QED
    BY <1>0, <2>1, Zenon DEF Saving, Owner
<1>2. CASE OnReadForIsValid
  <2>1. onIsCalibrationValidDone' = FALSE /\ UNCHANGED <<onDone, held>>
    BY <1>2, Zenon DEF OnReadForIsValid
  <2>2. UNCHANGED <<Saving, Owner>>
    BY <1>0, <2>1, Zenon DEF Saving, Owner
  <2> QED
    BY <2>1, <2>2, Zenon DEF Store!StoreAnswer, Saving, Owner
<1>3. CASE r # "calibration" /\ (OnReadBack(r) \/ OnReadForLoad(r))
  <2>1. PICK result \in {"ok", "error"} : Answer(r, result)
    BY <1>3 DEF OnReadBack, Verify, OnReadForLoad, Checked
  <2>2. UNCHANGED <<held, Owner, onIsCalibrationValidDone>>
    BY <1>3, <2>1, Names DEF Answer, Owner, NvmInv, MemoryTypes
  <2> QED
    BY <1>0, <2>2, Zenon DEF Saving, Owner
<1>4. CASE OnReadBack("calibration")
  <2>1. \E result : Answer("calibration", result)
    BY <1>4, Zenon DEF OnReadBack, Verify
  <2> QED
    BY <1>4, <2>1, AnswersImplement DEF OnReadBack, Owners
<1>5. CASE OnReadForLoad("calibration")
  <2>1. \E result : Answer("calibration", result)
    BY <1>5, Zenon DEF OnReadForLoad, Checked
  <2> QED
    BY <1>5, <2>1, AnswersImplement DEF OnReadForLoad, Owners
<1>6. CASE OnInvalidated
  BY <1>6, AnswersImplement DEF OnInvalidated, Owners
<1> QED
  BY <1>1, <1>2, <1>3, <1>4, <1>5, <1>6 DEF Callback

LEMMA PowerCycleImplements == NvmInv /\ PowerCycle => StoreStep
<1> SUFFICES ASSUME NvmInv, PowerCycle PROVE StoreStep
  OBVIOUS
<1>1. /\ Owner' = "none" /\ Saving' = DefaultRecord
      /\ onIsCalibrationValidDone' = FALSE
      /\ held' = Decoded(region'["calibration"])
  BY Names, SMT DEF PowerCycle, Idle, Owner, Saving
<1>2. \/ region'["calibration"] = region["calibration"]
      \/ region'["calibration"] = Torn /\ Owner = "save"
  <2>1. CASE UNCHANGED region
    BY <2>1
  <2>2. CASE /\ performed < Len(accesses) /\ NextAccess.kind = "write"
             /\ region' = [region EXCEPT ![NextAccess.on] = Torn]
    <3>1. performed + 1 \in InFlight
      BY <2>2, SMT DEF NvmInv, QueueInv, Queue, InFlight
    <3>2. NextAccess.by = "save" /\ onDone[NextAccess.on] = "save"
      BY <2>2, <3>1, AccessFields DEF NextAccess, NvmInv, QueueInv, AllFit, Fits,
         OwnersHold, Owners
    <3> QED
      BY <2>2, <3>2, Names DEF NvmInv, MemoryTypes, Owner
  <2> QED
    BY <2>1, <2>2, Zenon DEF PowerCycle
<1>3. held' \in {held}
                \cup (IF Owner \in {"save", "invalidate"} THEN {Blank} ELSE {})
                \cup (IF Owner = "save" THEN {Saving} ELSE {})
  <2>1. CASE region'["calibration"] = region["calibration"]
    BY <1>1, <2>1 DEF NvmInv, HeldFits, Owner, Saving
  <2>2. CASE region'["calibration"] = Torn /\ Owner = "save"
    BY <1>1, <2>2 DEF Decoded, Valid
  <2> QED
    BY <1>2, <2>1, <2>2
<1>4. held' \in Store!AfterPowerCycle
  <2>1. CASE Owner = "save"
    BY <1>3, <2>1 DEF Store!AfterPowerCycle, Owner, Saving
  <2>2. CASE Owner = "invalidate"
    BY <1>3, <2>2 DEF Store!AfterPowerCycle, Owner
  <2>3. CASE Owner # "save" /\ Owner # "invalidate"
    BY <1>3, <2>3 DEF Store!AfterPowerCycle, Owner
  <2> QED
    BY <2>1, <2>2, <2>3
<1>5. Store!StorePowerCycle
  BY <1>1, <1>4, SameRecords, Zenon DEF Store!StorePowerCycle, Owner, Saving
<1> QED
  BY <1>5 DEF StoreStep, Store!StoreNext

\* Whatever the callers request together, whatever accesses go wrong and
\* whenever power fails, the users of the calibration see the old record, the
\* new one or none: the accesses of NonVolatileMemoryImpl implement the store
\* the state machine is proved against.
THEOREM StoreImplemented == Spec => ImplementsStore
<1>1. Init => Store!StoreInit
  BY Names, SameRecords, SMT DEF Init, Idle, Store!StoreInit
<1>2. NvmInv /\ [Next]_nvmVars => [Store!StoreNext]_(Store!storeVars)
  <2>1. UNCHANGED nvmVars => StoreStep
    BY Zenon DEF nvmVars, StoreStep, Saving, Owner
  <2>2. StoreStep => [Store!StoreNext]_(Store!storeVars)
    BY Zenon DEF StoreStep, Store!storeVars, Saving, Owner
  <2> QED
    BY <2>1, <2>2, RequestsImplement, PerformImplements, CallbacksImplement,
       PowerCycleImplements DEF Next
<1> QED
  BY <1>1, <1>2, NvmInvInit, NvmInvStep, PTL
     DEF Spec, ImplementsStore, Store!StoreSpec
=============================================================================
