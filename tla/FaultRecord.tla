----------------------------- MODULE FaultRecord -----------------------------
(***************************************************************************)
(* The post-mortem record a hard fault leaves in memory that survives a    *)
(* reset, and the constructor of the platform that tells it once.  A reset *)
(* may come between any two steps of either.  A record is two parts: the   *)
(* exception frame with the status registers, written as the number of the *)
(* fault, and the stack trace, as that number and the count of the code    *)
(* addresses it kept.  The report is a string of 1024 characters that is   *)
(* cut off when it is full: the frame always fits, the trace need not.     *)
(***************************************************************************)
EXTENDS Naturals

CONSTANTS
    MaxStackTraceEntries,     \* the addresses a record has place for
    Room,                     \* those the report has place for
    StackCounts,              \* how many of them a stack may hold
    MaxFaults, MaxResets      \* bounds on a behaviour

ASSUME FaultAssumption ==
    /\ MaxStackTraceEntries \in Nat /\ Room \in Nat /\ StackCounts \subseteq Nat
    /\ MaxFaults \in Nat /\ MaxResets \in Nat

VARIABLES
    magic,        \* the record's magic word is the valid one
    frame, trace,
    cpu,          \* where the processor is
    status,       \* faultStatusString: the parts formatted, or NoStatus
    found,        \* the code addresses on the stack the last scan read
    causes,       \* the bits of the reset cause register
    resetCause,
    faults,       \* faults so far
    recorded,     \* the faults whose record got its magic word
    told,         \* the faults told by a constructor that went on
    lost,         \* the faults whose record lost its power
    resets

faultVars == <<magic, frame, trace, cpu, status, found, causes, resetCause,
               faults, recorded, told, lost, resets>>

Places == {"reset", "constructing", "formatted", "running",
           "entered", "invalid", "registers", "scanned", "valid"}
Handling == {"entered", "invalid", "registers", "scanned", "valid"}
ResetBits == {"software", "watchdog", "brownOut", "hardware"}
ResetCauses == ResetBits \cup {"powerUp"}
FaultNumbers == 1 .. MaxFaults
Part == 0 .. MaxFaults
Trace == [fault : Part, count : 0 .. MaxStackTraceEntries]
NoTrace == [fault |-> 0, count |-> 0]
NoStatus == [frame |-> 0, trace |-> NoTrace]

AtMost(n, limit) == IF n < limit THEN n ELSE limit

FaultTypeOK ==
    /\ magic \in BOOLEAN /\ frame \in Part /\ trace \in Trace
    /\ cpu \in Places /\ status \in [frame : Part, trace : Trace]
    /\ found \in StackCounts \cup {0}
    /\ causes \subseteq ResetBits /\ resetCause \in ResetCauses
    /\ faults \in Part /\ resets \in 0 .. MaxResets
    /\ recorded \subseteq FaultNumbers /\ told \subseteq FaultNumbers
    /\ lost \subseteq FaultNumbers

\* A first power-up: the memory is not the valid magic word.
FaultInit ==
    /\ magic = FALSE /\ frame = 0 /\ trace = NoTrace /\ cpu = "reset"
    /\ status = NoStatus /\ found = 0
    /\ causes = {} /\ resetCause = "powerUp"
    /\ faults = 0 /\ resets = 0
    /\ recorded = {} /\ told = {} /\ lost = {}

-----------------------------------------------------------------------------
(* The constructor.                                                        *)

\* The most telling bit wins: a software reset, then a watchdog, a
\* brown-out, the reset pin.
CauseOf(bits) ==
    CASE "software" \in bits -> "software"
      [] "watchdog" \in bits -> "watchdog"
      [] "brownOut" \in bits -> "brownOut"
      [] "hardware" \in bits -> "hardware"
      [] OTHER -> "powerUp"

ReadAndClearResetCause ==
    /\ cpu = "reset"
    /\ resetCause' = CauseOf(causes) /\ causes' = {}
    /\ cpu' = "constructing"
    /\ UNCHANGED <<magic, frame, trace, status, found, faults, recorded, told,
                   lost, resets>>

IsValid == magic

\* A stream that fails softly: what does not fit is left out.
Formatted(t) == [fault |-> t.fault, count |-> AtMost(t.count, Room)]

FormatFaultData ==
    /\ cpu = "constructing"
    /\ \/ /\ IsValid
          /\ status' = [frame |-> frame, trace |-> Formatted(trace)]
          /\ cpu' = "formatted"
       \/ ~IsValid /\ cpu' = "running" /\ UNCHANGED status
    /\ UNCHANGED <<magic, frame, trace, found, causes, resetCause, faults,
                   recorded, told, lost, resets>>

Invalidate ==
    /\ cpu = "formatted"
    /\ magic' = FALSE
    /\ told' = told \cup {status.frame}
    /\ cpu' = "running"
    /\ UNCHANGED <<frame, trace, status, found, causes, resetCause, faults,
                   recorded, lost, resets>>

-----------------------------------------------------------------------------
(* HardFault_Handler_C.                                                    *)

\* The exception is taken, in the constructor or in the program.
HardFault ==
    /\ cpu \notin Handling /\ faults < MaxFaults
    /\ faults' = faults + 1 /\ cpu' = "entered"
    /\ UNCHANGED <<magic, frame, trace, status, found, causes, resetCause,
                   recorded, told, lost, resets>>

\* Mutant: the record stays valid while it is written.
KeepMagic ==
    /\ cpu = "entered"
    /\ cpu' = "invalid"
    /\ UNCHANGED <<magic, frame, trace, status, found, causes, resetCause,
                   faults, recorded, told, lost, resets>>

ClearMagic ==
    /\ cpu = "entered"
    /\ magic' = FALSE /\ cpu' = "invalid"
    /\ UNCHANGED <<frame, trace, status, found, causes, resetCause, faults,
                   recorded, told, lost, resets>>

SaveRegisters ==
    /\ cpu = "invalid"
    /\ frame' = faults /\ cpu' = "registers"
    /\ UNCHANGED <<magic, trace, status, found, causes, resetCause, faults,
                   recorded, told, lost, resets>>

\* The scan stops at the end of the stack, or when the record is full.
ScanStack ==
    /\ cpu = "registers"
    /\ found' \in StackCounts
    /\ trace' = [fault |-> faults,
                 count |-> AtMost(found', MaxStackTraceEntries)]
    /\ cpu' = "scanned"
    /\ UNCHANGED <<magic, frame, status, causes, resetCause, faults, recorded,
                   told, lost, resets>>

SetMagic ==
    /\ cpu = "scanned"
    /\ magic' = TRUE /\ recorded' = recorded \cup {faults}
    /\ cpu' = "valid"
    /\ UNCHANGED <<frame, trace, status, found, causes, resetCause, faults,
                   told, lost, resets>>

-----------------------------------------------------------------------------
(* Resets.                                                                 *)

\* The program starts over with its ordinary memory cleared.
Restart(bits) == cpu' = "reset" /\ status' = NoStatus /\ causes' = bits

\* NVIC_SystemReset: the last statement of the handler.
SystemReset ==
    /\ cpu = "valid" /\ Restart(causes \cup {"software"})
    /\ UNCHANGED <<magic, frame, trace, found, resetCause, faults, recorded,
                   told, lost, resets>>

\* PlatformFactoryImpl::Reset, asked for by the program.
Reset ==
    /\ cpu = "running" /\ resets < MaxResets
    /\ resets' = resets + 1
    /\ Restart(causes \cup {"software"})
    /\ UNCHANGED <<magic, frame, trace, found, resetCause, faults, recorded,
                   told, lost>>

\* From outside, at any moment; the bits gather until they are read.
ExternalReset ==
    /\ resets < MaxResets
    /\ resets' = resets + 1
    /\ \E c \in ResetBits \ {"software"} : Restart(causes \cup {c})
    /\ UNCHANGED <<magic, frame, trace, found, resetCause, faults, recorded,
                   told, lost>>

\* Power comes back: the record is gone, and so are the gathered bits.
PowerUp ==
    /\ resets < MaxResets
    /\ resets' = resets + 1
    /\ magic' = FALSE /\ frame' = 0 /\ trace' = NoTrace /\ found' = 0
    /\ lost' = lost \cup (1 .. faults)
    /\ Restart({})
    /\ UNCHANGED <<resetCause, faults, recorded, told>>

\* The steps that end with the program where it was or starting over.
FaultSteps ==
    \/ ReadAndClearResetCause \/ FormatFaultData \/ Invalidate
    \/ HardFault \/ ClearMagic \/ SaveRegisters \/ ScanStack \/ SetMagic
Restarts == SystemReset \/ Reset \/ ExternalReset \/ PowerUp

-----------------------------------------------------------------------------
(* Properties.                                                             *)

\* What a constructor tells is of one record, that of the last fault whose
\* handler finished, and no earlier constructor that went on has told it: the
\* frame with every code address the handler found, unless the record or the
\* string of the report is full (the rest of the trace is then never told, as
\* the record is invalidated).  Once the constructor goes on, a last fault
\* that was recorded has been told, unless its record lost its power:
\* wherever resets fall between the steps of HardFault_Handler_C and of the
\* constructor.
FaultsAreToldOnce ==
    /\ cpu = "formatted" =>
         /\ status.frame = status.trace.fault
         /\ status.frame \in recorded \ told
         /\ \A f \in recorded : f <= status.frame
         /\ \/ status.trace.count = found
            \/ /\ status.trace.count < found
               /\ status.trace.count \in {MaxStackTraceEntries, Room}
    /\ cpu = "running" /\ faults \in recorded => faults \in told \cup lost
=============================================================================
