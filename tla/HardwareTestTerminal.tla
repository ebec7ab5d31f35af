------------------------ MODULE HardwareTestTerminal ------------------------
(***************************************************************************)
(* The commands of the hardware test firmware: current measurements, the   *)
(* PWM outputs, the CAN bus and the EEPROM.  A command with a parameter    *)
(* its parser rejects only answers an error, and is left out where it      *)
(* changes nothing.  Samples, frames and EEPROM answers arrive whenever    *)
(* the peripheral that sends them has been set up.                         *)
(***************************************************************************)
EXTENDS Naturals

CONSTANTS
    QueueSize,      \* capacity of queueOfPhaseCurrents
    MaxRequests,    \* bound on the configurations of the ADC
    MaxPending      \* bound on the operations a peripheral has in flight together

ASSUME TerminalAssumption ==
    QueueSize \in Nat \ {0} /\ MaxRequests \in Nat \ {0} /\ MaxPending \in Nat

VARIABLES
    adcActive,     \* the sampling callback collects
    queued,        \* samples in queueOfPhaseCurrents
    pwmOn,         \* the PWM outputs are driven
    canStarted,
    listening,     \* the CAN adapter has a receive callback
    sending,       \* frames whose completion is still to come
    operations,    \* EEPROM operations still to be completed, by kind
    buffer,        \* what eepromBuffer holds
    requests,      \* measurements asked for, the constructor's included
    batches        \* measurements printed

terminalVars == <<adcActive, queued, pwmOn, canStarted, listening, sending,
                  operations, buffer, requests, batches>>

EepromKinds == {"write", "read", "erase"}

TerminalTypeOK ==
    /\ adcActive \in BOOLEAN /\ queued \in 0 .. QueueSize
    /\ pwmOn \in BOOLEAN /\ canStarted \in BOOLEAN /\ listening \in BOOLEAN
    /\ sending \in 0 .. MaxPending
    /\ operations \in [EepromKinds -> 0 .. MaxPending]
    /\ buffer \in {"empty", "typed", "cells"}
    /\ requests \in 0 .. MaxRequests
    \* A request is answered by one batch at most, and not while it collects.
    /\ batches + (IF adcActive THEN 1 ELSE 0) \in 0 .. requests

TerminalInit ==
    /\ adcActive = FALSE /\ queued = 0 /\ pwmOn = FALSE
    /\ canStarted = FALSE /\ listening = FALSE /\ sending = 0
    /\ operations = [k \in EepromKinds |-> 0] /\ buffer = "empty"
    /\ requests = 0 /\ batches = 0

\* A reset of the processor takes everything back to that.
TerminalReset ==
    /\ adcActive' = FALSE /\ queued' = 0 /\ pwmOn' = FALSE
    /\ canStarted' = FALSE /\ listening' = FALSE /\ sending' = 0
    /\ operations' = [k \in EepromKinds |-> 0] /\ buffer' = "empty"
    /\ requests' = 0 /\ batches' = 0

CanKeeps == UNCHANGED <<canStarted, listening, sending>>
EepromKeeps == UNCHANGED <<operations, buffer>>

-----------------------------------------------------------------------------
(* Measurements and the PWM outputs.                                       *)

\* ConfigureAdcAndPwm rebuilds the peripherals, which stops the outputs, and
\* StartAdc registers the callback; the queue keeps what it holds.
StartAdc ==
    /\ requests < MaxRequests
    /\ adcActive' = TRUE /\ pwmOn' = FALSE /\ requests' = requests + 1
    /\ UNCHANGED <<queued, batches>> /\ CanKeeps /\ EepromKeeps

ConfigurePwm == requests > 0 /\ StartAdc
ConfigureAdc == requests > 0 /\ StartAdc

\* Mutant: the callback goes on collecting.
CollectsOn ==
    /\ pwmOn' = FALSE /\ queued' = 0 /\ UNCHANGED adcActive
    /\ batches' = batches + 1

ProcessAdcSamples ==
    /\ adcActive' = FALSE /\ pwmOn' = FALSE /\ queued' = 0
    /\ batches' = batches + 1

\* The sample that finds the queue full prints it, and is dropped.
AdcSample ==
    /\ requests > 0
    /\ \/ /\ adcActive /\ queued < QueueSize
          /\ queued' = queued + 1
          /\ UNCHANGED <<adcActive, pwmOn, batches>>
       \/ adcActive /\ queued = QueueSize /\ ProcessAdcSamples
    /\ UNCHANGED requests /\ CanKeeps /\ EepromKeeps

SetPwmDuty ==
    /\ requests > 0 /\ pwmOn' = TRUE
    /\ UNCHANGED <<adcActive, queued, requests, batches>>
    /\ CanKeeps /\ EepromKeeps

StopPwm ==
    /\ requests > 0 /\ pwmOn' = FALSE
    /\ UNCHANGED <<adcActive, queued, requests, batches>>
    /\ CanKeeps /\ EepromKeeps

-----------------------------------------------------------------------------
(* The CAN bus.                                                            *)

AdcKeeps == UNCHANGED <<adcActive, queued, pwmOn, requests, batches>>

\* ConfigureCanBus rebuilds the adapter: a listener and completions go.
CanStart ==
    /\ requests > 0
    /\ canStarted' = TRUE /\ listening' = FALSE /\ sending' = 0
    /\ AdcKeeps /\ EepromKeeps

\* The adapter goes on as it was.
CanStop ==
    /\ requests > 0
    /\ canStarted' = FALSE
    /\ UNCHANGED <<listening, sending>> /\ AdcKeeps /\ EepromKeeps

CanSend ==
    /\ canStarted /\ sending < MaxPending
    /\ sending' = sending + 1
    /\ UNCHANGED <<canStarted, listening>> /\ AdcKeeps /\ EepromKeeps

CanSent ==
    /\ sending > 0
    /\ sending' = sending - 1
    /\ UNCHANGED <<canStarted, listening>> /\ AdcKeeps /\ EepromKeeps

CanListen ==
    /\ canStarted
    /\ listening' = TRUE
    /\ UNCHANGED <<canStarted, sending>> /\ AdcKeeps /\ EepromKeeps

-----------------------------------------------------------------------------
(* The EEPROM: no command asks whether an operation is still in flight.    *)

EepromBegin(kind) ==
    /\ requests > 0
    /\ operations["write"] + operations["read"] + operations["erase"] < MaxPending
    /\ operations' = [operations EXCEPT ![kind] = @ + 1]

\* The bytes go to the buffer as they are parsed: a byte or an address that
\* is refused afterwards leaves those before it there.
EepromWrite ==
    /\ buffer' = "typed"
    /\ EepromBegin("write") \/ (requests > 0 /\ UNCHANGED operations)
    /\ AdcKeeps /\ CanKeeps

EepromRead == EepromBegin("read") /\ UNCHANGED buffer /\ AdcKeeps /\ CanKeeps
EepromErase == EepromBegin("erase") /\ UNCHANGED buffer /\ AdcKeeps /\ CanKeeps

EepromDone ==
    \E kind \in EepromKinds :
        /\ operations[kind] > 0
        /\ operations' = [operations EXCEPT ![kind] = @ - 1]
        /\ buffer' = IF kind = "read" THEN "cells" ELSE buffer
        /\ AdcKeeps /\ CanKeeps

TerminalSteps ==
    \/ ConfigurePwm \/ ConfigureAdc \/ AdcSample \/ SetPwmDuty \/ StopPwm
    \/ CanStart \/ CanStop \/ CanSend \/ CanSent \/ CanListen
    \/ EepromWrite \/ EepromRead \/ EepromErase \/ EepromDone

=============================================================================
