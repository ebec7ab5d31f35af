------------------------- MODULE ThreePhaseInverter -------------------------
(***************************************************************************)
(* The power stage as the control code sees it: whether the PWM outputs    *)
(* are driven, and which callback the sampling interrupt calls.  There is  *)
(* one callback slot, and every user of the inverter writes it: the FOC    *)
(* runner when it is built, then each identification service.  Conversions *)
(* are triggered by the PWM carrier; Stop cuts the outputs and not the     *)
(* conversion in flight, whose sample arrives at a stopped inverter.       *)
(***************************************************************************)
EXTENDS Naturals

VARIABLES
    pwm,        \* TRUE while the outputs are driven
    sampler,    \* who registered the callback of the sampling interrupt
    converting  \* a conversion has been triggered and not yet delivered

inverterVars == <<pwm, sampler, converting>>

\* "idle" is the empty lambda the services install between measurements.
Samplers == {"foc", "idle", "resistance", "alignment", "mechanical"}

InverterTypeOK ==
    pwm \in BOOLEAN /\ sampler \in Samplers /\ converting \in BOOLEAN

\* Runner's constructor registers the control loop; the outputs are off.
InverterInit == pwm = FALSE /\ sampler = "foc" /\ converting = FALSE

\* ThreePhasePwmOutput after PhaseCurrentsReady(who).
DriveFor(who) == pwm' = TRUE /\ sampler' = who

\* Controllable::Start: drives the outputs and leaves the callback alone.
Start == pwm' = TRUE /\ UNCHANGED sampler

\* Stop: no output; the callback stays registered, a conversion in flight.
Stop == pwm' = FALSE /\ UNCHANGED sampler

\* The carrier triggers a conversion.
Convert ==
    /\ pwm /\ ~converting
    /\ converting' = TRUE
    /\ UNCHANGED <<pwm, sampler>>

\* The sampling interrupt calls who's lambda.
SampleFor(who) ==
    /\ converting /\ sampler = who
    /\ converting' = FALSE

\* The runner's callback writes duties: that drives a stopped inverter too.
ControlLoopSample ==
    /\ SampleFor("foc")
    /\ pwm' = TRUE
    /\ UNCHANGED sampler

\* A sample that a service only counts.  While the outputs are driven the
\* next conversion follows at once; after Stop it was the last one.
LastSampleCounted ==
    /\ ~pwm /\ sampler # "foc"
    /\ SampleFor(sampler)
    /\ UNCHANGED <<pwm, sampler>>
=============================================================================
