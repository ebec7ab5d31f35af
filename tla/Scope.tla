-------------------------------- MODULE Scope --------------------------------
(***************************************************************************)
(* A scope of the simulator, seen through its trigger channel: the ring    *)
(* buffer of samples, the trigger that may freeze it, the toolbar, and the *)
(* window that is drawn.  A sample is its value, below or at and above the *)
(* levels of Levels, and its number.                                       *)
(***************************************************************************)
EXTENDS Naturals

CONSTANTS
    Capacity,        \* ringBufferCapacity
    Widths,          \* samples the screen is wide, by time per division
    SearchLimit,     \* autoTriggerSearchLimit
    MaxPushed        \* bound on the samples

ASSUME ScopeAssumption ==
    /\ Capacity \in Nat \ {0, 1} /\ Widths \subseteq Nat
    /\ SearchLimit \in Nat /\ MaxPushed \in Nat

VARIABLES
    data, head, count,     \* the ring buffer
    totalSamples,
    triggerMode, edge, level,
    scopeRunning, triggered, singleShotDone,
    previousTriggerSample,
    pushed,                \* samples so far
    fired,                 \* the number of the last sample that triggered
    retuned                \* the trigger was changed after it fired

scopeVars == <<data, head, count, totalSamples, triggerMode, edge, level,
               scopeRunning, triggered, singleShotDone,
               previousTriggerSample, pushed, fired, retuned>>

Levels == 0 .. 1
Blank == [value |-> 0, number |-> 0]

ScopeTypeOK ==
    /\ data \in [0 .. Capacity - 1 -> [value : Levels, number : 0 .. MaxPushed]]
    /\ head \in 0 .. Capacity - 1 /\ count \in 0 .. Capacity
    /\ totalSamples \in Widths
    /\ triggerMode \in {"Auto", "Normal", "Single"}
    /\ edge \in {"Rising", "Falling"} /\ level \in Levels
    /\ scopeRunning \in BOOLEAN /\ triggered \in BOOLEAN
    /\ singleShotDone \in BOOLEAN /\ retuned \in BOOLEAN
    /\ previousTriggerSample \in Levels
    /\ pushed \in 0 .. MaxPushed /\ fired \in 0 .. MaxPushed

ScopeInit ==
    /\ data = [i \in 0 .. Capacity - 1 |-> Blank] /\ head = 0 /\ count = 0
    /\ totalSamples \in Widths /\ triggerMode = "Auto" /\ edge = "Rising" /\ level = 0
    /\ scopeRunning = TRUE /\ triggered = FALSE /\ singleShotDone = FALSE
    /\ previousTriggerSample = 0 /\ pushed = 0 /\ fired = 0
    /\ retuned = FALSE

-----------------------------------------------------------------------------
(* The ring buffer.                                                        *)

Push(sample) ==
    /\ data' = [data EXCEPT ![head] = sample]
    /\ head' = (head + 1) % Capacity
    /\ count' = IF count < Capacity THEN count + 1 ELSE count

\* Mutant: the index is taken for that of a slot.
Slot(index) == data[index % Capacity]

\* The index-th sample, counted from the oldest that is kept.
At(index) ==
    IF count < Capacity THEN data[index] ELSE data[(head + index) % Capacity]

Crosses(previous, current) ==
    \/ (edge = "Rising" /\ previous < level /\ current >= level)
    \/ (edge = "Falling" /\ previous > level /\ current <= level)

-----------------------------------------------------------------------------
(* Samples and the toolbar.                                                *)

\* A stopped scope takes nothing, nor does a single shot that is done.  The
\* first sample sets no previous one: the second is compared with zero.
AddSample(value) ==
    LET compared == count > 0
        fires == compared /\ Crosses(previousTriggerSample, value)
    IN  /\ scopeRunning /\ ~(triggerMode = "Single" /\ singleShotDone)
        /\ pushed < MaxPushed
        /\ pushed' = pushed + 1
        /\ Push([value |-> value, number |-> pushed + 1])
        /\ triggered' = (triggered \/ fires)
        /\ singleShotDone' =
               (singleShotDone \/ (fires /\ triggerMode = "Single"))
        /\ previousTriggerSample' =
               IF compared THEN value ELSE previousTriggerSample
        /\ fired' = IF fires THEN pushed + 1 ELSE fired
        /\ retuned' = (retuned /\ ~fires)
        /\ UNCHANGED <<totalSamples, triggerMode, edge, level, scopeRunning>>

Clear ==
    /\ data' = [i \in 0 .. Capacity - 1 |-> Blank] /\ head' = 0 /\ count' = 0
    /\ triggered' = FALSE /\ singleShotDone' = FALSE
    /\ previousTriggerSample' = 0
    /\ UNCHANGED <<totalSamples, triggerMode, edge, level, scopeRunning,
                   pushed, fired, retuned>>

RingKeeps == UNCHANGED <<data, head, count, previousTriggerSample, pushed,
                         fired>>

SetTimePerDivision(width) ==
    /\ totalSamples' = width
    /\ UNCHANGED <<triggerMode, edge, level, scopeRunning, triggered,
                   singleShotDone, retuned>>
    /\ RingKeeps

SetTriggerMode(m) ==
    /\ triggerMode' = m /\ singleShotDone' = FALSE
    /\ UNCHANGED <<totalSamples, edge, level, scopeRunning, triggered,
                   retuned>>
    /\ RingKeeps

SetTriggerEdge(e) ==
    /\ edge' = e /\ retuned' = TRUE
    /\ UNCHANGED <<totalSamples, triggerMode, level, scopeRunning,
                   triggered, singleShotDone>>
    /\ RingKeeps

SetTriggerLevel(l) ==
    /\ level' = l /\ retuned' = TRUE
    /\ UNCHANGED <<totalSamples, triggerMode, edge, scopeRunning,
                   triggered, singleShotDone>>
    /\ RingKeeps

\* Run again re-arms a single shot.
SetRunning(run) ==
    /\ scopeRunning' = run
    /\ singleShotDone' = (singleShotDone /\ ~run)
    /\ UNCHANGED <<totalSamples, triggerMode, edge, level, triggered, retuned>>
    /\ RingKeeps

RunStopClicked == SetRunning(~scopeRunning)

\* SetTriggerMode, then SetRunning.
SingleClicked ==
    /\ triggerMode' = "Single" /\ singleShotDone' = FALSE
    /\ scopeRunning' = TRUE
    /\ UNCHANGED <<totalSamples, edge, level, triggered, retuned>>
    /\ RingKeeps

ForceTrigger ==
    /\ triggered' = TRUE /\ singleShotDone' = FALSE
    /\ UNCHANGED <<totalSamples, triggerMode, edge, level, scopeRunning,
                   retuned>>
    /\ RingKeeps

ScopeNext ==
    \/ \E v \in Levels : AddSample(v) \/ SetTriggerLevel(v)
    \/ \E m \in {"Auto", "Normal", "Single"} : SetTriggerMode(m)
    \/ \E e \in {"Rising", "Falling"} : SetTriggerEdge(e)
    \/ \E w \in Widths : SetTimePerDivision(w)
    \/ Clear \/ RunStopClicked \/ SingleClicked \/ ForceTrigger

-----------------------------------------------------------------------------
(* What is drawn.                                                          *)

Monus(a, b) == IF a > b THEN a - b ELSE 0

\* The newest crossing within the search limit, else the newest sample.
FindTriggerPoint ==
    LET crossings == {i \in Monus(count, SearchLimit) + 1 .. count - 1 :
                        Crosses(At(i - 1).value, At(i).value)}
    IN  IF count < 2 THEN 0
        ELSE IF crossings = {} THEN count - 1
        ELSE CHOOSE i \in crossings : \A j \in crossings : j <= i

AtMostTotal(n) == IF n < totalSamples THEN n ELSE totalSamples

\* A fifth of the screen is drawn before the trigger point.
FromTrigger ==
    LET start == Monus(FindTriggerPoint, totalSamples \div 5)
    IN  [start |-> start, shown |-> AtMostTotal(count - start)]

FreeRunning ==
    [start |-> count - AtMostTotal(count), shown |-> AtMostTotal(count)]

\* Nothing is drawn of fewer than two samples.
DrawChannels ==
    IF totalSamples < 2 \/ count < 2 THEN [start |-> 0, shown |-> 0]
    ELSE IF triggered /\ triggerMode # "Auto" THEN FromTrigger
    ELSE FreeRunning

Drawn == {At(DrawChannels.start + i).number : i \in 0 .. DrawChannels.shown - 1}

-----------------------------------------------------------------------------
(* Properties.                                                             *)

Frozen == triggerMode = "Single" /\ singleShotDone

\* What is drawn is a run of consecutive samples, oldest first and none of
\* them overwritten, and a single shot that is done keeps drawing the sample
\* that triggered it, until the trigger is changed: across the wrap of the
\* ring, clears, stops, re-arms and the sample that has no predecessor.  A
\* screen of less than two samples shows none.
DrawsTheTrigger ==
    /\ \A i \in 1 .. DrawChannels.shown - 1 :
         At(DrawChannels.start + i).number
             = At(DrawChannels.start + i - 1).number + 1
    /\ Frozen /\ ~retuned =>
         fired = pushed /\ (totalSamples >= 2 => fired \in Drawn)
=============================================================================
