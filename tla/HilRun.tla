------------------------------- MODULE HilRun -------------------------------
(***************************************************************************)
(* A run of the hardware-in-the-loop tests: the hooks that flash the       *)
(* board, connect to the bridge and bring the board to its prompt around   *)
(* every scenario, and the transcripts written meanwhile, one of the whole *)
(* session and one of each scenario.  The program has one thread.  What    *)
(* the test runner does after a hook or a step has thrown is external: it  *)
(* may go on with the next hook or end.                                    *)
(***************************************************************************)
EXTENDS Naturals, Sequences

CONSTANT MaxScenarios    \* bound on the scenarios of a run

ASSUME ScenariosAssumption == MaxScenarios \in Nat

VARIABLES
    at,              \* the hook that runs, or what is between the hooks
    todo,            \* the session calls it has still to make
    begun, scenario, \* scenarios begun, and the one that runs, or 0
    script,          \* the file with the script for GDB exists
    built, alive,    \* the session: built, and its connections up
    configured, enabled, sessionFile,
    scenarioFile,    \* the scenario whose file is open, or 0
    scenarioIndex, inScenario,
    created,         \* the scenarios whose file was made
    transcript       \* the lines a file has of each scenario; 0 is the session

loggerVars == <<configured, enabled, sessionFile, scenarioFile, scenarioIndex,
                inScenario, created, transcript>>
runVars == <<at, todo, begun, scenario, script, built, alive, loggerVars>>

RunPlaces == {"start", "flash", "gdb", "BeforeAll", "idle", "BeforeScenario",
           "steps", "AfterScenario", "over"}
Scenarios == 1 .. MaxScenarios
Files == 0 .. MaxScenarios

RunTypeOK ==
    /\ at \in RunPlaces
    /\ todo \in Seq({"DrainSerial", "WaitForPrompt", "SendSerial"})
    /\ begun \in Files /\ scenario \in 0 .. begun
    /\ script \in BOOLEAN /\ built \in BOOLEAN /\ alive \in BOOLEAN
    /\ configured \in BOOLEAN /\ enabled \in BOOLEAN
    /\ sessionFile \in BOOLEAN /\ inScenario \in BOOLEAN
    /\ scenarioFile \in Files /\ scenarioIndex \in Files
    /\ created \subseteq Scenarios
    /\ transcript \in [Files -> [Files -> Nat]]

RunInit ==
    /\ at = "start" /\ todo = <<>> /\ begun = 0 /\ scenario = 0
    /\ script = FALSE /\ built = FALSE /\ alive = FALSE
    /\ configured = FALSE /\ enabled = TRUE /\ sessionFile = FALSE
    /\ scenarioFile = 0 /\ scenarioIndex = 0 /\ inScenario = FALSE
    /\ created = {} /\ transcript = [f \in Files |-> [n \in Files |-> 0]]

-----------------------------------------------------------------------------
(* The transcripts.                                                        *)

\* k lines said in scenario n go to the files that are open.
Written(k, n, file, within) ==
    [f \in Files |->
        IF enabled /\ (IF f = 0 THEN sessionFile ELSE within /\ f = file)
        THEN [transcript[f] EXCEPT ![n] = @ + k] ELSE transcript[f]]

Write(k) == transcript' = Written(k, scenario, scenarioFile, inScenario)

\* The session's file may not open; its first line is the header.
OpenSession ==
    /\ configured
    /\ \/ /\ ~enabled /\ UNCHANGED <<enabled, sessionFile, transcript>>
       \/ /\ enabled /\ enabled' = FALSE /\ UNCHANGED <<sessionFile, transcript>>
       \/ /\ enabled /\ UNCHANGED enabled /\ sessionFile' = TRUE
          /\ transcript' = [transcript EXCEPT ![0][0] = @ + 2]
    /\ UNCHANGED <<configured, scenarioFile, scenarioIndex, inScenario, created>>

\* Mutant: the banner is written before the files are changed.
BannerFirst(n) ==
    IF ~enabled THEN UNCHANGED loggerVars
    ELSE /\ scenarioIndex' = scenarioIndex + 1
         /\ \E opens \in BOOLEAN :
              /\ scenarioFile' = IF opens THEN scenarioIndex + 1 ELSE 0
              /\ inScenario' = opens
              /\ created' = IF opens THEN created \cup {scenarioIndex + 1}
                                     ELSE created
              /\ transcript' = Written(1, n, scenarioFile, inScenario)
         /\ UNCHANGED <<configured, enabled, sessionFile>>

\* The file the last scenario may have left open is closed first.
BeginScenario(n) ==
    IF ~enabled THEN UNCHANGED loggerVars
    ELSE /\ scenarioIndex' = scenarioIndex + 1
         /\ \E opens \in BOOLEAN :
              /\ scenarioFile' = IF opens THEN scenarioIndex + 1 ELSE 0
              /\ inScenario' = opens
              /\ created' = IF opens THEN created \cup {scenarioIndex + 1}
                                     ELSE created
              /\ transcript' = Written(1, n, scenarioFile', inScenario')
         /\ UNCHANGED <<configured, enabled, sessionFile>>

EndScenario ==
    IF ~enabled THEN UNCHANGED loggerVars
    ELSE /\ Write(1)
         /\ scenarioFile' = 0 /\ inScenario' = FALSE
         /\ UNCHANGED <<configured, enabled, sessionFile, scenarioIndex, created>>

CloseSession == sessionFile' = FALSE /\ scenarioFile' = 0

-----------------------------------------------------------------------------
(* The hooks.                                                              *)

sessionVars == <<built, alive>>
fileVars == <<configured, enabled, sessionFile, scenarioFile, scenarioIndex,
              inScenario, created>>

Configure ==
    /\ at = "start" /\ ~configured
    /\ configured' = TRUE /\ enabled' \in BOOLEAN
    /\ UNCHANGED <<at, todo, begun, scenario, script, sessionVars, sessionFile,
                   scenarioFile, scenarioIndex, inScenario, created, transcript>>

BeforeAll ==
    /\ at = "start" /\ OpenSession /\ at' = "flash"
    /\ UNCHANGED <<todo, begun, scenario, script, sessionVars>>

\* GDB reads its commands from a file, which its owner removes.
WriteFile == script' = TRUE
ScopedTempFileEnds == script' = FALSE

\* Flashed, or told not to flash, the board is brought to its prompt.
Connects == at' = "BeforeAll" /\ todo' = <<"DrainSerial", "WaitForPrompt">>

BeforeAllThrows(k) == at' = "idle" /\ todo' = <<>> /\ Write(k + 1)

\* GDB is not run without its settings or without its script.
Flash ==
    /\ at = "flash"
    /\ \/ Connects /\ UNCHANGED <<script, transcript>>
       \/ BeforeAllThrows(0) /\ UNCHANGED script
       \/ at' = "gdb" /\ WriteFile /\ UNCHANGED <<todo, transcript>>
    /\ UNCHANGED <<begun, scenario, sessionVars, fileVars>>

\* Whatever GDB returned, the script is removed.
GdbEnds ==
    /\ at = "gdb" /\ ScopedTempFileEnds
    /\ \/ Connects /\ UNCHANGED transcript
       \/ BeforeAllThrows(0)
    /\ UNCHANGED <<begun, scenario, sessionVars, fileVars>>

CleansUp == at' = "AfterScenario" /\ todo' = <<"DrainSerial", "WaitForPrompt">>

\* After an AFTER_SCENARIO that threw, the scenario's file stays open.
Throws(k) ==
    \/ at = "BeforeAll" /\ BeforeAllThrows(k) /\ UNCHANGED scenario
    \/ /\ at \in {"BeforeScenario", "AfterScenario"} /\ at' = "idle"
       /\ todo' = <<>> /\ scenario' = 0 /\ Write(k)
    \/ /\ at \in {"BeforeScenario", "steps"} /\ CleansUp
       /\ UNCHANGED scenario /\ Write(k)

\* What the two trackers know of the connections.
Tracked == alive' = TRUE \/ alive' = FALSE

\* The first call builds the session, as does the next one when that failed.
\* Bytes of the board may come with the connection.
Connect ==
    /\ todo # <<>> /\ ~built
    /\ \E k \in {0, 1} :
         \/ built' = TRUE /\ alive' = TRUE /\ Write(k)
            /\ UNCHANGED <<at, todo, scenario>>
         \/ UNCHANGED sessionVars /\ Throws(k)
    /\ UNCHANGED <<begun, script, fileVars>>

\* A call that runs tells of itself, of the bytes and of its result, and
\* connections may drop, or return, in it.
Call ==
    /\ todo # <<>> /\ built
    /\ \/ /\ alive /\ Tracked /\ \E k \in {3, 4} : Write(k)
          /\ todo' = Tail(todo) /\ UNCHANGED <<at, scenario>>
       \/ /\ ~alive /\ Head(todo) = "WaitForPrompt" /\ todo' = Tail(todo)
          /\ UNCHANGED <<at, scenario, alive, transcript>>
       \/ ~alive /\ Head(todo) # "WaitForPrompt" /\ Throws(0) /\ UNCHANGED alive
    /\ UNCHANGED <<begun, script, built, fileVars>>

BeforeAllEnds ==
    /\ at = "BeforeAll" /\ todo = <<>> /\ at' = "idle"
    /\ UNCHANGED <<todo, begun, scenario, script, sessionVars, loggerVars>>

BeforeScenario ==
    /\ at = "idle" /\ begun < MaxScenarios
    /\ at' = "BeforeScenario"
    /\ begun' = begun + 1 /\ scenario' = begun + 1 /\ BeginScenario(begun + 1)
    /\ todo' = <<"WaitForPrompt", "SendSerial", "SendSerial", "WaitForPrompt">>
    /\ UNCHANGED <<script, sessionVars>>

\* The steps of the scenario may send a command.
Steps ==
    /\ at = "BeforeScenario" /\ todo = <<>> /\ at' = "steps"
    /\ todo' \in {<<>>, <<"SendSerial">>}
    /\ UNCHANGED <<begun, scenario, script, sessionVars, loggerVars>>

AfterScenario ==
    /\ at = "steps" /\ todo = <<>> /\ CleansUp
    /\ UNCHANGED <<begun, scenario, script, sessionVars, loggerVars>>

AfterScenarioEnds ==
    /\ at = "AfterScenario" /\ todo = <<>> /\ at' = "idle"
    /\ EndScenario /\ scenario' = 0
    /\ UNCHANGED <<todo, begun, script, sessionVars>>

\* The last note goes to a scenario's file, too, if that was left open.
AfterAll ==
    /\ at = "idle" /\ at' = "over"
    /\ Write(1) /\ CloseSession
    /\ UNCHANGED <<todo, begun, scenario, script, sessionVars, configured,
                   enabled, scenarioIndex, inScenario, created>>

RunNext ==
    \/ Configure \/ BeforeAll \/ Flash \/ GdbEnds \/ Connect \/ Call
    \/ BeforeAllEnds \/ BeforeScenario \/ Steps \/ AfterScenario
    \/ AfterScenarioEnds \/ AfterAll

-----------------------------------------------------------------------------
(* Properties.                                                             *)

\* The file of a scenario has every line the session's has of that scenario
\* and none of another one, whichever hooks and steps threw: BeginScenario
\* closes what the scenario before it left open.
TranscriptsAgree ==
    \A n \in Scenarios :
        /\ \A m \in Scenarios \ {n} : transcript[n][m] = 0
        /\ n \in created => transcript[n][n] = transcript[0][n]
=============================================================================
