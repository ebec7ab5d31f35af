--------------------------- MODULE HardwareBridge ---------------------------
(***************************************************************************)
(* The hardware bridge from end to end: the bytes and the screen of the    *)
(* serial panel's terminal, the window and its connection thread, and a    *)
(* TCP link between clients and server.  The stages pass bytes and frames  *)
(* on and share no other state, so a behaviour follows one of them, with   *)
(* any input the stage before it can produce.                              *)
(***************************************************************************)
EXTENDS TerminalCells, BridgeController, BridgeServer

VARIABLE part    \* the stage this behaviour follows

bridgeVars == <<vtVars, cellsVars, controllerVars, linkVars, part>>

BridgeTypeOK == VtTypeOK /\ CellsTypeOK /\ ControllerTypeOK /\ LinkTypeOK

BridgeInit ==
    /\ part \in {"bytes", "screen", "cells", "window", "link"}
    /\ VtInit /\ CellsInit /\ ControllerInit /\ LinkInit
    /\ part # "link" => kind = "serial"

BridgeNext ==
    /\ UNCHANGED part
    /\ part = "cells" \/ UNCHANGED cellsVars
    /\ \/ part = "bytes" /\ VtBytes /\ UNCHANGED <<controllerVars, linkVars>>
       \/ part = "screen" /\ VtEvents /\ UNCHANGED <<controllerVars, linkVars>>
       \/ part = "cells" /\ CellsNext /\ UNCHANGED <<controllerVars, linkVars>>
       \/ part = "window" /\ ControllerNext /\ UNCHANGED <<vtVars, linkVars>>
       \/ part = "link" /\ LinkNext /\ UNCHANGED <<vtVars, controllerVars>>

BridgeSpec == BridgeInit /\ [][BridgeNext]_bridgeVars
=============================================================================
