---------------------------- MODULE BridgeProofs ----------------------------
(***************************************************************************)
(* The hardware bridge, proved for every number of connections, sends and  *)
(* frames, every size of screen and every run of bytes: what passes        *)
(* between the window's thread and the connection's, what becomes of the   *)
(* completions of sends, the terminal's pending wrap, its scroll region    *)
(* and the cells behind its screen, and control sequences that are cut     *)
(* short by others.                                                        *)
(***************************************************************************)
EXTENDS HardwareBridge, FiniteSetTheorems, DataLemmas

-----------------------------------------------------------------------------
(* The two send slots between the threads.                                 *)

Handovers == [kind : Kinds, send : Nat, on : Nat]

SendTypes ==
    /\ gui \in {"idle", "serial", "can", "joining", "crashed"}
    /\ connects \in Nat
    /\ sends \in Seq(Nat)
    /\ scheduled \in Seq(Kinds)
    /\ slot \in [Kinds -> Nat]
    /\ handed \in Seq(Handovers)

\* The dispatcher's lambdas go with the network, and the network with the
\* thread.
ScheduledNeedsNetwork ==
    /\ "network" \notin existing => scheduled = <<>>
    /\ thread \in {"none", "resolving", "finished"} => existing = {}

\* What a lambda will find in its slot was sent on the present connection.
ScheduledIsRecent ==
    \A n \in DOMAIN scheduled :
        slot[scheduled[n]] # 0 => sends[slot[scheduled[n]]] = connects

\* What was handed over is older than what the slot holds now.
HandedIsOlder ==
    /\ \A k \in Kinds : slot[k] <= Len(sends)
    /\ \A i \in DOMAIN handed :
        /\ handed[i].send \in DOMAIN sends
        /\ handed[i].kind = "serial" =>
             slot["serial"] = 0 \/ handed[i].send < slot["serial"]
        /\ handed[i].kind = "can" => handed[i].send <= slot["can"]

SlotInv ==
    /\ SendTypes /\ ScheduledNeedsNetwork /\ ScheduledIsRecent
    /\ HandedIsOlder /\ SendsStayOnTheirConnection

LEMMA SlotInvHoldsAtFirst == ControllerInit => SlotInv
  BY SMT DEF ControllerInit, SlotInv, SendTypes, ScheduledNeedsNetwork,
     ScheduledIsRecent, HandedIsOlder, SendsStayOnTheirConnection, Kinds,
     Handovers

LEMMA SlotInvReads ==
  ASSUME SlotInv, UNCHANGED <<connects, sends, scheduled, slot, handed>>,
         gui' \in {"idle", "serial", "can", "joining", "crashed"},
         ScheduledNeedsNetwork'
  PROVE  SlotInv'
  BY ZenonT(40) DEF SlotInv, SendTypes, ScheduledIsRecent, HandedIsOlder,
     SendsStayOnTheirConnection

\* The window's steps but Schedule, and the thread's but RunScheduled.
LEMMA ThreadsKeepSlotInv ==
  ASSUME SlotInv,
         \/ OnConnectClicked \/ OnDisconnectClicked \/ Joined \/ OnConnectionError
         \/ \E k \in Kinds :
             \/ \E up \in BOOLEAN : OnConnectionChanged(k, up) \/ Observe(k, up)
             \/ SendRequested(k)
         \/ Resolve \/ Fail \/ Stop \/ ThreadEnds
  PROVE  SlotInv'
  <1> USE DEF SlotInv, ScheduledNeedsNetwork
  <1>1. CASE OnConnectClicked /\ thread = "none"
    <2>1. scheduled = <<>> /\ scheduled' = <<>>
      BY <1>1, Zenon DEF OnConnectClicked
    <2>2. connects' = connects + 1 /\ connects' \in Nat
          /\ UNCHANGED <<gui, sends, slot, handed, existing>>
      BY <1>1, SMT DEF OnConnectClicked, SendTypes
    <2>3. SendTypes' /\ HandedIsOlder' /\ SendsStayOnTheirConnection'
      BY <2>1, <2>2, ZenonT(40) DEF SendTypes, HandedIsOlder,
                                   SendsStayOnTheirConnection
    <2>4. ScheduledIsRecent'
      BY <2>1, SMT DEF ScheduledIsRecent
    <2>5. ScheduledNeedsNetwork'
      BY <1>1, <2>1, <2>2, Zenon DEF OnConnectClicked
    <2> QED
      BY <2>3, <2>4, <2>5
  <1>2. CASE OnConnectClicked /\ thread # "none"
    <2>1. ScheduledNeedsNetwork'
      BY <1>2, Zenon DEF OnConnectClicked
    <2> QED
      BY <1>2, <2>1, SlotInvReads, Zenon DEF OnConnectClicked, SendTypes
  <1>3. CASE OnDisconnectClicked \/ OnConnectionError
    <2>1. ScheduledNeedsNetwork'
      BY <1>3, Zenon DEF OnDisconnectClicked, OnConnectionError, Disconnect
    <2> QED
      BY <1>3, <2>1, SlotInvReads, Zenon DEF OnDisconnectClicked,
                                             OnConnectionError, Disconnect
  <1>4. CASE Joined
    <2>1. ScheduledNeedsNetwork'
      BY <1>4, Zenon DEF Joined
    <2> QED
      BY <1>4, <2>1, SlotInvReads, Zenon DEF Joined
  <1>5. ASSUME NEW k \in Kinds, SendRequested(k) PROVE SlotInv'
    <2>1. ScheduledNeedsNetwork' /\ k \in {"serial", "can"}
      BY <1>5, Zenon DEF SendRequested, Kinds
    <2> QED
      BY <1>5, <2>1, SlotInvReads, Zenon DEF SendRequested
  <1>6. ASSUME NEW k \in Kinds, NEW up \in BOOLEAN,
               OnConnectionChanged(k, up) \/ Observe(k, up)
        PROVE  SlotInv'
    <2>1. ScheduledNeedsNetwork'
      BY <1>6, Zenon DEF OnConnectionChanged, Observe, KeepAllBut
    <2> QED
      BY <1>6, <2>1, SlotInvReads, Zenon DEF OnConnectionChanged, Observe,
                                             KeepAllBut, SendTypes
  <1>7. CASE Resolve
    <2>1. ScheduledNeedsNetwork'
      BY <1>7, SMT DEF Resolve, AllExist
    <2> QED
      BY <1>7, <2>1, SlotInvReads, Zenon DEF Resolve, SendTypes
  <1>8. CASE Fail \/ Stop \/ ThreadEnds
    <2>1. ScheduledNeedsNetwork'
      BY <1>8, SMT DEF Fail, Stop, ThreadEnds, KeepAllBut
    <2> QED
      BY <1>8, <2>1, SlotInvReads, Zenon DEF Fail, Stop, ThreadEnds,
                                             KeepAllBut, SendTypes
  <1> QED
    BY <1>1, <1>2, <1>3, <1>4, <1>5, <1>6, <1>7, <1>8, Zenon

\* The network is the last to go, with what was scheduled.
LEMMA CleanupKeepsSlotInv ==
  ASSUME SlotInv, NEW what \in AllExist, Cleanup(what)
  PROVE  SlotInv'
  <1>1. CASE what = "network"
    <2>1. scheduled' = <<>> /\ existing' = {}
          /\ UNCHANGED <<gui, connects, sends, slot, handed>>
      BY <1>1, SMT DEF Cleanup
    <2>2. SendTypes'
      <3>1. scheduled' \in Seq(Kinds)
        BY <2>1, SMT
      <3> QED
        BY <2>1, <3>1, Zenon DEF SlotInv, SendTypes
    <2>3. HandedIsOlder' /\ SendsStayOnTheirConnection'
      BY <2>1, Zenon DEF SlotInv, HandedIsOlder, SendsStayOnTheirConnection
    <2>4. ScheduledIsRecent' /\ ScheduledNeedsNetwork'
      BY <2>1, SMT DEF ScheduledIsRecent, ScheduledNeedsNetwork
    <2> QED
      BY <2>2, <2>3, <2>4 DEF SlotInv
  <1>2. CASE what # "network"
    <2>1. ScheduledNeedsNetwork'
      BY <1>2, SMT DEF Cleanup, SlotInv, ScheduledNeedsNetwork
    <2> QED
      BY <1>2, <2>1, SlotInvReads, Zenon DEF Cleanup, SlotInv, SendTypes
  <1> QED
    BY <1>1, <1>2

\* A send is the last one made, and on the present connection.
LEMMA ScheduleKeepsSlotInv ==
  ASSUME SlotInv, NEW k \in Kinds, Schedule(k)
  PROVE  SlotInv'
  <1>1. /\ sends' = Append(sends, connects) /\ sends' \in Seq(Nat)
        /\ Len(sends') = Len(sends) + 1
        /\ \A i \in DOMAIN sends : i \in DOMAIN sends' /\ sends'[i] = sends[i]
        /\ sends'[Len(sends')] = connects
        /\ DOMAIN sends = 1 .. Len(sends)
    BY SMT DEF Schedule, SlotInv, SendTypes
  <1>2. /\ slot' = [slot EXCEPT ![k] = Len(sends')] /\ UNCHANGED <<connects, handed>>
        /\ existing' = existing /\ thread' = thread
    BY Zenon DEF Schedule
  <1>3. /\ scheduled' \in Seq(Kinds)
        /\ \A n \in DOMAIN scheduled' :
             scheduled'[n] = k \/ (n \in DOMAIN scheduled /\ scheduled'[n] = scheduled[n])
    <2>1. scheduled' = scheduled \/ scheduled' = Append(scheduled, k)
      BY Zenon DEF Schedule
    <2>2. scheduled \in Seq(Kinds)
      BY DEF SlotInv, SendTypes
    <2> QED
      BY <2>1, <2>2, SMT
  <1>4. SendTypes'
    <2>1. gui' \in {"idle", "crashed"}
      BY Zenon DEF Schedule
    <2>2. slot' \in [Kinds -> Nat]
      BY <1>1, <1>2, SMT DEF SlotInv, SendTypes
    <2> QED
      BY <1>1, <1>2, <1>3, <2>1, <2>2, Zenon DEF SlotInv, SendTypes
  <1>5. ScheduledNeedsNetwork'
    BY <1>2, SMT DEF Schedule, SlotInv, ScheduledNeedsNetwork
  <1>6. ScheduledIsRecent'
    <2> SUFFICES ASSUME NEW n \in DOMAIN scheduled', slot'[scheduled'[n]] # 0
                 PROVE  sends'[slot'[scheduled'[n]]] = connects
      BY <1>2, Zenon DEF ScheduledIsRecent
    <2>1. CASE scheduled'[n] = k
      BY <1>1, <1>2, <2>1, Zenon DEF SlotInv, SendTypes
    <2>2. CASE scheduled'[n] # k
      <3>1. n \in DOMAIN scheduled /\ scheduled'[n] = scheduled[n]
            /\ scheduled[n] \in Kinds
        BY <1>3, <2>2, SMT DEF SlotInv, SendTypes
      <3>2. slot'[scheduled'[n]] = slot[scheduled[n]]
        BY <1>2, <2>2, <3>1, Zenon DEF SlotInv, SendTypes
      <3>3. slot[scheduled[n]] \in DOMAIN sends
        BY <1>1, <3>1, <3>2, SMT DEF SlotInv, SendTypes, HandedIsOlder
      <3>4. sends[slot[scheduled[n]]] = connects
        BY <3>1, <3>2, Zenon DEF SlotInv, ScheduledIsRecent
      <3> QED
        BY <1>1, <3>2, <3>3, <3>4, Zenon
    <2> QED
      BY <2>1, <2>2
  <1>7. HandedIsOlder'
    <2>1. \A l \in Kinds : slot'[l] = IF l = k THEN Len(sends') ELSE slot[l]
      BY <1>2, Zenon DEF SlotInv, SendTypes
    <2>2. \A l \in Kinds : slot'[l] <= Len(sends') /\ slot'[l] >= slot[l]
      <3>1. Len(sends) \in Nat
        BY SMT DEF SlotInv, SendTypes
      <3>2. \A l \in Kinds : slot[l] \in Nat /\ slot[l] <= Len(sends)
        BY Zenon DEF SlotInv, SendTypes, HandedIsOlder
      <3> QED
        BY <1>1, <2>1, <3>1, <3>2, SMT
    <2>3. ASSUME NEW i \in DOMAIN handed
          PROVE  /\ handed[i].send \in DOMAIN sends'
                 /\ handed[i].kind = "serial" =>
                      slot'["serial"] = 0 \/ handed[i].send < slot'["serial"]
                 /\ handed[i].kind = "can" => handed[i].send <= slot'["can"]
      <3>1. handed[i].send \in DOMAIN sends
        BY DEF SlotInv, HandedIsOlder
      <3>2. handed[i].send \in DOMAIN sends' /\ handed[i].send < Len(sends')
            /\ handed[i].send \in Nat
        BY <1>1, <3>1, SMT DEF SlotInv, SendTypes
      <3>3. "serial" \in Kinds /\ "can" \in Kinds
        BY DEF Kinds
      <3>4. slot["can"] \in Nat /\ slot'["can"] \in Nat
        BY <1>4, <3>3, Zenon DEF SlotInv, SendTypes
      <3>5. handed[i].kind = "serial" =>
               slot'["serial"] = 0 \/ handed[i].send < slot'["serial"]
        BY <2>1, <3>2, <3>3, Zenon DEF SlotInv, HandedIsOlder
      <3>6. handed[i].kind = "can" => handed[i].send <= slot["can"]
        BY DEF SlotInv, HandedIsOlder
      <3> QED
        BY <2>2, <3>2, <3>3, <3>4, <3>5, <3>6, SMT
    <2> QED
      BY <1>2, <2>2, <2>3, Zenon DEF HandedIsOlder
  <1>8. SendsStayOnTheirConnection'
    BY <1>1, <1>2, SMT DEF SlotInv, HandedIsOlder, SendsStayOnTheirConnection
  <1> QED
    BY <1>4, <1>5, <1>6, <1>7, <1>8 DEF SlotInv

\* A lambda hands over what its slot holds; serial data leaves the slot.
LEMMA RunScheduledKeepsSlotInv ==
  ASSUME SlotInv, RunScheduled
  PROVE  SlotInv'
  <1> DEFINE k == Head(scheduled)
             new == [kind |-> k, send |-> slot[k], on |-> connects]
  <1>1. /\ scheduled # <<>> /\ scheduled' = Tail(scheduled)
        /\ slot' = Taken(k)
        /\ \/ handed' = handed
           \/ slot[k] # 0 /\ handed' = Append(handed, new)
        /\ UNCHANGED <<gui, thread, existing, connects, sends>>
    BY Zenon DEF RunScheduled
  <1>2. /\ k \in Kinds /\ 1 \in DOMAIN scheduled /\ scheduled[1] = k
        /\ scheduled' \in Seq(Kinds)
        /\ \A n \in DOMAIN scheduled' :
             n + 1 \in DOMAIN scheduled /\ scheduled'[n] = scheduled[n + 1]
    BY <1>1, SMT DEF SlotInv, SendTypes
  <1>3. /\ slot' \in [Kinds -> Nat]
        /\ \A l \in Kinds : slot'[l] = slot[l] \/ slot'[l] = 0
        /\ k = "serial" => slot'["serial"] = 0
        /\ slot'["can"] = slot["can"]
    BY <1>1, <1>2, SMT DEF Taken, Kinds, SlotInv, SendTypes
  <1>4. new \in Handovers
    BY <1>2, SMT DEF SlotInv, SendTypes, Handovers
  <1>5. SendTypes'
    <2>1. handed' \in Seq(Handovers)
      <3> HIDE DEF new
      <3>1. handed \in Seq(Handovers)
        BY DEF SlotInv, SendTypes
      <3> QED
        BY <1>1, <1>4, <3>1, SMT
    <2> QED
      BY <1>1, <1>2, <1>3, <2>1, Zenon DEF SlotInv, SendTypes
  <1>6. ScheduledNeedsNetwork'
    BY <1>1, Zenon DEF SlotInv, ScheduledNeedsNetwork
  <1>7. ScheduledIsRecent'
    <2> SUFFICES ASSUME NEW n \in DOMAIN scheduled', slot'[scheduled'[n]] # 0
                 PROVE  sends[slot'[scheduled'[n]]] = connects
      BY <1>1, Zenon DEF ScheduledIsRecent
    <2>1. scheduled'[n] = scheduled[n + 1] /\ n + 1 \in DOMAIN scheduled
          /\ scheduled[n + 1] \in Kinds
      BY <1>2, SMT DEF SlotInv, SendTypes
    <2>2. slot'[scheduled'[n]] = slot[scheduled[n + 1]]
      BY <1>3, <2>1, Zenon
    <2> QED
      BY <2>1, <2>2, Zenon DEF SlotInv, ScheduledIsRecent
  <1>8. CASE handed' = handed
    <2>1. HandedIsOlder'
      BY <1>1, <1>3, <1>8, SMT DEF SlotInv, HandedIsOlder, Kinds
    <2>2. SendsStayOnTheirConnection'
      BY <1>1, <1>8, ZenonT(40) DEF SlotInv, SendsStayOnTheirConnection
    <2> QED
      BY <1>5, <1>6, <1>7, <2>1, <2>2 DEF SlotInv
  <1>9. CASE slot[k] # 0 /\ handed' = Append(handed, new)
    <2> HIDE DEF k
    <2>1. slot[k] \in DOMAIN sends /\ sends[slot[k]] = connects
      BY <1>2, <1>9, SMT DEF SlotInv, SendTypes, HandedIsOlder, ScheduledIsRecent
    <2>2. /\ DOMAIN handed' = 1 .. Len(handed) + 1 /\ DOMAIN handed = 1 .. Len(handed)
          /\ \A i \in DOMAIN handed : handed'[i] = handed[i]
          /\ handed'[Len(handed) + 1] = new /\ Len(handed) \in Nat
      BY <1>4, <1>9, SMT DEF SlotInv, SendTypes
    <2>3. new.kind = k /\ new.send = slot[k] /\ new.on = connects
      OBVIOUS
    <2> HIDE DEF new
    <2>4. HandedIsOlder'
      <3>1. \A l \in Kinds : slot'[l] <= Len(sends)
        <4>1. Len(sends) \in Nat
          BY SMT DEF SlotInv, SendTypes
        <4>2. \A l \in Kinds : slot[l] <= Len(sends)
          BY DEF SlotInv, HandedIsOlder
        <4> QED
          BY <1>3, <4>1, <4>2, SMT
      <3>2. ASSUME NEW i \in DOMAIN handed'
            PROVE  /\ handed'[i].send \in DOMAIN sends
                   /\ handed'[i].kind = "serial" =>
                        slot'["serial"] = 0 \/ handed'[i].send < slot'["serial"]
                   /\ handed'[i].kind = "can" => handed'[i].send <= slot'["can"]
        <4>1. CASE i = Len(handed) + 1
          <5>1. slot[k] <= slot[k]
            BY <1>2, SMT DEF SlotInv, SendTypes
          <5> QED
            BY <1>3, <2>1, <2>2, <2>3, <4>1, <5>1, Zenon
        <4>2. CASE i \in DOMAIN handed
          <5>1. "serial" \in Kinds
            BY DEF Kinds
          <5> QED
            BY <1>3, <2>2, <4>2, <5>1, Zenon DEF SlotInv, HandedIsOlder
        <4> QED
          BY <2>2, <4>1, <4>2, SMT
      <3> QED
        BY <1>1, <3>1, <3>2, Zenon DEF HandedIsOlder
    <2>5. (\A i \in DOMAIN handed : sends[handed[i].send] = handed[i].on)'
      BY <1>1, <2>1, <2>2, <2>3, SMT DEF SlotInv, SendsStayOnTheirConnection
    <2>6. \A i \in DOMAIN handed : handed[i].kind = k =>
             \/ handed[i].send < slot[k]
             \/ k = "can" /\ handed[i].send = slot[k]
      BY <1>2, <1>9, SMT DEF SlotInv, SendTypes, HandedIsOlder, Kinds
    <2>7. SendsStayOnTheirConnection'
      BY <2>2, <2>3, <2>5, <2>6, SMT DEF SlotInv, SendsStayOnTheirConnection
    <2> QED
      BY <1>5, <1>6, <1>7, <2>4, <2>7 DEF SlotInv
  <1> QED
    BY <1>1, <1>8, <1>9

LEMMA BridgeKeepsSlotInv ==
  ASSUME SlotInv, [BridgeNext]_bridgeVars
  PROVE  SlotInv'
  <1>1. CASE ControllerNext
    <2>1. ASSUME NEW k \in Kinds, Cleanup(k) PROVE SlotInv'
      BY <2>1, CleanupKeepsSlotInv, Zenon DEF AllExist
    <2>2. ASSUME Cleanup("network") PROVE SlotInv'
      BY <2>2, CleanupKeepsSlotInv, Zenon DEF AllExist
    <2> QED
      BY <1>1, <2>1, <2>2, ThreadsKeepSlotInv, ScheduleKeepsSlotInv,
         RunScheduledKeepsSlotInv, Zenon DEF ControllerNext
  <1>2. CASE UNCHANGED controllerVars
    BY <1>2, SlotInvReads, Zenon DEF controllerVars, SlotInv, SendTypes,
                                     ScheduledNeedsNetwork
  <1> QED
    BY <1>1, <1>2, Zenon DEF BridgeNext, bridgeVars

\* What is handed to a client was sent on its connection, in order and, for
\* serial data, once: for any number of connections and sends.
THEOREM SendsAreNotCarriedOver == BridgeSpec => []SendsStayOnTheirConnection
  <1>1. BridgeInit => SlotInv
    BY SlotInvHoldsAtFirst DEF BridgeInit
  <1>2. SlotInv /\ [BridgeNext]_bridgeVars => SlotInv'
    BY BridgeKeepsSlotInv
  <1>3. SlotInv => SendsStayOnTheirConnection
    BY DEF SlotInv
  <1> QED
    BY <1>1, <1>2, <1>3, PTL DEF BridgeSpec

-----------------------------------------------------------------------------
(* The types of the window and its thread.                                 *)

Threads == {"none", "resolving", "running", "cleaning", "finished"}
Windows == [connect : BOOLEAN, serial : BOOLEAN, can : BOOLEAN]

\* While the window offers to connect there is no thread, unless the window
\* waits for it to end.
WindowFitsThread ==
    /\ thread \in Threads
    /\ window \in Windows
    /\ existing \subseteq AllExist
    /\ window.connect /\ gui # "joining" => thread = "none"

LEMMA WindowFieldsAre ==
  ASSUME NEW w \in Windows, NEW b \in BOOLEAN
  PROVE  /\ [w EXCEPT !.connect = b] \in Windows /\ [w EXCEPT !.connect = b].connect = b
         /\ [w EXCEPT !["serial"] = b] \in Windows
         /\ [w EXCEPT !["serial"] = b].connect = w.connect
         /\ [w EXCEPT !["can"] = b] \in Windows
         /\ [w EXCEPT !["can"] = b].connect = w.connect
  <1>1. [w EXCEPT !.connect = b] \in Windows /\ [w EXCEPT !.connect = b].connect = b
    BY Zenon DEF Windows
  <1>2. /\ [w EXCEPT !["serial"] = b] \in Windows
        /\ [w EXCEPT !["serial"] = b].connect = w.connect
    BY SMT DEF Windows
  <1>3. /\ [w EXCEPT !["can"] = b] \in Windows
        /\ [w EXCEPT !["can"] = b].connect = w.connect
    BY SMT DEF Windows
  <1> QED BY <1>1, <1>2, <1>3

LEMMA WindowFitsAtFirst == ControllerInit => WindowFitsThread
  <1> SUFFICES ASSUME ControllerInit PROVE WindowFitsThread
    OBVIOUS
  <1>1. /\ window = [connect |-> TRUE, serial |-> FALSE, can |-> FALSE]
        /\ thread = "none" /\ existing = {}
    BY Zenon DEF ControllerInit
  <1>2. window \in Windows
    BY <1>1, Zenon DEF Windows
  <1> QED BY <1>1, <1>2, Zenon DEF WindowFitsThread, Threads

LEMMA ControllerKeepsWindow ==
  ASSUME WindowFitsThread, ControllerNext
  PROVE  WindowFitsThread'
  <1>0. TRUE \in BOOLEAN /\ FALSE \in BOOLEAN
    OBVIOUS
  <1>1. CASE OnConnectClicked
    <2>1. window' = [window EXCEPT !.connect = FALSE] /\ existing' = existing
          /\ thread' \in {thread, "resolving"}
      BY <1>1, Zenon DEF OnConnectClicked
    <2>2. window' \in Windows /\ window'.connect = FALSE
      BY <1>0, <2>1, WindowFieldsAre, Zenon DEF WindowFitsThread
    <2> QED BY <2>1, <2>2, Zenon DEF WindowFitsThread, Threads
  <1>2. CASE Joined
    <2>1. /\ window' = [connect |-> TRUE, serial |-> FALSE, can |-> FALSE]
          /\ thread' = "none" /\ existing' = existing
      BY <1>2, Zenon DEF Joined
    <2>2. window' \in Windows
      BY <2>1, Zenon DEF Windows
    <2> QED BY <2>1, <2>2, Zenon DEF WindowFitsThread, Threads
  <1>3. CASE OnDisconnectClicked \/ OnConnectionError
    <2>1. gui' = "joining" /\ UNCHANGED <<window, thread, existing>>
      BY <1>3, Zenon DEF OnDisconnectClicked, OnConnectionError, Disconnect
    <2> QED BY <2>1, Zenon DEF WindowFitsThread
  <1>4. ASSUME NEW k \in Kinds, NEW up \in BOOLEAN, OnConnectionChanged(k, up)
        PROVE  WindowFitsThread'
    <2>1. window' = [window EXCEPT ![k] = up] /\ UNCHANGED <<gui, thread, existing>>
      BY <1>4, Zenon DEF OnConnectionChanged
    <2>2. /\ [window EXCEPT ![k] = up] \in Windows
          /\ [window EXCEPT ![k] = up].connect = window.connect
      <3>1. window \in Windows
        BY DEF WindowFitsThread
      <3>2. CASE k = "serial"
        BY <3>1, <3>2, WindowFieldsAre
      <3>3. CASE k = "can"
        BY <3>1, <3>3, WindowFieldsAre
      <3> QED BY <3>2, <3>3 DEF Kinds
    <2>3. window' \in Windows /\ window'.connect = window.connect
      BY <2>1, <2>2
    <2> QED BY <2>1, <2>3, Zenon DEF WindowFitsThread
  <1>5. ASSUME NEW k \in Kinds, SendRequested(k) \/ Schedule(k) PROVE WindowFitsThread'
    <2>1. gui # "joining" /\ UNCHANGED <<window, thread, existing>>
      <3>1. k # "joining" /\ "idle" # "joining"
        BY SMT DEF Kinds
      <3> QED BY <1>5, <3>1, Zenon DEF SendRequested, Schedule
    <2> QED BY <2>1, Zenon DEF WindowFitsThread
  <1>6. ASSUME thread # "none", UNCHANGED <<gui, window>>, thread' \in Threads,
               existing' \subseteq AllExist
        PROVE  WindowFitsThread'
    BY <1>6, Zenon DEF WindowFitsThread
  <1>7. CASE Resolve \/ Fail \/ Stop \/ ThreadEnds \/ RunScheduled
    <2>1. /\ thread # "none" /\ UNCHANGED <<gui, window>>
          /\ thread' \in Threads /\ existing' \in {existing, AllExist}
      <3>1. "resolving" # "none" /\ "running" # "none" /\ "cleaning" # "none"
        BY SMT
      <3> QED
        BY <1>7, <3>1, Zenon DEF Resolve, Fail, Stop, ThreadEnds, RunScheduled,
           KeepAllBut, Threads
    <2> QED BY <1>6, <2>1, Zenon DEF WindowFitsThread
  <1>8. ASSUME NEW k, (\E up \in BOOLEAN : Observe(k, up)) \/ Cleanup(k)
        PROVE  WindowFitsThread'
    <2>1. /\ thread # "none" /\ UNCHANGED <<gui, window, thread>>
          /\ existing' \subseteq existing
      <3>1. "running" # "none" /\ "cleaning" # "none"
        BY SMT
      <3> QED
        BY <1>8, <3>1, Zenon DEF Observe, Cleanup, KeepAllBut
    <2> QED BY <1>6, <2>1, Zenon DEF WindowFitsThread
  <1> QED
    BY <1>1, <1>2, <1>3, <1>4, <1>5, <1>7, <1>8, Zenon DEF ControllerNext

LEMMA ControllerTypesAre ==
  ASSUME SlotInv, WindowFitsThread
  PROVE  ControllerTypeOK
  <1>1. \A k \in Kinds : slot[k] \in 0 .. Len(sends)
    <2> SUFFICES ASSUME NEW k \in Kinds PROVE slot[k] \in 0 .. Len(sends)
      BY Zenon
    <2> DEFINE n == slot[k]
               l == Len(sends)
    <2>1. n \in Nat /\ n <= l /\ l \in Nat
      BY LenProperties DEF SlotInv, SendTypes, HandedIsOlder
    <2> HIDE DEF n, l
    <2>2. n \in 0 .. l
      BY <2>1, SMT
    <2> QED BY <2>2 DEF n, l
  <1> QED
    BY <1>1, Zenon DEF ControllerTypeOK, SlotInv, SendTypes, WindowFitsThread,
       Threads, Windows

-----------------------------------------------------------------------------
(* The completions of sends.                                               *)

Phases == {"none", "connecting", "open", "shut", "detached", "destroyed"}

Clients == [connected : BOOLEAN, handler : BOOLEAN, pend : 0 .. MaxItems,
            left : Nat, queued : 0 .. MaxItems, half : Nat]

\* A field changed keeps a client a client.
LEMMA ClientFields ==
  /\ \A r \in Clients, b \in BOOLEAN : [r EXCEPT !.connected = b] \in Clients
  /\ \A r \in Clients, b \in BOOLEAN : [r EXCEPT !.handler = b] \in Clients
  /\ \A r \in Clients, i \in 0 .. MaxItems : [r EXCEPT !.pend = i] \in Clients
  /\ \A r \in Clients, i \in 0 .. MaxItems : [r EXCEPT !.queued = i] \in Clients
  /\ \A r \in Clients, n \in Nat : [r EXCEPT !.left = n] \in Clients
  /\ \A r \in Clients, n \in Nat : [r EXCEPT !.half = n] \in Clients
  <1>1. \A r \in Clients, b \in BOOLEAN : [r EXCEPT !.connected = b] \in Clients
    BY SMT DEF Clients
  <1>2. \A r \in Clients, b \in BOOLEAN : [r EXCEPT !.handler = b] \in Clients
    BY SMT DEF Clients
  <1>3. \A r \in Clients, i \in 0 .. MaxItems : [r EXCEPT !.pend = i] \in Clients
    BY SMT DEF Clients
  <1>4. \A r \in Clients, i \in 0 .. MaxItems : [r EXCEPT !.queued = i] \in Clients
    BY SMT DEF Clients
  <1>5. \A r \in Clients, n \in Nat : [r EXCEPT !.left = n] \in Clients
    BY SMT DEF Clients
  <1>6. \A r \in Clients, n \in Nat : [r EXCEPT !.half = n] \in Clients
    BY SMT DEF Clients
  <1> QED
    BY <1>1, <1>2, <1>3, <1>4, <1>5, <1>6

Reads == [at : {"none", "blocked", "done"}, frame : Nat]

\* The second half of a frame a client waits for comes from the server, which
\* has it from a read.
WireTypes ==
    /\ toClient \in [Conns -> Seq(Nat \X Nat)]
    /\ reading \in [Conns -> Reads]
    /\ taken \in Nat

\* A client holds a send in pend while it is connected, and in queued, which
\* CAN has no use for, before.
HoldsOnePlace(c) ==
    /\ client[c].connected => client[c].handler /\ client[c].queued = 0
    /\ ~client[c].connected => client[c].pend = 0
    /\ tcp[c] \in {"none", "connecting"} => ~client[c].connected
    /\ kind = "can" => client[c].queued = 0

CompletionInv ==
    /\ given \in 0 .. MaxItems /\ calls \in [Items -> Nat]
    /\ tcp \in [Conns -> Phases]
    /\ client \in [Conns -> Clients]
    /\ WireTypes
    /\ \A c \in Conns : HoldsOnePlace(c)

LEMMA CompletionInvHoldsAtFirst ==
  ASSUME LinkInit
  PROVE  CompletionInv /\ Forgotten = {} /\ Destroyed = {}
  <1>1. CompletionInv
    BY LinkAssumption, SMT
       DEF LinkInit, ClientInit, ServerInit, CompletionInv, Clients, WireTypes, Reads,
           HoldsOnePlace, NewClient, Items, Phases, Idle
  <1>2. Forgotten = {} /\ Destroyed = {}
    BY SMT DEF LinkInit, ClientInit, Forgotten, Destroyed
  <1> QED
    BY <1>1, <1>2

\* A step that touches one client keeps the invariant when that client is
\* still well formed.
LEMMA OneClientKeepsInv ==
  ASSUME CompletionInv, NEW c \in Conns, NEW r \in Clients,
         client' = [client EXCEPT ![c] = r],
         tcp' \in [Conns -> Phases],
         \A d \in Conns \ {c} : tcp'[d] = tcp[d],
         given' \in 0 .. MaxItems, calls' \in [Items -> Nat], kind' = kind,
         HoldsOnePlace(c)', WireTypes'
  PROVE  CompletionInv'
  <1>1. client' \in [Conns -> Clients]
        /\ \A d \in Conns \ {c} : client'[d] = client[d]
    BY Zenon DEF CompletionInv
  <1>2. ASSUME NEW d \in Conns \ {c} PROVE HoldsOnePlace(d)'
    BY <1>1, <1>2, Zenon DEF CompletionInv, HoldsOnePlace
  <1> QED
    BY <1>1, <1>2, Zenon DEF CompletionInv

\* Nothing is forgotten when what one client held, and a send just given, is
\* still held or completed.
LEMMA HeldOrCompleted ==
  ASSUME CompletionInv, NEW c \in Conns, NEW items, NEW how,
         Complete(items, how),
         \A d \in Conns \ {c} : client'[d] = client[d],
         Pending(c) \subseteq items \cup Pending(c)',
         \/ given' = given
         \/ given' = given + 1 /\ given' \in Items
              /\ given' \in items \cup Pending(c)'
  PROVE  Forgotten' \subseteq Forgotten /\ calls' \in [Items -> Nat]
  <1>1. calls' \in [Items -> Nat]
        /\ \A i \in Items : calls'[i] = calls[i] + (IF i \in items THEN 1 ELSE 0)
    BY SMT DEF Complete, CompletionInv
  <1>2. ASSUME NEW i \in Forgotten' PROVE i \in Forgotten
    <2>1. i \in 1 .. given' /\ calls'[i] = 0 /\ \A d \in Conns : i \notin Pending(d)'
      BY <1>2, Zenon DEF Forgotten
    <2>2. i \in Items
      BY <2>1, LinkAssumption, SMT DEF CompletionInv, Items
    <2>3. calls[i] = 0 /\ i \notin items
      BY <1>1, <2>1, <2>2, SMT DEF CompletionInv
    <2>4. i \in 1 .. given
      BY <2>1, <2>3, LinkAssumption, SMT DEF CompletionInv
    <2>5. \A d \in Conns : i \notin Pending(d)
      BY <2>1, <2>3, Zenon DEF Pending
    <2> QED
      BY <2>3, <2>4, <2>5 DEF Forgotten
  <1> QED
    BY <1>1, <1>2

\* The completions of everything a client holds.
LEMMA DisconnectForgetsNothing ==
  ASSUME CompletionInv, NEW c \in Conns, NEW clear \in BOOLEAN,
         HandleDisconnected(c, clear), WireTypes',
         tcp' \in [Conns -> Phases], \A d \in Conns \ {c} : tcp'[d] = tcp[d]
  PROVE  CompletionInv' /\ Forgotten' \subseteq Forgotten
  <1> DEFINE r == Disconnected(c, clear)
  <1>1. client' = [client EXCEPT ![c] = r] /\ Complete(Pending(c), Failure)
        /\ UNCHANGED <<kind, given>>
    BY Zenon DEF HandleDisconnected
  <1>2. r \in Clients /\ ~r.connected /\ r.pend = 0 /\ r.queued = 0
    <2>1. client[c] \in Clients
      BY DEF CompletionInv
    <2>2. (client[c].handler /\ ~clear) \in BOOLEAN
      OBVIOUS
    <2>3. 0 \in 0 .. MaxItems
      BY LinkAssumption, SMT
    <2>4. r \in Clients
      BY <2>1, <2>2, <2>3, ClientFields, Zenon DEF Disconnected
    <2>5. ~r.connected /\ r.pend = 0 /\ r.queued = 0
      BY <2>1, Zenon DEF Disconnected, Clients
    <2> QED
      BY <2>4, <2>5
  <1> HIDE DEF r
  <1>3. client'[c] = r /\ \A d \in Conns \ {c} : client'[d] = client[d]
    BY <1>1, Zenon DEF CompletionInv
  <1>4. HoldsOnePlace(c)'
    BY <1>2, <1>3, Zenon DEF HoldsOnePlace
  <1>5. Forgotten' \subseteq Forgotten /\ calls' \in [Items -> Nat]
    BY <1>1, <1>3, HeldOrCompleted, Zenon
  <1>6. CompletionInv'
    BY <1>1, <1>2, <1>4, <1>5, OneClientKeepsInv, Zenon DEF CompletionInv
  <1> QED
    BY <1>5, <1>6

\* A connection comes up, and what was queued without one is sent.
LEMMA EstablishedForgetsNothing ==
  ASSUME CompletionInv, NEW c \in Conns, ConnectionEstablished(c), WireTypes'
  PROVE  CompletionInv' /\ Forgotten' \subseteq Forgotten
  <1> DEFINE r == [client[c] EXCEPT !.connected = TRUE, !.handler = TRUE,
                     !.queued = 0, !.pend = client[c].queued,
                     !.left = IF client[c].queued = 0 THEN 0 ELSE 2]
  <1>1. /\ client' = [client EXCEPT ![c] = r] /\ tcp[c] = "connecting"
        /\ tcp' = [tcp EXCEPT ![c] = "open"]
        /\ UNCHANGED <<kind, given, calls>>
    BY Zenon DEF ConnectionEstablished, sendVars
  <1>2. client[c] \in Clients /\ client[c].queued \in 0 .. MaxItems
        /\ client[c].pend = 0
    BY <1>1, Zenon DEF CompletionInv, Clients, HoldsOnePlace
  <1>3. /\ r \in Clients /\ r.connected /\ r.handler
        /\ r.queued = 0 /\ r.pend = client[c].queued
    <2>1. (IF client[c].queued = 0 THEN 0 ELSE 2) \in Nat /\ 0 \in 0 .. MaxItems
      BY LinkAssumption, SMT
    <2>2. r \in Clients
      BY <1>2, <2>1, ClientFields, Zenon
    <2>3. r.connected /\ r.handler
      BY <1>2, Zenon DEF Clients
    <2>4. r.queued = 0 /\ r.pend = client[c].queued
      BY <1>2, Zenon DEF Clients
    <2> QED
      BY <2>2, <2>3, <2>4
  <1> HIDE DEF r
  <1>4. client'[c] = r /\ \A d \in Conns \ {c} : client'[d] = client[d]
    BY <1>1, Zenon DEF CompletionInv
  <1>5. /\ tcp' \in [Conns -> Phases] /\ tcp'[c] = "open"
        /\ \A d \in Conns \ {c} : tcp'[d] = tcp[d]
    BY <1>1, SMT DEF CompletionInv, Phases
  <1>6. HoldsOnePlace(c)'
    BY <1>3, <1>4, <1>5, Zenon DEF HoldsOnePlace
  <1>7. CompletionInv'
    BY <1>1, <1>3, <1>5, <1>6, OneClientKeepsInv, Zenon DEF CompletionInv
  <1>8. \A d \in Conns : Pending(d)' = Pending(d)
    BY <1>2, <1>3, <1>4, SMT DEF Pending
  <1>9. Forgotten' \subseteq Forgotten
    BY <1>1, <1>8, Zenon DEF Forgotten
  <1> QED
    BY <1>7, <1>9

\* A send given is answered at once, or held in the one place or the other.
LEMMA SendDataForgetsNothing ==
  ASSUME CompletionInv, NEW c \in Conns, SendData(c), WireTypes'
  PROVE  CompletionInv' /\ Forgotten' \subseteq Forgotten
  <1> DEFINE i == given + 1
  <1>1. i \in Items /\ i \in 0 .. MaxItems /\ given' = i /\ i # 0
        /\ UNCHANGED <<kind, tcp>>
        /\ tcp[c] # "none"
    BY LinkAssumption, SMT DEF SendData, CompletionInv, Items
  <1>2. client[c] \in Clients
    BY DEF CompletionInv
  <1> HIDE DEF i
  <1>3. ASSUME NEW r \in Clients, NEW items, NEW how, Complete(items, how),
               client' = [client EXCEPT ![c] = r],
               r.connected = client[c].connected,
               r.handler = client[c].handler,
               client[c].connected => r.queued = 0,
               ~client[c].connected => r.pend = 0,
               kind = "can" => r.queued = 0,
               {client[c].pend, client[c].queued} \ {0}
                 \subseteq items \cup {r.pend, r.queued},
               i \in items \cup {r.pend, r.queued}
        PROVE  CompletionInv' /\ Forgotten' \subseteq Forgotten
    <2>1. client'[c] = r /\ \A d \in Conns \ {c} : client'[d] = client[d]
      BY <1>3, Zenon DEF CompletionInv
    <2>2. HoldsOnePlace(c)'
      BY <1>1, <1>3, <2>1, Zenon DEF CompletionInv, HoldsOnePlace
    <2>3. Pending(c)' = {r.pend, r.queued} \ {0}
      BY <2>1, Zenon DEF Pending
    <2>4. Forgotten' \subseteq Forgotten /\ calls' \in [Items -> Nat]
      <3>1. Pending(c) \subseteq items \cup Pending(c)'
        BY <1>3, <2>3, SMT DEF Pending
      <3>2. given' = given + 1 /\ given' \in Items /\ given' \in items \cup Pending(c)'
        BY <1>1, <1>3, <2>3, SMT DEF i
      <3> QED
        BY <1>3, <2>1, <3>1, <3>2, HeldOrCompleted, Zenon
    <2>5. tcp' \in [Conns -> Phases] /\ given' \in 0 .. MaxItems
      BY <1>1, Zenon DEF CompletionInv
    <2> QED
      BY <1>1, <1>3, <2>2, <2>4, <2>5, OneClientKeepsInv, Zenon
  <1>4. client = [client EXCEPT ![c] = client[c]]
    BY Zenon DEF CompletionInv
  <1>5. CASE client[c].connected
    <2>1. client[c].queued = 0
      BY <1>5 DEF CompletionInv, HoldsOnePlace
    <2>2. PICK room \in BOOLEAN : RequestSend(c, i, room)
      BY <1>5, Zenon DEF SendData, i
    <2>3. CASE client[c].pend = 0 /\ room
      <3> DEFINE r == [client[c] EXCEPT !.pend = i, !.left = 2]
      <3>1. client' = [client EXCEPT ![c] = r] /\ Complete({}, Failure)
        BY <2>2, <2>3, <1>2, Zenon DEF RequestSend, CompletionInv, Clients
      <3>2. r \in Clients
        <4>1. 2 \in Nat
          BY SMT
        <4> QED
          BY <1>1, <1>2, <4>1, ClientFields, Zenon
      <3>3. r.connected = client[c].connected /\ r.handler = client[c].handler
            /\ r.pend = i /\ r.queued = client[c].queued
        BY <1>2, Zenon DEF Clients
      <3> HIDE DEF r
      <3> QED
        BY <1>3, <1>5, <2>1, <2>3, <3>1, <3>2, <3>3, Zenon
    <2>4. CASE ~(client[c].pend = 0 /\ room)
      <3>1. client' = client /\ Complete({i}, Failure)
        BY <2>2, <2>4, Zenon DEF RequestSend
      <3> QED
        BY <1>2, <1>3, <1>4, <1>5, <2>1, <3>1, Zenon
    <2> QED
      BY <2>3, <2>4
  <1>6. CASE ~client[c].connected
    <2>1. client[c].pend = 0 /\ (kind = "can" => client[c].queued = 0)
      BY <1>6 DEF CompletionInv, HoldsOnePlace
    <2>2. CASE kind = "serial"
      <3> DEFINE r == [client[c] EXCEPT !.queued = i]
      <3>1. client' = [client EXCEPT ![c] = r]
            /\ Complete({client[c].queued} \ {0}, Failure)
        BY <1>6, <2>2, Zenon DEF SendData, Queue, i
      <3>2. r \in Clients
        BY <1>1, <1>2, ClientFields, Zenon
      <3>3. r.connected = client[c].connected /\ r.handler = client[c].handler
            /\ r.pend = client[c].pend /\ r.queued = i
        BY <1>2, Zenon DEF Clients
      <3> HIDE DEF r
      <3>4. kind # "can"
        BY <2>2
      <3>5. {client[c].pend, client[c].queued} \ {0}
               \subseteq ({client[c].queued} \ {0}) \cup {r.pend, r.queued}
        BY <2>1, Zenon
      <3> QED
        BY <1>3, <1>6, <2>1, <3>1, <3>2, <3>3, <3>4, <3>5, Zenon
    <2>3. CASE kind # "serial"
      <3>1. client' = client /\ Complete({i}, Failure)
        BY <1>6, <2>3, Zenon DEF SendData, i
      <3> QED
        BY <1>2, <1>3, <1>4, <1>6, <2>1, <3>1, Zenon
    <2> QED
      BY <2>2, <2>3
  <1> QED
    BY <1>5, <1>6

\* A chunk that leaves is completed with its last part.
LEMMA SendStreamForgetsNothing ==
  ASSUME CompletionInv, NEW c \in Conns, NEW n \in 1 .. 2,
         SendStreamAvailable(c, n), WireTypes'
  PROVE  CompletionInv' /\ Forgotten' \subseteq Forgotten
  <1> DEFINE i == client[c].pend
             items == IF n = client[c].left THEN {i} ELSE {}
             p == IF n = client[c].left THEN 0 ELSE i
             m == client[c].left - n
             r == [client[c] EXCEPT !.left = m, !.pend = p]
  <1>1. /\ client[c].connected /\ n \in 1 .. client[c].left
        /\ client' = [client EXCEPT ![c] = r] /\ Complete(items, "ok")
        /\ UNCHANGED <<kind, tcp, given>>
    BY Zenon DEF SendStreamAvailable
  <1>2. /\ client[c] \in Clients /\ i \in 0 .. MaxItems /\ client[c].left \in Nat
        /\ client[c].queued = 0 /\ client[c].handler
    BY <1>1, Zenon DEF CompletionInv, Clients, HoldsOnePlace
  <1>3. m \in Nat /\ p \in 0 .. MaxItems
    BY <1>1, <1>2, LinkAssumption, SMT
  <1>4. {i} \subseteq items \cup {p}
    BY Zenon
  <1> HIDE DEF i, items, p, m
  <1>5. /\ r \in Clients /\ r.connected = client[c].connected
        /\ r.handler = client[c].handler
        /\ r.queued = client[c].queued /\ r.pend = p
    <2>1. r \in Clients
      BY <1>2, <1>3, ClientFields, Zenon
    <2>2. /\ r.connected = client[c].connected /\ r.handler = client[c].handler
          /\ r.queued = client[c].queued /\ r.pend = p
      BY <1>2, Zenon DEF Clients
    <2> QED
      BY <2>1, <2>2
  <1> HIDE DEF r
  <1>6. client'[c] = r /\ \A d \in Conns \ {c} : client'[d] = client[d]
    BY <1>1, Zenon DEF CompletionInv
  <1>7. HoldsOnePlace(c)'
    BY <1>1, <1>2, <1>5, <1>6, Zenon DEF CompletionInv, HoldsOnePlace
  <1>8. Pending(c) \subseteq items \cup Pending(c)'
    BY <1>2, <1>4, <1>5, <1>6, Zenon DEF Pending, i
  <1>9. Forgotten' \subseteq Forgotten /\ calls' \in [Items -> Nat]
    BY <1>1, <1>6, <1>8, HeldOrCompleted, Zenon
  <1>10. CompletionInv'
    <2>1. tcp' \in [Conns -> Phases] /\ given' \in 0 .. MaxItems
      BY <1>1, Zenon DEF CompletionInv
    <2> QED
      BY <1>1, <1>5, <1>7, <1>9, <2>1, OneClientKeepsInv, Zenon
  <1> QED
    BY <1>9, <1>10

\* Nothing of a client changes but the half frame it waits with.
LEMMA DataReceivedForgetsNothing ==
  ASSUME CompletionInv, NEW c \in Conns, DataReceived(c),
         UNCHANGED <<reading, taken>>
  PROVE  CompletionInv' /\ Forgotten' \subseteq Forgotten
  <1>1. /\ toClient[c] # <<>> /\ toClient' = [toClient EXCEPT ![c] = Tail(@)]
        /\ UNCHANGED <<kind, tcp, given, calls>>
    BY Zenon DEF DataReceived, sendVars
  <1>2. PICK n \in {Head(toClient[c])[1], 0} :
          client' = [client EXCEPT ![c] = [client[c] EXCEPT !.half = n]]
    BY Zenon DEF DataReceived, CompletionInv
  <1>3. toClient[c] \in Seq(Nat \X Nat)
    BY DEF CompletionInv, WireTypes
  <1>4. Head(toClient[c])[1] \in Nat /\ Tail(toClient[c]) \in Seq(Nat \X Nat)
    <2>1. Head(toClient[c]) \in Nat \X Nat /\ Tail(toClient[c]) \in Seq(Nat \X Nat)
      BY <1>1, <1>3, SMT
    <2> QED
      BY <2>1, SMT
  <1>5. n \in Nat
    BY <1>2, <1>4, SMT
  <1>6. WireTypes'
    BY <1>1, <1>4, Zenon DEF CompletionInv, WireTypes
  <1> DEFINE r == [client[c] EXCEPT !.half = n]
  <1>7. /\ r \in Clients /\ r.connected = client[c].connected
        /\ r.handler = client[c].handler
        /\ r.queued = client[c].queued /\ r.pend = client[c].pend
    <2>1. client[c] \in Clients
      BY DEF CompletionInv
    <2>2. r \in Clients
      BY <1>5, <2>1, ClientFields, Zenon
    <2>3. /\ r.connected = client[c].connected /\ r.handler = client[c].handler
          /\ r.queued = client[c].queued /\ r.pend = client[c].pend
      BY <2>1, Zenon DEF Clients
    <2> QED
      BY <2>2, <2>3
  <1>8. client' = [client EXCEPT ![c] = r]
    BY <1>2
  <1> HIDE DEF r
  <1>9. client'[c] = r /\ \A d \in Conns \ {c} : client'[d] = client[d]
    BY <1>8, Zenon DEF CompletionInv
  <1>10. HoldsOnePlace(c)'
    BY <1>1, <1>7, <1>9, Zenon DEF CompletionInv, HoldsOnePlace
  <1>11. CompletionInv'
    <2>1. tcp' \in [Conns -> Phases] /\ given' \in 0 .. MaxItems
          /\ calls' \in [Items -> Nat]
      BY <1>1, Zenon DEF CompletionInv
    <2> QED
      BY <1>1, <1>6, <1>7, <1>8, <1>10, <2>1, OneClientKeepsInv, Zenon
  <1>12. \A d \in Conns : Pending(d)' = Pending(d)
    BY <1>7, <1>9, Zenon DEF Pending
  <1> QED
    BY <1>1, <1>11, <1>12, Zenon DEF Forgotten

\* The server changes phases from open to shut, and what is on the wire.
LEMMA ServerForgetsNothing ==
  ASSUME CompletionInv, WireTypes', UNCHANGED <<kind, given, calls, client>>,
         \/ UNCHANGED tcp
         \/ \E c : tcp' = [tcp EXCEPT ![c] = IF @ = "open" THEN "shut" ELSE @]
  PROVE  CompletionInv' /\ Forgotten' = Forgotten /\ Destroyed' = Destroyed
  <1>1. /\ tcp' \in [Conns -> Phases]
        /\ \A d \in Conns : tcp'[d] = tcp[d] \/ (tcp[d] = "open" /\ tcp'[d] = "shut")
    BY SMT DEF CompletionInv, Phases
  <1>2. \A d \in Conns : HoldsOnePlace(d)'
    BY <1>1, SMT DEF CompletionInv, HoldsOnePlace
  <1>3. CompletionInv'
    BY <1>1, <1>2, Zenon DEF CompletionInv
  <1>4. Forgotten' = Forgotten
    BY Zenon DEF Forgotten, Pending
  <1>5. Destroyed' = Destroyed
    BY <1>1, SMT DEF Destroyed
  <1> QED
    BY <1>3, <1>4, <1>5

\* What the server puts on the wire it has from a read.
LEMMA ServerKeepsWireTypes ==
  ASSUME CompletionInv, ServerNext
  PROVE  WireTypes'
  <1>1. CASE Start \/ StopWriter \/ StopHardware
    <2>1. UNCHANGED <<toClient, reading, taken>>
      BY <1>1, Zenon DEF Start, StopWriter, StopHardware, KeepSession, clientVars,
                         wireVars
    <2> QED
      BY <2>1, Zenon DEF CompletionInv, WireTypes
  <1>2. ASSUME NEW c \in Conns,
               \/ Accept(c) \/ Read(c) \/ ReadAgain(c) \/ ToHardware(c)
               \/ SessionFails(c) \/ CloseSession(c)
        PROVE  WireTypes'
    <2>1. UNCHANGED <<toClient, reading, taken>>
      BY <1>2, Zenon DEF Accept, ConnectionEstablished, Read, ReadAgain, ToHardware,
                         SessionFails, CloseSession, KeepSession, clientVars, serverVars, wireVars
    <2> QED
      BY <2>1, Zenon DEF CompletionInv, WireTypes
  <1>3. Idle \in Reads /\ Blocked \in Reads
        /\ \A n \in Nat : [at |-> "done", frame |-> n] \in Reads
    BY SMT DEF Idle, Blocked, Reads
  <1>4. ASSUME NEW c \in Conns, HandleClient(c) \/ RecvTimeout(c) \/ Recv(c)
        PROVE  WireTypes'
    <2>1. toClient' = toClient /\ taken' \in Nat
          /\ \/ reading' = reading
             \/ \E read \in Reads : reading' = [reading EXCEPT ![c] = read]
      <3>1. CASE HandleClient(c)
        BY <1>3, <3>1, Zenon DEF HandleClient, KeepSession, wireVars,
           CompletionInv, WireTypes
      <3>2. CASE RecvTimeout(c)
        BY <1>3, <3>2, Zenon DEF RecvTimeout, clientVars, CompletionInv, WireTypes
      <3>3. CASE Recv(c)
        <4>1. taken' \in Nat
          BY <3>3, SMT DEF Recv, CompletionInv, WireTypes
        <4> QED
          BY <1>3, <3>3, <4>1, Zenon DEF Recv, clientVars
      <3> QED
        BY <1>4, <3>1, <3>2, <3>3
    <2>2. reading' \in [Conns -> Reads]
      BY <2>1, Zenon DEF CompletionInv, WireTypes
    <2> QED
      BY <2>1, <2>2, Zenon DEF CompletionInv, WireTypes
  <1>5. ASSUME NEW c \in Conns, ToClient(c) PROVE WireTypes'
    <2> DEFINE halves == Halves(reading[c].frame)
    <2>1. halves \in Seq(Nat \X Nat)
      <3>1. reading[c].frame \in Nat
        BY SMT DEF CompletionInv, WireTypes, Reads
      <3>2. \A n \in Nat : <<n, 1>> \in Nat \X Nat /\ <<n, 2>> \in Nat \X Nat
                           /\ <<n, n>> \in Nat \X Nat
        BY SMT
      <3>3. \A S : \A a, b \in S : <<a, b>> \in Seq(S) /\ <<a>> \in Seq(S)
        BY SMT
      <3> QED
        BY <3>1, <3>2, <3>3, Zenon DEF Halves
    <2> HIDE DEF halves
    <2>2. toClient' = toClient \/ toClient' = [toClient EXCEPT ![writer] = @ \o halves]
      BY <1>5, Zenon DEF ToClient, halves
    <2>3. toClient' \in [Conns -> Seq(Nat \X Nat)]
      <3>1. toClient \in [Conns -> Seq(Nat \X Nat)]
        BY DEF CompletionInv, WireTypes
      <3>2. \A d \in Conns : toClient[d] \o halves \in Seq(Nat \X Nat)
        BY <2>1, <3>1, SMT
      <3> QED
        BY <2>2, <3>1, <3>2, Zenon
    <2>4. reading' \in [Conns -> Reads] /\ taken' = taken
      BY <1>3, <1>5, Zenon DEF ToClient, CompletionInv, WireTypes
    <2> QED
      BY <2>3, <2>4, Zenon DEF CompletionInv, WireTypes
  <1> QED
    BY <1>1, <1>2, <1>4, <1>5, Zenon DEF ServerNext

LEMMA CountsAreFinite ==
  ASSUME CompletionInv
  PROVE  IsFiniteSet(Forgotten) /\ IsFiniteSet(Destroyed) /\ IsFiniteSet(Destroyed')
  <1>1. IsFiniteSet(1 .. given) /\ IsFiniteSet(Conns)
    BY FS_Interval, LinkAssumption, SMT DEF CompletionInv, Conns
  <1>2. Forgotten \in SUBSET (1 .. given) /\ Destroyed \in SUBSET Conns
        /\ Destroyed' \in SUBSET Conns
    BY Zenon DEF Forgotten, Destroyed
  <1> QED
    BY <1>1, <1>2, FS_Subset

\* A step that forgets nothing more, and makes no destroyed client anew.
LEMMA NothingMoreForgotten ==
  ASSUME CompletionInv, CompletionsAreKept, kind' = kind,
         Forgotten' \subseteq Forgotten, Destroyed \subseteq Destroyed'
  PROVE  CompletionsAreKept'
  <1>1. /\ IsFiniteSet(Forgotten') /\ Cardinality(Forgotten') \in Nat
        /\ Cardinality(Forgotten') <= Cardinality(Forgotten)
        /\ Cardinality(Forgotten) \in Nat
    <2>1. Forgotten' \in SUBSET Forgotten
      BY Zenon
    <2> QED
      BY <2>1, CountsAreFinite, FS_Subset, FS_CardinalityType
  <1>2. /\ Cardinality(Destroyed) <= Cardinality(Destroyed')
        /\ Cardinality(Destroyed) \in Nat /\ Cardinality(Destroyed') \in Nat
    <2>1. Destroyed \in SUBSET Destroyed'
      BY Zenon
    <2> QED
      BY <2>1, CountsAreFinite, FS_Subset, FS_CardinalityType
  <1>3. Cardinality(Forgotten) <= Cardinality(Destroyed)
    BY DEF CompletionsAreKept
  <1>4. Cardinality(Forgotten') <= Cardinality(Destroyed')
    BY <1>1, <1>2, <1>3, SMT
  <1>5. kind' = "can" => Forgotten' = {}
    BY Zenon DEF CompletionsAreKept
  <1> QED
    BY <1>4, <1>5, Zenon DEF CompletionsAreKept

\* A client that never connected takes the send it had queued with it: one
\* send, for one client destroyed.
LEMMA DestroyCostsOneSend ==
  ASSUME CompletionInv, CompletionsAreKept, NEW c \in Conns, Destroy(c),
         WireTypes', ~client[c].handler
  PROVE  CompletionInv' /\ CompletionsAreKept'
  <1>1. /\ tcp[c] # "destroyed" /\ tcp' = [tcp EXCEPT ![c] = "destroyed"]
        /\ client' = [client EXCEPT ![c] = NewClient]
        /\ UNCHANGED <<kind, given, calls>>
    BY SMT DEF Destroy, sendVars
  <1>2. /\ NewClient \in Clients /\ ~NewClient.connected /\ NewClient.pend = 0
        /\ NewClient.queued = 0
    BY LinkAssumption, SMT DEF NewClient, Clients
  <1>3. client'[c] = NewClient /\ \A d \in Conns \ {c} : client'[d] = client[d]
    BY <1>1, Zenon DEF CompletionInv
  <1>4. /\ tcp' \in [Conns -> Phases] /\ tcp'[c] = "destroyed"
        /\ \A d \in Conns \ {c} : tcp'[d] = tcp[d]
    BY <1>1, SMT DEF CompletionInv, Phases
  <1>5. HoldsOnePlace(c)'
    BY <1>2, <1>3, Zenon DEF HoldsOnePlace
  <1>6. CompletionInv'
    <2>1. given' \in 0 .. MaxItems /\ calls' \in [Items -> Nat]
      BY <1>1, Zenon DEF CompletionInv
    <2> QED
      BY <1>1, <1>2, <1>4, <1>5, <2>1, OneClientKeepsInv, Zenon
  <1> DEFINE q == client[c].queued
  <1>7. Pending(c) \subseteq {q} /\ (kind = "can" => Pending(c) = {})
    BY Zenon DEF CompletionInv, HoldsOnePlace, Pending
  <1>8. Forgotten' \subseteq Forgotten \cup Pending(c)
    BY <1>1, <1>3, Zenon DEF Forgotten, Pending
  <1>9. Destroyed' = Destroyed \cup {c} /\ c \notin Destroyed
    BY <1>1, <1>4, SMT DEF Destroyed
  <1> HIDE DEF q
  <1>10. kind' = "can" => Forgotten' = {}
    BY <1>1, <1>7, <1>8, Zenon DEF CompletionsAreKept
  <1>11. Cardinality(Forgotten') <= Cardinality(Forgotten) + 1
         /\ Cardinality(Forgotten') \in Nat /\ Cardinality(Forgotten) \in Nat
    <2>1. Forgotten' \in SUBSET (Forgotten \cup {q})
      BY <1>7, <1>8, Zenon
    <2>2. IsFiniteSet(Forgotten \cup {q}) /\ Cardinality(Forgotten) \in Nat
          /\ Cardinality(Forgotten \cup {q}) \in
               {Cardinality(Forgotten), Cardinality(Forgotten) + 1}
      BY CountsAreFinite, FS_AddElement, FS_CardinalityType
    <2>3. /\ IsFiniteSet(Forgotten') /\ Cardinality(Forgotten') \in Nat
          /\ Cardinality(Forgotten') <= Cardinality(Forgotten \cup {q})
      BY <2>1, <2>2, FS_Subset, FS_CardinalityType
    <2> QED
      BY <2>2, <2>3, SMT
  <1>12. Cardinality(Destroyed') = Cardinality(Destroyed) + 1
         /\ Cardinality(Destroyed) \in Nat
    BY <1>9, CountsAreFinite, FS_AddElement, FS_CardinalityType
  <1>13. Cardinality(Forgotten) <= Cardinality(Destroyed)
    BY DEF CompletionsAreKept
  <1>14. Cardinality(Forgotten') <= Cardinality(Destroyed')
    BY <1>11, <1>12, <1>13, SMT
  <1> QED
    BY <1>6, <1>10, <1>14, Zenon DEF CompletionsAreKept

LEMMA ClientsKeepBooks ==
  ASSUME CompletionInv, CompletionsAreKept, ClientNext, UNCHANGED serverVars
  PROVE  CompletionInv' /\ CompletionsAreKept'
  <1> PICK c \in Conns :
        \/ New(c) \/ ConnectionFailed(c) \/ SendData(c)
        \/ \E n \in 1 .. 2 : SendStreamAvailable(c, n)
        \/ DataReceived(c) \/ Close(c) \/ Detaching(c) \/ Destroy(c)
    BY DEF ClientNext
  <1>1. UNCHANGED <<reading, taken>>
    BY Zenon DEF serverVars
  <1>2. ASSUME UNCHANGED toClient PROVE WireTypes'
    BY <1>1, <1>2, Zenon DEF CompletionInv, WireTypes
  <1>3. ASSUME CompletionInv', Forgotten' \subseteq Forgotten, kind' = kind,
               \/ tcp' = tcp
               \/ tcp[c] # "destroyed" /\ \E p \in Phases : tcp' = [tcp EXCEPT ![c] = p]
        PROVE  CompletionInv' /\ CompletionsAreKept'
    <2>1. Destroyed \subseteq Destroyed'
      BY <1>3, SMT DEF Destroyed, CompletionInv
    <2> QED
      BY <1>3, <2>1, NothingMoreForgotten
  <1>4. CASE New(c)
    <2>1. /\ tcp[c] = "none" /\ tcp' = [tcp EXCEPT ![c] = "connecting"]
          /\ UNCHANGED <<kind, toClient, client, given, calls>>
      BY <1>4, Zenon DEF New, wireVars, sendVars
    <2>2. tcp' \in [Conns -> Phases] /\ \A d \in Conns \ {c} : tcp'[d] = tcp[d]
      BY <2>1, SMT DEF CompletionInv, Phases
    <2>3. \A d \in Conns : HoldsOnePlace(d)'
      BY <2>1, <2>2, SMT DEF CompletionInv, HoldsOnePlace
    <2>4. CompletionInv'
      BY <1>2, <2>1, <2>2, <2>3, Zenon DEF CompletionInv
    <2>5. Forgotten' = Forgotten
      BY <2>1, Zenon DEF Forgotten, Pending
    <2> QED
      BY <1>3, <2>1, <2>4, <2>5, SMT DEF Phases
  <1>5. ASSUME NEW clear \in BOOLEAN, HandleDisconnected(c, clear), WireTypes',
               \/ tcp' = tcp
               \/ tcp[c] # "destroyed" /\ \E p \in Phases : tcp' = [tcp EXCEPT ![c] = p]
        PROVE  CompletionInv' /\ CompletionsAreKept'
    <2>1. tcp' \in [Conns -> Phases] /\ \A d \in Conns \ {c} : tcp'[d] = tcp[d]
      BY <1>5, SMT DEF CompletionInv, Phases
    <2>2. CompletionInv' /\ Forgotten' \subseteq Forgotten
      BY <1>5, <2>1, DisconnectForgetsNothing
    <2>3. kind' = kind
      BY <1>5, Zenon DEF HandleDisconnected
    <2> QED
      BY <1>3, <1>5, <2>2, <2>3
  <1>6. CASE ConnectionFailed(c) \/ Close(c) \/ Detaching(c)
    <2>1. PICK clear \in BOOLEAN : HandleDisconnected(c, clear)
      BY <1>6, Zenon DEF ConnectionFailed, Close, Detaching
    <2>2. WireTypes'
      BY <1>2, <1>6, Zenon DEF ConnectionFailed, Close, Detaching
    <2>3. \/ tcp' = tcp
          \/ tcp[c] # "destroyed" /\ \E p \in Phases : tcp' = [tcp EXCEPT ![c] = p]
      <3>1. /\ "detached" \in Phases /\ "connecting" # "destroyed"
            /\ "shut" # "destroyed"
        BY DEF Phases
      <3> QED
        BY <1>6, <3>1, Zenon DEF ConnectionFailed, Close, Detaching
    <2> QED
      BY <1>5, <2>1, <2>2, <2>3
  <1>7. CASE SendData(c)
    <2>1. UNCHANGED <<kind, tcp, toClient>>
      BY <1>7, Zenon DEF SendData, wireVars
    <2> QED
      BY <1>2, <1>3, <1>7, <2>1, SendDataForgetsNothing
  <1>8. ASSUME NEW n \in 1 .. 2, SendStreamAvailable(c, n)
        PROVE  CompletionInv' /\ CompletionsAreKept'
    <2>1. UNCHANGED <<kind, tcp, toClient>>
      BY <1>8, Zenon DEF SendStreamAvailable
    <2> QED
      BY <1>2, <1>3, <1>8, <2>1, SendStreamForgetsNothing
  <1>9. CASE DataReceived(c)
    <2>1. UNCHANGED <<kind, tcp>>
      BY <1>9, Zenon DEF DataReceived
    <2> QED
      BY <1>1, <1>3, <1>9, <2>1, DataReceivedForgetsNothing
  <1>10. CASE Destroy(c)
    <2>1. /\ tcp[c] # "destroyed" /\ tcp' = [tcp EXCEPT ![c] = "destroyed"]
          /\ toClient' = [toClient EXCEPT ![c] = <<>>]
          /\ "destroyed" \in Phases
      BY <1>10, SMT DEF Destroy, Phases
    <2>2. WireTypes'
      <3>1. <<>> \in Seq(Nat \X Nat)
        BY SMT
      <3> QED
        BY <1>1, <2>1, <3>1, Zenon DEF CompletionInv, WireTypes
    <2>3. CASE client[c].handler
      <3>1. HandleDisconnected(c, TRUE)
        BY <1>10, <2>3, Zenon DEF Destroy
      <3> QED
        BY <1>5, <2>1, <2>2, <3>1
    <2>4. CASE ~client[c].handler
      BY <1>10, <2>2, <2>4, DestroyCostsOneSend
    <2> QED
      BY <2>3, <2>4
  <1> QED
    BY <1>4, <1>6, <1>7, <1>8, <1>9, <1>10

LEMMA ServerKeepsBooks ==
  ASSUME CompletionInv, CompletionsAreKept, ServerNext
  PROVE  CompletionInv' /\ CompletionsAreKept'
  <1>1. WireTypes'
    BY ServerKeepsWireTypes
  <1>2. ASSUME UNCHANGED <<kind, given, calls, client>>,
               \/ UNCHANGED tcp
               \/ \E d : tcp' = [tcp EXCEPT ![d] = IF @ = "open" THEN "shut" ELSE @]
        PROVE  CompletionInv' /\ CompletionsAreKept'
    <2>1. CompletionInv' /\ Forgotten' = Forgotten /\ Destroyed' = Destroyed
      BY <1>1, <1>2, ServerForgetsNothing
    <2> QED
      BY <1>2, <2>1, NothingMoreForgotten
  <1>3. CASE Start \/ StopWriter \/ StopHardware
    BY <1>2, <1>3, Zenon DEF Start, StopWriter, StopHardware, Shut, KeepSession,
       clientVars, sendVars
  <1>4. ASSUME NEW c \in Conns,
               \/ HandleClient(c) \/ Recv(c) \/ ToClient(c) \/ RecvTimeout(c)
               \/ Read(c) \/ ReadAgain(c) \/ ToHardware(c) \/ SessionFails(c)
               \/ CloseSession(c)
        PROVE  CompletionInv' /\ CompletionsAreKept'
    BY <1>2, <1>4, Zenon DEF HandleClient, Recv, ToClient, RecvTimeout, Read, ReadAgain,
       ToHardware, SessionFails, CloseSession, Shut, KeepSession, clientVars, sendVars
  <1>5. ASSUME NEW c \in Conns, Accept(c)
        PROVE  CompletionInv' /\ CompletionsAreKept'
    <2>1. ConnectionEstablished(c)
      BY <1>5, Zenon DEF Accept
    <2>2. CompletionInv' /\ Forgotten' \subseteq Forgotten
      BY <1>1, <2>1, EstablishedForgetsNothing
    <2>3. Destroyed \subseteq Destroyed' /\ kind' = kind
      BY <2>1, SMT DEF ConnectionEstablished, Destroyed, CompletionInv
    <2> QED
      BY <2>2, <2>3, NothingMoreForgotten
  <1> QED
    BY <1>3, <1>4, <1>5, Zenon DEF ServerNext

\* Every step of the bridge.
LEMMA BridgeKeepsBooks ==
  ASSUME CompletionInv, CompletionsAreKept, [BridgeNext]_bridgeVars
  PROVE  CompletionInv' /\ CompletionsAreKept'
  <1>1. CASE LinkNext
    BY <1>1, ClientsKeepBooks, ServerKeepsBooks, Zenon DEF LinkNext
  <1>2. CASE UNCHANGED linkVars
    <2>1. UNCHANGED <<kind, given, calls, client, tcp, toClient, reading, taken>>
      BY <1>2, Zenon DEF linkVars, clientVars, serverVars
    <2>2. WireTypes'
      BY <2>1, Zenon DEF CompletionInv, WireTypes
    <2>3. CompletionInv' /\ Forgotten' = Forgotten /\ Destroyed' = Destroyed
      BY <2>1, <2>2, ServerForgetsNothing
    <2> QED
      BY <2>1, <2>3, NothingMoreForgotten
  <1> QED
    BY <1>1, <1>2, Zenon DEF BridgeNext, bridgeVars

\* The completion of a send is never forgotten, but for the one that a serial
\* client destroyed before it connected had queued: for any number of
\* connections, sends and frames.
THEOREM CompletionsAreCalled == BridgeSpec => []CompletionsAreKept
  <1>1. BridgeInit => CompletionInv /\ CompletionsAreKept
    <2> SUFFICES ASSUME BridgeInit PROVE CompletionInv /\ CompletionsAreKept
      OBVIOUS
    <2>1. CompletionInv /\ Forgotten = {} /\ Destroyed = {}
      BY CompletionInvHoldsAtFirst DEF BridgeInit
    <2> QED
      BY <2>1, FS_EmptySet, SMT DEF CompletionsAreKept
  <1>2. CompletionInv /\ CompletionsAreKept /\ [BridgeNext]_bridgeVars
          => CompletionInv' /\ CompletionsAreKept'
    BY BridgeKeepsBooks
  <1> QED
    BY <1>1, <1>2, PTL DEF BridgeSpec

-----------------------------------------------------------------------------
(* The screen.                                                             *)

\* A screen whose fields are in their ranges, and whose wrap is only pending
\* in the last column of a row that has been written to.
Sound(s) ==
    /\ s \in ScreenType
    /\ s.wrap => s.col = NumCols - 1 /\ s.row \in s.text

LEMMA FieldsAre ==
  ASSUME NEW s \in ScreenType
  PROVE  /\ s.row \in Row /\ s.col \in Col /\ s.savedRow \in Row /\ s.savedCol \in Col
         /\ s.top \in Row /\ s.bottom \in Row /\ s.text \in SUBSET Row
         /\ s.wrap \in BOOLEAN /\ s.autoWrap \in BOOLEAN
         /\ s.tabs \in SUBSET Col /\ s.history \in 0 .. MaxHistory
  BY Zenon DEF ScreenType

LEMMA MovedIsSound ==
  ASSUME NEW s \in ScreenType, NEW r \in Row, NEW c \in Col
  PROVE  Sound([s EXCEPT !.row = r, !.col = c, !.wrap = FALSE])
  BY Zenon DEF Sound, ScreenType

LEMMA SettledIs ==
  ASSUME NEW s \in ScreenType
  PROVE  Settled(s) \in ScreenType /\ Settled(s).wrap = FALSE
  BY Zenon DEF Settled, ScreenType

LEMMA TextIs ==
  ASSUME NEW s \in ScreenType, NEW t \in SUBSET Row, NEW h \in 0 .. MaxHistory
  PROVE  [s EXCEPT !.text = t, !.history = h] \in ScreenType
  BY Zenon DEF ScreenType

LEMMA UnwrappedIsSound ==
  ASSUME NEW s \in ScreenType, ~s.wrap
  PROVE  Sound(s)
  BY DEF Sound

\* Where the cursor can be sent to.
LEMMA Bounds ==
  /\ 0 \in Row /\ NumRows - 1 \in Row /\ 0 \in Col /\ NumCols - 1 \in Col
  /\ \A r \in Row : AtMost(r + 1, NumRows - 1) \in Row /\ AtLeast(r - 1, 0) \in Row
  /\ \A r \in Row, n \in Int, b \in Row :
       /\ AtLeast(r - AtLeast(n, 1), b) \in Row
       /\ AtMost(r + AtLeast(n, 1), b) \in Row
  /\ \A c \in Col :
       /\ AtMost(c + 1, NumCols - 1) \in Col /\ AtLeast(c - 1, 0) \in Col
       /\ c + 1 >= NumCols => AtMost(c + 1, NumCols - 1) = NumCols - 1
  /\ \A c \in Col, n \in Int :
       /\ AtMost(c + AtLeast(n, 1), NumCols - 1) \in Col
       /\ AtLeast(c - AtLeast(n, 1), 0) \in Col
  /\ \A n \in Int : /\ Clamp(AtLeast(n, 1) - 1, NumRows - 1) \in Row
                    /\ Clamp(AtLeast(n, 1) - 1, NumCols - 1) \in Col
                    /\ AtMost(NumCols - 1, AtLeast(n, 1) - 1) \in Col
  /\ \A r \in Row : Clamp(r, NumRows - 1) \in Row
  /\ \A c \in Col : Clamp(c, NumCols - 1) \in Col
  /\ \A h \in 0 .. MaxHistory : AtMost(h + 1, MaxHistory) \in 0 .. MaxHistory
  <1> USE ScreenAssumption DEF AtMost, AtLeast, Clamp, Row, Col
  <1>1. 0 \in Row /\ NumRows - 1 \in Row /\ 0 \in Col /\ NumCols - 1 \in Col
    BY SMT
  <1>2. ASSUME NEW r \in Row, NEW n \in Int, NEW b \in Row
        PROVE  /\ AtLeast(r - AtLeast(n, 1), b) \in Row
               /\ AtMost(r + AtLeast(n, 1), b) \in Row
    BY SMT
  <1>3. ASSUME NEW c \in Col, NEW n \in Int
        PROVE  /\ AtMost(c + AtLeast(n, 1), NumCols - 1) \in Col
               /\ AtLeast(c - AtLeast(n, 1), 0) \in Col
    BY SMT
  <1>8. ASSUME NEW r \in Row
        PROVE  AtMost(r + 1, NumRows - 1) \in Row /\ AtLeast(r - 1, 0) \in Row
    BY SMT
  <1>9. ASSUME NEW c \in Col
        PROVE  /\ AtMost(c + 1, NumCols - 1) \in Col /\ AtLeast(c - 1, 0) \in Col
               /\ c + 1 >= NumCols => AtMost(c + 1, NumCols - 1) = NumCols - 1
    BY SMT
  <1>4. ASSUME NEW n \in Int
        PROVE  /\ Clamp(AtLeast(n, 1) - 1, NumRows - 1) \in Row
               /\ Clamp(AtLeast(n, 1) - 1, NumCols - 1) \in Col
               /\ AtMost(NumCols - 1, AtLeast(n, 1) - 1) \in Col
    BY SMT
  <1>5. ASSUME NEW r \in Row PROVE Clamp(r, NumRows - 1) \in Row
    BY SMT
  <1>6. ASSUME NEW c \in Col PROVE Clamp(c, NumCols - 1) \in Col
    BY SMT
  <1>7. ASSUME NEW h \in 0 .. MaxHistory
        PROVE  AtMost(h + 1, MaxHistory) \in 0 .. MaxHistory
    BY SMT
  <1> HIDE DEF AtMost, AtLeast, Clamp, Row, Col
  <1> QED
    BY <1>1, <1>2, <1>3, <1>4, <1>5, <1>6, <1>7, <1>8, <1>9, Zenon

LEMMA HistoryStarts == 0 \in 0 .. MaxHistory
  BY ScreenAssumption, SMT

LEMMA BlankIsSound == Sound(BlankScreen)
  <1>1. BlankScreen \in ScreenType
    BY Bounds, HistoryStarts, Zenon DEF BlankScreen, ScreenType
  <1> QED
    BY <1>1, Zenon DEF Sound, BlankScreen

LEMMA ScrollsKeep ==
  ASSUME NEW s \in ScreenType, ~s.wrap
  PROVE  /\ ScrollUp(s) \in ScreenType /\ ~ScrollUp(s).wrap
         /\ ScrollDown(s) \in ScreenType /\ ~ScrollDown(s).wrap
  <1> DEFINE up == {r \in Row : IF InRegion(s, r) THEN r < s.bottom /\ r + 1 \in s.text
                                ELSE r \in s.text}
             down == {r \in Row : IF InRegion(s, r) THEN r > s.top /\ r - 1 \in s.text
                                  ELSE r \in s.text}
             h == IF WholeScreen(s) THEN AtMost(s.history + 1, MaxHistory)
                  ELSE s.history
  <1>1. up \in SUBSET Row /\ down \in SUBSET Row
    BY Zenon
  <1>2. h \in 0 .. MaxHistory
    BY FieldsAre, Bounds, Zenon
  <1>3. /\ ScrollUp(s) = [s EXCEPT !.text = up, !.history = h]
        /\ ScrollDown(s) = [s EXCEPT !.text = down]
    BY Zenon DEF ScrollUp, ScrollDown
  <1> HIDE DEF up, down, h
  <1> QED
    BY <1>1, <1>2, <1>3, Zenon DEF ScreenType

LEMMA MovesAreSound ==
  ASSUME NEW s \in ScreenType
  PROVE  /\ Sound(Settled(s)) /\ ~Settled(s).wrap
         /\ Sound(CarriageReturn(s)) /\ ~CarriageReturn(s).wrap
         /\ Sound(Index(s)) /\ ~Index(s).wrap
         /\ Sound(ReverseIndex(s))
         /\ Sound(Restore(s)) /\ Sound(Backspace(s))
  <1>1. Settled(s) \in ScreenType /\ ~Settled(s).wrap
    BY SettledIs, Zenon
  <1>2. CarriageReturn(s) \in ScreenType /\ ~CarriageReturn(s).wrap
    BY Bounds, Zenon DEF CarriageReturn, ScreenType
  <1>3. Index(s) \in ScreenType /\ ~Index(s).wrap
    <2>1. \A r \in Row : [Settled(s) EXCEPT !.row = r] \in ScreenType
                         /\ ~[Settled(s) EXCEPT !.row = r].wrap
      BY <1>1, Zenon DEF ScreenType
    <2>2. Settled(s).row \in Row
      BY <1>1, FieldsAre
    <2> QED
      BY <1>1, <2>1, <2>2, ScrollsKeep, Bounds, Zenon DEF Index
  <1>4. ReverseIndex(s) \in ScreenType /\ ~ReverseIndex(s).wrap
    <2>1. \A r \in Row : [Settled(s) EXCEPT !.row = r] \in ScreenType
                         /\ ~[Settled(s) EXCEPT !.row = r].wrap
      BY <1>1, Zenon DEF ScreenType
    <2>2. Settled(s).row \in Row
      BY <1>1, FieldsAre
    <2> QED
      BY <1>1, <2>1, <2>2, ScrollsKeep, Bounds, Zenon DEF ReverseIndex
  <1>5. Sound(Restore(s))
    BY FieldsAre, Bounds, MovedIsSound, Zenon DEF Restore
  <1>6. Sound(Backspace(s))
    <2>1. \A c \in Col : [Settled(s) EXCEPT !.col = c] \in ScreenType
                         /\ ~[Settled(s) EXCEPT !.col = c].wrap
      BY <1>1, Zenon DEF ScreenType
    <2>2. Settled(s).col \in Col
      BY <1>1, FieldsAre
    <2> QED
      BY <2>1, <2>2, Bounds, UnwrappedIsSound, Zenon DEF Backspace
  <1> QED
    BY <1>1, <1>2, <1>3, <1>4, <1>5, <1>6, UnwrappedIsSound, Zenon

LEMMA FieldChangesAreSound ==
  ASSUME NEW s, Sound(s)
  PROVE  /\ \A w \in BOOLEAN : /\ Sound([s EXCEPT !.autoWrap = w])
                               /\ Sound([s EXCEPT !.newLine = w])
         /\ \A t \in SUBSET Col : Sound([s EXCEPT !.tabs = t])
         /\ Sound(Save(s))
  BY Zenon DEF Sound, ScreenType, Save

LEMMA TabStops ==
  ASSUME NEW s \in ScreenType
  PROVE  Sound(HorizontalTab(s))
  <1> DEFINE stops == {c \in s.tabs : c > s.col} \cup {NumCols - 1}
  <1>1. stops \in SUBSET Col /\ stops # {}
    BY FieldsAre, Bounds, Zenon
  <1>2. stops \in SUBSET Nat
    BY <1>1, SMT DEF Col
  <1> HIDE DEF stops
  <1>3. Min(stops) \in Col
    <2>1. \E x \in stops : \A y \in stops : x <= y
      BY <1>1, <1>2, LeastExists
    <2> QED BY <1>1, <2>1, Zenon DEF Min
  <1>4. Settled(s) \in ScreenType /\ ~Settled(s).wrap
        /\ Settled(s).tabs = s.tabs /\ Settled(s).col = s.col
    BY SettledIs, Zenon DEF Settled, ScreenType
  <1>5. HorizontalTab(s) = [Settled(s) EXCEPT !.col = Min(stops)]
    BY Zenon DEF HorizontalTab, stops
  <1> QED
    BY <1>3, <1>4, <1>5, UnwrappedIsSound, Zenon DEF ScreenType

LEMMA PutIsSound ==
  ASSUME NEW s \in ScreenType
  PROVE  Sound(Put(s))
  <1>1. s.row \in Row /\ s.col \in Col /\ s.autoWrap \in BOOLEAN
        /\ s.text \in SUBSET Row
    BY FieldsAre
  <1> DEFINE w == s.autoWrap /\ s.col + 1 >= NumCols
             c == AtMost(s.col + 1, NumCols - 1)
             t == s.text \cup {s.row}
  <1>2. w \in BOOLEAN /\ c \in Col /\ t \in SUBSET Row /\ s.row \in t
        /\ (w => c = NumCols - 1)
    BY <1>1, Bounds, Zenon
  <1>3. Put(s) = [s EXCEPT !.text = t, !.wrap = w, !.col = c]
    BY Zenon DEF Put
  <1> HIDE DEF w, c, t
  <1>4. Put(s) \in ScreenType
    BY <1>2, <1>3, Zenon DEF ScreenType
  <1>5. /\ Put(s).wrap = w /\ Put(s).col = c
        /\ Put(s).row = s.row /\ Put(s).text = t
    BY <1>3, Zenon DEF ScreenType
  <1> QED
    BY <1>2, <1>4, <1>5, Zenon DEF Sound

LEMMA WriteIsSound ==
  ASSUME NEW s \in ScreenType
  PROVE  Sound(Write(s))
  BY MovesAreSound, PutIsSound, Zenon DEF Write, Sound

\* A sum that stays in int is the sum, and one that leaves it by less than
\* IntMax is below 0.
LEMMA WrappedIs ==
  ASSUME NEW n \in Int
  PROVE  /\ Wrapped(n) \in Int
         /\ 0 <= n /\ n <= IntMax => Wrapped(n) = n
         /\ IntMax < n /\ n <= 2 * IntMax => Wrapped(n) < 0
  <1> DEFINE m == 2 * (IntMax + 1)
             k == n - IntMin
  <1>1. m \in Int /\ 0 < m /\ k \in Int /\ IntMin \in Int /\ IntMax \in Int
        /\ m = 2 * IntMax + 2 /\ k = n + IntMax + 1 /\ IntMin = 0 - IntMax - 1
    BY IntAssumption, SMT DEF IntMin
  <1>2. Wrapped(n) = (k % m) + IntMin
    BY DEF Wrapped
  <1> HIDE DEF m, k
  <1>3. k % m \in Int
    BY <1>1, SMT
  <1>4. ASSUME 0 <= k, k < m PROVE k % m = k
    BY <1>1, <1>4, SMT
  <1>5. ASSUME m <= k, k < 2 * m PROVE k % m = k - m
    BY <1>1, <1>5, SMT
  <1>6. ASSUME 0 <= n, n <= IntMax PROVE Wrapped(n) = n
    BY <1>1, <1>2, <1>4, <1>6, IntAssumption, SMT
  <1>7. ASSUME IntMax < n, n <= 2 * IntMax PROVE Wrapped(n) < 0
    BY <1>1, <1>2, <1>5, <1>7, IntAssumption, SMT
  <1>8. Wrapped(n) \in Int
    BY <1>1, <1>2, <1>3, SMT
  <1> QED BY <1>6, <1>7, <1>8, Zenon

LEMMA CursorMovesAreSound ==
  ASSUME NEW s \in ScreenType, NEW n \in Int, NEW m \in Int
  PROVE  /\ Sound(Up(s, n))
         /\ s.row + AtLeast(n, 1) <= IntMax => Sound(Down(s, n))
         /\ s.col + AtLeast(n, 1) <= IntMax => Sound(Forward(s, n))
         /\ Sound(Backward(s, n))
         /\ Sound(MoveToColumn(s, n)) /\ Sound(MoveTo(s, n, m))
  <1> DEFINE t == Settled(s)
  <1>1. /\ t \in ScreenType /\ ~t.wrap
        /\ t.row = s.row /\ t.col = s.col /\ t.top = s.top /\ t.bottom = s.bottom
    BY SettledIs, Zenon DEF Settled, ScreenType
  <1>2. /\ t.row \in Row /\ t.col \in Col /\ s.top \in Row /\ s.bottom \in Row
    BY <1>1, FieldsAre
  <1> DEFINE up == AtLeast(t.row - AtLeast(n, 1), s.top)
             down == AtMost(Wrapped(t.row + AtLeast(n, 1)), s.bottom)
             right == AtMost(Wrapped(t.col + AtLeast(n, 1)), NumCols - 1)
             left == AtLeast(t.col - AtLeast(n, 1), 0)
             column == AtMost(NumCols - 1, AtLeast(n, 1) - 1)
             row == Clamp(AtLeast(n, 1) - 1, NumRows - 1)
             col == Clamp(AtLeast(m, 1) - 1, NumCols - 1)
  <1>3. /\ Up(s, n) = [t EXCEPT !.row = up]
        /\ Down(s, n) = [t EXCEPT !.row = down]
        /\ Forward(s, n) = [t EXCEPT !.col = right]
        /\ Backward(s, n) = [t EXCEPT !.col = left]
        /\ MoveToColumn(s, n) = [t EXCEPT !.col = column]
        /\ MoveTo(s, n, m) = [t EXCEPT !.row = row, !.col = col]
    BY Zenon DEF Up, Down, Forward, Backward, MoveToColumn, MoveTo
  <1> HIDE DEF t
  <1>w. /\ s.row + AtLeast(n, 1) <= IntMax => Wrapped(t.row + AtLeast(n, 1)) = t.row + AtLeast(n, 1)
        /\ s.col + AtLeast(n, 1) <= IntMax => Wrapped(t.col + AtLeast(n, 1)) = t.col + AtLeast(n, 1)
    <2>1. /\ t.row + AtLeast(n, 1) \in Int /\ 0 <= t.row + AtLeast(n, 1)
          /\ t.col + AtLeast(n, 1) \in Int /\ 0 <= t.col + AtLeast(n, 1)
      BY <1>2, SMT DEF AtLeast, Row, Col
    <2> QED BY <1>1, <2>1, WrappedIs
  <1>4. /\ up \in Row /\ row \in Row
        /\ s.row + AtLeast(n, 1) <= IntMax => down \in Row
    BY <1>2, <1>w, Bounds, Zenon
  <1>5. /\ s.col + AtLeast(n, 1) <= IntMax => right \in Col
        /\ left \in Col /\ column \in Col /\ col \in Col
    BY <1>2, <1>w, Bounds, Zenon
  <1> HIDE DEF up, down, right, left, column, row, col
  <1>6. /\ \A r \in Row : Sound([t EXCEPT !.row = r])
        /\ \A c \in Col : Sound([t EXCEPT !.col = c])
        /\ Sound([t EXCEPT !.row = row, !.col = col])
    BY <1>1, <1>4, <1>5, Zenon DEF Sound, ScreenType
  <1>7. Sound(Up(s, n)) /\ (s.row + AtLeast(n, 1) <= IntMax => Sound(Down(s, n)))
    BY <1>3, <1>4, <1>6
  <1>8. /\ s.col + AtLeast(n, 1) <= IntMax => Sound(Forward(s, n))
        /\ Sound(Backward(s, n)) /\ Sound(MoveToColumn(s, n))
    BY <1>3, <1>5, <1>6
  <1>9. Sound(MoveTo(s, n, m))
    BY <1>3, <1>6, Zenon
  <1> QED
    BY <1>7, <1>8, <1>9

LEMMA ErasesAreSound ==
  ASSUME NEW s \in ScreenType, NEW mode
  PROVE  Sound(EraseInDisplay(s, mode)) /\ Sound(EraseInLine(s, mode))
  <1> DEFINE t == Settled(s)
  <1>1. /\ t \in ScreenType /\ ~t.wrap /\ t.text \in SUBSET Row
        /\ t.history \in 0 .. MaxHistory
    BY SettledIs, FieldsAre
  <1> HIDE DEF t
  <1>2. \A x \in SUBSET Row, h \in 0 .. MaxHistory :
          /\ Sound([t EXCEPT !.text = x, !.history = h])
          /\ Sound([t EXCEPT !.text = x])
    BY <1>1, Zenon DEF Sound, ScreenType
  <1>3. \A x : t.text \ x \in SUBSET Row
    BY <1>1, Zenon
  <1>4. Sound(EraseInLine(s, mode))
    BY <1>1, <1>2, <1>3, Zenon DEF EraseInLine, t
  <1>5. Sound(EraseInDisplay(s, mode))
    <2> DEFINE whole == CASE mode = 0 -> {r \in Row : r > s.row \/ (r = s.row /\ s.col = 0)}
                          [] mode = 1 -> {r \in Row : r < s.row
                                               \/ (r = s.row /\ s.col = NumCols - 1)}
                          [] mode \in {2, 3} -> Row
                          [] OTHER -> {}
               h == IF mode = 3 THEN 0 ELSE t.history
    <2>1. EraseInDisplay(s, mode) = [t EXCEPT !.text = t.text \ whole, !.history = h]
      BY Zenon DEF EraseInDisplay, t
    <2>2. h \in 0 .. MaxHistory
      BY <1>1, HistoryStarts
    <2> HIDE DEF whole, h
    <2>3. t.text \ whole \in SUBSET Row
      BY <1>3
    <2>4. Sound([t EXCEPT !.text = t.text \ whole, !.history = h])
      BY <1>2, <2>2, <2>3
    <2> QED
      BY <2>1, <2>4
  <1> QED
    BY <1>4, <1>5

LEMMA RegionIsSound ==
  ASSUME NEW s \in ScreenType, NEW n \in Int, NEW m \in Int
  PROVE  Sound(SetScrollRegion(s, n, m))
  <1> DEFINE first == AtLeast(n, 1)
             last == IF m \in 1 .. NumRows THEN m ELSE NumRows
             valid == first < last
             top == IF valid THEN first - 1 ELSE 0
             bottom == IF valid THEN last - 1 ELSE NumRows - 1
  <1>1. top \in Row /\ bottom \in Row
    BY ScreenAssumption, SMT DEF AtLeast, Row
  <1>2. SetScrollRegion(s, n, m)
          = [s EXCEPT !.top = top, !.bottom = bottom, !.row = top, !.col = 0,
                      !.wrap = FALSE]
    BY Zenon DEF SetScrollRegion
  <1> HIDE DEF top, bottom
  <1> QED
    BY <1>1, <1>2, Bounds, Zenon DEF Sound, ScreenType

LEMMA ModesAreSound ==
  ASSUME NEW s, Sound(s), NEW params, NEW set \in BOOLEAN
  PROVE  Sound(ApplyMode(s, params, set))
  <1>1. Sound(ApplyPrivateMode(s, params, set))
    BY FieldChangesAreSound, Zenon DEF ApplyPrivateMode
  <1> QED
    BY <1>1, FieldChangesAreSound, Zenon DEF ApplyMode, ApplyAnsiMode

LEMMA ExecuteIsSound ==
  ASSUME NEW s, Sound(s), NEW b
  PROVE  Sound(OnExecute(s, b))
  <1>1. s \in ScreenType
    BY DEF Sound
  <1>2. Sound(LineFeed(s)) /\ Sound(NextLine(s))
    BY <1>1, MovesAreSound, Zenon DEF LineFeed, NextLine, Sound
  <1>3. /\ Sound(Backspace(s)) /\ Sound(CarriageReturn(s))
        /\ Sound(HorizontalTab(s))
    BY <1>1, MovesAreSound, TabStops
  <1> QED
    BY <1>2, <1>3, Zenon DEF OnExecute

LEMMA EscIsSound ==
  ASSUME NEW s, Sound(s), NEW final
  PROVE  Sound(OnEsc(s, final))
  <1>1. s \in ScreenType
    BY DEF Sound
  <1>2. /\ Sound(Index(s)) /\ Sound(ReverseIndex(s)) /\ Sound(Restore(s))
        /\ Sound(Save(s))
    BY <1>1, MovesAreSound, FieldChangesAreSound
  <1>3. Sound(NextLine(s))
    BY <1>1, MovesAreSound, Zenon DEF NextLine, Sound
  <1>4. Sound(SetHere(s))
    <2>1. s.tabs \cup {s.col} \in SUBSET Col
      BY <1>1, FieldsAre
    <2> QED
      BY <2>1, FieldChangesAreSound, Zenon DEF SetHere
  <1>5. Sound(FillScreenWithAlignmentPattern(s))
    <2> DEFINE t == MoveTo(s, 1, 1)
    <2>1. Sound(t)
      BY <1>1, CursorMovesAreSound
    <2>2. Row \in SUBSET Row
      OBVIOUS
    <2>3. t.row \in Row
      BY <2>1, FieldsAre, Zenon DEF Sound
    <2> HIDE DEF t
    <2>4. Sound([t EXCEPT !.text = Row])
      BY <2>1, <2>2, <2>3, Zenon DEF Sound, ScreenType
    <2> QED
      BY <2>4, Zenon DEF FillScreenWithAlignmentPattern, t
  <1> QED
    BY <1>2, <1>3, <1>4, <1>5, BlankIsSound, Zenon DEF OnEsc

\* Parameters are numbers, and none of the sequences here has more than two.
LEMMA ParamsAre ==
  ASSUME NEW params \in Seq(Int), NEW i \in {1, 2}, NEW default \in Int
  PROVE  Param(params, i, default) \in Int /\ ParamRaw(params, i, default) \in Int
  BY SMT DEF Param, ParamRaw

LEMMA CsiIsSound ==
  ASSUME NEW s, Sound(s), NEW final, NEW params \in Seq(Int),
         ~(CursorSum(s, final, params) > IntMax)
  PROVE  Sound(OnCsi(s, final, params))
  <1>1. s \in ScreenType
    BY DEF Sound
  <1>2. /\ Param(params, 1, 1) \in Int /\ Param(params, 2, 1) \in Int
        /\ ParamRaw(params, 1, 1) \in Int /\ ParamRaw(params, 2, NumRows) \in Int
    <2>1. 1 \in Int /\ NumRows \in Int /\ 1 \in {1, 2} /\ 2 \in {1, 2}
      BY ScreenAssumption, SMT
    <2> QED
      BY <2>1, ParamsAre, Zenon
  <1> DEFINE p == Param(params, 1, 1)
  <1>d. /\ final \in {"B", "E"} => Sound(Down(s, p))
        /\ final = "C" => Sound(Forward(s, p))
    <2>1. /\ final \in {"B", "E"} => CursorSum(s, final, params) = s.row + AtLeast(p, 1)
          /\ final = "C" => CursorSum(s, final, params) = s.col + AtLeast(p, 1)
      BY Zenon DEF CursorSum
    <2>2. s.row + AtLeast(p, 1) \in Int /\ s.col + AtLeast(p, 1) \in Int
      BY <1>1, <1>2, FieldsAre, SMT DEF AtLeast, Row, Col
    <2>3. /\ final \in {"B", "E"} => s.row + AtLeast(p, 1) <= IntMax
          /\ final = "C" => s.col + AtLeast(p, 1) <= IntMax
      BY <2>1, <2>2, IntAssumption, SMT
    <2> HIDE DEF p
    <2> QED BY <1>1, <1>2, <2>3, CursorMovesAreSound DEF p
  <1>3. \A n \in Int : /\ Sound(Up(s, n)) /\ Sound(Backward(s, n))
                       /\ Sound(MoveToColumn(s, n))
    BY <1>1, CursorMovesAreSound, Zenon
  <1>4. \A n, m \in Int : Sound(MoveTo(s, n, m)) /\ Sound(SetScrollRegion(s, n, m))
    BY <1>1, CursorMovesAreSound, RegionIsSound, Zenon
  <1>5. /\ final = "E" => Sound(MoveToColumn(Down(s, p), 1))
        /\ Sound(MoveToColumn(Up(s, p), 1))
    <2>1. Up(s, p) \in ScreenType /\ (final = "E" => Down(s, p) \in ScreenType)
      BY <1>2, <1>3, <1>d, Zenon DEF Sound
    <2>2. 1 \in Int
      OBVIOUS
    <2> QED
      BY <2>1, <2>2, CursorMovesAreSound, Zenon
  <1>6. Sound(ClearAll(s)) /\ Sound(ClearHere(s))
    <2>1. s.tabs \ {s.col} \in SUBSET Col /\ {} \in SUBSET Col
      BY <1>1, FieldsAre
    <2> QED
      BY <2>1, FieldChangesAreSound, Zenon DEF ClearAll, ClearHere
  <1>7. CASE final \in {"A", "B", "C", "D", "E", "F", "G", "H", "r"}
    BY <1>2, <1>3, <1>4, <1>5, <1>7, <1>d, Zenon DEF OnCsi
  <1>8. CASE final \in {"J", "K", "g", "h", "l", "s", "u"}
    BY <1>1, <1>6, <1>8, ErasesAreSound, ModesAreSound, MovesAreSound,
       FieldChangesAreSound, Zenon DEF OnCsi
  <1>9. CASE final \notin {"A", "B", "C", "D", "E", "F", "G", "H", "r",
                           "J", "K", "g", "h", "l", "s", "u"}
    BY <1>9, Zenon DEF OnCsi
  <1> QED
    BY <1>7, <1>8, <1>9, Zenon

\* The cursor is not on the screen, and all else is as it should be.
Astray(s) ==
    /\ [s EXCEPT !.row = 0, !.col = 0] \in ScreenType
    /\ s \notin ScreenType
    /\ ~s.wrap

LEMMA MovedIsAstray ==
  ASSUME NEW t \in ScreenType, ~t.wrap, NEW r \in Int, NEW c \in Int, r < 0 \/ c < 0
  PROVE  /\ r < 0 => Astray([t EXCEPT !.row = r])
         /\ c < 0 => Astray([t EXCEPT !.col = c])
         /\ r < 0 => Astray([t EXCEPT !.row = r, !.col = 0])
  <1>1. /\ r < 0 => r \notin Row
        /\ c < 0 => c \notin Col
    BY SMT DEF Row, Col
  <1>2. \A x \in Int : /\ [[t EXCEPT !.row = x] EXCEPT !.row = 0, !.col = 0] \in ScreenType
                        /\ [[t EXCEPT !.col = x] EXCEPT !.row = 0, !.col = 0] \in ScreenType
                        /\ [[t EXCEPT !.row = x, !.col = 0] EXCEPT !.row = 0, !.col = 0]
                             \in ScreenType
    BY Bounds, Zenon DEF ScreenType
  <1>3. \A x : /\ [t EXCEPT !.row = x].row = x /\ ~[t EXCEPT !.row = x].wrap
               /\ [t EXCEPT !.col = x].col = x /\ ~[t EXCEPT !.col = x].wrap
               /\ [t EXCEPT !.row = x, !.col = 0].row = x
               /\ ~[t EXCEPT !.row = x, !.col = 0].wrap
    BY Zenon DEF ScreenType
  <1>4. \A s \in ScreenType : s.row \in Row /\ s.col \in Col
    BY FieldsAre
  <1> QED BY <1>1, <1>2, <1>3, <1>4, Zenon DEF Astray

\* The lists of parameters of a final byte, as far as a sum is made of them.
ParamLists(final) ==
    {p \in Seq(Int) : final \in {"B", "C", "E"} => Param(p, 1, 1) <= IntMax}

LEMMA OverflowStrays ==
  ASSUME NEW s \in ScreenType, NEW final, NEW params \in ParamLists(final),
         CursorSum(s, final, params) > IntMax
  PROVE  Astray(OnCsi(s, final, params))
  <1> DEFINE p == Param(params, 1, 1)
             n == AtLeast(p, 1)
             t == Settled(s)
             down == AtMost(Wrapped(t.row + n), s.bottom)
             right == AtMost(Wrapped(t.col + n), NumCols - 1)
  <1>1. p \in Int
    BY ParamsAre, SMT DEF ParamLists
  <1>2. /\ t \in ScreenType /\ ~t.wrap
        /\ t.row = s.row /\ t.col = s.col
        /\ t.row \in Row /\ t.col \in Col /\ s.bottom \in Row
    <2>1. t \in ScreenType /\ ~t.wrap /\ t.row = s.row /\ t.col = s.col
      BY SettledIs, Zenon DEF Settled, ScreenType
    <2> QED BY <2>1, FieldsAre
  <1>3. /\ final \in {"B", "E"} => CursorSum(s, final, params) = t.row + n
        /\ final = "C" => CursorSum(s, final, params) = t.col + n
        /\ final \notin {"B", "C", "E"} => CursorSum(s, final, params) = 0
    BY <1>2, Zenon DEF CursorSum
  <1>4. final \in {"B", "C", "E"} /\ p <= IntMax
    <2>1. ~(0 > IntMax)
      BY IntAssumption, SMT
    <2>2. final \in {"B", "C", "E"}
      BY <1>3, <2>1, Zenon
    <2> QED BY <2>2, Zenon DEF ParamLists
  <1>5. /\ Down(s, p) = [t EXCEPT !.row = down]
        /\ Forward(s, p) = [t EXCEPT !.col = right]
    BY Zenon DEF Down, Forward
  <1> HIDE DEF t
  <1>6. /\ final \in {"B", "E"} => down \in Int /\ down < 0
        /\ final = "C" => right \in Int /\ right < 0
    <2>1. /\ t.row + n \in Int /\ t.row + n <= 2 * IntMax
          /\ t.col + n \in Int /\ t.col + n <= 2 * IntMax
      BY <1>1, <1>2, <1>4, IntAssumption, ScreenAssumption, SMT DEF AtLeast, Row, Col
    <2>2. /\ final \in {"B", "E"} => Wrapped(t.row + n) \in Int /\ Wrapped(t.row + n) < 0
          /\ final = "C" => Wrapped(t.col + n) \in Int /\ Wrapped(t.col + n) < 0
      <3>1. /\ final \in {"B", "E"} => IntMax < t.row + n
            /\ final = "C" => IntMax < t.col + n
        BY <1>3, <2>1, IntAssumption, SMT
      <3> HIDE DEF n
      <3> QED BY <2>1, <3>1, WrappedIs
    <2> HIDE DEF n
    <2>3. s.bottom \in Int /\ 0 <= s.bottom /\ NumCols - 1 \in Int /\ 0 <= NumCols - 1
      BY <1>2, ScreenAssumption, SMT DEF Row
    <2>4. \A x, y \in Int : x < 0 /\ 0 <= y => AtMost(x, y) \in Int /\ AtMost(x, y) < 0
      BY SMT DEF AtMost
    <2> QED BY <2>2, <2>3, <2>4
  <1>7. CASE final = "B"
    <2>1. OnCsi(s, final, params) = [t EXCEPT !.row = down]
      BY <1>5, <1>7, Zenon DEF OnCsi
    <2>2. down \in Int /\ down < 0 /\ 0 \in Int
      BY <1>6, <1>7, SMT
    <2> HIDE DEF down
    <2> QED BY <1>2, <2>1, <2>2, MovedIsAstray
  <1>8. CASE final = "C"
    <2>1. OnCsi(s, final, params) = [t EXCEPT !.col = right]
      BY <1>5, <1>8, Zenon DEF OnCsi
    <2>2. right \in Int /\ right < 0 /\ 0 \in Int
      BY <1>6, <1>8, SMT
    <2> HIDE DEF right
    <2> QED BY <1>2, <2>1, <2>2, MovedIsAstray
  <1>9. CASE final = "E"
    <2> DEFINE d == [t EXCEPT !.row = down]
    <2>1. OnCsi(s, final, params) = MoveToColumn(d, 1)
      BY <1>5, <1>9, Zenon DEF OnCsi
    <2>2. down \in Int /\ down < 0 /\ 0 \in Int
      BY <1>6, <1>9, SMT
    <2>3. AtMost(NumCols - 1, AtLeast(1, 1) - 1) = 0
      BY ScreenAssumption, SMT DEF AtMost, AtLeast
    <2> HIDE DEF down
    <2>4. MoveToColumn(d, 1) = [Settled(d) EXCEPT !.col = 0]
      BY <2>3, Zenon DEF MoveToColumn
    <2>5. [Settled(d) EXCEPT !.col = 0] = [t EXCEPT !.row = down, !.col = 0]
      BY <1>2, Zenon DEF Settled, ScreenType
    <2> QED BY <1>2, <2>1, <2>2, <2>4, <2>5, MovedIsAstray
  <1> QED BY <1>4, <1>7, <1>8, <1>9

\* The screen while no sum has left int, and after.
Followed(s, o) == (~o => Sound(s)) /\ (o => Astray(s)) /\ o \in BOOLEAN

\* The events of the two stages that draw.
LEMMA EventsKeepScreenSound ==
  ASSUME Followed(screen, overflowed),
         \/ OnPrint \/ Clear
         \/ \E b : VtOnExecute(b)
         \/ \E final : VtOnEsc(final)
         \/ \E final : \E params \in ParamLists(final) : VtOnCsi(final, params)
  PROVE  Followed(screen', overflowed') /\ Sound(screen)
  <1>0. ~overflowed /\ Sound(screen)
    BY Zenon DEF OnPrint, Clear, VtOnExecute, VtOnEsc, VtOnCsi, Draw, Followed
  <1> SUFFICES Followed(screen', overflowed')
    BY <1>0
  <1>1. CASE OnPrint
    BY <1>0, <1>1, WriteIsSound, Zenon DEF OnPrint, Draw, Sound, Followed
  <1>2. CASE Clear
    BY <1>0, <1>2, BlankIsSound, Zenon DEF Clear, Draw, Followed
  <1>3. CASE \E b : VtOnExecute(b)
    <2>1. PICK b : screen' = OnExecute(screen, b) /\ overflowed' = overflowed
      BY <1>3, Zenon DEF VtOnExecute, Draw
    <2>2. Sound(screen')
      BY <1>0, <2>1, ExecuteIsSound
    <2> QED BY <1>0, <2>1, <2>2, Zenon DEF Followed
  <1>4. CASE \E final : VtOnEsc(final)
    <2>1. PICK final : screen' = OnEsc(screen, final) /\ overflowed' = overflowed
      BY <1>4, Zenon DEF VtOnEsc, Draw
    <2>2. Sound(screen')
      BY <1>0, <2>1, EscIsSound
    <2> QED BY <1>0, <2>1, <2>2, Zenon DEF Followed
  <1>5. CASE \E final : \E params \in ParamLists(final) : VtOnCsi(final, params)
    <2>0. PICK final : \E params \in ParamLists(final) : VtOnCsi(final, params)
      BY <1>5, Zenon
    <2>1. PICK params \in ParamLists(final) : VtOnCsi(final, params)
      BY <2>0, Zenon
    <2>2. params \in Seq(Int) /\ screen \in ScreenType
      BY <1>0, Zenon DEF ParamLists, Sound
    <2>3. screen' = OnCsi(screen, final, params)
          /\ overflowed' = (CursorSum(screen, final, params) > IntMax)
      BY <2>1, Zenon DEF VtOnCsi, Draw
    <2>4. ~overflowed' => Sound(screen')
      BY <1>0, <2>2, <2>3, CsiIsSound
    <2>5. overflowed' => Astray(screen')
      BY <1>0, <2>2, <2>3, OverflowStrays
    <2>6. overflowed' \in BOOLEAN
      BY <2>3
    <2> QED BY <2>4, <2>5, <2>6, Zenon DEF Followed
  <1> QED
    BY <1>1, <1>2, <1>3, <1>4, <1>5, Zenon

LEMMA ParamsAreNumbers ==
  /\ \A final : Params(final) \subseteq ParamLists(final)
  /\ SgrParams \subseteq Seq(Nat)
  /\ SgrParams \subseteq ParamLists("m")
  <1>1. /\ <<>> \in Seq(Int) /\ <<0>> \in Seq(Int) /\ <<1>> \in Seq(Int)
        /\ <<2>> \in Seq(Int) /\ <<3>> \in Seq(Int) /\ <<5>> \in Seq(Int)
        /\ <<7>> \in Seq(Int) /\ <<20>> \in Seq(Int)
        /\ <<1, 2>> \in Seq(Int) /\ <<2, 3>> \in Seq(Int)
    BY SMT
  <1>2. <<IntMax>> \in Seq(Int) /\ <<IntMin>> \in Seq(Int) /\ <<IntMax, IntMin>> \in Seq(Int)
    <2>1. IntMax \in Int /\ IntMin \in Int
      BY IntAssumption, SMT DEF IntMin
    <2> QED BY <2>1, SMT
  <1>3. SgrParams \subseteq Seq(Nat)
    <2>1. /\ <<>> \in Seq(Nat) /\ <<1, 31>> \in Seq(Nat) /\ <<4, 7>> \in Seq(Nat)
          /\ <<22, 39, 45>> \in Seq(Nat) /\ <<24, 27, 0, 99>> \in Seq(Nat)
      BY SMT
    <2> QED BY <2>1, Zenon DEF SgrParams
  <1>4. \A p \in Seq(Nat) : p \in Seq(Int)
    BY SMT
  <1>5. /\ Param(<<>>, 1, 1) <= IntMax /\ Param(<<0>>, 1, 1) <= IntMax
        /\ Param(<<2>>, 1, 1) <= IntMax /\ Param(<<3>>, 1, 1) <= IntMax
        /\ Param(<<IntMax>>, 1, 1) <= IntMax /\ Param(<<IntMin>>, 1, 1) <= IntMax
    BY IntAssumption, SMT DEF Param, IntMin
  <1>6. ASSUME NEW final PROVE Params(final) \subseteq ParamLists(final)
    <2>1. Params(final) \subseteq Seq(Int)
      BY <1>1, <1>2, Zenon DEF Params
    <2>2. final \in {"B", "C", "E"} =>
            Params(final) = {<<>>, <<0>>, <<2>>, <<3>>, <<IntMax>>, <<IntMin>>}
      BY Zenon DEF Params
    <2> QED BY <1>5, <2>1, <2>2, Zenon DEF ParamLists
  <1> QED
    BY <1>3, <1>4, <1>6, Zenon DEF ParamLists

\* A wrap is only ever pending in the last column of a row that has been
\* written to: for every size of the screen and every run of drawing events.
THEOREM PendingWrapIsFresh == BridgeSpec => []WrapIsFresh
  <1>1. BridgeInit => Followed(screen, overflowed)
    BY BlankIsSound, Zenon DEF BridgeInit, VtInit, Followed
  <1>2. Followed(screen, overflowed) /\ [BridgeNext]_bridgeVars
          => Followed(screen, overflowed)'
    <2> SUFFICES ASSUME Followed(screen, overflowed), [BridgeNext]_bridgeVars
                 PROVE  Followed(screen', overflowed')
      OBVIOUS
    <2>1. CASE VtEvents
      BY <2>1, EventsKeepScreenSound, ParamsAreNumbers, Zenon
         DEF VtEvents, TakeOutgoing
    <2>2. CASE CellsNext
      BY <2>2, EventsKeepScreenSound, ParamsAreNumbers, Zenon
         DEF CellsNext, DrawPrint, DrawControl, DrawEsc, DrawCsi, DrawClear
    <2>3. CASE UNCHANGED <<screen, overflowed>>
      BY <2>3
    <2> QED
      BY <2>1, <2>2, <2>3, Zenon
         DEF BridgeNext, bridgeVars, vtVars, VtBytes, VtFeedByte
  <1>3. Followed(screen, overflowed) => WrapIsFresh
    BY DEF Followed, Astray, Sound, WrapIsFresh
  <1> QED
    BY <1>1, <1>2, <1>3, PTL DEF BridgeSpec

-----------------------------------------------------------------------------
(* The scroll region, which only one sequence and a reset change.          *)

SameRegion(s, t) == t.top = s.top /\ t.bottom = s.bottom

LEMMA SameRegionIsTransitive ==
  ASSUME NEW s, NEW t, NEW u, SameRegion(s, t), SameRegion(t, u)
  PROVE  SameRegion(s, u)
  BY Zenon DEF SameRegion

LEMMA FieldsKeepRegion ==
  ASSUME NEW s \in ScreenType
  PROVE  /\ SameRegion(s, s) /\ SameRegion(s, Settled(s))
         /\ SameRegion(s, ScrollUp(s)) /\ SameRegion(s, ScrollDown(s))
         /\ SameRegion(s, CarriageReturn(s)) /\ SameRegion(s, Put(s))
         /\ SameRegion(s, Save(s)) /\ SameRegion(s, Restore(s))
         /\ SameRegion(s, SetHere(s)) /\ SameRegion(s, ClearHere(s))
         /\ SameRegion(s, ClearAll(s))
         /\ \A r : SameRegion(s, [s EXCEPT !.row = r])
         /\ \A c : SameRegion(s, [s EXCEPT !.col = c])
         /\ \A r, c : SameRegion(s, [s EXCEPT !.row = r, !.col = c])
         /\ \A t : SameRegion(s, [s EXCEPT !.text = t])
         /\ \A t, h : SameRegion(s, [s EXCEPT !.text = t, !.history = h])
         /\ \A w : SameRegion(s, [s EXCEPT !.autoWrap = w])
         /\ \A w : SameRegion(s, [s EXCEPT !.newLine = w])
  <1>1. SameRegion(s, s)
    BY DEF SameRegion
  <1>2. /\ SameRegion(s, Settled(s)) /\ SameRegion(s, CarriageReturn(s))
        /\ SameRegion(s, Save(s)) /\ SameRegion(s, Restore(s))
        /\ SameRegion(s, SetHere(s)) /\ SameRegion(s, ClearHere(s))
        /\ SameRegion(s, ClearAll(s))
    BY Zenon DEF SameRegion, ScreenType, Settled, CarriageReturn, Save, Restore,
       SetHere, ClearHere, ClearAll
  <1>3. SameRegion(s, ScrollUp(s)) /\ SameRegion(s, ScrollDown(s)) /\ SameRegion(s, Put(s))
    BY Zenon DEF SameRegion, ScreenType, ScrollUp, ScrollDown, Put
  <1>4. /\ \A r : SameRegion(s, [s EXCEPT !.row = r])
        /\ \A c : SameRegion(s, [s EXCEPT !.col = c])
        /\ \A r, c : SameRegion(s, [s EXCEPT !.row = r, !.col = c])
    BY Zenon DEF SameRegion, ScreenType
  <1>5. /\ \A t : SameRegion(s, [s EXCEPT !.text = t])
        /\ \A t, h : SameRegion(s, [s EXCEPT !.text = t, !.history = h])
        /\ \A w : SameRegion(s, [s EXCEPT !.autoWrap = w])
        /\ \A w : SameRegion(s, [s EXCEPT !.newLine = w])
    BY Zenon DEF SameRegion, ScreenType
  <1> QED BY <1>1, <1>2, <1>3, <1>4, <1>5, Zenon

LEMMA MovesKeepRegion ==
  ASSUME NEW s \in ScreenType
  PROVE  /\ SameRegion(s, Index(s)) /\ SameRegion(s, ReverseIndex(s))
         /\ SameRegion(s, NextLine(s)) /\ SameRegion(s, LineFeed(s))
         /\ SameRegion(s, Write(s)) /\ SameRegion(s, Backspace(s))
         /\ SameRegion(s, HorizontalTab(s))
         /\ \A n, m : /\ SameRegion(s, Up(s, n)) /\ SameRegion(s, Down(s, n))
                      /\ SameRegion(s, Forward(s, n)) /\ SameRegion(s, Backward(s, n))
                      /\ SameRegion(s, MoveTo(s, n, m))
                      /\ SameRegion(s, MoveToColumn(s, n))
                      /\ SameRegion(s, EraseInDisplay(s, n))
                      /\ SameRegion(s, EraseInLine(s, n))
  <1>1. Settled(s) \in ScreenType /\ SameRegion(s, Settled(s))
    BY SettledIs, FieldsKeepRegion
  <1>2. \A t : SameRegion(Settled(s), t) => SameRegion(s, t)
    BY <1>1, Zenon DEF SameRegion
  <1>3. SameRegion(s, Index(s)) /\ SameRegion(s, ReverseIndex(s))
    BY <1>1, <1>2, FieldsKeepRegion, Zenon DEF Index, ReverseIndex
  <1>4. SameRegion(s, NextLine(s))
    <2>1. Index(s) \in ScreenType
      BY MovesAreSound DEF Sound
    <2> QED BY <1>3, <2>1, FieldsKeepRegion, SameRegionIsTransitive DEF NextLine
  <1>5. SameRegion(s, LineFeed(s))
    BY <1>3, <1>4, Zenon DEF LineFeed
  <1>6. SameRegion(s, Write(s))
    <2> DEFINE t == IF s.wrap /\ s.autoWrap THEN Index(CarriageReturn(s)) ELSE Settled(s)
    <2>1. CarriageReturn(s) \in ScreenType /\ SameRegion(s, CarriageReturn(s))
      BY MovesAreSound, FieldsKeepRegion DEF Sound
    <2>2. /\ Index(CarriageReturn(s)) \in ScreenType
          /\ SameRegion(CarriageReturn(s), Index(CarriageReturn(s)))
      <3> DEFINE u == CarriageReturn(s)
      <3>1. u \in ScreenType
        BY <2>1
      <3> HIDE DEF u
      <3>2. Index(u) \in ScreenType
        BY <3>1, MovesAreSound DEF Sound
      <3>3. SameRegion(u, Index(u))
        <4>1. Settled(u) \in ScreenType /\ SameRegion(u, Settled(u))
          BY <3>1, SettledIs, FieldsKeepRegion
        <4>2. \A v : SameRegion(Settled(u), v) => SameRegion(u, v)
          BY <4>1, Zenon DEF SameRegion
        <4> QED BY <3>1, <4>1, <4>2, FieldsKeepRegion, Zenon DEF Index
      <3> QED BY <3>2, <3>3 DEF u
    <2>3. t \in ScreenType /\ SameRegion(s, t)
      BY <1>1, <2>1, <2>2, SameRegionIsTransitive
    <2> HIDE DEF t
    <2>4. SameRegion(s, Put(t))
      BY <2>3, FieldsKeepRegion, SameRegionIsTransitive
    <2> QED BY <2>4 DEF Write, t
  <1>7. SameRegion(s, Backspace(s)) /\ SameRegion(s, HorizontalTab(s))
    BY <1>1, <1>2, FieldsKeepRegion, Zenon DEF Backspace, HorizontalTab
  <1>8. ASSUME NEW n, NEW m
        PROVE  /\ SameRegion(s, Up(s, n)) /\ SameRegion(s, Down(s, n))
               /\ SameRegion(s, Forward(s, n)) /\ SameRegion(s, Backward(s, n))
               /\ SameRegion(s, MoveTo(s, n, m))
               /\ SameRegion(s, MoveToColumn(s, n))
    BY <1>1, <1>2, FieldsKeepRegion, Zenon DEF Up, Down, Forward, Backward, MoveTo,
       MoveToColumn
  <1>9. ASSUME NEW n PROVE SameRegion(s, EraseInDisplay(s, n))
    <2> DEFINE whole == CASE n = 0 -> {r \in Row : r > s.row \/ (r = s.row /\ s.col = 0)}
                          [] n = 1 -> {r \in Row : r < s.row
                                            \/ (r = s.row /\ s.col = NumCols - 1)}
                          [] n \in {2, 3} -> Row
                          [] OTHER -> {}
               h == IF n = 3 THEN 0 ELSE Settled(s).history
    <2>1. EraseInDisplay(s, n)
            = [Settled(s) EXCEPT !.text = Settled(s).text \ whole, !.history = h]
      BY Zenon DEF EraseInDisplay
    <2> HIDE DEF whole, h
    <2> DEFINE w == Settled(s)
    <2>2. w \in ScreenType /\ EraseInDisplay(s, n) = [w EXCEPT !.text = w.text \ whole, !.history = h]
      BY <1>1, <2>1
    <2>3. \A t : SameRegion(w, t) => SameRegion(s, t)
      BY <1>2
    <2> HIDE DEF w
    <2>4. \A t, g : SameRegion(w, [w EXCEPT !.text = t, !.history = g])
      BY <2>2, FieldsKeepRegion
    <2> DEFINE u == w.text \ whole
    <2>5. EraseInDisplay(s, n) = [w EXCEPT !.text = u, !.history = h]
      BY <2>2
    <2> HIDE DEF u
    <2> QED BY <2>3, <2>4, <2>5
  <1>10. ASSUME NEW n PROVE SameRegion(s, EraseInLine(s, n))
    BY <1>1, <1>2, FieldsKeepRegion, Zenon DEF EraseInLine
  <1> QED
    BY <1>3, <1>4, <1>5, <1>6, <1>7, <1>8, <1>9, <1>10, Zenon

\* The region has two rows at least.
Framed(s) == s.top < s.bottom

LEMMA FramedStays ==
  ASSUME NEW s, Framed(s), NEW t, SameRegion(s, t)
  PROVE  Framed(t)
  BY Zenon DEF Framed, SameRegion

LEMMA BlankIsFramed == Framed(BlankScreen)
  <1>1. BlankScreen.top = 0 /\ BlankScreen.bottom = NumRows - 1
    BY Zenon DEF BlankScreen
  <1>2. 0 < NumRows - 1
    BY ScreenAssumption, SMT
  <1> QED BY <1>1, <1>2 DEF Framed

LEMMA SetRegionIsFramed ==
  ASSUME NEW s \in ScreenType, NEW n \in Int, NEW m \in Int
  PROVE  Framed(SetScrollRegion(s, n, m))
  <1> DEFINE first == AtLeast(n, 1)
             last == IF m \in 1 .. NumRows THEN m ELSE NumRows
             valid == first < last
             top == IF valid THEN first - 1 ELSE 0
             bottom == IF valid THEN last - 1 ELSE NumRows - 1
  <1>1. top < bottom
    BY ScreenAssumption, SMT DEF AtLeast
  <1>2. SetScrollRegion(s, n, m)
          = [s EXCEPT !.top = top, !.bottom = bottom, !.row = top, !.col = 0,
                      !.wrap = FALSE]
    BY Zenon DEF SetScrollRegion
  <1> HIDE DEF top, bottom
  <1>3. /\ SetScrollRegion(s, n, m).top = top
        /\ SetScrollRegion(s, n, m).bottom = bottom
    BY <1>2, Zenon DEF ScreenType
  <1> QED BY <1>1, <1>3 DEF Framed

LEMMA EscIsFramed ==
  ASSUME NEW s \in ScreenType, Framed(s), NEW final
  PROVE  Framed(OnEsc(s, final))
  <1>1. CASE final = "c"
    BY <1>1, BlankIsFramed, Zenon DEF OnEsc
  <1>2. CASE final = "#8"
    <2>1. OnEsc(s, final) = FillScreenWithAlignmentPattern(s)
      BY <1>2, Zenon DEF OnEsc
    <2>2. MoveTo(s, 1, 1) \in ScreenType
      BY CursorMovesAreSound DEF Sound
    <2>3. SameRegion(MoveTo(s, 1, 1), FillScreenWithAlignmentPattern(s))
      BY <2>2, FieldsKeepRegion, Zenon DEF FillScreenWithAlignmentPattern
    <2>4. SameRegion(s, MoveTo(s, 1, 1))
      BY MovesKeepRegion, Zenon
    <2> QED
      BY <2>1, <2>3, <2>4, SameRegionIsTransitive, FramedStays
  <1>3. CASE final \notin {"c", "#8"}
    <2>1. SameRegion(s, OnEsc(s, final))
      BY <1>3, FieldsKeepRegion, MovesKeepRegion, Zenon DEF OnEsc
    <2> QED BY <2>1, FramedStays
  <1> QED BY <1>1, <1>2, <1>3

\* The region stays wherever the cursor is sent, off the screen too.
LEMMA CsiIsFramed ==
  ASSUME NEW s \in ScreenType, Framed(s), NEW final, NEW params \in Seq(Int)
  PROVE  Framed(OnCsi(s, final, params))
  <1>1. CASE final = "r"
    <2>1. ParamRaw(params, 1, 1) \in Int /\ ParamRaw(params, 2, NumRows) \in Int
      <3>1. 1 \in Int /\ NumRows \in Int /\ 1 \in {1, 2} /\ 2 \in {1, 2}
        BY ScreenAssumption, SMT
      <3> QED
        BY <3>1, ParamsAre, Zenon
    <2>2. OnCsi(s, final, params)
            = SetScrollRegion(s, ParamRaw(params, 1, 1), ParamRaw(params, 2, NumRows))
      BY <1>1, Zenon DEF OnCsi
    <2> QED BY <2>1, <2>2, SetRegionIsFramed
  <1>2. CASE final # "r"
    <2> DEFINE n == Param(params, 1, 1)
    <2>1. SameRegion(s, MoveToColumn(Down(s, n), 1))
          /\ SameRegion(s, MoveToColumn(Up(s, n), 1))
      <3> DEFINE t == Settled(s)
      <3>1. t \in ScreenType /\ SameRegion(s, t)
        BY SettledIs, FieldsKeepRegion
      <3>2. /\ \E x : Down(s, n) = [t EXCEPT !.row = x]
            /\ \E x : Up(s, n) = [t EXCEPT !.row = x]
        BY Zenon DEF Down, Up
      <3> HIDE DEF t
      <3>3. \A x : SameRegion(t, MoveToColumn([t EXCEPT !.row = x], 1))
        BY <3>1, Zenon DEF SameRegion, MoveToColumn, Settled, ScreenType
      <3> QED BY <3>1, <3>2, <3>3, Zenon DEF SameRegion
    <2>2. \A set \in BOOLEAN : SameRegion(s, ApplyMode(s, params, set))
      <3> TAKE set \in BOOLEAN
      <3> DEFINE t == ApplyPrivateMode(s, params, set)
      <3>1. t \in ScreenType
        BY Zenon DEF ApplyPrivateMode, ScreenType
      <3>2. SameRegion(s, t)
        BY FieldsKeepRegion, Zenon DEF ApplyPrivateMode
      <3> HIDE DEF t
      <3>3. SameRegion(t, ApplyAnsiMode(t, params, set))
        BY <3>1, FieldsKeepRegion, Zenon DEF ApplyAnsiMode
      <3>4. ApplyMode(s, params, set) = ApplyAnsiMode(t, params, set)
        BY DEF ApplyMode, t
      <3> QED BY <3>2, <3>3, <3>4, SameRegionIsTransitive
    <2>3. SameRegion(s, OnCsi(s, final, params))
      <3>1. CASE final \in {"A", "B", "C", "D", "E", "F", "G", "H"}
        BY <2>1, <3>1, MovesKeepRegion, Zenon DEF OnCsi
      <3>2. CASE final \in {"J", "K", "g", "h", "l", "s", "u"}
        BY <2>2, <3>2, FieldsKeepRegion, MovesKeepRegion, Zenon DEF OnCsi
      <3>3. CASE final \notin {"A", "B", "C", "D", "E", "F", "G", "H", "r",
                               "J", "K", "g", "h", "l", "s", "u"}
        BY <3>3, FieldsKeepRegion, Zenon DEF OnCsi
      <3> QED BY <1>2, <3>1, <3>2, <3>3, Zenon
    <2> QED BY <2>3, FramedStays
  <1> QED BY <1>1, <1>2

\* What draws keeps the screen in its ranges until a sum leaves int, and
\* answers are a flag.
ScreenTypes == Followed(screen, overflowed) /\ Framed(screen) /\ outgoing \in BOOLEAN

LEMMA EventsKeepScreenTypes ==
  ASSUME ScreenTypes,
         \/ OnPrint \/ Clear
         \/ \E b : VtOnExecute(b)
         \/ \E final : VtOnEsc(final)
         \/ \E final : \E params \in ParamLists(final) : VtOnCsi(final, params)
  PROVE  ScreenTypes'
  <1>0. Framed(screen) /\ Followed(screen, overflowed)
    BY DEF ScreenTypes
  <1>1. Followed(screen', overflowed') /\ screen \in ScreenType
    BY <1>0, EventsKeepScreenSound DEF Sound
  <1>2. outgoing' \in BOOLEAN
    BY Zenon DEF OnPrint, Clear, VtOnExecute, VtOnEsc, VtOnCsi, ScreenTypes, Asks
  <1>3. Framed(screen')
    <2>1. CASE OnPrint
      BY <1>0, <1>1, <2>1, MovesKeepRegion, FramedStays, Zenon DEF OnPrint, Draw
    <2>2. CASE Clear
      BY <2>2, BlankIsFramed, Zenon DEF Clear, Draw
    <2>3. ASSUME NEW b, VtOnExecute(b) PROVE Framed(screen')
      <3>1. SameRegion(screen, OnExecute(screen, b))
        BY <1>1, FieldsKeepRegion, MovesKeepRegion, Zenon DEF OnExecute
      <3> QED BY <1>0, <2>3, <3>1, FramedStays, Zenon DEF VtOnExecute, Draw
    <2>4. ASSUME NEW final, VtOnEsc(final) PROVE Framed(screen')
      BY <1>0, <1>1, <2>4, EscIsFramed, Zenon DEF VtOnEsc, Draw
    <2>5. ASSUME NEW final, NEW params \in ParamLists(final), VtOnCsi(final, params)
          PROVE  Framed(screen')
      <3>1. params \in Seq(Int)
        BY Zenon DEF ParamLists
      <3> QED BY <1>0, <1>1, <2>5, <3>1, CsiIsFramed, Zenon DEF VtOnCsi, Draw
    <2> QED BY <2>1, <2>2, <2>3, <2>4, <2>5, Zenon
  <1> QED BY <1>1, <1>2, <1>3 DEF ScreenTypes

-----------------------------------------------------------------------------
(* Renditions.                                                             *)

LEMMA PlainIsARendition == Plain \in Renditions
  <1>1. 0 \in Colour
    BY SMT DEF Colour
  <1> QED BY <1>1, Zenon DEF Plain, Renditions

LEMMA ParameterKeepsRenditions ==
  ASSUME NEW r \in Renditions, NEW p \in Nat
  PROVE  ApplySgrParameter(r, p) \in Renditions
  <1>1. /\ \A c \in Colour : [r EXCEPT !.foreground = c] \in Renditions
        /\ \A c \in Colour : [r EXCEPT !.background = c] \in Renditions
        /\ \A a \in SUBSET Attributes : [r EXCEPT !.on = a] \in Renditions
        /\ r.on \in SUBSET Attributes
    BY Zenon DEF Renditions
  <1>a. /\ DOMAIN foregroundCodes = (30 .. 37) \cup {39} \cup (90 .. 97)
        /\ DOMAIN backgroundCodes = (40 .. 47) \cup {49} \cup (100 .. 107)
        /\ DOMAIN SwitchesOn = 1 .. 7 \ {6} /\ DOMAIN SwitchesOff = 22 .. 27 \ {26}
    BY Zenon DEF foregroundCodes, backgroundCodes, SwitchesOn, SwitchesOff
  <1>b. /\ p \in DOMAIN foregroundCodes => p \notin DOMAIN backgroundCodes
        /\ p \in DOMAIN SwitchesOn => p # 0 /\ p \notin DOMAIN SwitchesOff
        /\ p \in DOMAIN SwitchesOff => p # 0
    BY <1>a, SMT
  <1>2. CASE p \in DOMAIN foregroundCodes
    <2>1. foregroundCodes[p] \in Colour
      BY <1>2, SMT DEF foregroundCodes, Colour
    <2>2. ApplySgrParameter(r, p) = [r EXCEPT !.foreground = foregroundCodes[p]]
      BY <1>b, <1>2, Zenon DEF ApplySgrParameter
    <2> QED BY <1>1, <2>1, <2>2, Zenon
  <1>3. CASE p \in DOMAIN backgroundCodes /\ p \notin DOMAIN foregroundCodes
    <2>1. backgroundCodes[p] \in Colour
      BY <1>3, SMT DEF backgroundCodes, Colour
    <2>2. ApplySgrParameter(r, p) = [r EXCEPT !.background = backgroundCodes[p]]
      BY <1>3, Zenon DEF ApplySgrParameter
    <2> QED BY <1>1, <2>1, <2>2, Zenon
  <1>4. CASE p \notin DOMAIN backgroundCodes /\ p \notin DOMAIN foregroundCodes
    <2>1. ApplySgrParameter(r, p) = ApplyStyleCode(r, p)
      BY <1>4, Zenon DEF ApplySgrParameter
    <2>2. CASE p = 0
      BY <1>b, <2>1, <2>2, PlainIsARendition, Zenon DEF ApplyStyleCode
    <2>3. CASE p \in DOMAIN SwitchesOn /\ p # 0
      <3>1. SwitchesOn[p] \in Attributes
        <4>1. p \in 1 .. 7 \ {6}
          BY <2>3, Zenon DEF SwitchesOn
        <4>2. p = 1 \/ p = 2 \/ p = 3 \/ p = 4 \/ p = 5 \/ p = 7
          BY <4>1, SMT
        <4> QED BY <4>1, <4>2, SMT DEF SwitchesOn, Attributes
      <3>2. r.on \cup {SwitchesOn[p]} \in SUBSET Attributes
        BY <1>1, <3>1, Zenon
      <3>3. ApplySgrParameter(r, p) = [r EXCEPT !.on = r.on \cup {SwitchesOn[p]}]
        BY <1>b, <2>1, <2>3, Zenon DEF ApplyStyleCode
      <3> QED BY <1>1, <3>2, <3>3, Zenon
    <2>4. CASE p \in DOMAIN SwitchesOff /\ p \notin DOMAIN SwitchesOn /\ p # 0
      <3>1. r.on \ SwitchesOff[p] \in SUBSET Attributes
        BY <1>1, Zenon
      <3>2. ApplySgrParameter(r, p) = [r EXCEPT !.on = r.on \ SwitchesOff[p]]
        BY <2>1, <2>4, Zenon DEF ApplyStyleCode
      <3> QED BY <1>1, <3>1, <3>2, Zenon
    <2>5. CASE p \notin DOMAIN SwitchesOff /\ p \notin DOMAIN SwitchesOn /\ p # 0
      BY <2>1, <2>5, Zenon DEF ApplyStyleCode
    <2> QED BY <2>2, <2>3, <2>4, <2>5
  <1> QED BY <1>2, <1>3, <1>4

\* The rendition after each of the first k parameters.
Styled(r, params, k, f) ==
    f = [n \in 0 .. k |-> IF n = 0 THEN r ELSE ApplySgrParameter(f[n - 1], params[n])]

LEMMA StyledSoFar ==
  ASSUME NEW r \in Renditions, NEW params \in Seq(Nat)
  PROVE  \A k \in 0 .. Len(params) : \E f : Styled(r, params, k, f)
  <1> DEFINE l == Len(params)
             T == {k \in 0 .. l : ~ \E f : Styled(r, params, k, f)}
  <1>0. l \in Nat
    BY DomainIs
  <1> HIDE DEF l
  <1> SUFFICES ASSUME T # {} PROVE FALSE
    BY Zenon DEF l
  <1>1. PICK k \in T : \A j \in T : k <= j
    <2>1. T \in SUBSET Nat
      BY <1>0, SMT
    <2> HIDE DEF T
    <2> QED BY <2>1, LeastExists
  <1>2. CASE k = 0
    <2> DEFINE f == [n \in 0 .. 0 |-> r]
    <2>1. \A n \in 0 .. 0 : n = 0
      BY SMT
    <2>2. f = [n \in 0 .. 0 |-> IF n = 0 THEN r ELSE ApplySgrParameter(f[n - 1], params[n])]
      BY <2>1, Zenon
    <2>3. Styled(r, params, 0, f)
      <3> HIDE DEF f
      <3> QED BY <2>2 DEF Styled
    <2> HIDE DEF f
    <2> QED BY <1>1, <1>2, <2>3, Zenon
  <1>3. CASE k # 0
    <2>1. k \in 0 .. l /\ k - 1 \in 0 .. l /\ ~(k <= k - 1)
      BY <1>0, <1>1, <1>3, SMT
    <2>2. PICK f : Styled(r, params, k - 1, f)
      BY <1>1, <2>1, Zenon
    <2> DEFINE g == [n \in 0 .. k |-> IF n = k THEN ApplySgrParameter(f[k - 1], params[k])
                                      ELSE f[n]]
    <2>3. ASSUME NEW n \in 0 .. k
          PROVE  g[n] = IF n = 0 THEN r ELSE ApplySgrParameter(g[n - 1], params[n])
      <3>1. CASE n = k
        <4>1. n # 0 /\ n - 1 = k - 1 /\ k - 1 \in 0 .. k /\ k - 1 # k
          BY <1>0, <1>3, <2>1, <3>1, SMT
        <4>2. g[n] = ApplySgrParameter(f[k - 1], params[k]) /\ g[k - 1] = f[k - 1]
          BY <3>1, <4>1, Zenon
        <4> HIDE DEF g
        <4> QED BY <3>1, <4>1, <4>2
      <3>2. CASE n # k
        <4>1. n \in 0 .. k - 1 /\ (n # 0 => n - 1 \in 0 .. k /\ n - 1 # k)
          BY <1>0, <2>1, <3>2, SMT
        <4>2. f[n] = IF n = 0 THEN r ELSE ApplySgrParameter(f[n - 1], params[n])
          BY <2>2, <4>1, Zenon DEF Styled
        <4>3. g[n] = f[n] /\ (n # 0 => g[n - 1] = f[n - 1])
          BY <3>2, <4>1, Zenon
        <4> HIDE DEF g
        <4> QED BY <4>2, <4>3, Zenon
      <3> QED BY <3>1, <3>2
    <2>4. g = [n \in 0 .. k |-> g[n]]
      BY Zenon
    <2>5. Styled(r, params, k, g)
      <3> HIDE DEF g
      <3>1. g = [n \in 0 .. k |-> IF n = 0 THEN r
                                   ELSE ApplySgrParameter(g[n - 1], params[n])]
        BY <2>3, <2>4, Zenon
      <3> QED BY <3>1, Zenon DEF Styled
    <2> HIDE DEF g
    <2> QED BY <1>1, <2>5, Zenon
  <1> QED BY <1>2, <1>3

LEMMA SgrKeepsRenditions ==
  ASSUME NEW r \in Renditions, NEW params \in Seq(Nat)
  PROVE  ApplySgr(r, params) \in Renditions
  <1> DEFINE l == Len(params)
             after == CHOOSE f : Styled(r, params, l, f)
  <1>0. l \in Nat /\ DOMAIN params = 1 .. l /\ \A n \in 1 .. l : params[n] \in Nat
    BY DomainIs
  <1>1. Styled(r, params, l, after)
    <2>1. l \in 0 .. l
      BY <1>0, SMT
    <2> QED BY <2>1, StyledSoFar, Zenon
  <1>2. ApplySgr(r, params) = IF params = <<>> THEN Plain ELSE after[l]
    BY Zenon DEF ApplySgr, Styled
  <1> HIDE DEF l, after
  <1> DEFINE T == {n \in 0 .. l : after[n] \notin Renditions}
  <1>3. T = {}
    <2> SUFFICES ASSUME T # {} PROVE FALSE
      OBVIOUS
    <2>1. PICK k \in T : \A j \in T : k <= j
      <3>1. T \in SUBSET Nat
        BY <1>0, SMT
      <3> HIDE DEF T
      <3> QED BY <3>1, LeastExists
    <2>2. after[k] = IF k = 0 THEN r ELSE ApplySgrParameter(after[k - 1], params[k])
      BY <1>1, Zenon DEF Styled
    <2>3. k # 0
      BY <2>2, Zenon
    <2>4. k - 1 \in 0 .. l /\ ~(k <= k - 1) /\ k \in 1 .. l
      BY <1>0, <2>3, SMT
    <2>5. after[k - 1] \in Renditions
      BY <2>1, <2>4, Zenon
    <2>6. after[k] \in Renditions
      BY <1>0, <2>2, <2>3, <2>4, <2>5, ParameterKeepsRenditions, Zenon
    <2> QED BY <2>6, Zenon
  <1>4. after[l] \in Renditions
    <2>1. l \in 0 .. l
      BY <1>0, SMT
    <2> QED BY <1>3, <2>1, Zenon
  <1> QED BY <1>2, <1>4, PlainIsARendition, Zenon

-----------------------------------------------------------------------------
(* The cells and the rows the screen counts.                               *)

Grids ==
    [grid : [Row -> [Col -> Cells]], history : Seq([Col -> Cells]),
     rendition : Renditions, saved : Renditions]

Marked(grid, text) ==
    /\ grid \in [Row -> [Col -> Cells]]
    /\ \A r \in Row, c \in Col : grid[r][c].char # 0 => r \in text

\* The cells have their types, a row with a character is one the screen
\* counts as written to, and the scrollback is as long as it says.
Agree(x, s) ==
    /\ x \in Grids
    /\ Marked(x.grid, s.text)
    /\ Len(x.history) = s.history

LEMMA GridsAre ==
  ASSUME NEW x \in Grids
  PROVE  /\ x.grid \in [Row -> [Col -> Cells]] /\ x.history \in Seq([Col -> Cells])
         /\ x.rendition \in Renditions /\ x.saved \in Renditions
  BY Zenon DEF Grids

LEMMA CellIs ==
  ASSUME NEW r \in Renditions, NEW k \in Nat
  PROVE  /\ [char |-> k, rendition |-> r] \in Cells
         /\ [char |-> k, rendition |-> r].char = k
  BY Zenon DEF Cells

LEMMA BlanksAre ==
  ASSUME NEW x, x.rendition \in Renditions
  PROVE  /\ Blank(x) \in Cells /\ Blank(x).char = 0
         /\ BlankRow(x) \in [Col -> Cells]
         /\ \A c \in Col : BlankRow(x)[c].char = 0
  <1>1. Blank(x) \in Cells /\ Blank(x).char = 0
    BY CellIs, Zenon DEF Blank
  <1>2. BlankRow(x) = [c \in Col |-> Blank(x)]
    BY DEF BlankRow
  <1> QED BY <1>1, <1>2, Zenon

LEMMA GridIs ==
  ASSUME NEW x \in Grids, NEW g \in [Row -> [Col -> Cells]]
  PROVE  /\ [x EXCEPT !.grid = g] \in Grids
         /\ [x EXCEPT !.grid = g].grid = g
         /\ [x EXCEPT !.grid = g].history = x.history
  BY Zenon DEF Grids

LEMMA GridAndHistoryAre ==
  ASSUME NEW x \in Grids
  PROVE  \A g \in [Row -> [Col -> Cells]], h \in Seq([Col -> Cells]) :
           /\ [x EXCEPT !.grid = g, !.history = h] \in Grids
           /\ [x EXCEPT !.grid = g, !.history = h].grid = g
           /\ [x EXCEPT !.grid = g, !.history = h].history = h
  BY Zenon DEF Grids

LEMMA AgreeReads ==
  ASSUME NEW x, NEW s, Agree(x, s), NEW t, t.text = s.text, t.history = s.history
  PROVE  Agree(x, t)
  BY Zenon DEF Agree

LEMMA BlanksAgree == Agree(BlankCells, BlankScreen)
  <1> DEFINE p == [rendition |-> Plain]
             g == [r \in Row |-> BlankRow(p)]
  <1>1. p.rendition \in Renditions
    BY PlainIsARendition, Zenon
  <1> HIDE DEF p
  <1>2. g \in [Row -> [Col -> Cells]] /\ \A r \in Row, c \in Col : g[r][c].char = 0
    BY <1>1, BlanksAre, Zenon
  <1>3. BlankCells = [grid |-> g, history |-> <<>>, rendition |-> Plain, saved |-> Plain]
    BY Zenon DEF BlankCells, p
  <1> HIDE DEF g
  <1>4. <<>> \in Seq([Col -> Cells]) /\ Len(<<>>) = 0
    BY EmptySeq
  <1>5. /\ BlankCells \in Grids
        /\ BlankCells.grid = g /\ BlankCells.history = <<>>
    BY <1>2, <1>3, <1>4, PlainIsARendition, Zenon DEF Grids
  <1>6. BlankScreen.history = 0
    BY Zenon DEF BlankScreen
  <1> QED BY <1>2, <1>4, <1>5, <1>6, Zenon DEF Agree, Marked

-----------------------------------------------------------------------------
(* Scrolling.                                                              *)

LEMMA LastOfIs ==
  ASSUME NEW S, NEW h \in Seq(S)
  PROVE  /\ LastOf(h) \in Seq(S)
         /\ Len(LastOf(h)) = AtMost(Len(h), MaxHistory)
  <1> DEFINE l == Len(h)
             m == AtLeast(l - MaxHistory, 0) + 1
  <1>1. l \in Nat /\ MaxHistory \in Nat
    BY DomainIs, ScreenAssumption
  <1>2. \A i \in 1 .. l : h[i] \in S
    BY ElementOfSeq
  <1> HIDE DEF l
  <1>3. m \in Int /\ \A i \in m .. l : i \in 1 .. l
    BY <1>1, SMT DEF AtLeast
  <1>4. (IF m <= l THEN l - m + 1 ELSE 0) = AtMost(l, MaxHistory)
    BY <1>1, SMT DEF AtLeast, AtMost
  <1>5. LastOf(h) = SubSeq(h, m, l)
    BY DEF LastOf, l
  <1> HIDE DEF m
  <1>6. \A i \in m .. l : h[i] \in S
    BY <1>2, <1>3
  <1>7. /\ SubSeq(h, m, l) \in Seq(S)
        /\ Len(SubSeq(h, m, l)) = IF m <= l THEN l - m + 1 ELSE 0
    <2>1. l \in Int
      BY <1>1
    <2> QED BY <1>3, <1>6, <2>1, SubSeqProperties
  <1> QED BY <1>4, <1>5, <1>7 DEF l

\* The rows after a scroll, as the screen counts them.
Shifted(s, edge, d) ==
    {r \in Row : IF InRegion(s, r) THEN r # edge /\ r + d \in s.text ELSE r \in s.text}

LEMMA ScrolledIs ==
  ASSUME NEW s \in ScreenType
  PROVE  /\ ScrollUp(Settled(s)).text = Shifted(s, s.bottom, 1)
         /\ ScrollUp(Settled(s)).history
              = IF WholeScreen(s) THEN AtMost(s.history + 1, MaxHistory) ELSE s.history
         /\ ScrollDown(Settled(s)).text = Shifted(s, s.top, -1)
         /\ ScrollDown(Settled(s)).history = s.history
  <1> DEFINE t == Settled(s)
             up == {r \in Row : IF InRegion(t, r) THEN r < t.bottom /\ r + 1 \in t.text
                                ELSE r \in t.text}
             down == {r \in Row : IF InRegion(t, r) THEN r > t.top /\ r - 1 \in t.text
                                  ELSE r \in t.text}
             h == IF WholeScreen(t) THEN AtMost(t.history + 1, MaxHistory) ELSE t.history
  <1>1. /\ t \in ScreenType /\ t.text = s.text /\ t.history = s.history
        /\ t.top = s.top /\ t.bottom = s.bottom
    BY SettledIs, Zenon DEF Settled, ScreenType
  <1>2. s.top \in Row /\ s.bottom \in Row
    BY FieldsAre
  <1> HIDE DEF t
  <1>3. up = Shifted(s, s.bottom, 1)
    <2>1. \A r \in Row : InRegion(t, r) = InRegion(s, r)
      BY <1>1, Zenon DEF InRegion
    <2>2. \A r \in Row : InRegion(s, r) => (r < s.bottom <=> r # s.bottom)
      BY <1>2, SMT DEF InRegion, Row
    <2> QED BY <1>1, <2>1, <2>2, Zenon DEF Shifted
  <1>4. down = Shifted(s, s.top, -1)
    <2>1. \A r \in Row : InRegion(t, r) = InRegion(s, r)
      BY <1>1, Zenon DEF InRegion
    <2>2. \A r \in Row : InRegion(s, r) => (r > s.top <=> r # s.top)
      BY <1>2, SMT DEF InRegion, Row
    <2>3. \A r \in Row : r - 1 = r + (-1)
      BY SMT DEF Row
    <2> QED BY <1>1, <2>1, <2>2, <2>3, Zenon DEF Shifted
  <1>5. h = IF WholeScreen(s) THEN AtMost(s.history + 1, MaxHistory) ELSE s.history
    BY <1>1, Zenon DEF WholeScreen
  <1>6. /\ ScrollUp(t) = [t EXCEPT !.text = up, !.history = h]
        /\ ScrollDown(t) = [t EXCEPT !.text = down]
    BY Zenon DEF ScrollUp, ScrollDown
  <1> HIDE DEF up, down, h
  <1>7. /\ ScrollUp(t).text = up /\ ScrollUp(t).history = h
        /\ ScrollDown(t).text = down /\ ScrollDown(t).history = s.history
    BY <1>1, <1>6, Zenon DEF ScreenType
  <1> QED BY <1>3, <1>4, <1>5, <1>7 DEF t

\* Rows that move by d inside the region, and a blank one at its edge.
LEMMA ShiftedRows ==
  ASSUME NEW s \in ScreenType, NEW g, Marked(g, s.text), NEW b \in [Col -> Cells],
         \A c \in Col : b[c].char = 0,
         NEW edge \in Row, NEW d \in {1, -1},
         \A r \in Row : InRegion(s, r) /\ r # edge => r + d \in Row
  PROVE  Marked([r \in Row |-> IF ~InRegion(s, r) THEN g[r]
                               ELSE IF r = edge THEN b ELSE g[r + d]],
                Shifted(s, edge, d))
  <1> DEFINE row(r) == IF ~InRegion(s, r) THEN g[r] ELSE IF r = edge THEN b ELSE g[r + d]
             new == [r \in Row |-> row(r)]
  <1>1. \A r \in Row : row(r) \in [Col -> Cells]
    BY Zenon DEF Marked
  <1>2. ASSUME NEW r \in Row, NEW c \in Col, row(r)[c].char # 0
        PROVE  r \in Shifted(s, edge, d)
    <2>1. CASE ~InRegion(s, r)
      BY <1>2, <2>1, Zenon DEF Marked, Shifted
    <2>2. CASE InRegion(s, r) /\ r = edge
      BY <1>2, <2>2, Zenon
    <2>3. CASE InRegion(s, r) /\ r # edge
      BY <1>2, <2>3, Zenon DEF Marked, Shifted
    <2> QED BY <2>1, <2>2, <2>3
  <1> HIDE DEF row
  <1>3. new \in [Row -> [Col -> Cells]]
    BY <1>1, Zenon
  <1>4. \A r \in Row, c \in Col : new[r][c].char # 0 => r \in Shifted(s, edge, d)
    BY <1>2, Zenon
  <1>5. Marked(new, Shifted(s, edge, d))
    <2> HIDE DEF new
    <2> QED BY <1>3, <1>4 DEF Marked
  <1> QED BY <1>5, Zenon DEF row

LEMMA IndexAgrees ==
  ASSUME NEW s \in ScreenType, NEW x, Agree(x, s)
  PROVE  /\ Agree(IndexCells(x, s), Index(s))
         /\ IndexCells(x, s).rendition = x.rendition
  <1> DEFINE t == Settled(s)
             u == ScrollUp(t)
  <1>1. /\ t \in ScreenType /\ t.text = s.text /\ t.history = s.history
        /\ t.row = s.row /\ t.bottom = s.bottom
    BY SettledIs, Zenon DEF Settled, ScreenType
  <1>x. x \in Grids /\ x.grid \in [Row -> [Col -> Cells]] /\ x.rendition \in Renditions
        /\ x.history \in Seq([Col -> Cells]) /\ Len(x.history) = s.history
    BY GridsAre DEF Agree
  <1>2. CASE s.row # s.bottom
    <2>1. IndexCells(x, s) = x
      BY <1>2 DEF IndexCells
    <2>2. Index(s) = [t EXCEPT !.row = AtMost(t.row + 1, NumRows - 1)]
      BY <1>1, <1>2, Zenon DEF Index
    <2> HIDE DEF t
    <2>3. Index(s).text = s.text /\ Index(s).history = s.history
      BY <1>1, <2>2, Zenon DEF ScreenType
    <2> QED BY <2>1, <2>3, AgreeReads
  <1>3. CASE s.row = s.bottom
    <2>1. Index(s) = u /\ IndexCells(x, s) = ScrollCellsUp(x, s)
      BY <1>1, <1>3, Zenon DEF Index, IndexCells
    <2>2. /\ u.text = Shifted(s, s.bottom, 1)
          /\ u.history = IF WholeScreen(s) THEN AtMost(s.history + 1, MaxHistory)
                         ELSE s.history
      BY ScrolledIs
    <2> HIDE DEF t, u
    <2> DEFINE g == [r \in Row |-> IF ~InRegion(s, r) THEN x.grid[r]
                                   ELSE IF r = s.bottom THEN BlankRow(x)
                                   ELSE x.grid[r + 1]]
               h == IF WholeScreen(s) THEN LastOf(Append(x.history, x.grid[0]))
                    ELSE x.history
    <2>3. ScrollCellsUp(x, s) = [x EXCEPT !.grid = g, !.history = h]
      BY Zenon DEF ScrollCellsUp
    <2>4. Marked(g, u.text)
      <3>1. s.bottom \in Row /\ 1 \in {1, -1}
        BY FieldsAre, Zenon
      <3>2. \A r \in Row : InRegion(s, r) /\ r # s.bottom => r + 1 \in Row
        BY <3>1, ScreenAssumption, SMT DEF InRegion, Row
      <3>3. BlankRow(x) \in [Col -> Cells] /\ \A c \in Col : BlankRow(x)[c].char = 0
        BY <1>x, BlanksAre
      <3>4. Marked(x.grid, s.text)
        BY DEF Agree
      <3>5. Marked(g, Shifted(s, s.bottom, 1))
        BY <3>1, <3>2, <3>3, <3>4, ShiftedRows
      <3> QED BY <2>2, <3>5
    <2> HIDE DEF g
    <2>5. h \in Seq([Col -> Cells]) /\ Len(h) = u.history
      <3>1. CASE WholeScreen(s)
        <4> DEFINE a == Append(x.history, x.grid[0])
        <4>1. x.grid[0] \in [Col -> Cells]
          BY <1>x, Bounds, Zenon
        <4>2. a \in Seq([Col -> Cells]) /\ Len(a) = s.history + 1
          <5> HIDE DEF a
          <5>1. a = Append(x.history, x.grid[0])
            BY DEF a
          <5>2. a \in Seq([Col -> Cells]) /\ Len(a) = Len(x.history) + 1
            <6>1. x.history \in Seq([Col -> Cells])
              BY <1>x
            <6> QED BY <4>1, <5>1, <6>1, OneMore
          <5> QED BY <1>x, <5>2
        <4> HIDE DEF a
        <4>3. LastOf(a) \in Seq([Col -> Cells]) /\ Len(LastOf(a)) = AtMost(s.history + 1, MaxHistory)
          BY <4>2, LastOfIs, Zenon
        <4>4. h = LastOf(a)
          BY <3>1 DEF a
        <4> HIDE DEF h
        <4> QED BY <2>2, <3>1, <4>3, <4>4
      <3>2. CASE ~WholeScreen(s)
        BY <1>x, <2>2, <3>2, Zenon
      <3> QED BY <3>1, <3>2
    <2> HIDE DEF h
    <2>6. /\ ScrollCellsUp(x, s) \in Grids
          /\ ScrollCellsUp(x, s).grid = g /\ ScrollCellsUp(x, s).history = h
      <3>1. g \in [Row -> [Col -> Cells]]
        BY <2>4 DEF Marked
      <3>2. x \in Grids
        BY <1>x
      <3>3. h \in Seq([Col -> Cells])
        BY <2>5
      <3>4. /\ [x EXCEPT !.grid = g, !.history = h] \in Grids
            /\ [x EXCEPT !.grid = g, !.history = h].grid = g
            /\ [x EXCEPT !.grid = g, !.history = h].history = h
        <4>1. \A gg \in [Row -> [Col -> Cells]], hh \in Seq([Col -> Cells]) :
                /\ [x EXCEPT !.grid = gg, !.history = hh] \in Grids
                /\ [x EXCEPT !.grid = gg, !.history = hh].grid = gg
                /\ [x EXCEPT !.grid = gg, !.history = hh].history = hh
          BY <3>2, GridAndHistoryAre
        <4> QED BY <3>1, <3>3, <4>1
      <3> QED BY <2>3, <3>4
    <2>7. ScrollCellsUp(x, s).rendition = x.rendition
      BY <1>x, <2>3, Zenon DEF Grids
    <2> QED BY <2>1, <2>4, <2>5, <2>6, <2>7, Zenon DEF Agree
  <1> QED BY <1>2, <1>3

LEMMA ReverseIndexAgrees ==
  ASSUME NEW s \in ScreenType, NEW x, Agree(x, s)
  PROVE  Agree(ReverseIndexCells(x, s), ReverseIndex(s))
  <1> DEFINE t == Settled(s)
             u == ScrollDown(t)
  <1>1. /\ t \in ScreenType /\ t.text = s.text /\ t.history = s.history
        /\ t.row = s.row /\ t.top = s.top
    BY SettledIs, Zenon DEF Settled, ScreenType
  <1>x. x \in Grids /\ x.grid \in [Row -> [Col -> Cells]] /\ x.rendition \in Renditions
        /\ Len(x.history) = s.history
    BY GridsAre DEF Agree
  <1>2. CASE s.row # s.top
    <2>1. ReverseIndexCells(x, s) = x
      BY <1>2 DEF ReverseIndexCells
    <2>2. ReverseIndex(s) = [t EXCEPT !.row = AtLeast(t.row - 1, 0)]
      BY <1>1, <1>2, Zenon DEF ReverseIndex
    <2> HIDE DEF t
    <2>3. ReverseIndex(s).text = s.text /\ ReverseIndex(s).history = s.history
      BY <1>1, <2>2, Zenon DEF ScreenType
    <2> QED BY <2>1, <2>3, AgreeReads
  <1>3. CASE s.row = s.top
    <2>1. ReverseIndex(s) = u /\ ReverseIndexCells(x, s) = ScrollCellsDown(x, s)
      BY <1>1, <1>3, Zenon DEF ReverseIndex, ReverseIndexCells
    <2>2. u.text = Shifted(s, s.top, -1) /\ u.history = s.history
      BY ScrolledIs
    <2> HIDE DEF t, u
    <2> DEFINE g == [r \in Row |-> IF ~InRegion(s, r) THEN x.grid[r]
                                   ELSE IF r = s.top THEN BlankRow(x)
                                   ELSE x.grid[r - 1]]
               f == [r \in Row |-> IF ~InRegion(s, r) THEN x.grid[r]
                                   ELSE IF r = s.top THEN BlankRow(x)
                                   ELSE x.grid[r + (-1)]]
    <2>3. ScrollCellsDown(x, s) = [x EXCEPT !.grid = g]
      BY Zenon DEF ScrollCellsDown
    <2>f. g = f
      <3>1. \A r \in Row : r - 1 = r + (-1)
        BY SMT DEF Row
      <3> QED BY <3>1, Zenon
    <2>4. Marked(f, u.text)
      <3>1. s.top \in Row /\ -1 \in {1, -1}
        BY FieldsAre, Zenon
      <3>2. \A r \in Row : InRegion(s, r) /\ r # s.top => r + (-1) \in Row
        BY <3>1, ScreenAssumption, SMT DEF InRegion, Row
      <3>3. BlankRow(x) \in [Col -> Cells] /\ \A c \in Col : BlankRow(x)[c].char = 0
        BY <1>x, BlanksAre
      <3>4. Marked(x.grid, s.text)
        BY DEF Agree
      <3>5. Marked(f, Shifted(s, s.top, -1))
        BY <3>1, <3>2, <3>3, <3>4, ShiftedRows
      <3> QED BY <2>2, <3>5
    <2> HIDE DEF g, f
    <2>6. /\ ScrollCellsDown(x, s) \in Grids
          /\ ScrollCellsDown(x, s).grid = f
          /\ ScrollCellsDown(x, s).history = x.history
      <3>1. f \in [Row -> [Col -> Cells]]
        BY <2>4 DEF Marked
      <3>2. x \in Grids /\ ScrollCellsDown(x, s) = [x EXCEPT !.grid = f]
        BY <1>x, <2>3, <2>f
      <3>3. /\ [x EXCEPT !.grid = f] \in Grids
            /\ [x EXCEPT !.grid = f].grid = f
            /\ [x EXCEPT !.grid = f].history = x.history
        BY <3>1, <3>2, GridIs
      <3> QED BY <3>2, <3>3
    <2> QED BY <1>x, <2>1, <2>2, <2>4, <2>6, Zenon DEF Agree
  <1> QED BY <1>2, <1>3

-----------------------------------------------------------------------------
(* Drawing and erasing.                                                    *)

LEMMA PutKeeps ==
  ASSUME NEW s \in ScreenType
  PROVE  Put(s).text = s.text \cup {s.row} /\ Put(s).history = s.history
  BY Zenon DEF Put, ScreenType

LEMMA OneCellMarked ==
  ASSUME NEW g, NEW text, Marked(g, text), NEW r \in Row, NEW c \in Col, NEW k \in Cells
  PROVE  Marked([g EXCEPT ![r][c] = k], text \cup {r})
  <1> DEFINE row == [g[r] EXCEPT ![c] = k]
             new == [g EXCEPT ![r] = row]
  <1>1. g \in [Row -> [Col -> Cells]]
        /\ \A y \in Row, z \in Col : g[y][z].char # 0 => y \in text
    BY DEF Marked
  <1>2. row \in [Col -> Cells]
    BY <1>1, Zenon
  <1> HIDE DEF row
  <1>3. new \in [Row -> [Col -> Cells]]
    BY <1>1, <1>2, Zenon
  <1>4. \A y \in Row : y # r => new[y] = g[y]
    BY <1>1, Zenon
  <1>5. [g EXCEPT ![r][c] = k] = new
    BY DEF row
  <1> HIDE DEF new
  <1>6. Marked(new, text \cup {r})
    BY <1>1, <1>3, <1>4, Zenon DEF Marked
  <1> QED BY <1>5, <1>6

LEMMA WriteAgrees ==
  ASSUME NEW s \in ScreenType, NEW x, Agree(x, s), NEW char \in Nat
  PROVE  Agree(WriteCell(x, s, char), Write(s))
  <1> DEFINE k == [char |-> char, rendition |-> x.rendition]
  <1>0. x.rendition \in Renditions /\ k \in Cells
    <2>1. x.rendition \in Renditions
      BY GridsAre DEF Agree
    <2> QED BY <2>1, CellIs, Zenon
  <1> HIDE DEF k
  <1>1. ASSUME NEW t \in ScreenType, NEW y, Agree(y, t)
        PROVE  Agree([y EXCEPT !.grid[t.row][t.col] = k], Put(t))
    <2> DEFINE g == [y.grid EXCEPT ![t.row][t.col] = k]
    <2>1. t.row \in Row /\ t.col \in Col
      BY FieldsAre
    <2>2. Marked(g, t.text \cup {t.row})
      BY <1>0, <1>1, <2>1, OneCellMarked DEF Agree
    <2>3. [y EXCEPT !.grid[t.row][t.col] = k] = [y EXCEPT !.grid = g]
      OBVIOUS
    <2> HIDE DEF g
    <2>4. y \in Grids /\ g \in [Row -> [Col -> Cells]]
      BY <1>1, <2>2 DEF Agree, Marked
    <2>5. /\ [y EXCEPT !.grid = g] \in Grids
          /\ [y EXCEPT !.grid = g].grid = g
          /\ [y EXCEPT !.grid = g].history = y.history
      BY <2>4, GridIs
    <2> DEFINE w == [y EXCEPT !.grid = g]
    <2>6. Agree(w, Put(t))
      <3> HIDE DEF w
      <3>1. w \in Grids /\ w.grid = g /\ w.history = y.history
        BY <2>5 DEF w
      <3>2. Put(t).text = t.text \cup {t.row} /\ Put(t).history = t.history
        BY PutKeeps
      <3> QED BY <1>1, <2>2, <3>1, <3>2, Zenon DEF Agree
    <2> QED BY <2>3, <2>6
  <1>2. CASE s.wrap /\ s.autoWrap
    <2> DEFINE t == CarriageReturn(s)
               y == IndexCells(x, s)
               at == Index(t)
    <2>1. /\ t \in ScreenType /\ t.text = s.text /\ t.history = s.history
          /\ t.row = s.row /\ t.bottom = s.bottom /\ t.top = s.top
      <3>1. t \in ScreenType
        BY MovesAreSound DEF Sound
      <3> QED BY <3>1, Zenon DEF CarriageReturn, ScreenType
    <2>2. Agree(x, t)
      BY <2>1, AgreeReads
    <2>3. IndexCells(x, t) = y
      <3>1. \A r \in Row : InRegion(t, r) = InRegion(s, r)
        BY <2>1, Zenon DEF InRegion
      <3>2. WholeScreen(t) = WholeScreen(s)
        BY <2>1, Zenon DEF WholeScreen
      <3>3. ScrollCellsUp(x, t) = ScrollCellsUp(x, s)
        BY <2>1, <3>1, <3>2, Zenon DEF ScrollCellsUp
      <3> QED BY <2>1, <3>3, Zenon DEF IndexCells
    <2>4. Agree(y, at) /\ at \in ScreenType
      <3>1. Agree(IndexCells(x, t), Index(t))
        BY <2>1, <2>2, IndexAgrees
      <3>2. Index(t) \in ScreenType
        BY <2>1, MovesAreSound DEF Sound
      <3> QED BY <2>3, <3>1, <3>2
    <2>5. /\ Write(s) = Put(at)
          /\ WriteCell(x, s, char) = [y EXCEPT !.grid[at.row][at.col] = k]
      BY <1>2, Zenon DEF Write, WriteCell, k
    <2> HIDE DEF t, y, at
    <2> QED BY <1>1, <2>4, <2>5
  <1>3. CASE ~(s.wrap /\ s.autoWrap)
    <2> DEFINE t == Settled(s)
    <2>1. /\ t \in ScreenType /\ t.text = s.text /\ t.history = s.history
          /\ t.row = s.row /\ t.col = s.col
      BY SettledIs, Zenon DEF Settled, ScreenType
    <2>2. Agree(x, t)
      BY <2>1, AgreeReads
    <2>3. /\ Write(s) = Put(t)
          /\ WriteCell(x, s, char) = [x EXCEPT !.grid[s.row][s.col] = k]
      BY <1>3, Zenon DEF Write, WriteCell, k
    <2> HIDE DEF t
    <2>4. WriteCell(x, s, char) = [x EXCEPT !.grid[t.row][t.col] = k]
      BY <2>1, <2>3
    <2> QED BY <1>1, <2>1, <2>2, <2>3, <2>4
  <1> QED BY <1>2, <1>3

\* Rows that are blank in all places need not be counted any more.
LEMMA ErasedAgrees ==
  ASSUME NEW x \in Grids, NEW text, Marked(x.grid, text), NEW places, NEW whole,
         \A r \in whole, c \in Col : <<r, c>> \in places
  PROVE  /\ EraseCells(x, places) \in Grids
         /\ Marked(EraseCells(x, places).grid, text \ whole)
         /\ EraseCells(x, places).history = x.history
  <1> DEFINE cell(r, c) == IF <<r, c>> \in places THEN Blank(x) ELSE x.grid[r][c]
             g == [r \in Row |-> [c \in Col |-> cell(r, c)]]
  <1>1. /\ Blank(x) \in Cells /\ Blank(x).char = 0
        /\ x.grid \in [Row -> [Col -> Cells]]
    BY GridsAre, BlanksAre
  <1>2. \A r \in Row, c \in Col : cell(r, c) \in Cells
    BY <1>1, Zenon
  <1>3. \A r \in Row, c \in Col : cell(r, c).char # 0 => r \in text \ whole
    <2> SUFFICES ASSUME NEW r \in Row, NEW c \in Col, cell(r, c).char # 0
                 PROVE  r \in text \ whole
      OBVIOUS
    <2>1. <<r, c>> \notin places
      BY <1>1, Zenon
    <2>2. r \notin whole
      BY <2>1, Zenon
    <2>3. r \in text
      BY <2>1, Zenon DEF Marked
    <2> QED BY <2>2, <2>3
  <1>4. EraseCells(x, places) = [x EXCEPT !.grid = g]
    BY Zenon DEF EraseCells
  <1> HIDE DEF cell
  <1>5. g \in [Row -> [Col -> Cells]] /\ \A r \in Row, c \in Col : g[r][c] = cell(r, c)
    BY <1>2, Zenon
  <1> HIDE DEF g
  <1>6. Marked(g, text \ whole)
    BY <1>3, <1>5, Zenon DEF Marked
  <1>7. /\ [x EXCEPT !.grid = g] \in Grids
        /\ [x EXCEPT !.grid = g].grid = g
        /\ [x EXCEPT !.grid = g].history = x.history
    BY <1>5, GridIs
  <1> QED BY <1>4, <1>6, <1>7

LEMMA EraseDisplayAgrees ==
  ASSUME NEW s \in ScreenType, NEW x, Agree(x, s), NEW mode
  PROVE  Agree(EraseDisplayCells(x, s, mode), EraseInDisplay(s, mode))
  <1> DEFINE places == CASE mode = 0 -> CellsFrom(s)
                         [] mode = 1 -> CellsUpTo(s)
                         [] mode \in {2, 3} -> Row \X Col
                         [] OTHER -> {}
             whole == CASE mode = 0 -> {r \in Row : r > s.row \/ (r = s.row /\ s.col = 0)}
                        [] mode = 1 -> {r \in Row : r < s.row
                                          \/ (r = s.row /\ s.col = NumCols - 1)}
                        [] mode \in {2, 3} -> Row
                        [] OTHER -> {}
             y == EraseCells(x, places)
             t == Settled(s)
             h == IF mode = 3 THEN 0 ELSE s.history
             past == IF mode = 3 THEN <<>> ELSE x.history
             u == s.text \ whole
  <1>1. ASSUME NEW r \in whole, NEW c \in Col PROVE <<r, c>> \in places
    <2>1. s.row \in Row /\ s.col \in Col
      BY FieldsAre
    <2>2. (s.col = 0 => c >= s.col) /\ (s.col = NumCols - 1 => c <= s.col)
      BY <2>1, ScreenAssumption, SMT DEF Col
    <2>3. CASE mode = 0
      <3>0. mode # 1 /\ mode \notin {2, 3}
        BY <2>3, SMT
      <3>3. whole = {q \in Row : q > s.row \/ (q = s.row /\ s.col = 0)}
        BY <2>3, <3>0, Zenon
      <3>1. r \in Row /\ (r > s.row \/ (r = s.row /\ s.col = 0))
        BY <3>3
      <3>2. <<r, c>> \in CellsFrom(s)
        BY <2>2, <3>1 DEF CellsFrom
      <3> QED BY <2>3, <3>0, <3>2, Zenon
    <2>4. CASE mode = 1
      <3>0. mode # 0 /\ mode \notin {2, 3}
        BY <2>4, SMT
      <3>3. whole = {q \in Row : q < s.row \/ (q = s.row /\ s.col = NumCols - 1)}
        BY <2>4, <3>0, Zenon
      <3>1. r \in Row /\ (r < s.row \/ (r = s.row /\ s.col = NumCols - 1))
        BY <3>3
      <3>2. <<r, c>> \in CellsUpTo(s)
        BY <2>2, <3>1 DEF CellsUpTo
      <3> QED BY <2>4, <3>0, <3>2, Zenon
    <2>5. CASE mode \in {2, 3}
      <3>0. mode # 0 /\ mode # 1
        BY <2>5
      <3>1. r \in Row
        BY <2>5, <3>0, Zenon
      <3> QED BY <2>5, <3>0, <3>1, Zenon
    <2>6. CASE mode \notin {0, 1, 2, 3}
      BY <2>6, Zenon
    <2> QED BY <2>3, <2>4, <2>5, <2>6
  <1>2. /\ t \in ScreenType /\ t.text = s.text /\ t.history = s.history
    BY SettledIs, Zenon DEF Settled, ScreenType
  <1>3. EraseInDisplay(s, mode) = [t EXCEPT !.text = u, !.history = h]
    <2>1. EraseInDisplay(s, mode)
            = [t EXCEPT !.text = t.text \ whole,
                        !.history = IF mode = 3 THEN 0 ELSE t.history]
      BY Zenon DEF EraseInDisplay
    <2> HIDE DEF whole, t
    <2> QED BY <1>2, <2>1
  <1>4. EraseDisplayCells(x, s, mode)
          = [y EXCEPT !.history = IF mode = 3 THEN <<>> ELSE y.history]
    BY Zenon DEF EraseDisplayCells
  <1>5. x \in Grids /\ Marked(x.grid, s.text) /\ Len(x.history) = s.history
    BY DEF Agree
  <1> HIDE DEF whole, places
  <1>6. y \in Grids /\ Marked(y.grid, u) /\ y.history = x.history
    BY <1>1, <1>5, ErasedAgrees
  <1> HIDE DEF y, t, u
  <1>7. /\ EraseInDisplay(s, mode).text = u /\ EraseInDisplay(s, mode).history = h
    <2> HIDE DEF h
    <2>1. \A a, b : /\ [t EXCEPT !.text = a, !.history = b].text = a
                    /\ [t EXCEPT !.text = a, !.history = b].history = b
      BY <1>2, Zenon DEF ScreenType
    <2> QED BY <1>3, <2>1
  <1>8. past \in Seq([Col -> Cells]) /\ Len(past) = h
    <2>1. x.history \in Seq([Col -> Cells])
      BY <1>5, GridsAre
    <2>2. <<>> \in Seq([Col -> Cells]) /\ Len(<<>>) = 0
      BY EmptySeq
    <2>3. CASE mode = 3
      <3>1. past = <<>> /\ h = 0
        BY <2>3, Zenon
      <3> HIDE DEF past, h
      <3> QED BY <2>2, <3>1
    <2>4. CASE mode # 3
      <3>1. past = x.history /\ h = s.history
        BY <2>4, Zenon
      <3> HIDE DEF past, h
      <3> QED BY <1>5, <2>1, <3>1
    <2> QED BY <2>3, <2>4
  <1>9. EraseDisplayCells(x, s, mode) = [y EXCEPT !.history = past]
    BY <1>4, <1>6
  <1> HIDE DEF past, h
  <1>10. /\ [y EXCEPT !.history = past] \in Grids
         /\ [y EXCEPT !.history = past].grid = y.grid
         /\ [y EXCEPT !.history = past].history = past
    BY <1>6, <1>8, Zenon DEF Grids
  <1> QED BY <1>6, <1>7, <1>8, <1>9, <1>10, Zenon DEF Agree

LEMMA EraseLineAgrees ==
  ASSUME NEW s \in ScreenType, NEW x, Agree(x, s), NEW mode
  PROVE  Agree(EraseLineCells(x, s, mode), EraseInLine(s, mode))
  <1> DEFINE line == {s.row} \X Col
             places == CASE mode = 0 -> line \cap CellsFrom(s)
                         [] mode = 1 -> line \cap CellsUpTo(s)
                         [] mode = 2 -> line
                         [] OTHER -> {}
             all == \/ mode = 0 /\ s.col = 0
                    \/ mode = 1 /\ s.col = NumCols - 1
                    \/ mode = 2
             whole == IF all THEN {s.row} ELSE {}
             y == EraseCells(x, places)
             t == Settled(s)
             u == s.text \ whole
  <1>0. s.row \in Row /\ s.col \in Col
    BY FieldsAre
  <1>1. ASSUME NEW r \in whole, NEW c \in Col PROVE <<r, c>> \in places
    <2>1. r = s.row /\ all
      BY Zenon
    <2>2. (s.col = 0 => c >= s.col) /\ (s.col = NumCols - 1 => c <= s.col)
      BY <1>0, ScreenAssumption, SMT DEF Col
    <2>3. <<r, c>> \in line /\ r \in Row
      BY <1>0, <2>1
    <2>4. CASE mode = 0
      <3>1. <<r, c>> \in CellsFrom(s)
        BY <2>1, <2>2, <2>3, <2>4 DEF CellsFrom
      <3>2. mode # 1 /\ mode # 2
        BY <2>4, SMT
      <3> QED BY <2>3, <2>4, <3>1, <3>2, Zenon
    <2>5. CASE mode = 1
      <3>1. <<r, c>> \in CellsUpTo(s)
        BY <2>1, <2>2, <2>3, <2>5 DEF CellsUpTo
      <3> QED BY <2>3, <2>5, <3>1
    <2>6. CASE mode = 2
      BY <2>3, <2>6
    <2> QED BY <2>1, <2>4, <2>5, <2>6
  <1>2. /\ t \in ScreenType /\ t.text = s.text /\ t.history = s.history
    BY SettledIs, Zenon DEF Settled, ScreenType
  <1>3. EraseInLine(s, mode) = [t EXCEPT !.text = IF all THEN t.text \ {s.row} ELSE t.text]
    BY Zenon DEF EraseInLine
  <1>4. u = IF all THEN t.text \ {s.row} ELSE t.text
    BY <1>2, Zenon
  <1>5. EraseLineCells(x, s, mode) = y
    BY Zenon DEF EraseLineCells
  <1>6. x \in Grids /\ Marked(x.grid, s.text) /\ Len(x.history) = s.history
    BY DEF Agree
  <1> HIDE DEF whole, places
  <1>7. y \in Grids /\ Marked(y.grid, u) /\ y.history = x.history
    BY <1>1, <1>6, ErasedAgrees
  <1> HIDE DEF y, t, u
  <1>8. EraseInLine(s, mode) = [t EXCEPT !.text = u]
    BY <1>3, <1>4
  <1>9. /\ EraseInLine(s, mode).text = u /\ EraseInLine(s, mode).history = s.history
    <2>1. \A a : /\ [t EXCEPT !.text = a].text = a
                 /\ [t EXCEPT !.text = a].history = t.history
      BY <1>2, Zenon DEF ScreenType
    <2> QED BY <1>2, <1>8, <2>1
  <1> QED BY <1>5, <1>6, <1>7, <1>9, Zenon DEF Agree

LEMMA FillAgrees ==
  ASSUME NEW s \in ScreenType, NEW x, Agree(x, s), NEW char \in Nat
  PROVE  Agree(FillCells(x, char), FillScreenWithAlignmentPattern(s))
  <1> DEFINE k == [char |-> char, rendition |-> x.rendition]
             g == [r \in Row |-> [c \in Col |-> k]]
             t == MoveTo(s, 1, 1)
  <1>0. x \in Grids /\ Len(x.history) = s.history /\ k \in Cells
    <2>1. x \in Grids /\ Len(x.history) = s.history
      BY DEF Agree
    <2>2. x.rendition \in Renditions
      BY <2>1, GridsAre
    <2> QED BY <2>1, <2>2, CellIs, Zenon
  <1>1. FillCells(x, char) = [x EXCEPT !.grid = g]
    BY Zenon DEF FillCells
  <1> HIDE DEF k
  <1>2. Marked(g, Row)
    BY <1>0, Zenon DEF Marked
  <1>3. t \in ScreenType /\ t.history = s.history
    <2>1. t \in ScreenType
      BY CursorMovesAreSound DEF Sound
    <2> QED BY <2>1, Zenon DEF MoveTo, Settled, ScreenType
  <1>4. FillScreenWithAlignmentPattern(s) = [t EXCEPT !.text = Row]
    BY DEF FillScreenWithAlignmentPattern
  <1> HIDE DEF g, t
  <1>5. /\ [t EXCEPT !.text = Row].text = Row
        /\ [t EXCEPT !.text = Row].history = s.history
    BY <1>3, Zenon DEF ScreenType
  <1>6. /\ [x EXCEPT !.grid = g] \in Grids
        /\ [x EXCEPT !.grid = g].grid = g
        /\ [x EXCEPT !.grid = g].history = x.history
    <2>1. g \in [Row -> [Col -> Cells]]
      BY <1>2 DEF Marked
    <2> QED BY <1>0, <2>1, GridIs
  <1> QED BY <1>0, <1>1, <1>2, <1>4, <1>5, <1>6, Zenon DEF Agree

-----------------------------------------------------------------------------
(* Sequences of bytes.                                                     *)

States == {"Ground", "Escape", "CsiEntry", "CsiParam", "CsiIntermediate",
           "OscString", "OscStringEsc", "Ignore"}

Parsers == [state : States, params : Seq(Parameter),
            intermediate : Intermediate \cup {""}, privateMarker : BOOLEAN]

\* Two parsers that tell no difference: what a state does not read may be
\* left over from before.
Alike(p, q) ==
    /\ p \in Parsers /\ q \in Parsers
    /\ p.state = q.state
    /\ p.state = "Escape" => p.intermediate = q.intermediate
    /\ p.state \in {"CsiEntry", "CsiParam", "CsiIntermediate"} => p = q

\* Two results that go on alike and have the same event.
SameResult(r, t) == Alike(r.next, t.next) /\ r.event = t.event

LEMMA GroundIsAParser == Ground \in Parsers
  BY SMT DEF Ground, Parsers, States

LEMMA ResultIs ==
  ASSUME NEW p, NEW e
  PROVE  /\ After(p, e).next = p /\ After(p, e).event = e
         /\ Silently(p).next = p /\ Silently(p).event = None
  BY Zenon DEF After, Silently

LEMMA StateIs ==
  ASSUME NEW p \in Parsers, NEW x \in States
  PROVE  [p EXCEPT !.state = x] \in Parsers /\ [p EXCEPT !.state = x].state = x
  BY Zenon DEF Parsers

LEMMA RestartIs ==
  ASSUME NEW p \in Parsers, NEW x \in States
  PROVE  /\ [p EXCEPT !.state = x, !.intermediate = ""] \in Parsers
         /\ [p EXCEPT !.state = x, !.intermediate = ""].state = x
         /\ [p EXCEPT !.state = x, !.intermediate = ""].intermediate = ""
  BY Zenon DEF Parsers

LEMMA IntermediateIs ==
  ASSUME NEW p \in Parsers, NEW x \in Intermediate
  PROVE  /\ [p EXCEPT !.intermediate = x] \in Parsers
         /\ [p EXCEPT !.intermediate = x].state = p.state
         /\ [p EXCEPT !.intermediate = x].intermediate = x
  BY Zenon DEF Parsers

LEMMA MarkerIs ==
  ASSUME NEW p \in Parsers
  PROVE  [p EXCEPT !.privateMarker = TRUE] \in Parsers
  BY Zenon DEF Parsers

LEMMA CollectIs ==
  ASSUME NEW p \in Parsers, NEW b \in Parameter
  PROVE  CollectParam(p, b) \in Parsers
  <1>1. p.params \in Seq(Parameter)
    BY Zenon DEF Parsers
  <1>a. Append(p.params, b) \in Seq(Parameter)
    BY <1>1, SMT
  <1>2. PICK x \in Seq(Parameter) : x = Append(p.params, b)
    BY <1>a, Zenon
  <1>3. [p EXCEPT !.params = x] \in Parsers
    BY Zenon DEF Parsers
  <1>4. CollectParam(p, b) = [p EXCEPT !.params = Append(p.params, b)]
    BY Zenon DEF CollectParam
  <1> QED
    BY <1>2, <1>3, <1>4

LEMMA TransitionIs ==
  ASSUME NEW p \in Parsers, NEW x \in States
  PROVE  /\ Transition(p, x) \in Parsers /\ Transition(p, x).state = x
         /\ x = "Escape" => Transition(p, x).intermediate = ""
         /\ x = "CsiEntry" => Transition(p, x) = [Ground EXCEPT !.state = x]
  <1>1. CASE x = "CsiEntry"
    <2>1. Transition(p, x) = [Ground EXCEPT !.state = x]
      BY <1>1, Zenon DEF Transition
    <2> QED BY <1>1, <2>1, GroundIsAParser, StateIs
  <1>2. CASE x = "Escape"
    <2> DEFINE e == [p EXCEPT !.state = x, !.intermediate = ""]
    <2>0. Transition(p, x) = CASE x = "CsiEntry" -> [Ground EXCEPT !.state = x]
                               [] x = "Escape" -> e
                               [] OTHER -> [p EXCEPT !.state = x]
      BY DEF Transition
    <2>1. e \in Parsers /\ e.state = x /\ e.intermediate = ""
      BY RestartIs
    <2> HIDE DEF e
    <2>2. Transition(p, x) = e
      BY <1>2, <2>0
    <2> QED BY <1>2, <2>1, <2>2
  <1>3. CASE x # "CsiEntry" /\ x # "Escape"
    <2>1. Transition(p, x) = [p EXCEPT !.state = x]
      BY <1>3, Zenon DEF Transition
    <2> QED BY <1>3, <2>1, StateIs
  <1> QED
    BY <1>1, <1>2, <1>3

LEMMA AlikeIsReflexive ==
  ASSUME NEW p \in Parsers
  PROVE  Alike(p, p)
  BY DEF Alike

\* A step to a state that reads nothing from before.
Fresh == States \ {"CsiParam", "CsiIntermediate"}

LEMMA TransitionsAlike ==
  ASSUME NEW p \in Parsers, NEW q \in Parsers, NEW x \in Fresh
  PROVE  Alike(Transition(p, x), Transition(q, x))
  <1>0. x \in States /\ x # "CsiParam" /\ x # "CsiIntermediate"
    BY DEF Fresh
  <1>1. /\ Transition(p, x) \in Parsers /\ Transition(p, x).state = x
        /\ Transition(q, x) \in Parsers /\ Transition(q, x).state = x
    BY <1>0, TransitionIs
  <1>2. CASE x = "CsiEntry"
    <2>1. Transition(p, x) = [Ground EXCEPT !.state = x]
      BY <1>2, Zenon DEF Transition
    <2>2. Transition(q, x) = [Ground EXCEPT !.state = x]
      BY <1>2, Zenon DEF Transition
    <2>3. Transition(p, x) = Transition(q, x)
      BY <2>1, <2>2, Zenon
    <2> QED BY <1>1, <2>3, AlikeIsReflexive
  <1>3. CASE x # "CsiEntry"
    <2>1. x = "Escape" => Transition(p, x).intermediate = Transition(q, x).intermediate
      BY <1>0, TransitionIs
    <2> QED BY <1>0, <1>1, <1>3, <2>1 DEF Alike
  <1> QED BY <1>2, <1>3

LEMMA StatesAre ==
  /\ "Ground" \in Fresh /\ "Escape" \in Fresh /\ "CsiEntry" \in Fresh
  /\ "OscString" \in Fresh
  /\ "Ground" \in States /\ "Ignore" \in States /\ "CsiParam" \in States
  /\ "CsiIntermediate" \in States /\ "OscStringEsc" \in States
  /\ "Escape" \in States
  BY DEF States, Fresh

\* What a state of a control sequence makes of a byte.
LEMMA CsiBytesAre ==
  ASSUME NEW p \in Parsers, NEW b
  PROVE  /\ HandleCsiEntry(p, b).next \in Parsers
         /\ HandleCsiParam(p, b).next \in Parsers
         /\ HandleCsiIntermediate(p, b).next \in Parsers
  <1>1. CsiByte(p, b).next \in Parsers
    <2>1. \/ CsiByte(p, b) = Execute(p, b) \/ CsiByte(p, b) = Silently(p)
          \/ /\ b \in Intermediate
             /\ CsiByte(p, b)
                  = Silently(Transition([p EXCEPT !.intermediate = b], "CsiIntermediate"))
          \/ CsiByte(p, b) = DispatchCsi(p, b)
          \/ CsiByte(p, b) = Silently(Transition(p, "Ignore"))
      BY SMT DEF CsiByte
    <2>2. Execute(p, b).next \in Parsers /\ Silently(p).next \in Parsers
      BY ResultIs DEF Execute
    <2>3. Transition(p, "Ground") \in Parsers /\ Transition(p, "Ignore") \in Parsers
      BY TransitionIs, StatesAre, Zenon
    <2>4. /\ DispatchCsi(p, b).next \in Parsers
          /\ Silently(Transition(p, "Ignore")).next \in Parsers
      BY <2>3, ResultIs, Zenon DEF DispatchCsi
    <2>5. ASSUME b \in Intermediate
          PROVE  Silently(Transition([p EXCEPT !.intermediate = b], "CsiIntermediate")).next
                    \in Parsers
      <3>1. [p EXCEPT !.intermediate = b] \in Parsers
        BY <2>5, IntermediateIs, Zenon
      <3>2. Transition([p EXCEPT !.intermediate = b], "CsiIntermediate") \in Parsers
        BY <3>1, TransitionIs, StatesAre, Zenon
      <3> QED BY <3>2, ResultIs, Zenon
    <2> QED BY <2>1, <2>2, <2>4, <2>5, Zenon
  <1>2. ASSUME b \in Parameter
        PROVE  /\ Silently(CollectParam(p, b)).next \in Parsers
               /\ Silently(Transition(CollectParam(p, b), "CsiParam")).next \in Parsers
    <2>1. CollectParam(p, b) \in Parsers
      BY <1>2, CollectIs, Zenon
    <2>2. Transition(CollectParam(p, b), "CsiParam") \in Parsers
      BY <2>1, TransitionIs, StatesAre, Zenon
    <2> QED BY <2>1, <2>2, ResultIs, Zenon
  <1>3. Silently(Transition([p EXCEPT !.privateMarker = TRUE], "CsiParam")).next \in Parsers
    <2>1. [p EXCEPT !.privateMarker = TRUE] \in Parsers
      BY MarkerIs, Zenon
    <2>2. Transition([p EXCEPT !.privateMarker = TRUE], "CsiParam") \in Parsers
      BY <2>1, TransitionIs, StatesAre, Zenon
    <2> QED BY <2>2, ResultIs, Zenon
  <1>4. HandleCsiEntry(p, b).next \in Parsers
    <2>1. \/ HandleCsiEntry(p, b)
                = Silently(Transition([p EXCEPT !.privateMarker = TRUE], "CsiParam"))
          \/ /\ b \in Parameter
             /\ HandleCsiEntry(p, b) = Silently(Transition(CollectParam(p, b), "CsiParam"))
          \/ HandleCsiEntry(p, b) = CsiByte(p, b)
      BY SMT DEF HandleCsiEntry
    <2> QED BY <1>1, <1>2, <1>3, <2>1
  <1>5. HandleCsiParam(p, b).next \in Parsers
    BY <1>1, <1>2 DEF HandleCsiParam
  <1> QED
    BY <1>1, <1>4, <1>5 DEF HandleCsiIntermediate

LEMMA SilentlyAlike ==
  ASSUME NEW p, NEW q, Alike(p, q), NEW e
  PROVE  /\ SameResult(Silently(p), Silently(q))
         /\ SameResult(After(p, e), After(q, e))
  BY ResultIs DEF SameResult

LEMMA EscapesAlike ==
  ASSUME NEW p, NEW q, Alike(p, q), p.state = "Escape", NEW b
  PROVE  SameResult(HandleEscape(p, b), HandleEscape(q, b))
  <1>0. /\ p \in Parsers /\ q \in Parsers /\ q.state = "Escape"
        /\ p.intermediate = q.intermediate
    BY DEF Alike
  <1>1. CASE b \in C0
    <2>1. HandleEscape(p, b) = Execute(p, b) /\ HandleEscape(q, b) = Execute(q, b)
      <3>1. b \notin {"DEL", "high", "[", "]", "\\"} /\ b \notin Intermediate
        BY <1>1 DEF C0, Intermediate
      <3> QED BY <1>1, <3>1, Zenon DEF HandleEscape
    <2> QED BY <2>1, SilentlyAlike DEF Execute
  <1>2. CASE b \notin C0 /\ b \in {"DEL", "high"}
    <2>1. HandleEscape(p, b) = Silently(p) /\ HandleEscape(q, b) = Silently(q)
      <3>1. b \notin {"[", "]", "\\"} /\ b \notin Intermediate
        BY <1>2 DEF Intermediate
      <3> QED BY <1>2, <3>1, SMT DEF HandleEscape
    <2> QED BY <2>1, SilentlyAlike
  <1>3. CASE b \notin C0 /\ b \notin {"DEL", "high"} /\ b \in Intermediate
    <2>1. /\ HandleEscape(p, b) = Silently([p EXCEPT !.intermediate = b])
          /\ HandleEscape(q, b) = Silently([q EXCEPT !.intermediate = b])
      <3>1. b \notin {"[", "]", "\\"}
        BY <1>3 DEF Intermediate
      <3> QED BY <1>3, <3>1, SMT DEF HandleEscape
    <2>2. Alike([p EXCEPT !.intermediate = b], [q EXCEPT !.intermediate = b])
      <3>1. /\ [p EXCEPT !.intermediate = b] \in Parsers
            /\ [q EXCEPT !.intermediate = b] \in Parsers
            /\ [p EXCEPT !.intermediate = b].state = "Escape"
            /\ [q EXCEPT !.intermediate = b].state = "Escape"
            /\ [p EXCEPT !.intermediate = b].intermediate
                  = [q EXCEPT !.intermediate = b].intermediate
        BY <1>0, <1>3, IntermediateIs
      <3> QED BY <3>1 DEF Alike
    <2> QED BY <2>1, <2>2, SilentlyAlike
  <1>4. CASE b \notin C0 /\ b \notin {"DEL", "high"} /\ b \notin Intermediate
    <2>0. \A x \in Fresh : Alike(Transition(p, x), Transition(q, x))
      BY <1>0, TransitionsAlike
    <2>1. CASE b = "["
      <3>1. /\ HandleEscape(p, b) = Silently(Transition(p, "CsiEntry"))
            /\ HandleEscape(q, b) = Silently(Transition(q, "CsiEntry"))
        BY <1>4, <2>1, SMT DEF HandleEscape
      <3> QED BY <2>0, <3>1, SilentlyAlike, StatesAre
    <2>2. CASE b = "]"
      <3>1. /\ HandleEscape(p, b) = Silently(Transition(p, "OscString"))
            /\ HandleEscape(q, b) = Silently(Transition(q, "OscString"))
        BY <1>4, <2>2, SMT DEF HandleEscape
      <3> QED BY <2>0, <3>1, SilentlyAlike, StatesAre
    <2>3. CASE b = "\\"
      <3>1. /\ HandleEscape(p, b) = Silently(Transition(p, "Ground"))
            /\ HandleEscape(q, b) = Silently(Transition(q, "Ground"))
        BY <1>4, <2>3, SMT DEF HandleEscape
      <3> QED BY <2>0, <3>1, SilentlyAlike, StatesAre
    <2>4. CASE b \notin {"[", "]", "\\"}
      <3> DEFINE e(r) == [kind |-> "esc", final |-> b, intermediate |-> r.intermediate]
      <3>1. /\ HandleEscape(p, b) = After(Transition(p, "Ground"), e(p))
            /\ HandleEscape(q, b) = After(Transition(q, "Ground"), e(q))
        BY <1>4, <2>4, SMT DEF HandleEscape
      <3>2. e(p) = e(q)
        BY <1>0
      <3> HIDE DEF e
      <3> QED BY <2>0, <3>1, <3>2, SilentlyAlike, StatesAre
    <2> QED BY <2>1, <2>2, <2>3, <2>4
  <1> QED BY <1>1, <1>2, <1>3, <1>4

LEMMA HandlersAlike ==
  ASSUME NEW p, NEW q, Alike(p, q), NEW b
  PROVE  SameResult(HandleByte(p, b), HandleByte(q, b))
  <1>0. p \in Parsers /\ q \in Parsers /\ p.state = q.state
    BY DEF Alike
  <1>t. p.state \in States
    BY <1>0, Zenon DEF Parsers
  <1>g. \A x \in Fresh : Alike(Transition(p, x), Transition(q, x))
    BY <1>0, TransitionsAlike
  <1>1. CASE b = "ESC"
    BY <1>1, <1>g, SilentlyAlike, StatesAre DEF HandleByte
  <1>2. CASE b = "CAN"
    BY <1>2, <1>g, SilentlyAlike, StatesAre DEF HandleByte
  <1>3. CASE b \notin {"ESC", "CAN"} /\ p.state = "Ground"
    <2>1. HandleByte(p, b) = HandleGround(p, b) /\ HandleByte(q, b) = HandleGround(q, b)
      BY <1>0, <1>3, SMT DEF HandleByte
    <2> QED BY <2>1, SilentlyAlike DEF HandleGround, Execute
  <1>4. CASE b \notin {"ESC", "CAN"} /\ p.state = "Escape"
    <2>1. HandleByte(p, b) = HandleEscape(p, b) /\ HandleByte(q, b) = HandleEscape(q, b)
      BY <1>0, <1>4, SMT DEF HandleByte
    <2> QED BY <1>4, <2>1, EscapesAlike
  <1>5. CASE /\ b \notin {"ESC", "CAN"}
             /\ p.state \in {"CsiEntry", "CsiParam", "CsiIntermediate"}
    <2>1. p = q
      BY <1>5 DEF Alike
    <2>2. \/ HandleByte(p, b) = HandleCsiEntry(p, b)
          \/ HandleByte(p, b) = HandleCsiParam(p, b)
          \/ HandleByte(p, b) = HandleCsiIntermediate(p, b)
      BY <1>5, SMT DEF HandleByte
    <2>3. HandleByte(p, b).next \in Parsers
      BY <1>0, <2>2, CsiBytesAre
    <2> QED BY <2>1, <2>3, AlikeIsReflexive DEF SameResult
  <1>6. CASE /\ b \notin {"ESC", "CAN"}
             /\ p.state \in {"OscString", "OscStringEsc", "Ignore"}
    <2>1. HandleByte(p, b) = HandleIgnore(p, b) /\ HandleByte(q, b) = HandleIgnore(q, b)
      BY <1>0, <1>6, SMT DEF HandleByte
    <2> QED BY <1>g, <2>1, SilentlyAlike, StatesAre DEF HandleIgnore
  <1> QED
    BY <1>t, <1>1, <1>2, <1>3, <1>4, <1>5, <1>6, Zenon DEF States

LEMMA FeedAlike ==
  ASSUME NEW p, NEW q, Alike(p, q), NEW b
  PROVE  SameResult(FeedByte(p, b), FeedByte(q, b))
  <1>0. p \in Parsers /\ q \in Parsers /\ p.state = q.state
    BY DEF Alike
  <1>g. \A x \in Fresh : Alike(Transition(p, x), Transition(q, x))
    BY <1>0, TransitionsAlike
  <1>1. CASE p.state = "OscString"
    <2>1. FeedByte(p, b) = HandleOsc(p, b) /\ FeedByte(q, b) = HandleOsc(q, b)
      BY <1>0, <1>1, SMT DEF FeedByte
    <2>2. CASE b \in {"BEL", "CAN"}
      <3>1. /\ HandleOsc(p, b) = Silently(Transition(p, "Ground"))
            /\ HandleOsc(q, b) = Silently(Transition(q, "Ground"))
        BY <2>2, SMT DEF HandleOsc
      <3> QED BY <1>g, <2>1, <3>1, SilentlyAlike, StatesAre
    <2>3. CASE b = "ESC"
      <3>1. /\ HandleOsc(p, b) = Silently([p EXCEPT !.state = "OscStringEsc"])
            /\ HandleOsc(q, b) = Silently([q EXCEPT !.state = "OscStringEsc"])
        BY <2>3, SMT DEF HandleOsc
      <3>2. /\ [p EXCEPT !.state = "OscStringEsc"] \in Parsers
            /\ [q EXCEPT !.state = "OscStringEsc"] \in Parsers
            /\ [p EXCEPT !.state = "OscStringEsc"].state = "OscStringEsc"
            /\ [q EXCEPT !.state = "OscStringEsc"].state = "OscStringEsc"
        BY <1>0, StateIs, StatesAre
      <3>3. Alike([p EXCEPT !.state = "OscStringEsc"], [q EXCEPT !.state = "OscStringEsc"])
        BY <3>2 DEF Alike
      <3> QED BY <2>1, <3>1, <3>3, SilentlyAlike
    <2>4. CASE b \notin {"BEL", "CAN", "ESC"}
      <3>1. HandleOsc(p, b) = Silently(p) /\ HandleOsc(q, b) = Silently(q)
        BY <2>4, SMT DEF HandleOsc
      <3> QED BY <2>1, <3>1, SilentlyAlike
    <2> QED BY <2>2, <2>3, <2>4
  <1>2. CASE p.state = "OscStringEsc"
    <2>1. FeedByte(p, b) = HandleOscEsc(p, b) /\ FeedByte(q, b) = HandleOscEsc(q, b)
      BY <1>0, <1>2, SMT DEF FeedByte
    <2>2. CASE b = "\\"
      BY <1>g, <2>1, <2>2, SilentlyAlike, StatesAre DEF HandleOscEsc
    <2>3. CASE b # "\\"
      BY <1>g, <2>1, <2>3, HandlersAlike, StatesAre DEF HandleOscEsc
    <2> QED BY <2>2, <2>3
  <1>3. CASE p.state \notin {"OscString", "OscStringEsc"}
    <2>1. FeedByte(p, b) = HandleByte(p, b) /\ FeedByte(q, b) = HandleByte(q, b)
      BY <1>0, <1>3, SMT DEF FeedByte
    <2> QED BY <2>1, HandlersAlike
  <1> QED
    BY <1>1, <1>2, <1>3

\* The parser after each byte of a sequence.
Fed(bytes, f) ==
    f = [n \in 0 .. Len(bytes) |->
            IF n = 0 THEN Silently(Ground)
            ELSE FeedByte(f[n - 1].next, bytes[n])]

\* In a string, the ESC that ends it leaves the parser where one that was
\* only fed with the ESC reads the next byte in the same way.
Follows(p, q) ==
    \/ Alike(p, q)
    \/ /\ p \in Parsers /\ q \in Parsers
       /\ p.state = "OscStringEsc" /\ q.state = "Escape" /\ q.intermediate = ""

\* The parser goes on like one that was only fed with the bytes since the
\* last ESC, or since the start, and the last byte had the same event.
ParserInv ==
    /\ parser \in Parsers /\ heard \in Seq(Bytes)
    /\ \E f : Fed(heard, f)
    /\ \A f : Fed(heard, f) => /\ Follows(parser, f[Len(heard)].next)
                               /\ event = f[Len(heard)].event

LEMMA FedIsFeed ==
  ASSUME NEW bytes, \E f : Fed(bytes, f)
  PROVE  \E f : Fed(bytes, f) /\ Feed(bytes) = f[Len(bytes)]
  <1> DEFINE fed == CHOOSE f : Fed(bytes, f)
  <1>1. Fed(bytes, fed)
    BY Zenon
  <1>2. Feed(bytes) = fed[Len(bytes)]
    BY Zenon DEF Feed, Fed
  <1> QED
    BY <1>1, <1>2

LEMMA ParserInvIsSound ==
  ASSUME ParserInv
  PROVE  SequencesStandAlone
  <1> SUFFICES ASSUME heard # <<>> PROVE event = Feed(heard).event
    BY DEF SequencesStandAlone
  <1>1. PICK f : Fed(heard, f) /\ Feed(heard) = f[Len(heard)]
    BY FedIsFeed DEF ParserInv
  <1>2. event = f[Len(heard)].event
    BY <1>1 DEF ParserInv
  <1> QED
    BY <1>1, <1>2

LEMMA FollowersFeedAlike ==
  ASSUME NEW p, NEW q, Follows(p, q), NEW b
  PROVE  SameResult(FeedByte(p, b), FeedByte(q, b))
  <1>1. CASE Alike(p, q)
    BY <1>1, FeedAlike
  <1>2. CASE /\ p \in Parsers /\ q \in Parsers
             /\ p.state = "OscStringEsc" /\ q.state = "Escape" /\ q.intermediate = ""
    <2>0. FeedByte(q, b) = HandleByte(q, b)
      <3>1. q.state \notin {"OscString", "OscStringEsc"}
        BY <1>2
      <3> QED BY <3>1, SMT DEF FeedByte
    <2>1. FeedByte(p, b) = HandleOscEsc(p, b) /\ FeedByte(q, b) = HandleByte(q, b)
      <3>1. FeedByte(p, b) = HandleOscEsc(p, b)
        <4>1. p.state = "OscStringEsc"
          BY <1>2
        <4> QED BY <4>1, SMT DEF FeedByte
      <3> QED BY <2>0, <3>1
    <2>2. /\ Transition(p, "Escape") \in Parsers
          /\ Transition(p, "Escape").state = "Escape"
          /\ Transition(p, "Escape").intermediate = ""
      BY <1>2, TransitionIs, StatesAre
    <2>3. Alike(Transition(p, "Escape"), q)
      BY <1>2, <2>2 DEF Alike
    <2>4. CASE b = "\\"
      <3>1. HandleOscEsc(p, b) = Silently(Transition(p, "Ground"))
        BY <2>4 DEF HandleOscEsc
      <3>2. HandleByte(q, b) = HandleEscape(q, b)
        <4>1. b \notin {"ESC", "CAN"}
          BY <2>4
        <4>2. q.state = "Escape"
          BY <1>2
        <4> QED BY <4>1, <4>2, SMT DEF HandleByte
      <3>3. HandleEscape(q, b) = Silently(Transition(q, "Ground"))
        <4>1. b \notin C0 /\ b \notin Intermediate
          BY <2>4 DEF C0, Intermediate
        <4> QED BY <2>4, <4>1, SMT DEF HandleEscape
      <3>4. Alike(Transition(p, "Ground"), Transition(q, "Ground"))
        BY <1>2, TransitionsAlike, StatesAre
      <3> QED BY <2>1, <3>1, <3>2, <3>3, <3>4, SilentlyAlike
    <2>5. CASE b # "\\"
      <3>1. HandleOscEsc(p, b) = HandleByte(Transition(p, "Escape"), b)
        BY <2>5 DEF HandleOscEsc
      <3> QED BY <2>1, <2>3, <3>1, HandlersAlike
    <2> QED BY <2>4, <2>5
  <1> QED
    BY <1>1, <1>2 DEF Follows

LEMMA EscRestarts ==
  ASSUME NEW p \in Parsers
  PROVE  /\ Follows(FeedByte(p, "ESC").next, FeedByte(Ground, "ESC").next)
         /\ FeedByte(p, "ESC").event = FeedByte(Ground, "ESC").event
         /\ FeedByte(p, "ESC").next \in Parsers
  <1> DEFINE g == Transition(Ground, "Escape")
  <1>1. FeedByte(Ground, "ESC") = Silently(g)
    <2>1. Ground.state = "Ground"
      BY DEF Ground
    <2> HIDE DEF g
    <2>2. FeedByte(Ground, "ESC") = HandleByte(Ground, "ESC")
      BY <2>1, SMT DEF FeedByte
    <2> QED BY <2>2, Zenon DEF HandleByte, g
  <1>2. g \in Parsers /\ g.state = "Escape" /\ g.intermediate = ""
    BY GroundIsAParser, TransitionIs, StatesAre
  <1> HIDE DEF g
  <1>3. ASSUME NEW q \in Parsers, FeedByte(p, "ESC") = Silently(q), Follows(q, g)
        PROVE  /\ Follows(FeedByte(p, "ESC").next, FeedByte(Ground, "ESC").next)
               /\ FeedByte(p, "ESC").event = FeedByte(Ground, "ESC").event
               /\ FeedByte(p, "ESC").next \in Parsers
    BY <1>1, <1>3, ResultIs, Zenon
  <1>4. CASE p.state = "OscString"
    <2>1. FeedByte(p, "ESC") = Silently([p EXCEPT !.state = "OscStringEsc"])
      <3>1. FeedByte(p, "ESC") = HandleOsc(p, "ESC")
        BY <1>4, SMT DEF FeedByte
      <3> QED BY <3>1, SMT DEF HandleOsc
    <2>2. /\ [p EXCEPT !.state = "OscStringEsc"] \in Parsers
          /\ [p EXCEPT !.state = "OscStringEsc"].state = "OscStringEsc"
      BY StateIs, StatesAre
    <2>3. Follows([p EXCEPT !.state = "OscStringEsc"], g)
      BY <1>2, <2>2 DEF Follows
    <2> QED BY <1>3, <2>1, <2>2, <2>3, Zenon
  <1>5. ASSUME NEW q \in Parsers, FeedByte(p, "ESC") = HandleByte(q, "ESC")
        PROVE  /\ Follows(FeedByte(p, "ESC").next, FeedByte(Ground, "ESC").next)
               /\ FeedByte(p, "ESC").event = FeedByte(Ground, "ESC").event
               /\ FeedByte(p, "ESC").next \in Parsers
    <2>1. HandleByte(q, "ESC") = Silently(Transition(q, "Escape"))
      BY Zenon DEF HandleByte
    <2>2. /\ Transition(q, "Escape") \in Parsers
          /\ Transition(q, "Escape").state = "Escape"
          /\ Transition(q, "Escape").intermediate = ""
      BY TransitionIs, StatesAre
    <2>3. Follows(Transition(q, "Escape"), g)
      BY <1>2, <2>2 DEF Follows, Alike
    <2>4. FeedByte(p, "ESC") = Silently(Transition(q, "Escape"))
      BY <1>5, <2>1
    <2> QED BY <1>3, <2>2, <2>3, <2>4, Zenon
  <1>6. CASE p.state = "OscStringEsc"
    <2>1. FeedByte(p, "ESC") = HandleByte(Transition(p, "Escape"), "ESC")
      <3>1. FeedByte(p, "ESC") = HandleOscEsc(p, "ESC")
        BY <1>6, SMT DEF FeedByte
      <3> QED BY <3>1 DEF HandleOscEsc
    <2>2. Transition(p, "Escape") \in Parsers
      BY TransitionIs, StatesAre
    <2> QED BY <1>5, <2>1, <2>2, Zenon
  <1>7. CASE p.state \notin {"OscString", "OscStringEsc"}
    <2>1. FeedByte(p, "ESC") = HandleByte(p, "ESC")
      BY <1>7, SMT DEF FeedByte
    <2> QED BY <1>5, <2>1, Zenon
  <1> QED
    BY <1>4, <1>6, <1>7

\* One more byte goes on from the parser after the bytes before it.
LEMMA FedAppends ==
  ASSUME NEW h \in Seq(Bytes), NEW b \in Bytes
  PROVE  /\ (\E f : Fed(h, f)) => \E g : Fed(Append(h, b), g)
         /\ \A g : Fed(Append(h, b), g) =>
              /\ Fed(h, [n \in 0 .. Len(h) |-> g[n]])
              /\ g[Len(h) + 1] = FeedByte(g[Len(h)].next, b)
  <1>1. /\ Len(h) \in Nat /\ Len(Append(h, b)) = Len(h) + 1
        /\ \A n \in 1 .. Len(h) : Append(h, b)[n] = h[n]
        /\ Append(h, b)[Len(h) + 1] = b
    BY SMT
  <1> DEFINE l == Len(h)
             k == Append(h, b)
  <1>2. ASSUME NEW f, Fed(h, f)
        PROVE  \E g : Fed(k, g)
    <2> DEFINE g == [n \in 0 .. l + 1 |-> IF n = l + 1 THEN FeedByte(f[l].next, b) ELSE f[n]]
    <2>1. ASSUME NEW n \in 0 .. l + 1
          PROVE  g[n] = IF n = 0 THEN Silently(Ground) ELSE FeedByte(g[n - 1].next, k[n])
      <3>1. CASE n = l + 1
        <4>1. n # 0 /\ n - 1 \in 0 .. l + 1 /\ n - 1 # l + 1 /\ n - 1 = l /\ k[n] = b
          BY <1>1, <3>1, SMT
        <4>2. g[n] = FeedByte(f[l].next, b) /\ g[n - 1] = f[l]
          BY <3>1, <4>1
        <4> HIDE DEF g, k
        <4> QED BY <4>1, <4>2
      <3>2. CASE n = 0
        <4>1. n \in 0 .. l /\ n # l + 1
          BY <1>1, <3>2, SMT
        <4>2. f[n] = Silently(Ground)
          BY <1>2, <3>2, <4>1, Zenon DEF Fed
        <4> QED BY <3>2, <4>1, <4>2
      <3>3. CASE n # l + 1 /\ n # 0
        <4>1. /\ n \in 0 .. l /\ n \in 1 .. l /\ n - 1 \in 0 .. l + 1 /\ n - 1 # l + 1
              /\ k[n] = h[n]
          BY <1>1, <3>3, SMT
        <4>2. g[n] = f[n] /\ g[n - 1] = f[n - 1]
          BY <3>3, <4>1
        <4>3. f[n] = FeedByte(f[n - 1].next, h[n])
          BY <1>2, <3>3, <4>1, Zenon DEF Fed
        <4> HIDE DEF g, k
        <4> QED BY <3>3, <4>1, <4>2, <4>3
      <3> QED BY <3>1, <3>2, <3>3
    <2>2. g = [n \in 0 .. Len(k) |-> IF n = 0 THEN Silently(Ground)
                                     ELSE FeedByte(g[n - 1].next, k[n])]
      <3>1. Len(k) = l + 1
        BY <1>1
      <3>2. g = [n \in 0 .. l + 1 |-> g[n]]
        BY Zenon
      <3> HIDE DEF g, k
      <3> QED BY <2>1, <3>1, <3>2, Zenon
    <2> HIDE DEF g, k
    <2> QED BY <2>2, Zenon DEF Fed
  <1>3. ASSUME NEW g, Fed(k, g)
        PROVE  /\ Fed(h, [n \in 0 .. l |-> g[n]])
               /\ g[l + 1] = FeedByte(g[l].next, b)
    <2>1. \A n \in 0 .. l + 1 : g[n] = IF n = 0 THEN Silently(Ground)
                                       ELSE FeedByte(g[n - 1].next, k[n])
      <3>1. Len(k) = l + 1
        BY <1>1
      <3>2. g = [n \in 0 .. Len(k) |-> IF n = 0 THEN Silently(Ground)
                                       ELSE FeedByte(g[n - 1].next, k[n])]
        BY <1>3 DEF Fed
      <3> HIDE DEF k
      <3> QED BY <3>1, <3>2, Zenon
    <2>2. g[l + 1] = FeedByte(g[l].next, b)
      <3>1. PICK n : n = l + 1
        OBVIOUS
      <3>2. /\ n \in 0 .. l + 1 /\ n # 0 /\ n - 1 = l
            /\ k[n] = b
        BY <1>1, <3>1, SMT
      <3> HIDE DEF k, l
      <3>3. g[n] = FeedByte(g[n - 1].next, k[n])
        BY <2>1, <3>2, Zenon
      <3> QED BY <3>1, <3>2, <3>3
    <2> DEFINE f == [n \in 0 .. l |-> g[n]]
    <2>3. ASSUME NEW n \in 0 .. l
          PROVE  g[n] = IF n = 0 THEN Silently(Ground) ELSE FeedByte(f[n - 1].next, h[n])
      <3>1. n \in 0 .. l + 1
        BY <1>1, SMT
      <3>2. CASE n = 0
        BY <2>1, <3>1, <3>2, Zenon
      <3>3. CASE n # 0
        <4>1. n - 1 \in 0 .. l /\ k[n] = h[n]
          BY <1>1, <3>3, SMT
        <4>2. f[n - 1] = g[n - 1]
          BY <4>1
        <4>3. g[n] = FeedByte(g[n - 1].next, k[n])
          BY <2>1, <3>1, <3>3, Zenon
        <4> HIDE DEF f, k
        <4> QED BY <3>3, <4>1, <4>2, <4>3
      <3> QED BY <3>2, <3>3
    <2>4. Fed(h, f)
      <3>1. f = [n \in 0 .. l |-> IF n = 0 THEN Silently(Ground)
                                  ELSE FeedByte(f[n - 1].next, h[n])]
        BY <2>3, Zenon
      <3> HIDE DEF f
      <3> QED BY <3>1 DEF Fed
    <2> QED BY <2>2, <2>4
  <1> HIDE DEF k
  <1>4. (\E f : Fed(h, f)) => \E g : Fed(k, g)
    BY <1>2, Zenon
  <1>5. \A g : Fed(k, g) => /\ Fed(h, [n \in 0 .. l |-> g[n]])
                            /\ g[l + 1] = FeedByte(g[l].next, b)
    BY <1>3, Zenon
  <1> QED
    BY <1>4, <1>5, Zenon DEF k

LEMMA FedNothing ==
  /\ Fed(<<>>, [n \in 0 .. 0 |-> Silently(Ground)])
  /\ \A g : Fed(<<>>, g) => g[0] = Silently(Ground)
  <1> DEFINE none == [n \in 0 .. 0 |-> Silently(Ground)]
  <1>0. Len(<<>>) = 0 /\ 0 \in 0 .. 0
    OBVIOUS
  <1>1. \A n \in 0 .. 0 : n = 0
    BY SMT
  <1>2. none = [n \in 0 .. 0 |-> IF n = 0 THEN Silently(Ground)
                                 ELSE FeedByte(none[n - 1].next, <<>>[n])]
    BY <1>1
  <1>3. Fed(<<>>, none)
    <2> HIDE DEF none
    <2> QED BY <1>0, <1>2 DEF Fed
  <1>4. ASSUME NEW g, Fed(<<>>, g) PROVE g[0] = Silently(Ground)
    <2>1. g = [n \in 0 .. 0 |-> IF n = 0 THEN Silently(Ground)
                                ELSE FeedByte(g[n - 1].next, <<>>[n])]
      BY <1>0, <1>4 DEF Fed
    <2> QED BY <1>0, <2>1, Zenon
  <1> QED
    BY <1>3, <1>4

LEMMA ParserInvHoldsAtFirst == VtInit => ParserInv
  <1> SUFFICES ASSUME VtInit PROVE ParserInv
    OBVIOUS
  <1>1. parser = Ground /\ event = None /\ heard = <<>>
    BY DEF VtInit
  <1>2. heard \in Seq(Bytes) /\ Len(heard) = 0
    BY <1>1
  <1>3. Follows(Ground, Ground)
    BY GroundIsAParser, AlikeIsReflexive DEF Follows
  <1>4. \E f : Fed(heard, f)
    BY <1>2, FedNothing
  <1>5. ASSUME NEW f, Fed(heard, f)
        PROVE  Follows(parser, f[Len(heard)].next) /\ event = f[Len(heard)].event
    <2>1. f[0] = Silently(Ground)
      <3>1. 0 \in 0 .. Len(heard)
        BY <1>2
      <3> QED BY <1>5, <3>1 DEF Fed
    <2>2. f[Len(heard)] = Silently(Ground)
      BY <1>2, <2>1
    <2> QED BY <1>1, <1>3, <2>2, ResultIs
  <1> QED
    BY <1>1, <1>2, <1>4, <1>5, GroundIsAParser DEF ParserInv

LEMMA BytesKeepParserInv ==
  ASSUME ParserInv, NEW b \in Bytes, VtFeedByte(b)
  PROVE  ParserInv'
  <1>1. /\ parser' = FeedByte(parser, b).next /\ event' = FeedByte(parser, b).event
        /\ heard' = IF b = "ESC" THEN <<b>> ELSE Append(heard, b)
    BY Zenon DEF VtFeedByte
  <1>2. parser \in Parsers /\ heard \in Seq(Bytes)
    BY DEF ParserInv
  <1>3. parser' \in Parsers
    <2>1. Follows(parser, parser)
      BY <1>2, AlikeIsReflexive DEF Follows
    <2>2. FeedByte(parser, b).next \in Parsers
      BY <2>1, FollowersFeedAlike, Zenon DEF SameResult, Alike
    <2> QED BY <1>1, <2>2
  <1>4. heard' \in Seq(Bytes)
    BY <1>1, <1>2, SMT
  <1> DEFINE InStep(h) ==
               /\ \E f : Fed(h, f)
               /\ \A f : Fed(h, f) => /\ Follows(parser', f[Len(h)].next)
                                      /\ event' = f[Len(h)].event
  <1>5. CASE b = "ESC"
    <2>1. <<>> \in Seq(Bytes) /\ heard' = Append(<<>>, b) /\ Len(<<>>) = 0
          /\ Len(Append(<<>>, b)) = 1
      BY <1>1, <1>5
    <2>2. \E f : Fed(<<>>, f)
      BY FedNothing
    <2>3. \E f : Fed(heard', f)
      BY <2>1, <2>2, FedAppends
    <2>4. ASSUME NEW g, Fed(heard', g)
          PROVE  g[1] = FeedByte(Ground, "ESC")
      <3>1. /\ Fed(<<>>, [n \in 0 .. Len(<<>>) |-> g[n]])
            /\ g[Len(<<>>) + 1] = FeedByte(g[Len(<<>>)].next, b)
        BY <2>1, <2>4, FedAppends
      <3>2. g[0] = Silently(Ground)
        <4>1. [n \in 0 .. Len(<<>>) |-> g[n]][0] = Silently(Ground)
          BY <3>1, FedNothing
        <4> QED BY <2>1, <4>1
      <3>3. g[1] = FeedByte(g[0].next, b)
        BY <2>1, <3>1
      <3> QED BY <1>5, <3>2, <3>3, ResultIs
    <2>5. /\ Follows(parser', FeedByte(Ground, "ESC").next)
          /\ event' = FeedByte(Ground, "ESC").event
      BY <1>1, <1>2, <1>5, EscRestarts
    <2>6. InStep(heard')
      BY <2>1, <2>3, <2>4, <2>5
    <2> QED BY <1>3, <1>4, <2>6, Zenon DEF ParserInv
  <1>6. CASE b # "ESC"
    <2>1. heard' = Append(heard, b) /\ Len(heard') = Len(heard) + 1
      BY <1>1, <1>2, <1>6
    <2>2. \E f : Fed(heard', f)
      BY <1>2, <1>6, <2>1, FedAppends, Zenon DEF ParserInv
    <2>3. ASSUME NEW g, Fed(heard', g)
          PROVE  /\ Follows(parser', g[Len(heard')].next)
                 /\ event' = g[Len(heard')].event
      <3> DEFINE f == [n \in 0 .. Len(heard) |-> g[n]]
      <3>1. /\ Fed(heard, f)
            /\ g[Len(heard) + 1] = FeedByte(g[Len(heard)].next, b)
        BY <1>2, <2>1, <2>3, FedAppends
      <3>2. f[Len(heard)] = g[Len(heard)]
        <4>1. Len(heard) \in 0 .. Len(heard)
          BY <1>2, SMT
        <4> QED BY <4>1
      <3> HIDE DEF f
      <3>3. Follows(parser, g[Len(heard)].next)
        BY <1>6, <3>1, <3>2, Zenon DEF ParserInv
      <3>4. SameResult(FeedByte(parser, b), FeedByte(g[Len(heard)].next, b))
        BY <3>3, FollowersFeedAlike
      <3> QED BY <1>1, <2>1, <3>1, <3>4, Zenon DEF SameResult, Follows
    <2> QED BY <1>3, <1>4, <2>2, <2>3, Zenon DEF ParserInv
  <1> QED
    BY <1>5, <1>6

LEMMA ParserInvReads ==
  ASSUME ParserInv, UNCHANGED <<parser, event, heard>>
  PROVE  ParserInv'
  BY Zenon DEF ParserInv

LEMMA BridgeKeepsParserInv ==
  ASSUME ParserInv, [BridgeNext]_bridgeVars
  PROVE  ParserInv'
  <1>1. CASE VtBytes
    BY <1>1, BytesKeepParserInv DEF VtBytes
  <1>2. CASE UNCHANGED <<parser, event, heard>>
    BY <1>2, ParserInvReads
  <1>3. CASE VtEvents
    BY <1>3, <1>2, Zenon DEF VtEvents, OnPrint, VtOnExecute, VtOnEsc, VtOnCsi,
       Clear, TakeOutgoing, Draw
  <1>4. CASE CellsNext
    BY <1>4, <1>2, Zenon DEF CellsNext, DrawPrint, DrawControl, DrawEsc, DrawCsi,
       DrawClear, OnPrint, VtOnExecute, VtOnEsc, VtOnCsi, Clear, Draw
  <1> QED
    BY <1>1, <1>2, <1>3, <1>4, Zenon DEF BridgeNext, bridgeVars, vtVars

\* What a control sequence does depends on its own bytes only, never on a
\* sequence, a string or parameters abandoned before it: for bytes of any
\* number, in any order.
THEOREM SequencesAreOnTheirOwn == BridgeSpec => []SequencesStandAlone
  <1>1. BridgeInit => ParserInv
    BY ParserInvHoldsAtFirst DEF BridgeInit
  <1>2. ParserInv /\ [BridgeNext]_bridgeVars => ParserInv'
    BY BridgeKeepsParserInv
  <1>3. ParserInv => SequencesStandAlone
    BY ParserInvIsSound
  <1> QED
    BY <1>1, <1>2, <1>3, PTL DEF BridgeSpec
=============================================================================
