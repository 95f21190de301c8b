---------------------------- MODULE MCDeviceSide ----------------------------
(***************************************************************************)
(* The two programs that are a KNXnet/IP device to their clients, the bytes *)
(* that they exchange, and the threads library under them.  They share      *)
(* nothing, so that one of them runs and the others rest.                   *)
(***************************************************************************)
EXTENDS RelayHandler, EmulatorHandler, JtcThreadLife, KnxFrames

VARIABLE running

Numbers3(sep, a, b, c) == [sep |-> sep, parts |-> <<a, b, c>>]
MCTexts ==
  {Numbers3("/", 31, 7, 255), Numbers3(".", 15, 1, 128), [sep |-> "/", parts |-> <<1, 1300>>]}
MCValues == {<<0>>, <<128, 1, 255>>, [i \in 1 .. 15 |-> i]}
MCEndpoints ==
  {[ip |-> <<10, 0, 0, 255>>, port |-> 3671], [ip |-> <<192, 168, 1, 2>>, port |-> 65280]}
MCNames == {<<69, 105>>}

deviceVars == <<running, relayVars, emuVars, thrVars, knxVars>>

RelayEnded ==
  /\ relayTable = [i \in RelaySlots |-> NoState] /\ relayLock = "none"
  /\ relayIn = [pc |-> "done", stop |-> TRUE]
  /\ relayOut = [pc |-> "done", stop |-> TRUE, slot |-> 0, frame |-> RelayMaxWork, freed |-> "no"]
  /\ relayMain = "closed"
  /\ relayWire = [toRelay |-> <<>>, toClient |-> <<>>] /\ relayPassed = <<>>
  /\ relayClient = [channel |-> 0, asks |-> 1, made |-> 0, tries |-> 0,
                    send |-> 0, recv |-> 0, got |-> <<>>]

EmuEnded ==
  /\ emuConn = [i \in EmuSlots |-> "free"] /\ emuAcked = [i \in EmuSlots |-> FALSE]
  /\ emuLock = "none" /\ emuHeld = {}
  /\ emuIn = [pc |-> "done", owed |-> 0, slot |-> 0, stop |-> TRUE]
  /\ emuOut = [pc |-> "done", slot |-> 0, stop |-> TRUE, deleted |-> FALSE]
  /\ emuQueue = [length |-> 0, sent |-> 0] /\ emuMain = "closed"

DeviceInit ==
  /\ running \in {"relay", "emulator", "threads", "frames"}
  /\ IF running = "relay" THEN RelayInit ELSE RelayEnded
  /\ IF running = "emulator" THEN EmuInit ELSE EmuEnded
  /\ ThrInit /\ KnxInit

DeviceNext ==
  /\ \/ running = "relay" /\ RelayNext /\ UNCHANGED <<emuVars, thrVars, knxVars>>
     \/ running = "emulator" /\ EmuNext /\ UNCHANGED <<relayVars, thrVars, knxVars>>
     \/ running = "threads" /\ ThrNext /\ UNCHANGED <<relayVars, emuVars, knxVars>>
     \/ running = "frames" /\ KnxNext /\ UNCHANGED <<relayVars, emuVars, thrVars>>
  /\ UNCHANGED running

DeviceSpec == DeviceInit /\ [][DeviceNext]_deviceVars /\ RelayFairness /\ EmuFairness /\ ThrFairness
=============================================================================
