-------------------------- MODULE EmulatorHandler --------------------------
(***************************************************************************)
(* The KNXnet/IP emulator (Emulator-ng/src/EmulatorHandler.cpp).  It serves *)
(* its clients as the relay does, but waits for the acknowledgement of each *)
(* frame it sends.  Two threads send: the output thread, which lets the     *)
(* input thread read the acknowledgement and signal it, and the input       *)
(* thread itself, which reads the socket while it holds all the locks.      *)
(*                                                                         *)
(* Here are the monitors of the emulator and of the connections, the waits  *)
(* and what they block; sequence numbers are left out (RelayHandler has     *)
(* them): a datagram has the number that is expected or it has not, and any *)
(* datagram of a client may come at any time.                               *)
(***************************************************************************)
EXTENDS Integers, FiniteSets

CONSTANTS
  EmuSlots,        (* the indices of _states: 0 .. MAX_CONNS - 1             *)
  EmuMaxFrames     (* how many indications the console sends                 *)

ASSUME EmuAssumption ==
  EmuSlots = 0 .. Cardinality(EmuSlots) - 1 /\ IsFiniteSet(EmuSlots) /\ EmuMaxFrames \in Nat

VARIABLES
  emuConn,   (* _states: free, allocated, open (is_connected) or told to end *)
  emuAcked,  (* ack_received of each                                         *)
  emuLock,   (* who holds the monitor of the emulator                        *)
  emuHeld,   (* the connections whose monitor the input thread holds         *)
  emuIn,     (* the input thread, the frames it owes and the slot it is at   *)
  emuOut,    (* the output thread, its slot, and whether the connection whose*)
             (* monitor it waits on has been deleted                         *)
  emuQueue,  (* the length of _q, and the indications sent so far            *)
  emuMain    (* the main thread: the console and Close                       *)

emuVars == <<emuConn, emuAcked, emuLock, emuHeld, emuIn, emuOut, emuQueue, emuMain>>

EmuUsed == {i \in EmuSlots : emuConn[i] # "free"}

EmuInit ==
  /\ emuConn = [i \in EmuSlots |-> "free"]
  /\ emuAcked = [i \in EmuSlots |-> FALSE]
  /\ emuLock = "none" /\ emuHeld = {}
  /\ emuIn = [pc |-> "receive", owed |-> 0, slot |-> 0, stop |-> FALSE]
  /\ emuOut = [pc |-> "queue", slot |-> 0, stop |-> FALSE, deleted |-> FALSE]
  /\ emuQueue = [length |-> 0, sent |-> 0]
  /\ emuMain = "console"

-----------------------------------------------------------------------------
(***************************************************************************)
(* The input thread.                                                       *)
(***************************************************************************)
(* RecvFrom returns some datagram of a client, about some connection.       *)
EmuReceives(next) ==
  /\ emuIn.pc = "receive"
  /\ emuIn' = next
  /\ UNCHANGED <<emuLock, emuQueue, emuMain>>
EmuTurns == [emuIn EXCEPT !.pc = "top"]
EmuOwes(frames) == [emuIn EXCEPT !.pc = "lock", !.owed = frames]

EmuInputStep(next) ==
  /\ emuIn' = next
  /\ UNCHANGED <<emuQueue, emuMain>>

(* FreeConnection deletes the object, monitor and all.                      *)
EmuFree(slots) ==
  /\ emuConn' = [i \in EmuSlots |-> IF i \in slots THEN "free" ELSE emuConn[i]]
  /\ emuOut' = IF emuOut.pc \in {"wait", "woken"} /\ emuOut.slot \in slots
               THEN [emuOut EXCEPT !.deleted = TRUE] ELSE emuOut

(* HandleTunnelAck: an acknowledgement with the number that is expected     *)
(* wakes the output thread if it waits for this client.                     *)
EmuAckCounts(i) ==
  /\ emuConn[i] # "free"
  /\ emuAcked' = [emuAcked EXCEPT ![i] = TRUE]
  /\ emuOut' = IF emuOut.pc = "wait" /\ emuOut.slot = i
               THEN [emuOut EXCEPT !.pc = "woken"] ELSE emuOut
EmuHandleTunnelAck ==
  /\ EmuReceives(EmuTurns)
  /\ (\E i \in EmuSlots : EmuAckCounts(i)) \/ UNCHANGED <<emuAcked, emuOut>>
  /\ UNCHANGED <<emuConn, emuHeld>>

(* A request with the expected number is acknowledged, and its confirmation *)
(* broadcast; a read of a group with a value is answered by a broadcast too.*)
(* The monitor of the connection is released before.                        *)
EmuHandleTunnelRequest ==
  /\ \/ EmuReceives(EmuTurns)
     \/ EmuUsed # {} /\ \E frames \in 1 .. 2 : EmuReceives(EmuOwes(frames))
  /\ UNCHANGED <<emuConn, emuAcked, emuHeld, emuOut>>

EmuHandleDisconnectRequest ==
  /\ EmuReceives(EmuTurns)
  /\ (\E i \in EmuUsed : emuConn[i] = "open" /\ EmuFree({i})) \/ EmuFree({})
  /\ UNCHANGED <<emuAcked, emuHeld>>

EmuHandleDisconnectResponse ==
  /\ EmuReceives(EmuTurns)
  /\ \E i \in EmuSlots : EmuFree({i})
  /\ UNCHANGED <<emuAcked, emuHeld>>

(* Answers that change nothing here: search and connection state; the       *)
(* description is not implemented.                                          *)
EmuHandleSearchRequest ==
  /\ EmuReceives(EmuTurns)
  /\ UNCHANGED <<emuConn, emuAcked, emuHeld, emuOut>>

(* AllocateNewState takes the first free slot, also for a connection of a   *)
(* kind that is refused.                                                    *)
EmuHandleConnectRequest ==
  /\ EmuReceives(EmuTurns)
  /\ \/ EmuUsed = EmuSlots /\ UNCHANGED emuConn
     \/ \E i \in EmuSlots \ EmuUsed :
          /\ \A j \in EmuSlots \ EmuUsed : i <= j
          /\ \E kind \in {"open", "allocated"} : emuConn' = [emuConn EXCEPT ![i] = kind]
  /\ UNCHANGED <<emuAcked, emuHeld, emuOut>>

(* Nothing has come: connections whose time is up are freed, any of them.   *)
EmuCheckConnectionsCleanup ==
  /\ \/ /\ emuIn.pc = "receive"
        /\ EmuInputStep([emuIn EXCEPT !.pc = "clean"])
        /\ UNCHANGED <<emuConn, emuOut>>
     \/ /\ emuIn.pc = "clean" /\ emuLock = "none"
        /\ \E expired \in SUBSET EmuUsed : EmuFree(expired)
        /\ EmuInputStep(EmuTurns)
  /\ UNCHANGED <<emuAcked, emuLock, emuHeld>>

EmuInputTurns ==
  /\ emuIn.pc = "top"
  /\ EmuInputStep([emuIn EXCEPT !.pc = IF emuIn.stop THEN "done" ELSE "receive"])
  /\ UNCHANGED <<emuConn, emuAcked, emuLock, emuHeld, emuOut>>

(* Broadcast of the input thread.                                           *)
EmuInputLocks ==
  /\ emuIn.pc = "lock" /\ emuLock = "none"
  /\ emuLock' = "input"
  /\ EmuInputStep([emuIn EXCEPT !.pc = "scan", !.slot = 0])
  /\ UNCHANGED <<emuConn, emuAcked, emuHeld, emuOut>>

(* The frame goes to the connection at the slot, whose monitor is held while*)
(* the socket is read; at the end of the table the monitors are released.   *)
EmuInputSends ==
  /\ emuIn.pc = "scan"
  /\ IF emuIn.slot \in EmuSlots
     THEN /\ UNCHANGED emuLock
          /\ IF emuIn.slot \in EmuUsed
             THEN /\ EmuInputStep([emuIn EXCEPT !.pc = "ack"])
                  /\ emuHeld' = emuHeld \cup {emuIn.slot}
                  /\ emuAcked' = [emuAcked EXCEPT ![emuIn.slot] = (emuConn[emuIn.slot] # "open") /\ @]
             ELSE /\ EmuInputStep([emuIn EXCEPT !.slot = @ + 1])
                  /\ UNCHANGED <<emuHeld, emuAcked>>
     ELSE /\ EmuInputStep([emuIn EXCEPT !.owed = @ - 1,
                                        !.pc = IF emuIn.owed > 1 THEN "lock" ELSE "top"])
          /\ emuLock' = "none" /\ emuHeld' = {}
          /\ UNCHANGED emuAcked
  /\ UNCHANGED <<emuConn, emuOut>>

(* The next datagram within a second may be the acknowledgement, of whichever   *)
(* connection, or something else, which is lost.                            *)
EmuInputReadsAck ==
  /\ emuIn.pc = "ack"
  /\ \/ \E i \in EmuSlots : EmuAckCounts(i)
     \/ UNCHANGED <<emuAcked, emuOut>>
  /\ emuHeld' = emuHeld \ {emuIn.slot}
  /\ EmuInputStep([emuIn EXCEPT !.pc = "scan", !.slot = @ + 1])
  /\ UNCHANGED <<emuConn, emuLock>>

EmuInput ==
  \/ EmuHandleTunnelAck \/ EmuHandleTunnelRequest \/ EmuHandleDisconnectRequest
  \/ EmuHandleDisconnectResponse \/ EmuHandleSearchRequest \/ EmuHandleConnectRequest
  \/ EmuCheckConnectionsCleanup \/ EmuInputTurns \/ EmuInputLocks \/ EmuInputSends
  \/ EmuInputReadsAck

-----------------------------------------------------------------------------
(***************************************************************************)
(* The output thread.                                                      *)
(***************************************************************************)
EmuOutputStep(next) == emuOut' = next /\ UNCHANGED <<emuConn, emuHeld, emuIn, emuMain>>

(* An indication is taken off the queue; the wait for one ends by itself.   *)
EmuOutputTakes ==
  /\ emuOut.pc = "queue"
  /\ \/ /\ emuOut.stop
        /\ EmuOutputStep([emuOut EXCEPT !.pc = "done"])
        /\ UNCHANGED emuQueue
     \/ /\ ~emuOut.stop /\ emuQueue.length > 0
        /\ EmuOutputStep([emuOut EXCEPT !.pc = "lock"])
        /\ emuQueue' = [emuQueue EXCEPT !.length = @ - 1]
  /\ UNCHANGED <<emuLock, emuAcked>>

EmuOutputLocks ==
  /\ emuOut.pc = "lock" /\ emuLock = "none"
  /\ emuLock' = "output"
  /\ EmuOutputStep([emuOut EXCEPT !.pc = "scan", !.slot = 0])
  /\ UNCHANGED <<emuAcked, emuQueue>>

(* A request is sent to an open connection; a connection that is not open   *)
(* is waited for all the same.                                              *)
EmuOutputSends ==
  /\ emuOut.pc = "scan"
  /\ IF emuOut.slot \in EmuSlots
     THEN /\ UNCHANGED emuLock
          /\ IF emuOut.slot \in EmuUsed
             THEN /\ emuOut.slot \notin emuHeld
                  /\ EmuOutputStep([emuOut EXCEPT !.pc = "wait", !.deleted = FALSE])
                  /\ emuAcked' = [emuAcked EXCEPT ![emuOut.slot] = (emuConn[emuOut.slot] # "open") /\ @]
             ELSE EmuOutputStep([emuOut EXCEPT !.slot = @ + 1]) /\ UNCHANGED emuAcked
     ELSE /\ EmuOutputStep([emuOut EXCEPT !.pc = "queue"])
          /\ emuLock' = "none" /\ UNCHANGED emuAcked
  /\ UNCHANGED emuQueue

(* Mutant: the wait has no timeout.                                         *)
EmuOutputWaitsForAck ==
  /\ emuOut.pc = "woken"
  /\ emuOut.slot \notin emuHeld
  /\ EmuOutputStep([emuOut EXCEPT !.pc = "scan", !.slot = @ + 1, !.deleted = FALSE])
  /\ UNCHANGED <<emuAcked, emuLock, emuQueue>>

(* After the signal, or a second, the monitor of the connection is taken    *)
(* again and the next connection is served.                                 *)
EmuOutputGoesOn ==
  /\ emuOut.pc \in {"wait", "woken"}
  /\ emuOut.deleted \/ emuOut.slot \notin emuHeld
  /\ EmuOutputStep([emuOut EXCEPT !.pc = "scan", !.slot = @ + 1, !.deleted = FALSE])
  /\ UNCHANGED <<emuAcked, emuLock, emuQueue>>

EmuOutput == EmuOutputTakes \/ EmuOutputLocks \/ EmuOutputSends \/ EmuOutputGoesOn

-----------------------------------------------------------------------------
(***************************************************************************)
(* The console and Close.                                                  *)
(***************************************************************************)
EnqueueFrame ==
  /\ emuMain = "console" /\ emuQueue.sent < EmuMaxFrames
  /\ emuQueue' = [length |-> emuQueue.length + 1, sent |-> emuQueue.sent + 1]
  /\ UNCHANGED <<emuConn, emuAcked, emuLock, emuHeld, emuIn, emuOut, emuMain>>

(* DisconnectClient of every open connection.                               *)
EmuToldToEnd ==
  emuConn' = [i \in EmuSlots |-> IF emuConn[i] = "open" THEN "told" ELSE emuConn[i]]

(* The command of the console: it waits for both monitors.                  *)
DisconnectClients ==
  /\ emuMain = "console" /\ emuLock = "none" /\ emuHeld = {}
  /\ EmuToldToEnd
  /\ UNCHANGED <<emuAcked, emuLock, emuHeld, emuIn, emuOut, emuQueue, emuMain>>

EmuMainStep(from, to) == emuMain = from /\ emuMain' = to

(* Mutant: the clients are told before the input thread has ended.          *)
EmuTellsEarly ==
  /\ \/ /\ EmuMainStep("console", "join output")
        /\ emuOut' = [emuOut EXCEPT !.stop = TRUE]
        /\ emuQueue' = [emuQueue EXCEPT !.length = 0]
        /\ UNCHANGED <<emuConn, emuIn>>
     \/ /\ EmuMainStep("join output", "join input") /\ emuOut.pc = "done"
        /\ emuIn' = [emuIn EXCEPT !.stop = TRUE]
        /\ EmuToldToEnd
        /\ UNCHANGED <<emuOut, emuQueue>>
     \/ /\ EmuMainStep("join input", "closed") /\ emuIn.pc = "done"
        /\ UNCHANGED <<emuConn, emuIn, emuOut, emuQueue>>
  /\ UNCHANGED <<emuAcked, emuLock, emuHeld>>

(* Close: the output thread is stopped, its queue emptied, and joined; then *)
(* the input thread; then the clients are told.                             *)
EmuCloses ==
  /\ \/ /\ EmuMainStep("console", "join output")
        /\ emuOut' = [emuOut EXCEPT !.stop = TRUE]
        /\ emuQueue' = [emuQueue EXCEPT !.length = 0]
        /\ UNCHANGED <<emuConn, emuIn>>
     \/ /\ EmuMainStep("join output", "join input") /\ emuOut.pc = "done"
        /\ emuIn' = [emuIn EXCEPT !.stop = TRUE]
        /\ UNCHANGED <<emuConn, emuOut, emuQueue>>
     \/ /\ EmuMainStep("join input", "closed") /\ emuIn.pc = "done" /\ emuLock = "none"
        /\ EmuToldToEnd
        /\ UNCHANGED <<emuIn, emuOut, emuQueue>>
  /\ UNCHANGED <<emuAcked, emuLock, emuHeld>>

EmuNext ==
  EmuInput \/ EmuOutput \/ EnqueueFrame \/ DisconnectClients \/ EmuCloses

(* Both threads run and get the emulator's monitor, which is free most of   *)
(* the time; Close goes on once begun.                                      *)
EmuFairness ==
  /\ WF_emuVars(EmuInput) /\ WF_emuVars(EmuOutput)
  /\ WF_emuVars(emuMain # "console" /\ EmuCloses)
  /\ SF_emuVars(EmuInputLocks \/ (emuIn.pc = "clean" /\ EmuCheckConnectionsCleanup))
  /\ SF_emuVars(EmuOutputLocks)
EmuSpec == EmuInit /\ [][EmuNext]_emuVars /\ EmuFairness

-----------------------------------------------------------------------------
(***************************************************************************)
(* Properties.                                                             *)
(***************************************************************************)
(* Every indication that was queued before Close is broadcast, although the *)
(* output thread waits for acknowledgements that only the input thread can  *)
(* read, and the input thread for the output thread's broadcast.            *)
EmuQueueDrains == (emuQueue.length > 0) ~> (emuQueue.length = 0)

(* "waits for ACKs that may never come after the server disconnects": no    *)
(* client is let in between the end of the input thread and its being told. *)
EmuNobodyLeftBehind == emuMain = "closed" => \A i \in EmuSlots : emuConn[i] # "open"

-----------------------------------------------------------------------------
(* What a comment claims and the code does not keep: "lock this object so   *)
(* if cleanup occured it will wait".  A disconnect message does not wait.   *)
EmuWaitsOnLive == ~emuOut.deleted
=============================================================================
