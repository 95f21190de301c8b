---------------------------- MODULE RelayHandler ----------------------------
(***************************************************************************)
(* The relay (EIBRelay/src/RelayHandler.cpp): KNXnet/IP clients open        *)
(* tunnelling connections to it, and it passes their frames on to the EIB   *)
(* server and the server's frames on to all of them.                        *)
(*                                                                         *)
(* The input thread answers the datagrams of the clients, the output thread *)
(* reads the frames of the server, and both use the table of connections.   *)
(* Broadcast and CheckConnectionsCleanup hold the monitor of the relay; the *)
(* handlers of the disconnect messages do not.  What the input thread does  *)
(* with one datagram is one step, as it shares nothing with the output      *)
(* thread but the table and a connection, which has a monitor of its own.   *)
(***************************************************************************)
EXTENDS Integers, Sequences, FiniteSets

CONSTANTS
  RelaySlots,       (* the indices of _states: 0 .. MAX_CONNS - 1           *)
  RelayChannels,    (* what rand() % 0xFF yields                            *)
  RelayPatience,    (* HEARTBEAT_REQUEST_TIME_OUT in units of Tick          *)
  RelayMaxWork,     (* how many connections the client asks for and how     *)
                    (* many frames the two sides make, together             *)
  RelayMod,         (* the sequence numbers are 0 .. RelayMod - 1 (256)     *)
  RelayWireMax      (* the datagrams on their way in one direction          *)

ASSUME RelayAssumption ==
  /\ RelaySlots \subseteq Nat /\ RelayChannels \subseteq Nat
  /\ 0 \in RelayChannels /\ Cardinality(RelayChannels) > Cardinality(RelaySlots)
  /\ {RelayPatience, RelayMod, RelayWireMax} \subseteq Nat \ {0} /\ RelayMod > 1
  /\ RelayMaxWork \in Nat

VARIABLES
  relayTable,  (* _states                                                    *)
  relayLock,   (* who holds the monitor of the relay                         *)
  relayIn,     (* the input thread                                           *)
  relayOut,    (* the output thread: its frame, the slot it is at and        *)
               (* whether the connection there has been freed meanwhile      *)
  relayMain,   (* the main thread, in Close                                  *)
  relayWire,   (* the datagrams to the relay and to the client               *)
  relayPassed, (* the frames of the client that went to the EIB server       *)
  relayClient  (* the KNXnet/IP client                                       *)

relayVars == <<relayTable, relayLock, relayIn, relayOut, relayMain, relayWire,
               relayPassed, relayClient>>

NoState == [channel |-> -1]
RelayInitState(c) == [channel |-> c, connected |-> FALSE, recv |-> 0, send |-> 0,
                      left |-> RelayPatience]
RelayUsed == {i \in RelaySlots : relayTable[i] # NoState}

(* GetState: the connection of a channel.                                   *)
RelayGetState(c) == {i \in RelayUsed : relayTable[i].channel = c}
RelaySucc(n) == (n + 1) % RelayMod

RelayInit ==
  /\ relayTable = [i \in RelaySlots |-> NoState]
  /\ relayLock = "none"
  /\ relayIn = [pc |-> "clean", stop |-> FALSE]
  /\ relayOut = [pc |-> "read", stop |-> FALSE, slot |-> 0, frame |-> 0, freed |-> "no"]
  /\ relayMain = "run"
  /\ relayWire = [toRelay |-> <<>>, toClient |-> <<>>]
  /\ relayPassed = <<>>
  /\ relayClient = [channel |-> 0, asks |-> 0, made |-> 0, tries |-> 0,
                    send |-> 0, recv |-> 0, got |-> <<>>]

(* A queue of datagrams after m has been sent to it, or has been lost.      *)
RelaySent(queue, m) ==
  {queue} \cup IF Len(queue) < RelayWireMax THEN {Append(queue, m)} ELSE {}

(* The first datagram has been taken; with or without an answer that means  *)
(* something to the client.  Refusals and errors (E_NO_MORE_CONNECTIONS,    *)
(* E_CONNECTION_TYPE, E_SEQUENCE_NUMBER, ...), responses to searches, states*)
(* and disconnects change nothing there and are not put on the wire.        *)
RelayTaken == relayWire' = [relayWire EXCEPT !.toRelay = Tail(@)]
RelayAnswers(m) ==
  \E queue \in RelaySent(relayWire.toClient, m) :
    relayWire' = [toRelay |-> Tail(relayWire.toRelay), toClient |-> queue]
RelayMsg(k, c, n, d) == [kind |-> k, channel |-> c, seq |-> n, data |-> d]

RelayMoreWork == relayClient.asks + relayClient.made + relayOut.frame < RelayMaxWork

(* FreeConnection: the object that the output thread is about to use goes.  *)
RelayFree(slots, why) ==
  /\ relayTable' = [i \in RelaySlots |-> IF i \in slots THEN NoState ELSE relayTable[i]]
  /\ relayOut' = IF relayOut.pc = "send" /\ relayOut.slot \in slots
                 THEN [relayOut EXCEPT !.freed = why] ELSE relayOut

-----------------------------------------------------------------------------
(***************************************************************************)
(* The input thread.                                                       *)
(***************************************************************************)
(* Mutant: the timeouts are never looked at.                                *)
RelayNoCleanup ==
  /\ relayIn.pc = "clean" /\ ~relayIn.stop /\ relayLock = "none"
  /\ relayIn' = [relayIn EXCEPT !.pc = "receive"]
  /\ UNCHANGED <<relayTable, relayOut, relayLock, relayMain, relayWire, relayPassed,
                 relayClient>>

CheckConnectionsCleanup ==
  /\ relayIn.pc = "clean" /\ ~relayIn.stop /\ relayLock = "none"
  /\ RelayFree({i \in RelayUsed : relayTable[i].left = 0}, "timeout")
  /\ relayIn' = [relayIn EXCEPT !.pc = "receive"]
  /\ UNCHANGED <<relayLock, relayMain, relayWire, relayPassed, relayClient>>

RelayReceives(kind) ==
  /\ relayIn.pc = "receive"
  /\ relayWire.toRelay # <<>> /\ Head(relayWire.toRelay).kind = kind
  /\ relayIn' = [relayIn EXCEPT !.pc = "clean"]
  /\ UNCHANGED <<relayLock, relayMain, relayClient>>
RelayRequest == Head(relayWire.toRelay)

RelayReceivesNothing ==
  /\ relayIn.pc = "receive" /\ relayWire.toRelay = <<>>
  /\ relayIn' = [relayIn EXCEPT !.pc = "clean"]
  /\ UNCHANGED <<relayTable, relayLock, relayOut, relayMain, relayWire, relayPassed, relayClient>>

RelayHandleTunnelAck ==
  /\ RelayReceives("ack")
  /\ LET hit == {i \in RelayGetState(RelayRequest.channel) :
                    relayTable[i].send = RelayRequest.seq} IN
     relayTable' = [i \in RelaySlots |-> IF i \in hit
                      THEN [relayTable[i] EXCEPT !.send = RelaySucc(@)] ELSE relayTable[i]]
  /\ RelayTaken
  /\ UNCHANGED <<relayOut, relayPassed>>

(* Mutant: a request is taken whatever its number.                          *)
RelayHandleAnyRequest ==
  /\ RelayReceives("request")
  /\ \/ RelayGetState(RelayRequest.channel) = {} /\ RelayTaken /\ UNCHANGED relayPassed
     \/ /\ RelayGetState(RelayRequest.channel) # {}
        /\ relayPassed' = Append(relayPassed, RelayRequest.data)
        /\ RelayAnswers(RelayMsg("ack", RelayRequest.channel, RelayRequest.seq, 0))
  /\ UNCHANGED <<relayTable, relayOut>>

(* Only the expected number is taken; a repetition gets an error like any   *)
(* other number.  The frame counts as taken, and is acknowledged, even if   *)
(* SendEIBNetwork did not pass it on: the connection to the server may have *)
(* ended, and nothing opens it again.                                       *)
RelayHandleTunnelRequest ==
  /\ RelayReceives("request")
  /\ LET m == RelayRequest IN
     \/ /\ RelayGetState(m.channel) = {}
        /\ RelayTaken
        /\ UNCHANGED <<relayTable, relayPassed>>
     \/ \E i \in RelayGetState(m.channel) :
          IF m.seq # relayTable[i].recv
          THEN RelayTaken
               /\ UNCHANGED <<relayTable, relayPassed>>
          ELSE /\ relayTable' = [relayTable EXCEPT ![i].recv = RelaySucc(@)]
               /\ relayPassed' \in {Append(relayPassed, m.data), relayPassed}
               /\ RelayAnswers(RelayMsg("ack", m.channel, m.seq, 0))
  /\ UNCHANGED <<relayOut>>

(* A request is answered and the connection freed, without the relay's      *)
(* monitor; a connection that was allocated but not opened is left alone.   *)
RelayHandleDisconnectRequest ==
  /\ RelayReceives("bye")
  /\ LET c == RelayRequest.channel IN
     \/ /\ RelayGetState(c) = {}
        /\ RelayTaken
        /\ UNCHANGED <<relayTable, relayOut>>
     \/ \E i \in RelayGetState(c) :
          IF relayTable[i].connected
          THEN RelayFree({i}, "disconnect") /\ RelayTaken
          ELSE RelayTaken /\ UNCHANGED <<relayTable, relayOut>>
  /\ UNCHANGED <<relayPassed>>

RelayHandleDisconnectResponse ==
  /\ RelayReceives("bye ok")
  /\ RelayFree(RelayGetState(RelayRequest.channel), "disconnect")
  /\ RelayTaken
  /\ UNCHANGED <<relayPassed>>

RelayHandleConnectionState ==
  /\ RelayReceives("state")
  /\ LET live == {i \in RelayGetState(RelayRequest.channel) : relayTable[i].connected} IN
     /\ relayTable' = [i \in RelaySlots |-> IF i \in live
                         THEN [relayTable[i] EXCEPT !.left = RelayPatience] ELSE relayTable[i]]
     /\ RelayTaken
  /\ UNCHANGED <<relayOut, relayPassed>>

(* Mutant: AllocateNewState looks for a channel before the new state, whose *)
(* channel is still 0, is in the table: the draw may then be 0.             *)
RelayFreshBeforeStored(c) == RelayGetState(c) = {}

(* The loop of AllocateNewState ends on a channel that no state has; the    *)
(* new one, which is in the table, has channel 0.                           *)
RelayFreshChannel(c) == c # 0 /\ RelayGetState(c) = {}

(* AllocateNewState takes the first free slot.  A request for another kind  *)
(* of connection is refused after that, and the slot stays taken.           *)
RelayHandleConnectRequest(kind) ==
  /\ RelayReceives(kind)
  /\ LET free == RelaySlots \ RelayUsed IN
     \/ /\ free = {}
        /\ RelayTaken
        /\ UNCHANGED relayTable
     \/ \E i \in free, c \in RelayChannels :
          /\ \A j \in free : i <= j
          /\ RelayFreshChannel(c)
          /\ relayTable' = [relayTable EXCEPT
                              ![i] = [RelayInitState(c) EXCEPT !.connected = (kind = "connect")]]
          /\ IF kind = "connect" THEN RelayAnswers(RelayMsg("connected", c, 0, 0)) ELSE RelayTaken
  /\ UNCHANGED <<relayOut, relayPassed>>

(* The description of the device is not implemented: its handler throws.    *)
RelayHandleSearchRequest ==
  /\ \E kind \in {"search", "describe"} :
       /\ RelayReceives(kind)
       /\ RelayTaken
  /\ UNCHANGED <<relayTable, relayOut, relayPassed>>

RelayInputEnds ==
  /\ relayIn.pc = "clean" /\ relayIn.stop
  /\ relayIn' = [relayIn EXCEPT !.pc = "done"]
  /\ UNCHANGED <<relayTable, relayLock, relayOut, relayMain, relayWire, relayPassed, relayClient>>

RelayInput ==
  \/ CheckConnectionsCleanup \/ RelayReceivesNothing \/ RelayHandleTunnelAck
  \/ RelayHandleTunnelRequest \/ RelayHandleDisconnectRequest \/ RelayHandleDisconnectResponse
  \/ RelayHandleConnectionState \/ RelayHandleSearchRequest \/ RelayInputEnds
  \/ \E kind \in {"connect", "connect other"} : RelayHandleConnectRequest(kind)

-----------------------------------------------------------------------------
(***************************************************************************)
(* The output thread: run, Broadcast and SendTunnelToClient.               *)
(***************************************************************************)
RelayOutputStep(next) ==
  /\ relayOut' = next
  /\ UNCHANGED <<relayTable, relayIn, relayMain, relayPassed, relayClient>>

(* ReceiveEIBNetwork: a frame of the server; without one the thread asks    *)
(* again.                                                                   *)
RelayOutputReads ==
  /\ relayOut.pc = "read" /\ ~relayOut.stop /\ RelayMoreWork
  /\ RelayOutputStep([relayOut EXCEPT !.pc = "lock", !.frame = @ + 1])
  /\ UNCHANGED <<relayLock, relayWire>>

RelayOutputEnds ==
  /\ relayOut.pc = "read" /\ relayOut.stop
  /\ RelayOutputStep([relayOut EXCEPT !.pc = "done"])
  /\ UNCHANGED <<relayLock, relayWire>>

BroadcastLocks ==
  /\ relayOut.pc = "lock" /\ relayLock = "none"
  /\ relayLock' = "output"
  /\ RelayOutputStep([relayOut EXCEPT !.pc = "scan", !.slot = 0])
  /\ UNCHANGED relayWire

BroadcastScans ==
  /\ relayOut.pc = "scan"
  /\ IF relayOut.slot \notin RelaySlots
     THEN RelayOutputStep([relayOut EXCEPT !.pc = "read"]) /\ relayLock' = "none"
     ELSE /\ RelayOutputStep(IF relayTable[relayOut.slot] = NoState
                             THEN [relayOut EXCEPT !.slot = @ + 1]
                             ELSE [relayOut EXCEPT !.pc = "send", !.freed = "no"])
          /\ UNCHANGED relayLock
  /\ UNCHANGED relayWire

(* The number is not advanced before the acknowledgement: frames sent       *)
(* meanwhile carry the same one.  A connection that has been freed is read  *)
(* all the same: whatever is sent to it then reaches nobody.                *)
SendTunnelToClient ==
  /\ relayOut.pc = "send"
  /\ LET i == relayOut.slot
         s == relayTable[i] IN
     IF relayOut.freed = "no" /\ s.connected
     THEN \E queue \in RelaySent(relayWire.toClient,
                                 RelayMsg("request", s.channel, s.send, relayOut.frame)) :
            relayWire' = [relayWire EXCEPT !.toClient = queue]
     ELSE UNCHANGED relayWire
  /\ RelayOutputStep([relayOut EXCEPT !.pc = "scan", !.slot = @ + 1, !.freed = "no"])
  /\ UNCHANGED relayLock

RelayOutput ==
  \/ RelayOutputReads \/ RelayOutputEnds \/ BroadcastLocks \/ BroadcastScans \/ SendTunnelToClient

-----------------------------------------------------------------------------
(* Close: each thread is told to stop and joined, the input thread first.   *)
RelayCloses ==
  /\ \/ /\ relayMain = "run"
        /\ relayMain' = "join input"
        /\ relayIn' = [relayIn EXCEPT !.stop = TRUE]
        /\ UNCHANGED relayOut
     \/ /\ relayMain = "join input" /\ relayIn.pc = "done"
        /\ relayMain' = "join output"
        /\ relayOut' = [relayOut EXCEPT !.stop = TRUE]
        /\ UNCHANGED <<relayIn>>
     \/ /\ relayMain = "join output" /\ relayOut.pc = "done"
        /\ relayMain' = "closed"
        /\ UNCHANGED <<relayIn, relayOut>>
  /\ UNCHANGED <<relayTable, relayLock, relayWire, relayPassed, relayClient>>

(* Two minutes, in which everything that is on its way arrives.             *)
RelayTick ==
  /\ relayIn.pc = "receive" /\ relayOut.pc \in {"read", "done"}
  /\ relayWire = [toRelay |-> <<>>, toClient |-> <<>>]
  /\ \E i \in RelayUsed : relayTable[i].left > 0
  /\ relayTable' = [i \in RelaySlots |->
       IF i \in RelayUsed /\ relayTable[i].left > 0
       THEN [relayTable[i] EXCEPT !.left = @ - 1] ELSE relayTable[i]]
  /\ UNCHANGED <<relayLock, relayIn, relayOut, relayMain, relayWire, relayPassed, relayClient>>

-----------------------------------------------------------------------------
(***************************************************************************)
(* A KNXnet/IP client.  It has one connection, asks again when a connect    *)
(* response does not come, repeats an unacknowledged request once and then  *)
(* closes the connection.                                                   *)
(***************************************************************************)
ClientSends(m, next) ==
  /\ relayClient' = next
  /\ \E queue \in RelaySent(relayWire.toRelay, m) : relayWire' = [relayWire EXCEPT !.toRelay = queue]
  /\ UNCHANGED <<relayTable, relayLock, relayIn, relayOut, relayMain, relayPassed>>

ClientConnects ==
  /\ relayClient.channel = 0 /\ RelayMoreWork
  /\ \E kind \in {"connect", "connect other"} :
       ClientSends(RelayMsg(kind, 0, 0, 0), [relayClient EXCEPT !.asks = @ + 1])

ClientSearches ==
  /\ relayClient.asks = 0
  /\ \E kind \in {"search", "describe"} : ClientSends(RelayMsg(kind, 0, 0, 0), relayClient)

ClientTransmits ==
  /\ relayClient.channel # 0 /\ relayClient.tries = 0 /\ RelayMoreWork
  /\ ClientSends(RelayMsg("request", relayClient.channel, relayClient.send, relayClient.made + 1),
                 [relayClient EXCEPT !.tries = 1, !.made = @ + 1])

ClientRepeats ==
  /\ relayClient.tries = 1
  /\ ClientSends(RelayMsg("request", relayClient.channel, relayClient.send, relayClient.made),
                 [relayClient EXCEPT !.tries = 2])

ClientCloses ==
  /\ relayClient.channel # 0 /\ relayClient.tries \in {0, 2}
  /\ \E kind \in {"bye", "bye ok"} :
       ClientSends(RelayMsg(kind, relayClient.channel, 0, 0),
                   [relayClient EXCEPT !.channel = 0, !.tries = 0])

ClientBeats ==
  /\ relayClient.channel # 0
  /\ \E i \in RelayGetState(relayClient.channel) : relayTable[i].left < RelayPatience
  /\ ClientSends(RelayMsg("state", relayClient.channel, 0, 0), relayClient)

(* A request with the expected number is taken; the one before is only      *)
(* acknowledged again.                                                      *)
ClientReceives ==
  /\ relayWire.toClient # <<>>
  /\ LET m == Head(relayWire.toClient)
         mine == m.channel = relayClient.channel
         old == relayClient.recv = RelaySucc(m.seq) IN
     /\ relayClient' =
          CASE m.kind = "connected" /\ relayClient.channel = 0 ->
                 [relayClient EXCEPT !.channel = m.channel, !.send = 0, !.recv = 0, !.got = <<>>]
            [] m.kind = "ack" /\ mine /\ relayClient.tries > 0 /\ m.seq = relayClient.send ->
                 [relayClient EXCEPT !.tries = 0, !.send = RelaySucc(@)]
            [] m.kind = "request" /\ mine /\ m.seq = relayClient.recv ->
                 [relayClient EXCEPT !.recv = RelaySucc(@), !.got = Append(@, m.data)]
            [] OTHER -> relayClient
     /\ \E queue \in IF m.kind = "request" /\ mine /\ (m.seq = relayClient.recv \/ old)
                     THEN RelaySent(relayWire.toRelay, RelayMsg("ack", m.channel, m.seq, 0))
                     ELSE {relayWire.toRelay} :
          relayWire' = [toRelay |-> queue, toClient |-> Tail(relayWire.toClient)]
  /\ UNCHANGED <<relayTable, relayLock, relayIn, relayOut, relayMain, relayPassed>>

RelayNext ==
  \/ RelayInput \/ RelayOutput \/ RelayCloses \/ RelayTick
  \/ ClientSearches \/ ClientConnects \/ ClientTransmits \/ ClientRepeats \/ ClientCloses \/ ClientBeats
  \/ ClientReceives

(* The threads run, the program closes what it began to close, datagrams    *)
(* arrive and time passes.  The client need not send anything.              *)
RelayFairness ==
  /\ WF_relayVars(RelayInput) /\ WF_relayVars(RelayOutput)
  /\ WF_relayVars(relayMain # "run" /\ RelayCloses)
  /\ SF_relayVars(RelayTick) /\ WF_relayVars(ClientReceives)
  /\ SF_relayVars(CheckConnectionsCleanup)

RelaySpec == RelayInit /\ [][RelayNext]_relayVars /\ RelayFairness

-----------------------------------------------------------------------------
(***************************************************************************)
(* Properties.                                                             *)
(***************************************************************************)
RelayIncreasing(s) == \A i, j \in 1 .. Len(s) : i < j => s[i] < s[j]

(* No two connections have the same channel, and none has channel 0, which  *)
(* is what a state has before its channel is drawn: GetState finds the one  *)
(* connection that a client means.                                          *)
RelayChannelsDistinct ==
  \A i, j \in RelayUsed : /\ relayTable[i].channel # 0
                          /\ relayTable[i].channel = relayTable[j].channel => i = j

(* The frames of a client reach the server in order and once, and those of  *)
(* the server reach the client in order and once in a connection, whatever  *)
(* is lost or repeated.                                                     *)
RelayedInOrder == RelayIncreasing(relayPassed) /\ RelayIncreasing(relayClient.got)

(* A connection whose client does not ask for its state any more is freed:  *)
(* also one that was refused after its slot was taken, or whose connect     *)
(* response was lost.                                                       *)
RelaySlotComesFree ==
  \A i \in RelaySlots :
    (i \in RelayUsed /\ relayIn.pc # "done") ~>
       (i \notin RelayUsed \/ relayIn.stop \/ relayTable[i].channel = relayClient.channel)

-----------------------------------------------------------------------------
(***************************************************************************)
(* What a comment claims and the code does not keep.                       *)
(***************************************************************************)
(* "lock this object so if cleanup occured it will wait" (Broadcast): the   *)
(* connection that the output thread has found is there when it is used.    *)
RelayBroadcastUsesLive == relayOut.freed = "no"
=============================================================================
