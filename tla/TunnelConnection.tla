-------------------------- MODULE TunnelConnection --------------------------
(***************************************************************************)
(* The KNXnet/IP tunnelling connection of the EIB server                   *)
(* (EIBServer/src/TunnelConnection.cpp), the heartbeat threads it starts   *)
(* and the network between the server and the KNX/IP device.               *)
(*                                                                         *)
(* Four kinds of threads touch the connection:                             *)
(*   "admin"   connects it when the server starts and disconnects it when  *)
(*             the server stops (CEIBInterface::Init, CEIBInterface::Close);*)
(*   "reader"  the input handler; it runs every Handle... function and,    *)
(*             from inside HandleTunnelRequest, Reconnect;                 *)
(*   writer    the output handler; it runs SendDataFrame;                  *)
(*   beats     CTunnelHeartBeat threads, one per successful Connect.       *)
(*                                                                         *)
(* The device is outside the repository and is modelled from the protocol  *)
(* the code speaks with it: stop and wait in both directions, resending    *)
(* the same frame until it is acknowledged.                                *)
(*                                                                         *)
(* UDP is two sets of datagrams.  A datagram may be delivered in any order,*)
(* lost (Lossy) or delivered more than once (Duplicating).  One assumption *)
(* is made on delay: a datagram of a frame is gone from the network before *)
(* SeqMod - 1 further frames have been acknowledged (Fresh).               *)
(***************************************************************************)
EXTENDS Integers, Sequences, FiniteSets

CONSTANTS
  SeqMod,         (* sequence numbers are unsigned chars: 256 in the code    *)
  Channels,       (* channel ids the device may grant, 0 is never one        *)
  Monitors,       (* the monitors on which clients wait for ack or confirm   *)
  MaxOutOfSync,   (* out-of-sync packets tolerated in a row: 3 in the code   *)
  MaxUnanswered,  (* unanswered heartbeats tolerated: 3 in the code          *)
  MaxBeats,       (* bound: heartbeat objects that exist at the same time    *)
  MaxFrames,      (* bound: frames the device starts                         *)
  MaxSends,       (* bound: calls of SendDataFrame                           *)
  MaxReconnects,  (* bound: calls of Reconnect                               *)
  MaxSessions,    (* bound: channels the device grants                       *)
  MaxLate,        (* bound: state responses in excess of requests            *)
  Lossy,          (* whether the network loses datagrams                     *)
  Duplicating,    (* whether the network delivers a datagram twice           *)
  ErrorAcks,      (* whether the device may answer a wrong sequence number   *)
                  (* with an error ack that carries sequence 0, as           *)
                  (* Emulator-ng and EIBRelay do                             *)
  DeviceFails,    (* whether the device may go down or close the channel     *)
  ServerCloses    (* whether the server shuts the connection down            *)

ASSUME SeqModAssumption   == SeqMod \in Nat /\ SeqMod >= 2
ASSUME ChannelsAssumption == Channels \subseteq Nat \ {0}
ASSUME BoundsAssumption   ==
  /\ MaxBeats \in Nat \ {0}
  /\ {MaxOutOfSync, MaxUnanswered} \subseteq Nat
  /\ {MaxFrames, MaxSends, MaxReconnects, MaxSessions, MaxLate} \subseteq Nat
  /\ {Lossy, Duplicating, ErrorAcks, DeviceFails, ServerCloses} \subseteq BOOLEAN

VARIABLES
  status,                (* _connection_status                               *)
  channelid,             (* _state._channelid                                *)
  recv_sequence,         (* _state._recv_sequence                            *)
  send_sequence,         (* _state._send_sequence                            *)
  num_out_of_sync,       (* _num_out_of_sync_pkts                            *)
  waiting_for_acks,      (* _waiting_for_acks as a set of <<key, monitor>>   *)
  waiting_for_confirms,  (* _waiting_for_confirms, likewise                  *)
  heartbeat,             (* the _heartbeat pointer: a beat or NULL           *)
  beats,                 (* every CTunnelHeartBeat object                    *)
  pc,                    (* where the admin and reader threads are           *)
  writer,                (* the element SendDataFrame is about to send       *)
  toServer,              (* datagrams on their way to _data_sock             *)
  toDevice,              (* datagrams on their way to the device             *)
  dev,                   (* the device                                       *)
  accepted,              (* history: ids of the frames the server accepted   *)
  history                (* history: counters of the events bounded above    *)

conn == <<status, channelid, recv_sequence, send_sequence, num_out_of_sync>>
maps == <<waiting_for_acks, waiting_for_confirms>>
hb   == <<heartbeat, beats>>
net  == <<toServer, toDevice>>
vars == <<conn, maps, hb, pc, writer, net, dev, accepted, history>>

NULL    == 0
SeqNo   == 0 .. SeqMod - 1
Inc(s)  == (s + 1) % SeqMod
BeatIds == 1 .. MaxBeats
Threads == {"admin", "reader"}

(* Message codes of a cEMI frame; a confirmation is positive or negative.   *)
Codes == {"L_DATA_IND", "CON_POSITIVE", "CON_NEGATIVE"}

(* BlockingMode of EibNetwork.h.                                            *)
Modes == {"NON_BLOCKING", "WAIT_FOR_ACK", "WAIT_FOR_CONFRM"}
Elems == [mode : Modes, mon : Monitors]
NoElem == [mode |-> "NONE"]

(***************************************************************************)
(* Datagrams.  "id" is not on the wire: it numbers the frames of a         *)
(* direction so that properties can tell a frame from its duplicates.      *)
(***************************************************************************)
Types == {"CONNECT_REQUEST", "CONNECT_RESPONSE", "CONNECT_ERROR",
          "DISCONNECT_REQUEST", "DISCONNECT_RESPONSE",
          "CONNECTIONSTATE_REQUEST", "CONNECTIONSTATE_RESPONSE",
          "CONNECTIONSTATE_ERROR", "TUNNELLING_REQUEST", "TUNNELLING_ACK"}

Datagram == [type : Types, ch : Channels \cup {0}, seq : SeqNo, id : Nat,
             mc : Codes \cup {"NONE"}]

Control(t, c)   == [type |-> t, ch |-> c, seq |-> 0, id |-> 0, mc |-> "NONE"]
Request(c, s, i, code) ==
  [type |-> "TUNNELLING_REQUEST", ch |-> c, seq |-> s, id |-> i, mc |-> code]
Ack(c, s, i) ==
  [type |-> "TUNNELLING_ACK", ch |-> c, seq |-> s, id |-> i, mc |-> "NONE"]

(* What is left of the network after m has been delivered from it.          *)
AfterDelivery(network, m) ==
  {network \ {m}} \cup (IF Duplicating THEN {network} ELSE {})

(* The datagrams of kind t still in the network once frame n is current.    *)
Fresh(network, t, n) ==
  {m \in network : m.type = t => m.id + SeqMod - 1 > n}

-----------------------------------------------------------------------------
(***************************************************************************)
(* Initial state: the objects are constructed, nothing is connected, and   *)
(* the admin thread is about to call Connect.                              *)
(***************************************************************************)
InitialDevice ==
  [ch |-> 0, send |-> 0, recv |-> 0, id |-> 0, mc |-> "NONE", todo |-> 0,
   up |-> TRUE]

Init ==
  /\ status = "DISCONNECTED"
  /\ channelid = 0
  /\ recv_sequence = 0
  /\ send_sequence = 0
  /\ num_out_of_sync = 0
  /\ waiting_for_acks = {}
  /\ waiting_for_confirms = {}
  /\ heartbeat = 1
  /\ beats = [b \in BeatIds |->
                [pc |-> IF b = 1 THEN "new" ELSE "dead", counter |-> 0, ch |-> 0]]
  /\ pc = [admin |-> "con_send", reader |-> "off"]
  /\ writer = NoElem
  /\ toServer = {}
  /\ toDevice = {}
  /\ dev = InitialDevice
  /\ accepted = <<>>
  /\ history = [sends |-> 0, reconnects |-> 0, sessions |-> 0, epoch |-> 0,
                acked |-> 0]

Goto(t, label) == pc' = [pc EXCEPT ![t] = label]

(* Where a thread is after Connect or DisConnect.                           *)
AfterConnect(t)    == pc' = [pc EXCEPT ![t] = IF t = "admin" THEN "up" ELSE "idle",
                                       !["reader"] = "idle"]
AfterFailure(t)    == Goto(t, IF t = "admin" THEN "failed" ELSE "idle")
AfterDisConnect(t) == Goto(t, IF t = "admin" THEN "closed" ELSE "con_send")

(* HandleTunnelRequest holds the connection's monitor while it reconnects.  *)
MonitorFree == pc["reader"] \in {"off", "idle"}

-----------------------------------------------------------------------------
(***************************************************************************)
(* Connect, in the admin thread at start-up and in the reader thread as    *)
(* part of Reconnect.                                                      *)
(***************************************************************************)
ConnectSend(t) ==
  /\ pc[t] = "con_send"
  /\ toDevice' = toDevice \cup {Control("CONNECT_REQUEST", 0)}
  /\ Goto(t, "con_recv")
  /\ UNCHANGED <<conn, maps, hb, writer, toServer, dev, accepted, history>>

(* RecvFrom returns whatever datagram comes first.  Parsing anything but a  *)
(* positive connect response as one throws.  A connection whose heartbeat   *)
(* is NULL gets a new one; starting one that was started before throws,     *)
(* after the channel id has been stored.                                    *)
NewBeat(b) ==
  IF heartbeat = NULL THEN beats[b].pc = "dead" ELSE b = heartbeat

ConnectRecv(t, m) ==
  /\ pc[t] = "con_recv"
  /\ toServer' \in AfterDelivery(toServer, m)
  /\ \/ /\ m.type # "CONNECT_RESPONSE"
        /\ AfterFailure(t)
        /\ UNCHANGED <<channelid, hb, history>>
     \/ /\ m.type = "CONNECT_RESPONSE"
        /\ channelid' = m.ch
        /\ history' = [history EXCEPT !.epoch = @ + 1]
        /\ \E b \in BeatIds :
             /\ NewBeat(b)
             /\ IF heartbeat = NULL \/ beats[b].pc = "new"
                THEN /\ heartbeat' = b
                     /\ beats' = [beats EXCEPT ![b] =
                                    [pc |-> "started", counter |-> 0, ch |-> 0]]
                     /\ Goto(t, "con_done")
                ELSE /\ AfterFailure(t)
                     /\ UNCHANGED hb
  /\ UNCHANGED <<status, recv_sequence, send_sequence, num_out_of_sync, maps,
                 writer, toDevice, dev, accepted>>

ConnectTimeout(t) ==
  /\ pc[t] = "con_recv"
  /\ AfterFailure(t)
  /\ UNCHANGED <<conn, maps, hb, writer, net, dev, accepted, history>>

(* The status is set only after the heartbeat thread was started.           *)
ConnectDone(t) ==
  /\ pc[t] = "con_done"
  /\ status' = "CONNECTED"
  /\ AfterConnect(t)
  /\ UNCHANGED <<channelid, recv_sequence, send_sequence, num_out_of_sync, maps,
                 hb, writer, net, dev, accepted, history>>

(***************************************************************************)
(* DisConnect, in the admin thread at shutdown and in the reader thread as *)
(* part of Reconnect.  It gives up waiting after two seconds, which may be *)
(* at any time.                                                            *)
(***************************************************************************)
DisConnectSend(t) ==
  /\ \/ t = "reader" /\ pc[t] = "sleep"
     \/ t = "admin" /\ pc[t] = "up" /\ ServerCloses
  /\ IF status = "CONNECTED"
     THEN /\ toDevice' = toDevice \cup {Control("DISCONNECT_REQUEST", channelid)}
          /\ Goto(t, "disc_sent")
     ELSE /\ AfterDisConnect(t)
          /\ UNCHANGED toDevice
  /\ UNCHANGED <<conn, maps, hb, writer, toServer, dev, accepted, history>>

(* _heartbeat->Close() only wakes the beat, and a beat may wake at any time.*)
(* Through a NULL pointer it kills the process.                             *)
DisConnectMark(t) ==
  /\ pc[t] = "disc_sent"
  /\ status' = "WAITING_DISCONNECT_RESPONSE"
  /\ Goto(t, IF heartbeat = NULL THEN "crashed" ELSE "disc_wait")
  /\ UNCHANGED <<channelid, recv_sequence, send_sequence, num_out_of_sync, maps,
                 hb, writer, net, dev, accepted, history>>

(* Mutant: the wait is for the status alone, however long it takes.         *)
DisConnectWaits(t) ==
  /\ pc[t] = "disc_wait" /\ status = "DISCONNECTED"
  /\ heartbeat' = NULL
  /\ AfterDisConnect(t)
  /\ UNCHANGED <<status, channelid, recv_sequence, send_sequence, num_out_of_sync, maps,
                 beats, writer, net, dev, accepted, history>>

DisConnectDone(t) ==
  /\ pc[t] = "disc_wait"
  /\ status' = "DISCONNECTED"
  /\ heartbeat' = NULL
  /\ AfterDisConnect(t)
  /\ UNCHANGED <<channelid, recv_sequence, send_sequence, num_out_of_sync, maps,
                 beats, writer, net, dev, accepted, history>>

-----------------------------------------------------------------------------
(***************************************************************************)
(* The reader thread: ReceiveDataFrame takes one datagram and dispatches   *)
(* it.  It never looks at the status of the connection.                    *)
(***************************************************************************)
ResetState ==
  /\ channelid' = 0
  /\ recv_sequence' = 0
  /\ send_sequence' = 0
  /\ status' = "DISCONNECTED"

HandleDisconnectRequest(m) ==
  /\ m.type = "DISCONNECT_REQUEST"
  /\ IF m.ch # channelid
     THEN UNCHANGED <<conn, pc, toDevice>>
     ELSE /\ toDevice' = toDevice \cup {Control("DISCONNECT_RESPONSE", channelid)}
          /\ IF heartbeat = NULL
             THEN Goto("reader", "crashed") /\ UNCHANGED conn
             ELSE ResetState /\ UNCHANGED <<num_out_of_sync, pc>>
  /\ UNCHANGED <<maps, beats, accepted, history>>

(* A response for another channel is logged and obeyed all the same.        *)
HandleDisconnectResponse(m) ==
  /\ m.type = "DISCONNECT_RESPONSE"
  /\ ResetState
  /\ UNCHANGED <<num_out_of_sync, maps, beats, pc, toDevice, accepted, history>>

(* Mutant: any ack of the channel counts as the one that is awaited.        *)
HandleAnyAck(m) ==
  /\ m.type = "TUNNELLING_ACK"
  /\ IF m.ch = channelid
     THEN /\ send_sequence' = Inc(send_sequence)
          /\ history' = [history EXCEPT !.acked = @ + 1]
     ELSE UNCHANGED <<send_sequence, history>>
  /\ UNCHANGED <<status, channelid, recv_sequence, num_out_of_sync, maps, beats,
                 pc, accepted, toDevice>>

(* The status byte of the ack is not looked at.  When a monitor is          *)
(* registered under the new sequence number, the JTCSynchronized that should*)
(* lock it is a temporary and releases it at once, notify() then throws     *)
(* because the caller does not own the monitor, and erase() is not reached: *)
(* the registration stays and nobody is woken.                              *)
HandleTunnelingAck(m) ==
  /\ m.type = "TUNNELLING_ACK"
  /\ IF m.ch = channelid /\ m.seq = send_sequence
     THEN /\ send_sequence' = Inc(send_sequence)
          /\ history' = [history EXCEPT !.acked = @ + 1]
          /\ toDevice' = Fresh(toDevice, "TUNNELLING_REQUEST", history.acked + 1)
     ELSE UNCHANGED <<send_sequence, history, toDevice>>
  /\ UNCHANGED <<status, channelid, recv_sequence, num_out_of_sync, maps, beats,
                 pc, accepted>>

(* --_counter without the beat's monitor, against ++_counter in the beat:   *)
(* while the beat is between reading and writing the counter either         *)
(* modification can be lost.                                                *)
DecrementCounter(b) ==
  LET c == beats[b].counter IN
  \/ beats' = [beats EXCEPT ![b].counter = c - 1]
  \/ /\ beats[b].pc = "inc"
     /\ \/ UNCHANGED beats
        \/ beats' = [beats EXCEPT ![b].counter = c - 1, ![b].pc = "loop"]

HandleConnectionStateResponse(m) ==
  /\ \/ /\ m.type = "CONNECTIONSTATE_ERROR"
        /\ UNCHANGED <<beats, pc>>
     \/ /\ m.type = "CONNECTIONSTATE_RESPONSE"
        /\ IF heartbeat = NULL
           THEN Goto("reader", "crashed") /\ UNCHANGED beats
           ELSE /\ beats[heartbeat].counter > -MaxLate
                /\ DecrementCounter(heartbeat)
                /\ UNCHANGED pc
  /\ UNCHANGED <<conn, maps, toDevice, accepted, history>>

HandleUnknown(m) ==
  /\ m.type \in {"CONNECT_RESPONSE", "CONNECT_ERROR"}
  /\ UNCHANGED <<conn, maps, beats, pc, toDevice, accepted, history>>

(***************************************************************************)
(* HandleTunnelRequest.  The comparison with the previous sequence number  *)
(* is made on ints: 255 + 1 is never equal to an unsigned char.            *)
(***************************************************************************)
InSequence(m)  == m.seq = recv_sequence
IsPrevious(m)  == m.seq + 1 = recv_sequence

(* The confirm registrations that frame m, once accepted, releases.         *)
ReleasedConfirms(m) ==
  {w \in waiting_for_confirms :
      w[1] = Inc(recv_sequence) /\ m.mc \in {"CON_POSITIVE", "CON_NEGATIVE"}}

(* Mutant: the frame is acknowledged, and not handed on.                    *)
AcceptFrameAckOnly(m) ==
  /\ InSequence(m)
  /\ num_out_of_sync' = 0
  /\ toDevice' = toDevice \cup {Ack(m.ch, m.seq, m.id)}
  /\ recv_sequence' = Inc(recv_sequence)
  /\ UNCHANGED <<accepted, waiting_for_confirms, pc, history>>

AcceptFrame(m) ==
  /\ InSequence(m)
  /\ num_out_of_sync' = 0
  /\ toDevice' = toDevice \cup {Ack(m.ch, m.seq, m.id)}
  /\ recv_sequence' = Inc(recv_sequence)
  /\ accepted' = Append(accepted, m.id)
  /\ waiting_for_confirms' = waiting_for_confirms \ ReleasedConfirms(m)
  /\ UNCHANGED <<pc, history>>

(* Mutant: a repeated frame is handed on once more.                         *)
AckPreviousHandsOn(m) ==
  /\ IsPrevious(m)
  /\ toDevice' = toDevice \cup {Ack(m.ch, m.seq, m.id)}
  /\ accepted' = Append(accepted, m.id)
  /\ UNCHANGED <<num_out_of_sync, recv_sequence, waiting_for_confirms, pc, history>>

(* Mutant: a repeated frame is ignored without an ack.                      *)
IgnorePrevious(m) ==
  /\ IsPrevious(m)
  /\ UNCHANGED <<toDevice, num_out_of_sync, recv_sequence, accepted,
                 waiting_for_confirms, pc, history>>

AckPrevious(m) ==
  /\ IsPrevious(m)
  /\ toDevice' = toDevice \cup {Ack(m.ch, m.seq, m.id)}
  /\ UNCHANGED <<num_out_of_sync, recv_sequence, accepted, waiting_for_confirms, pc,
                 history>>

CountOutOfSync(m) ==
  /\ ~InSequence(m) /\ ~IsPrevious(m)
  /\ num_out_of_sync' = num_out_of_sync + 1
  /\ IF num_out_of_sync' > MaxOutOfSync
     THEN /\ history.reconnects < MaxReconnects
          /\ history' = [history EXCEPT !.reconnects = @ + 1]
          /\ Goto("reader", "sleep")
     ELSE UNCHANGED <<pc, history>>
  /\ UNCHANGED <<toDevice, recv_sequence, accepted, waiting_for_confirms>>

HandleTunnelRequest(m) ==
  /\ m.type = "TUNNELLING_REQUEST"
  /\ \/ /\ m.ch # channelid
        /\ UNCHANGED <<num_out_of_sync, recv_sequence, toDevice, accepted,
                       waiting_for_confirms, pc, history>>
     \/ m.ch = channelid /\ (AcceptFrame(m) \/ AckPrevious(m) \/ CountOutOfSync(m))
  /\ UNCHANGED <<status, channelid, send_sequence, waiting_for_acks, beats>>

(* Acknowledging our request ends the life of much older datagrams of it.   *)
ReceiveDataFrame(m) ==
  /\ pc["reader"] = "idle"
  /\ \/ HandleDisconnectRequest(m) \/ HandleDisconnectResponse(m)
     \/ HandleTunnelingAck(m) \/ HandleConnectionStateResponse(m)
     \/ HandleUnknown(m) \/ HandleTunnelRequest(m)
  /\ \E rest \in AfterDelivery(toServer, m) :
       toServer' = Fresh(rest, "TUNNELLING_ACK", history'.acked)
  /\ UNCHANGED <<heartbeat, writer, dev>>

-----------------------------------------------------------------------------
(***************************************************************************)
(* The writer thread: SendDataFrame looks at the status, then waits for    *)
(* the connection's monitor and sends with whatever channel and sequence   *)
(* numbers it finds there.  It does not wait for the ack of an earlier     *)
(* request.                                                                *)
(***************************************************************************)
SendDataFrameCheck(elem) ==
  /\ pc["reader"] # "off"
  /\ writer = NoElem
  /\ status = "CONNECTED"
  /\ history.sends < MaxSends
  /\ history' = [history EXCEPT !.sends = @ + 1]
  /\ writer' = elem
  /\ UNCHANGED <<conn, maps, hb, pc, net, dev, accepted>>

(* map::insert leaves an existing registration alone.  The keys are ints    *)
(* one past an unsigned char: SeqMod itself is a key that no lookup finds.  *)
Register(map, key, mon) ==
  IF \E w \in map : w[1] = key THEN map ELSE map \cup {<<key, mon>>}

SendDataFrameLocked ==
  /\ writer # NoElem
  /\ MonitorFree
  /\ waiting_for_acks' =
       IF writer.mode = "WAIT_FOR_ACK"
       THEN Register(waiting_for_acks, send_sequence + 1, writer.mon)
       ELSE waiting_for_acks
  /\ waiting_for_confirms' =
       IF writer.mode = "WAIT_FOR_CONFRM"
       THEN Register(waiting_for_confirms, recv_sequence + 1, writer.mon)
       ELSE waiting_for_confirms
  /\ toDevice' = toDevice \cup
                   {Request(channelid, send_sequence, history.acked, "NONE")}
  /\ writer' = NoElem
  /\ UNCHANGED <<conn, hb, pc, toServer, dev, accepted, history>>

-----------------------------------------------------------------------------
(***************************************************************************)
(* CTunnelHeartBeat::run.  The thread reads the channel id once, when it   *)
(* starts, and sets the status of the connection when it ends, whatever    *)
(* has become of the connection meanwhile.                                 *)
(***************************************************************************)
BeatStart(b) ==
  /\ beats[b].pc = "started"
  /\ beats' = [beats EXCEPT ![b].pc = "loop", ![b].ch = channelid]
  /\ UNCHANGED <<conn, maps, heartbeat, pc, writer, net, dev, accepted, history>>

(* Mutant: the limit is tested one too late.                                *)
BeatLoopOneMore(b) ==
  /\ beats[b].pc = "loop"
  /\ IF status = "CONNECTED" /\ beats[b].counter # MaxUnanswered + 1
     THEN /\ toDevice' = toDevice \cup
                           {Control("CONNECTIONSTATE_REQUEST", beats[b].ch)}
          /\ beats' = [beats EXCEPT ![b].pc = "inc"]
     ELSE /\ beats' = [beats EXCEPT ![b].pc = "exit"]
          /\ UNCHANGED toDevice
  /\ UNCHANGED <<conn, maps, heartbeat, pc, writer, toServer, dev, accepted, history>>

(* One turn of the loop.  The minute between two turns, or the notify that  *)
(* cuts it short, passes while pc is "loop".                                *)
BeatLoop(b) ==
  /\ beats[b].pc = "loop"
  /\ IF status = "CONNECTED" /\ beats[b].counter # MaxUnanswered
     THEN /\ toDevice' = toDevice \cup
                           {Control("CONNECTIONSTATE_REQUEST", beats[b].ch)}
          /\ beats' = [beats EXCEPT ![b].pc = "inc"]
     ELSE /\ beats' = [beats EXCEPT ![b].pc = "exit"]
          /\ UNCHANGED toDevice
  /\ UNCHANGED <<conn, maps, heartbeat, pc, writer, toServer, dev, accepted, history>>

(* Mutant: unanswered requests are not counted.                             *)
BeatNoInc(b) ==
  /\ beats[b].pc = "inc"
  /\ beats' = [beats EXCEPT ![b].pc = "loop"]
  /\ UNCHANGED <<conn, maps, heartbeat, pc, writer, net, dev, accepted, history>>

BeatInc(b) ==
  /\ beats[b].pc = "inc"
  /\ beats' = [beats EXCEPT ![b].pc = "loop", ![b].counter = @ + 1]
  /\ UNCHANGED <<conn, maps, heartbeat, pc, writer, net, dev, accepted, history>>

BeatExit(b) ==
  /\ beats[b].pc = "exit"
  /\ status' = "DISCONNECTED"
  /\ beats' = [beats EXCEPT ![b].pc = "dead"]
  /\ UNCHANGED <<channelid, recv_sequence, send_sequence, num_out_of_sync, maps,
                 heartbeat, pc, writer, net, dev, accepted, history>>

-----------------------------------------------------------------------------
(***************************************************************************)
(* The device (external) and the network.                                  *)
(***************************************************************************)
DevReply(answer) == toServer' = toServer \cup answer

DevConnect(m) ==
  /\ m.type = "CONNECT_REQUEST"
  /\ IF dev.ch # 0
     THEN DevReply({Control("CONNECT_ERROR", 0)}) /\ UNCHANGED <<dev, history>>
     ELSE /\ history.sessions < MaxSessions
          /\ history' = [history EXCEPT !.sessions = @ + 1]
          /\ \E c \in Channels :
               /\ dev' = [dev EXCEPT !.ch = c, !.send = 0, !.recv = 0, !.mc = "NONE",
                                     !.todo = 0]
               /\ DevReply({Control("CONNECT_RESPONSE", c)})

DevDisconnectRequest(m) ==
  /\ m.type = "DISCONNECT_REQUEST"
  /\ DevReply({Control("DISCONNECT_RESPONSE", m.ch)})
  /\ dev' = IF m.ch = dev.ch THEN [dev EXCEPT !.ch = 0] ELSE dev
  /\ UNCHANGED history

DevConnectionState(m) ==
  /\ m.type = "CONNECTIONSTATE_REQUEST"
  /\ DevReply({Control(IF m.ch = dev.ch THEN "CONNECTIONSTATE_RESPONSE"
                                        ELSE "CONNECTIONSTATE_ERROR", m.ch)})
  /\ UNCHANGED <<dev, history>>

(* A new request is acknowledged and will be confirmed, the previous one is *)
(* acknowledged again, any other is refused.  Emulator-ng and EIBRelay      *)
(* refuse the previous one too.                                             *)
DevTunnelRequest(m) ==
  /\ m.type = "TUNNELLING_REQUEST"
  /\ IF m.ch # dev.ch \/ dev.ch = 0
     THEN UNCHANGED <<toServer, dev>>
     ELSE \/ /\ m.seq = dev.recv
             /\ dev' = [dev EXCEPT !.recv = Inc(@), !.todo = @ + 1]
             /\ DevReply({Ack(m.ch, m.seq, m.id)})
          \/ /\ Inc(m.seq) = dev.recv
             /\ DevReply({Ack(m.ch, m.seq, m.id)})
             /\ UNCHANGED dev
          \/ /\ m.seq # dev.recv /\ (Inc(m.seq) = dev.recv => ErrorAcks)
             /\ DevReply(IF ErrorAcks THEN {Ack(m.ch, 0, m.id)} ELSE {})
             /\ UNCHANGED dev
  /\ UNCHANGED history

(* The ack of the current frame lets the device go on to the next one; by   *)
(* then much older datagrams of this direction have left the network.       *)
DevAck(m) ==
  /\ m.type = "TUNNELLING_ACK"
  /\ IF dev.ch # 0 /\ m.ch = dev.ch /\ m.seq = dev.send /\ dev.mc # "NONE"
     THEN /\ dev' = [dev EXCEPT !.send = Inc(@), !.id = @ + 1, !.mc = "NONE"]
          /\ toServer' = Fresh(toServer, "TUNNELLING_REQUEST", dev.id + 1)
     ELSE UNCHANGED <<dev, toServer>>
  /\ UNCHANGED history

DevDisconnectResponse(m) ==
  /\ m.type = "DISCONNECT_RESPONSE"
  /\ UNCHANGED <<toServer, dev, history>>

DevReceive(m) ==
  /\ dev.up
  /\ \/ DevConnect(m) \/ DevDisconnectRequest(m) \/ DevConnectionState(m)
     \/ DevTunnelRequest(m) \/ DevAck(m) \/ DevDisconnectResponse(m)
  /\ \E rest \in AfterDelivery(toDevice, m) :
       toDevice' = Fresh(rest, "TUNNELLING_ACK", dev'.id)
  /\ UNCHANGED <<conn, maps, hb, pc, writer, accepted>>

(* A frame is started, its code fixed, and sent until it is acknowledged.   *)
DevTransmit ==
  /\ dev.up /\ dev.ch # 0
  /\ \/ /\ dev.mc = "NONE"
        /\ dev.id < MaxFrames
        /\ \E code \in Codes :
             /\ code # "L_DATA_IND" => dev.todo > 0
             /\ dev' = [dev EXCEPT !.mc = code,
                                   !.todo = IF code = "L_DATA_IND" THEN @ ELSE @ - 1]
     \/ dev.mc # "NONE" /\ UNCHANGED dev
  /\ DevReply({Request(dev.ch, dev.send, dev.id, dev'.mc)})
  /\ UNCHANGED <<conn, maps, hb, pc, writer, toDevice, accepted, history>>

DevClose ==
  /\ DeviceFails
  /\ dev.up /\ dev.ch # 0
  /\ DevReply({Control("DISCONNECT_REQUEST", dev.ch)})
  /\ dev' = [dev EXCEPT !.ch = 0]
  /\ UNCHANGED <<conn, maps, hb, pc, writer, toDevice, accepted, history>>

DevDown ==
  /\ DeviceFails
  /\ dev.up
  /\ dev' = [dev EXCEPT !.up = FALSE]
  /\ UNCHANGED <<conn, maps, hb, pc, writer, net, accepted, history>>

Lose ==
  /\ Lossy
  /\ \/ \E m \in toServer : toServer' = toServer \ {m} /\ UNCHANGED toDevice
     \/ \E m \in toDevice : toDevice' = toDevice \ {m} /\ UNCHANGED toServer
  /\ UNCHANGED <<conn, maps, hb, pc, writer, dev, accepted, history>>

-----------------------------------------------------------------------------
(* A thread that went through a NULL pointer has taken the process down.    *)
Running == \A t \in Threads : pc[t] # "crashed"

Connect(t) ==
  \/ ConnectSend(t) \/ ConnectTimeout(t) \/ ConnectDone(t)
  \/ \E m \in toServer : ConnectRecv(t, m)

DisConnect(t) == DisConnectSend(t) \/ DisConnectMark(t) \/ DisConnectDone(t)

HeartBeat(b) == BeatStart(b) \/ BeatLoop(b) \/ BeatInc(b) \/ BeatExit(b)

Reader == \E m \in toServer : ReceiveDataFrame(m)

SendDataFrame == (\E elem \in Elems : SendDataFrameCheck(elem)) \/ SendDataFrameLocked

Device == DevTransmit \/ DevClose \/ DevDown \/ \E m \in toDevice : DevReceive(m)

Next ==
  \/ /\ Running
     /\ \/ \E t \in Threads : Connect(t) \/ DisConnect(t)
        \/ \E b \in BeatIds : HeartBeat(b)
        \/ Reader
        \/ SendDataFrame
  \/ Device
  \/ Lose

Spec == Init /\ [][Next]_vars

(***************************************************************************)
(* Fairness.  Every thread keeps being scheduled and no timed wait lasts   *)
(* for ever (WF); a datagram that is sent again and again is delivered     *)
(* again and again even if some copies are lost (SF).  Nothing forces the  *)
(* device to fail or the server to shut down.                              *)
(***************************************************************************)
Fairness ==
  /\ \A t \in Threads :
       WF_vars(Running /\ (\/ Connect(t) \/ DisConnectMark(t) \/ DisConnectDone(t)
                           \/ t = "reader" /\ DisConnectSend(t)))
  /\ \A b \in BeatIds : WF_vars(Running /\ HeartBeat(b))
  /\ WF_vars(DevTransmit)
  /\ WF_vars(Running /\ SendDataFrameLocked)
  /\ WF_vars(Running /\ Reader)
  /\ WF_vars(\E m \in toDevice : DevReceive(m))
  /\ SF_vars(Running /\ \E m \in toServer : m.type = "TUNNELLING_REQUEST" /\ ReceiveDataFrame(m))
  /\ SF_vars(\E m \in toDevice : m.type = "TUNNELLING_ACK" /\ DevReceive(m))

FairSpec == Spec /\ Fairness

-----------------------------------------------------------------------------
(* The types of the variables: sequence numbers never leave an unsigned     *)
(* char, the pointers and program counters take only the values above.      *)
TypeOK ==
  /\ status \in {"CONNECTED", "WAITING_DISCONNECT_RESPONSE", "DISCONNECTED"}
  /\ channelid \in Channels \cup {0}
  /\ recv_sequence \in SeqNo /\ send_sequence \in SeqNo
  /\ num_out_of_sync \in Nat
  /\ waiting_for_acks \subseteq (1 .. SeqMod) \X Monitors
  /\ waiting_for_confirms \subseteq (1 .. SeqMod) \X Monitors
  /\ heartbeat \in BeatIds \cup {NULL}
  /\ beats \in [BeatIds -> [pc : {"new", "started", "loop", "inc", "exit", "dead"},
                            counter : Int, ch : Channels \cup {0}]]
  /\ pc \in [Threads -> {"off", "idle", "up", "sleep", "con_send", "con_recv",
                         "con_done", "disc_sent", "disc_wait", "failed", "closed",
                         "crashed"}]
  /\ writer \in Elems \cup {NoElem}
  /\ toServer \subseteq Datagram /\ toDevice \subseteq Datagram
  /\ dev \in [ch : Channels \cup {0}, send : SeqNo, recv : SeqNo, id : Nat,
              mc : Codes \cup {"NONE"}, todo : Nat, up : BOOLEAN]
  /\ accepted \in Seq(Nat)
  /\ history \in [sends : Nat, reconnects : Nat, sessions : Nat, epoch : Nat,
                  acked : Nat]

(* The properties of the two data directions are about the first connection:*)
(* Connect does not reset the sequence numbers for a later one.             *)
FirstConnection == history.sessions <= 1 /\ history.epoch <= 1

(* HandleTunnelRequest hands every frame of the device on at most once and  *)
(* in the order in which the device sent them, whatever the network does to *)
(* requests and acks, across the wrap of the sequence number.               *)
AcceptedInOrder ==
  FirstConnection => \A i \in 1 .. Len(accepted) : accepted[i] = i - 1

(* The device never believes a frame delivered that the server did not      *)
(* accept: the server acknowledges only what it accepts or has accepted,    *)
(* and is never more than one frame ahead of the device.                    *)
AckedWasAccepted ==
  FirstConnection => dev.id \in {Len(accepted) - 1, Len(accepted)}

(* The other direction: while both sides hold the channel the device expects*)
(* the sequence number the server will send, or already its successor.  With*)
(* error acks this holds until the number has wrapped: then the server, at 0*)
(* itself, takes a late error ack, which carries 0, for the ack it awaits.  *)
RequestsInStep ==
  /\ FirstConnection /\ channelid # 0 /\ dev.ch # 0
  /\ ErrorAcks => history.acked <= SeqMod
  => dev.recv \in {send_sequence, Inc(send_sequence)}

(* Reconnect, which the reader runs itself, always comes to its end, and the*)
(* reader takes datagrams again: nobody else is there to take the answer to *)
(* its disconnect request, and a heartbeat that ends may set the status that*)
(* it waits for, or may have ended before.                                  *)
ReconnectReturns == pc["reader"] = "sleep" ~> (pc["reader"] = "idle" \/ ~Running)

(* The heartbeat tests its counter for equality with its limit while another*)
(* thread decrements it without a lock: it never jumps over the limit.      *)
HeartbeatBounded == \A b \in BeatIds : beats[b].counter <= MaxUnanswered

(* A heartbeat that is running notices that the device is gone, and the     *)
(* connection stops counting as connected.                                  *)
DeadDeviceDetected ==
  \A b \in BeatIds :
    (~dev.up /\ heartbeat = b /\ beats[b].pc = "loop" /\ status = "CONNECTED")
      ~> (status # "CONNECTED" \/ ~Running)

(* With acks and frames lost, every frame the device starts on the channel  *)
(* is acknowledged in the end, unless the device goes down or either side   *)
(* gives the channel up.  A device that resends is all it takes.  The frame *)
(* before a wrap of the sequence number is excepted: DuplicateAcknowledged. *)
FramesGetThrough ==
  \A n \in 0 .. MaxFrames - 1 :
    (/\ dev.id = n /\ dev.mc # "NONE" /\ dev.send # SeqMod - 1
     /\ channelid = dev.ch /\ status = "CONNECTED")
      ~> (dev.id > n \/ ~dev.up \/ dev.ch = 0 \/ status # "CONNECTED")

-----------------------------------------------------------------------------
(***************************************************************************)
(* Claims of the source that the source does not keep.                     *)
(***************************************************************************)
(* "get the connect response" (TunnelConnection.cpp:53): what Reconnect     *)
(* takes for the connect response is an answer to its connect request, and  *)
(* not, say, the answer to the disconnect request it sent just before.      *)
ConnectReadsConnectResponse ==
  [][\A m \in toServer :
       ConnectRecv("reader", m) =>
         m.type \in {"CONNECT_RESPONSE", "CONNECT_ERROR"}]_vars

(* "we are totally out of sync. reconnect." (TunnelConnection.cpp:368): once*)
(* Reconnect has a new channel, both sides count from 0 on it again.        *)
ReconnectResynchronises ==
  pc["reader"] = "con_done" => recv_sequence = 0 /\ send_sequence = 0

(* "1 Minute wait before sending new" connection state request              *)
(* (TunnelConnection.cpp:508): a tunnel that is connected has a heartbeat   *)
(* that asks for it again.                                                 *)
ConnectedIsWatched ==
  status = "CONNECTED" => \E b \in BeatIds : beats[b].pc \notin {"new", "dead"}

(* "Tunnel connection with EIB Device is now closed." (TunnelConnection.cpp:*)
(* 524): the heartbeat that says so ends its own connection, and not the one*)
(* that has replaced it.                                                    *)
EndsItsOwnConnection ==
  [][\A b \in BeatIds : BeatExit(b) /\ status = "CONNECTED" => b = heartbeat]_vars

(* "released when ack/confirmation is received" (EIBHandler.h:64): the ack  *)
(* of a request ends the registration of the monitor that waits for it.     *)
AckReleases ==
  [][\A m \in toServer :
       (ReceiveDataFrame(m) /\ HandleTunnelingAck(m) /\ send_sequence' # send_sequence)
         => \A w \in waiting_for_acks' : w[1] # send_sequence']_vars

(* "[sending ack but ignoring frame]" (TunnelConnection.cpp:357): a repeated*)
(* request for the frame accepted last is acknowledged again.               *)
DuplicateAcknowledged ==
  [][\A m \in toServer :
       (/\ m.type = "TUNNELLING_REQUEST" /\ m.ch = channelid
        /\ accepted # <<>> /\ m.id = accepted[Len(accepted)]
        /\ ReceiveDataFrame(m))
         => Ack(m.ch, m.seq, m.id) \in toDevice']_vars
=============================================================================
