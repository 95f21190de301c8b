----------------------- MODULE TunnelConnectionProofs -----------------------
(***************************************************************************)
(* Types and the safety properties of the tunnelling connection, for every *)
(* modulus of the sequence numbers, every set of channels, every bound and *)
(* every behaviour of the network: the bound                               *)
(* on the heartbeat counter, no acceptance without a connection, and the   *)
(* in-order, exactly-once acceptance of the device's frames.               *)
(***************************************************************************)
EXTENDS TunnelConnection, ModularArithmetic, SequenceTheorems, TLAPS

(* Every datagram the model builds is one.                                  *)
LEMMA DatagramTypes ==
  /\ \A t \in Types, c \in Channels \cup {0} : Control(t, c) \in Datagram
  /\ \A c \in Channels \cup {0}, s \in SeqNo, i \in Nat, code \in Codes \cup {"NONE"} :
       Request(c, s, i, code) \in Datagram
  /\ \A c \in Channels \cup {0}, s \in SeqNo, i \in Nat : Ack(c, s, i) \in Datagram
<1>1. 0 \in SeqNo
  BY SeqModAssumption DEF SeqNo
<1>2. QED BY <1>1 DEF Control, Request, Ack, Datagram, Types

LEMMA IncType ==
  ASSUME NEW s \in SeqNo
  PROVE  Inc(s) \in SeqNo
BY SeqModAssumption DEF Inc, SeqNo

LEMMA NetworkShrinks ==
  ASSUME NEW network, NEW m
  PROVE  /\ \A rest \in AfterDelivery(network, m) : rest \subseteq network
         /\ \A t, n : Fresh(network, t, n) \subseteq network
<1>1. ASSUME NEW rest \in AfterDelivery(network, m) PROVE rest \subseteq network
  BY <1>1 DEF AfterDelivery
<1>2. ASSUME NEW t, NEW n PROVE Fresh(network, t, n) \subseteq network
  BY DEF Fresh
<1>3. QED BY <1>1, <1>2

(* The parts of TypeOK, as the actions change them.                         *)
ConnOK ==
  /\ status \in {"CONNECTED", "WAITING_DISCONNECT_RESPONSE", "DISCONNECTED"}
  /\ channelid \in Channels \cup {0}
  /\ recv_sequence \in SeqNo /\ send_sequence \in SeqNo
  /\ num_out_of_sync \in Nat
MapsOK ==
  /\ waiting_for_acks \subseteq (1 .. SeqMod) \X Monitors
  /\ waiting_for_confirms \subseteq (1 .. SeqMod) \X Monitors
BeatPCs == {"new", "started", "loop", "inc", "exit", "dead"}
HbOK ==
  /\ heartbeat \in BeatIds \cup {NULL}
  /\ beats \in [BeatIds -> [pc : BeatPCs, counter : Int, ch : Channels \cup {0}]]
Labels == {"off", "idle", "up", "sleep", "con_send", "con_recv", "con_done",
           "disc_sent", "disc_wait", "failed", "closed", "crashed"}
ThreadsOK == pc \in [Threads -> Labels] /\ writer \in Elems \cup {NoElem}
NetOK == toServer \subseteq Datagram /\ toDevice \subseteq Datagram
DevOK == dev \in [ch : Channels \cup {0}, send : SeqNo, recv : SeqNo, id : Nat,
                  mc : Codes \cup {"NONE"}, todo : Nat, up : BOOLEAN]
HistoryOK ==
  /\ accepted \in Seq(Nat)
  /\ history \in [sends : Nat, reconnects : Nat, sessions : Nat, epoch : Nat,
                  acked : Nat]

LEMMA TypeParts ==
  TypeOK <=> ConnOK /\ MapsOK /\ HbOK /\ ThreadsOK /\ NetOK /\ DevOK /\ HistoryOK
BY DEF TypeOK, ConnOK, MapsOK, HbOK, BeatPCs, ThreadsOK, Labels, NetOK, DevOK, HistoryOK

LEMMA InitTypes == Init => TypeOK
<1> SUFFICES ASSUME Init PROVE TypeOK
  OBVIOUS
<1> USE DEF Init
<1>1. 0 \in SeqNo /\ 1 \in BeatIds
  BY SeqModAssumption, BoundsAssumption DEF SeqNo, BeatIds
<1>2. ConnOK
  BY <1>1 DEF ConnOK
<1>3. MapsOK
  BY DEF MapsOK
<1>4. HbOK
  BY <1>1 DEF HbOK, BeatPCs
<1>5. ThreadsOK
  BY DEF ThreadsOK, Threads, Labels
<1>6. NetOK
  BY DEF NetOK
<1>7. DevOK
  BY <1>1 DEF DevOK, InitialDevice
<1>8. HistoryOK
  BY DEF HistoryOK
<1>9. QED BY <1>2, <1>3, <1>4, <1>5, <1>6, <1>7, <1>8, TypeParts

TypesOK == ConnOK /\ MapsOK /\ HbOK /\ ThreadsOK /\ NetOK /\ DevOK /\ HistoryOK

(* What an action leaves alone keeps its type.                              *)
LEMMA Untouched ==
  ASSUME TypesOK
  PROVE  /\ UNCHANGED conn => ConnOK'
         /\ UNCHANGED maps => MapsOK'
         /\ UNCHANGED hb => HbOK'
         /\ UNCHANGED <<pc, writer>> => ThreadsOK'
         /\ UNCHANGED net => NetOK'
         /\ UNCHANGED dev => DevOK'
         /\ UNCHANGED <<accepted, history>> => HistoryOK'
<1> USE DEF TypesOK
<1>1. UNCHANGED conn => ConnOK'
  BY DEF ConnOK, conn
<1>2. UNCHANGED maps => MapsOK'
  BY DEF MapsOK, maps
<1>3. UNCHANGED hb => HbOK'
  BY DEF HbOK, hb
<1>4. UNCHANGED <<pc, writer>> => ThreadsOK'
  BY DEF ThreadsOK
<1>5. UNCHANGED net => NetOK'
  BY DEF NetOK, net
<1>6. UNCHANGED dev => DevOK'
  BY DEF DevOK
<1>7. UNCHANGED <<accepted, history>> => HistoryOK'
  BY DEF HistoryOK
<1>8. QED BY <1>1, <1>2, <1>3, <1>4, <1>5, <1>6, <1>7

(* A thread that goes to a label, the writer left alone.                    *)
LEMMA GotoTypes ==
  ASSUME TypesOK, NEW t \in Threads, NEW l \in Labels, Goto(t, l), UNCHANGED writer
  PROVE  ThreadsOK'
BY DEF TypesOK, ThreadsOK, Goto

(* A network that gains control datagrams or loses datagrams.               *)
LEMMA SendControlTypes ==
  ASSUME TypesOK, NEW t \in Types, NEW c \in Channels \cup {0},
         toDevice' = toDevice \cup {Control(t, c)}, UNCHANGED toServer
  PROVE  NetOK'
<1>1. Control(t, c) \in Datagram
  BY DatagramTypes
<1>2. QED BY <1>1 DEF TypesOK, NetOK

LEMMA DeliveredTypes ==
  ASSUME TypesOK, NEW m, toServer' \in AfterDelivery(toServer, m), UNCHANGED toDevice
  PROVE  NetOK'
BY NetworkShrinks DEF TypesOK, NetOK

-----------------------------------------------------------------------------
(* Connect and DisConnect.                                                  *)
LEMMA ConnectTypes ==
  ASSUME TypesOK, NEW t \in Threads, Connect(t)
  PROVE  TypesOK'
<1>1. CASE ConnectSend(t)
  <2>1. NetOK'
    BY <1>1, SendControlTypes DEF ConnectSend, Types
  <2>2. ThreadsOK'
    BY <1>1, GotoTypes DEF ConnectSend, Labels
  <2>3. UNCHANGED <<conn, maps, hb, dev, accepted, history>>
    BY <1>1 DEF ConnectSend
  <2>4. QED BY <2>1, <2>2, <2>3, Untouched DEF TypesOK
<1>2. CASE ConnectTimeout(t)
  <2>1. ThreadsOK'
    BY <1>2, GotoTypes DEF ConnectTimeout, AfterFailure, Labels
  <2>2. UNCHANGED <<conn, maps, hb, net, dev, accepted, history>>
    BY <1>2 DEF ConnectTimeout
  <2>3. QED BY <2>1, <2>2, Untouched DEF TypesOK
<1>3. CASE ConnectDone(t)
  <2>1. ThreadsOK'
    BY <1>3 DEF ConnectDone, AfterConnect, TypesOK, ThreadsOK, Threads, Labels
  <2>2. ConnOK'
    BY <1>3 DEF ConnectDone, TypesOK, ConnOK
  <2>3. UNCHANGED <<maps, hb, net, dev, accepted, history>>
    BY <1>3 DEF ConnectDone
  <2>4. QED BY <2>1, <2>2, <2>3, Untouched DEF TypesOK
<1>4. ASSUME NEW m \in toServer, ConnectRecv(t, m) PROVE TypesOK'
  <2> USE <1>4 DEF ConnectRecv
  <2>1. m \in Datagram
    BY DEF TypesOK, NetOK
  <2>2. NetOK'
    BY DeliveredTypes
  <2>3. UNCHANGED <<maps, writer, dev, accepted>>
    OBVIOUS
  <2>4. ConnOK'
    BY <2>1 DEF TypesOK, ConnOK, Datagram
  <2>5. CASE m.type # "CONNECT_RESPONSE"
    <3>1. ThreadsOK'
      BY <2>5, GotoTypes DEF AfterFailure, Labels
    <3>2. UNCHANGED hb /\ UNCHANGED history
      BY <2>5
    <3>3. QED BY <2>2, <2>3, <2>4, <3>1, <3>2, Untouched DEF TypesOK
  <2>6. CASE m.type = "CONNECT_RESPONSE"
    <3>1. HistoryOK'
      BY <2>6 DEF TypesOK, HistoryOK
    <3>2. PICK b \in BeatIds :
            \/ /\ heartbeat' = b
               /\ beats' = [beats EXCEPT ![b] =
                               [pc |-> "started", counter |-> 0, ch |-> 0]]
               /\ Goto(t, "con_done")
            \/ AfterFailure(t) /\ UNCHANGED hb
      BY <2>6
    <3>3. ThreadsOK'
      BY <3>2, GotoTypes DEF AfterFailure, Labels
    <3>4. HbOK'
      <4>1. CASE UNCHANGED hb
        BY <4>1, Untouched
      <4>2. CASE ~UNCHANGED hb
        BY <3>2, <4>2 DEF TypesOK, HbOK, BeatPCs
      <4>3. QED BY <4>1, <4>2
    <3>5. QED BY <2>2, <2>3, <2>4, <3>1, <3>3, <3>4, Untouched DEF TypesOK
  <2>7. QED BY <2>5, <2>6
<1>5. QED BY <1>1, <1>2, <1>3, <1>4 DEF Connect

LEMMA DisConnectTypes ==
  ASSUME TypesOK, NEW t \in Threads, DisConnect(t)
  PROVE  TypesOK'
<1>1. CASE DisConnectSend(t)
  <2> USE <1>1 DEF DisConnectSend
  <2>1. UNCHANGED <<conn, maps, hb, dev, accepted, history>>
    OBVIOUS
  <2>2. ThreadsOK'
    BY GotoTypes DEF AfterDisConnect, Labels
  <2>3. NetOK'
    <3>1. channelid \in Channels \cup {0}
      BY DEF TypesOK, ConnOK
    <3>2. CASE status = "CONNECTED"
      BY <3>1, <3>2, SendControlTypes DEF Types
    <3>3. CASE status # "CONNECTED"
      BY <3>3 DEF TypesOK, NetOK
    <3>4. QED BY <3>2, <3>3
  <2>4. QED BY <2>1, <2>2, <2>3, Untouched DEF TypesOK
<1>2. CASE DisConnectMark(t)
  <2>1. ThreadsOK'
    BY <1>2, GotoTypes DEF DisConnectMark, Labels
  <2>2. ConnOK'
    BY <1>2 DEF DisConnectMark, TypesOK, ConnOK
  <2>3. UNCHANGED <<maps, hb, net, dev, accepted, history>>
    BY <1>2 DEF DisConnectMark
  <2>4. QED BY <2>1, <2>2, <2>3, Untouched DEF TypesOK
<1>3. CASE DisConnectDone(t)
  <2>1. ThreadsOK'
    BY <1>3, GotoTypes DEF DisConnectDone, AfterDisConnect, Labels
  <2>2. ConnOK'
    BY <1>3 DEF DisConnectDone, TypesOK, ConnOK
  <2>3. HbOK'
    BY <1>3 DEF DisConnectDone, TypesOK, HbOK
  <2>4. UNCHANGED <<maps, net, dev, accepted, history>>
    BY <1>3 DEF DisConnectDone
  <2>5. QED BY <2>1, <2>2, <2>3, <2>4, Untouched DEF TypesOK
<1>4. QED BY <1>1, <1>2, <1>3 DEF DisConnect

-----------------------------------------------------------------------------
(* The heartbeats and the writer.                                           *)
LEMMA HeartBeatTypes ==
  ASSUME TypesOK, NEW b \in BeatIds, HeartBeat(b)
  PROVE  TypesOK'
<1>1. CASE BeatStart(b)
  <2>1. HbOK'
    BY <1>1 DEF BeatStart, TypesOK, HbOK, ConnOK, BeatPCs
  <2>2. UNCHANGED <<conn, maps, pc, writer, net, dev, accepted, history>>
    BY <1>1 DEF BeatStart
  <2>3. QED BY <2>1, <2>2, Untouched DEF TypesOK
<1>2. CASE BeatLoop(b)
  <2>1. HbOK'
    BY <1>2 DEF BeatLoop, TypesOK, HbOK, BeatPCs
  <2>2. NetOK'
    <3>1. beats[b].ch \in Channels \cup {0}
      BY DEF TypesOK, HbOK
    <3>2. CASE UNCHANGED toDevice
      BY <1>2, <3>2 DEF BeatLoop, TypesOK, NetOK
    <3>3. CASE toDevice' = toDevice \cup
                 {Control("CONNECTIONSTATE_REQUEST", beats[b].ch)}
      BY <1>2, <3>1, <3>3, SendControlTypes DEF BeatLoop, Types
    <3>4. QED BY <1>2, <3>2, <3>3 DEF BeatLoop
  <2>3. UNCHANGED <<conn, maps, pc, writer, dev, accepted, history>>
    BY <1>2 DEF BeatLoop
  <2>4. QED BY <2>1, <2>2, <2>3, Untouched DEF TypesOK
<1>3. CASE BeatInc(b)
  <2>1. HbOK'
    BY <1>3 DEF BeatInc, TypesOK, HbOK, BeatPCs
  <2>2. UNCHANGED <<conn, maps, pc, writer, net, dev, accepted, history>>
    BY <1>3 DEF BeatInc
  <2>3. QED BY <2>1, <2>2, Untouched DEF TypesOK
<1>4. CASE BeatExit(b)
  <2>1. HbOK'
    BY <1>4 DEF BeatExit, TypesOK, HbOK, BeatPCs
  <2>2. ConnOK'
    BY <1>4 DEF BeatExit, TypesOK, ConnOK
  <2>3. UNCHANGED <<maps, pc, writer, net, dev, accepted, history>>
    BY <1>4 DEF BeatExit
  <2>4. QED BY <2>1, <2>2, <2>3, Untouched DEF TypesOK
<1>5. QED BY <1>1, <1>2, <1>3, <1>4 DEF HeartBeat

LEMMA SendDataFrameTypes ==
  ASSUME TypesOK, SendDataFrame
  PROVE  TypesOK'
<1>1. ASSUME NEW elem \in Elems, SendDataFrameCheck(elem) PROVE TypesOK'
  <2>1. ThreadsOK'
    BY <1>1 DEF SendDataFrameCheck, TypesOK, ThreadsOK
  <2>2. HistoryOK'
    BY <1>1 DEF SendDataFrameCheck, TypesOK, HistoryOK
  <2>3. UNCHANGED <<conn, maps, hb, net, dev>>
    BY <1>1 DEF SendDataFrameCheck
  <2>4. QED BY <2>1, <2>2, <2>3, Untouched DEF TypesOK
<1>2. CASE SendDataFrameLocked
  <2> USE <1>2 DEF SendDataFrameLocked
  <2>1. channelid \in Channels \cup {0} /\ send_sequence \in SeqNo /\ recv_sequence \in SeqNo
    BY DEF TypesOK, ConnOK
  <2>2. history.acked \in Nat
    BY DEF TypesOK, HistoryOK
  <2>3. writer.mon \in Monitors
    BY DEF TypesOK, ThreadsOK, Elems
  <2>4. ASSUME NEW map, map \subseteq (1 .. SeqMod) \X Monitors, NEW s \in SeqNo
        PROVE  Register(map, s + 1, writer.mon) \subseteq (1 .. SeqMod) \X Monitors
    <3>1. s + 1 \in 1 .. SeqMod
      BY SeqModAssumption DEF SeqNo
    <3>2. QED BY <2>3, <2>4, <3>1 DEF Register
  <2>5. MapsOK'
    <3>1. waiting_for_acks' \subseteq (1 .. SeqMod) \X Monitors
      BY <2>1, <2>4 DEF TypesOK, MapsOK
    <3>2. waiting_for_confirms' \subseteq (1 .. SeqMod) \X Monitors
      BY <2>1, <2>4 DEF TypesOK, MapsOK
    <3>3. QED BY <3>1, <3>2 DEF MapsOK
  <2>6. NetOK'
    <3>1. Request(channelid, send_sequence, history.acked, "NONE") \in Datagram
      BY <2>1, <2>2, DatagramTypes
    <3>2. QED BY <3>1 DEF TypesOK, NetOK
  <2>7. ThreadsOK'
    BY DEF TypesOK, ThreadsOK
  <2>8. UNCHANGED <<conn, hb, dev, accepted, history>>
    OBVIOUS
  <2>9. QED BY <2>5, <2>6, <2>7, <2>8, Untouched DEF TypesOK
<1>3. QED BY <1>1, <1>2 DEF SendDataFrame

-----------------------------------------------------------------------------
(* The handlers of the reader.                                              *)
LEMMA ReaderTypes ==
  ASSUME TypesOK, NEW m \in toServer, ReceiveDataFrame(m)
  PROVE  TypesOK'
<1>1. m \in Datagram
  BY DEF TypesOK, NetOK
<1>2. UNCHANGED <<heartbeat, writer, dev>> /\ toServer' \subseteq Datagram
  <2>1. PICK rest \in AfterDelivery(toServer, m) :
          toServer' = Fresh(rest, "TUNNELLING_ACK", history'.acked)
    BY DEF ReceiveDataFrame
  <2>2. rest \subseteq toServer /\ toServer' \subseteq rest
    BY <2>1, NetworkShrinks
  <2>3. QED BY <2>2 DEF ReceiveDataFrame, TypesOK, NetOK
<1>3. DevOK'
  BY <1>2, Untouched
<1>4. 0 \in SeqNo
  BY SeqModAssumption DEF SeqNo
<1>5. ASSUME UNCHANGED pc PROVE ThreadsOK'
  BY <1>2, <1>5, Untouched
<1>6. ASSUME UNCHANGED beats PROVE HbOK'
  BY <1>2, <1>6, Untouched DEF hb
<1>7. ASSUME UNCHANGED toDevice PROVE NetOK'
  BY <1>2, <1>7 DEF TypesOK, NetOK
<1>8. ASSUME ResetState, UNCHANGED num_out_of_sync PROVE ConnOK'
  BY <1>4, <1>8 DEF ResetState, TypesOK, ConnOK
<1>9. ASSUME NEW l \in Labels, Goto("reader", l) PROVE ThreadsOK'
  BY <1>2, <1>9, GotoTypes DEF Threads
<1>10. CASE HandleDisconnectRequest(m)
  <2> USE <1>10 DEF HandleDisconnectRequest
  <2>1. NetOK'
    <3>1. CASE UNCHANGED toDevice
      BY <3>1, <1>7
    <3>2. CASE toDevice' = toDevice \cup {Control("DISCONNECT_RESPONSE", channelid)}
      <4>1. Control("DISCONNECT_RESPONSE", channelid) \in Datagram
        BY DatagramTypes DEF Types, TypesOK, ConnOK
      <4>2. QED BY <1>2, <3>2, <4>1 DEF TypesOK, NetOK
    <3>3. QED BY <3>1, <3>2
  <2>2. ConnOK' /\ ThreadsOK'
    <3>1. \/ UNCHANGED conn /\ UNCHANGED pc
          \/ Goto("reader", "crashed") /\ UNCHANGED conn
          \/ ResetState /\ UNCHANGED num_out_of_sync /\ UNCHANGED pc
      OBVIOUS
    <3>2. QED BY <3>1, <1>5, <1>8, <1>9, Untouched DEF Labels
  <2>3. UNCHANGED <<maps, beats, accepted, history>>
    OBVIOUS
  <2>4. QED BY <1>3, <1>6, <2>1, <2>2, <2>3, Untouched DEF TypesOK
<1>11. CASE HandleDisconnectResponse(m)
  <2>1. UNCHANGED <<maps, beats, pc, toDevice, accepted, history>> /\ ConnOK'
    BY <1>8, <1>11 DEF HandleDisconnectResponse
  <2>2. QED BY <1>3, <1>5, <1>6, <1>7, <2>1, Untouched DEF TypesOK
<1>12. CASE HandleTunnelingAck(m)
  <2> USE <1>12 DEF HandleTunnelingAck
  <2>1. UNCHANGED <<status, channelid, recv_sequence, num_out_of_sync, maps, beats,
                    pc, accepted>>
    OBVIOUS
  <2>2. ConnOK'
    BY IncType DEF TypesOK, ConnOK
  <2>3. HistoryOK'
    BY DEF TypesOK, HistoryOK
  <2>4. NetOK'
    <3>1. toDevice' \subseteq toDevice
      BY NetworkShrinks
    <3>2. QED BY <1>2, <3>1 DEF TypesOK, NetOK
  <2>5. QED BY <1>3, <1>5, <1>6, <2>1, <2>2, <2>3, <2>4, Untouched DEF TypesOK
<1>13. CASE HandleConnectionStateResponse(m)
  <2> USE <1>13 DEF HandleConnectionStateResponse
  <2>1. UNCHANGED <<conn, maps, toDevice, accepted, history>>
    OBVIOUS
  <2>2. ThreadsOK'
    BY <1>5, <1>9 DEF Labels
  <2>3. HbOK'
    <3>1. CASE UNCHANGED beats
      BY <3>1, <1>6
    <3>2. CASE ~UNCHANGED beats
      <4>1. heartbeat \in BeatIds /\ DecrementCounter(heartbeat)
        BY <3>2 DEF TypesOK, HbOK
      <4>2. QED BY <1>2, <4>1 DEF DecrementCounter, TypesOK, HbOK, BeatPCs
    <3>3. QED BY <3>1, <3>2
  <2>4. QED BY <1>3, <1>7, <2>1, <2>2, <2>3, Untouched DEF TypesOK
<1>14. CASE HandleUnknown(m)
  <2>1. UNCHANGED <<conn, maps, beats, pc, toDevice, accepted, history>>
    BY <1>14 DEF HandleUnknown
  <2>2. QED BY <1>3, <1>5, <1>6, <1>7, <2>1, Untouched DEF TypesOK
<1>15. CASE HandleTunnelRequest(m)
  <2> USE <1>15 DEF HandleTunnelRequest
  <2>1. UNCHANGED <<status, channelid, send_sequence, waiting_for_acks, beats>>
    OBVIOUS
  <2>2. Ack(m.ch, m.seq, m.id) \in Datagram /\ m.id \in Nat
    BY <1>1, DatagramTypes DEF Datagram
  <2>3. ASSUME toDevice' = toDevice \cup {Ack(m.ch, m.seq, m.id)} PROVE NetOK'
    BY <1>2, <2>2, <2>3 DEF TypesOK, NetOK
  <2>4. ASSUME UNCHANGED waiting_for_confirms PROVE MapsOK'
    BY <2>1, <2>4 DEF TypesOK, MapsOK
  <2>5. ASSUME UNCHANGED <<num_out_of_sync, recv_sequence>> PROVE ConnOK'
    BY <2>1, <2>5 DEF TypesOK, ConnOK
  <2>6. CASE UNCHANGED <<num_out_of_sync, recv_sequence, toDevice, accepted,
                         waiting_for_confirms, pc, history>>
    BY <1>3, <1>5, <1>6, <1>7, <2>1, <2>4, <2>5, <2>6, Untouched DEF TypesOK
  <2>7. CASE AcceptFrame(m)
    <3> USE <2>7 DEF AcceptFrame
    <3>1. ConnOK'
      BY <2>1, IncType DEF TypesOK, ConnOK
    <3>2. MapsOK'
      BY <2>1 DEF TypesOK, MapsOK
    <3>3. HistoryOK'
      BY <2>2 DEF TypesOK, HistoryOK
    <3>4. QED BY <1>3, <1>5, <1>6, <2>1, <2>3, <3>1, <3>2, <3>3, Untouched DEF TypesOK
  <2>8. CASE AckPrevious(m)
    BY <1>3, <1>5, <1>6, <2>1, <2>3, <2>4, <2>5, <2>8, Untouched DEF AckPrevious, TypesOK
  <2>9. CASE CountOutOfSync(m)
    <3> USE <2>9 DEF CountOutOfSync
    <3>1. ConnOK'
      BY <2>1 DEF TypesOK, ConnOK
    <3>2. HistoryOK'
      BY DEF TypesOK, HistoryOK
    <3>3. ThreadsOK'
      BY <1>5, <1>9 DEF Labels
    <3>4. QED BY <1>3, <1>6, <1>7, <2>1, <2>4, <3>1, <3>2, <3>3, Untouched DEF TypesOK
  <2>10. QED BY <2>6, <2>7, <2>8, <2>9
<1>16. QED
  BY <1>10, <1>11, <1>12, <1>13, <1>14, <1>15 DEF ReceiveDataFrame

-----------------------------------------------------------------------------
(* The device and the network.                                              *)
LEMMA DevTransmitTypes ==
  ASSUME TypesOK, DevTransmit
  PROVE  TypesOK'
<1> USE DEF DevTransmit
<1>1. UNCHANGED <<conn, maps, hb, pc, writer, toDevice, accepted, history>>
  OBVIOUS
<1>2. DevOK'
  <2>1. CASE UNCHANGED dev
    BY <2>1, Untouched
  <2>2. ASSUME NEW code \in Codes,
               code # "L_DATA_IND" => dev.todo > 0,
               dev' = [dev EXCEPT !.mc = code,
                                  !.todo = IF code = "L_DATA_IND" THEN @ ELSE @ - 1]
        PROVE  DevOK'
    <3>1. dev.todo \in Nat
      BY DEF TypesOK, DevOK
    <3>2. ASSUME NEW n \in Nat, dev' = [dev EXCEPT !.mc = code, !.todo = n]
          PROVE  DevOK'
      BY <3>2 DEF TypesOK, DevOK
    <3>3. CASE code = "L_DATA_IND"
      <4>1. dev' = [dev EXCEPT !.mc = code, !.todo = dev.todo]
        BY <2>2, <3>3
      <4>2. QED BY <3>1, <3>2, <4>1
    <3>4. CASE code # "L_DATA_IND"
      <4> HIDE DEF DevTransmit
      <4>0. dev.todo > 0
        BY <2>2, <3>4
      <4>1. dev.todo - 1 \in Nat
        BY <3>1, <4>0
      <4>2. dev' = [dev EXCEPT !.mc = code, !.todo = dev.todo - 1]
        BY <2>2, <3>4
      <4>3. QED BY <3>2, <4>1, <4>2
    <3>5. QED BY <3>3, <3>4
  <2>3. QED BY <2>1, <2>2
<1>3. NetOK'
  <2>1. Request(dev.ch, dev.send, dev.id, dev'.mc) \in Datagram
    BY <1>2, DatagramTypes DEF TypesOK, DevOK
  <2>2. QED BY <2>1 DEF DevReply, TypesOK, NetOK
<1>4. QED BY <1>1, <1>2, <1>3, Untouched DEF TypesOK

LEMMA DevReceiveTypes ==
  ASSUME TypesOK, NEW m \in toDevice, DevReceive(m)
  PROVE  TypesOK'
<1>1. m \in Datagram
  BY DEF TypesOK, NetOK
<1>2. UNCHANGED <<conn, maps, hb, pc, writer, accepted>> /\ toDevice' \subseteq Datagram
  <2>1. PICK rest \in AfterDelivery(toDevice, m) :
          toDevice' = Fresh(rest, "TUNNELLING_ACK", dev'.id)
    BY DEF DevReceive
  <2>2. rest \subseteq toDevice /\ toDevice' \subseteq rest
    BY <2>1, NetworkShrinks
  <2>3. QED BY <2>2 DEF DevReceive, TypesOK, NetOK
<1>3. ASSUME UNCHANGED toServer PROVE NetOK'
  BY <1>2, <1>3 DEF TypesOK, NetOK
<1>4. ASSUME NEW answer, answer \subseteq Datagram, DevReply(answer) PROVE NetOK'
  BY <1>2, <1>4 DEF DevReply, TypesOK, NetOK
<1>5. ASSUME UNCHANGED history PROVE HistoryOK'
  BY <1>2, <1>5, Untouched
<1>6. \A t \in Types, c \in Channels \cup {0} : {Control(t, c)} \subseteq Datagram
  BY DatagramTypes
<1>7. 0 \in SeqNo /\ m.ch \in Channels \cup {0} /\ m.seq \in SeqNo /\ m.id \in Nat
  BY <1>1, SeqModAssumption DEF Datagram, SeqNo
<1>8. {} \subseteq Datagram /\ {Ack(m.ch, m.seq, m.id)} \subseteq Datagram
      /\ {Ack(m.ch, 0, m.id)} \subseteq Datagram
  BY <1>7, DatagramTypes
<1>9. CASE DevConnect(m)
  <2>1. CASE DevReply({Control("CONNECT_ERROR", 0)}) /\ UNCHANGED <<dev, history>>
    BY <1>2, <1>4, <1>5, <1>6, <2>1, Untouched DEF Types, TypesOK
  <2>2. CASE dev.ch = 0
    <3>1. history' = [history EXCEPT !.sessions = @ + 1]
      BY <1>9, <2>2 DEF DevConnect
    <3>2. PICK c \in Channels :
            /\ dev' = [dev EXCEPT !.ch = c, !.send = 0, !.recv = 0, !.mc = "NONE",
                                  !.todo = 0]
            /\ DevReply({Control("CONNECT_RESPONSE", c)})
      BY <1>9, <2>2 DEF DevConnect
    <3>3. HistoryOK'
      BY <1>2, <3>1 DEF TypesOK, HistoryOK
    <3>4. DevOK'
      BY <1>7, <3>2 DEF TypesOK, DevOK
    <3>5. NetOK'
      BY <1>4, <1>6, <3>2 DEF Types
    <3>6. QED BY <1>2, <3>3, <3>4, <3>5, Untouched DEF TypesOK
  <2>3. QED BY <1>9, <2>1, <2>2 DEF DevConnect
<1>10. CASE DevDisconnectRequest(m)
  <2> USE <1>10 DEF DevDisconnectRequest
  <2>1. NetOK'
    BY <1>4, <1>6, <1>7 DEF Types
  <2>2. DevOK'
    BY DEF TypesOK, DevOK
  <2>3. QED BY <1>2, <1>5, <2>1, <2>2, Untouched DEF TypesOK
<1>11. CASE DevConnectionState(m)
  <2> USE <1>11 DEF DevConnectionState
  <2>1. NetOK'
    BY <1>4, <1>6, <1>7 DEF Types
  <2>2. QED BY <1>2, <1>5, <2>1, Untouched DEF TypesOK
<1>12. CASE DevTunnelRequest(m)
  <2> USE <1>12 DEF DevTunnelRequest
  <2>1. NetOK'
    <3>1. \/ UNCHANGED toServer \/ DevReply({})
          \/ DevReply({Ack(m.ch, m.seq, m.id)}) \/ DevReply({Ack(m.ch, 0, m.id)})
      OBVIOUS
    <3>2. QED BY <1>3, <1>4, <1>8, <3>1
  <2>2. DevOK'
    <3>1. UNCHANGED dev \/ dev' = [dev EXCEPT !.recv = Inc(@), !.todo = @ + 1]
      OBVIOUS
    <3>2. dev.recv \in SeqNo /\ dev.todo \in Nat
      BY DEF TypesOK, DevOK
    <3>3. Inc(dev.recv) \in SeqNo /\ dev.todo + 1 \in Nat
      BY <3>2, IncType
    <3>4. QED BY <3>1, <3>3 DEF TypesOK, DevOK
  <2>3. QED BY <1>2, <1>5, <2>1, <2>2, Untouched DEF TypesOK
<1>13. CASE DevAck(m)
  <2> USE <1>13 DEF DevAck
  <2>1. toServer' \subseteq toServer
    BY NetworkShrinks
  <2>2. NetOK'
    BY <1>2, <2>1 DEF TypesOK, NetOK
  <2>3. DevOK'
    <3>1. \/ UNCHANGED dev
          \/ dev' = [dev EXCEPT !.send = Inc(@), !.id = @ + 1, !.mc = "NONE"]
      OBVIOUS
    <3>2. dev.send \in SeqNo /\ dev.id \in Nat
      BY DEF TypesOK, DevOK
    <3>3. Inc(dev.send) \in SeqNo /\ dev.id + 1 \in Nat
      BY <3>2, IncType
    <3>4. QED BY <3>1, <3>3 DEF TypesOK, DevOK
  <2>4. QED BY <1>2, <1>5, <2>2, <2>3, Untouched DEF TypesOK
<1>14. CASE DevDisconnectResponse(m)
  BY <1>2, <1>3, <1>5, <1>14, Untouched DEF DevDisconnectResponse, TypesOK
<1>15. QED
  BY <1>9, <1>10, <1>11, <1>12, <1>13, <1>14 DEF DevReceive

LEMMA DeviceTypes ==
  ASSUME TypesOK, Device
  PROVE  TypesOK'
<1>1. CASE DevClose
  <2> USE <1>1 DEF DevClose
  <2>1. UNCHANGED <<conn, maps, hb, pc, writer, toDevice, accepted, history>>
    OBVIOUS
  <2>2. Control("DISCONNECT_REQUEST", dev.ch) \in Datagram
    BY DatagramTypes DEF Types, TypesOK, DevOK
  <2>3. NetOK' /\ DevOK'
    BY <2>2 DEF DevReply, TypesOK, NetOK, DevOK
  <2>4. QED BY <2>1, <2>3, Untouched DEF TypesOK
<1>2. CASE DevDown
  <2>1. UNCHANGED <<conn, maps, hb, pc, writer, net, accepted, history>>
    BY <1>2 DEF DevDown
  <2>2. DevOK'
    BY <1>2 DEF DevDown, TypesOK, DevOK
  <2>3. QED BY <2>1, <2>2, Untouched DEF TypesOK
<1>3. QED
  BY <1>1, <1>2, DevTransmitTypes, DevReceiveTypes DEF Device

LEMMA LoseTypes ==
  ASSUME TypesOK, Lose
  PROVE  TypesOK'
<1>1. UNCHANGED <<conn, maps, hb, pc, writer, dev, accepted, history>>
  BY DEF Lose
<1>2. toServer' \subseteq toServer /\ toDevice' \subseteq toDevice
  BY DEF Lose
<1>3. NetOK'
  BY <1>2 DEF TypesOK, NetOK
<1>4. QED BY <1>1, <1>3, Untouched DEF TypesOK

LEMMA StepTypes == TypesOK /\ [Next]_vars => TypesOK'
<1> SUFFICES ASSUME TypesOK, [Next]_vars PROVE TypesOK'
  OBVIOUS
<1>1. CASE UNCHANGED vars
  BY <1>1, Untouched DEF vars, TypesOK
<1>2. CASE Next
  BY <1>2, ConnectTypes, DisConnectTypes, HeartBeatTypes, SendDataFrameTypes,
     ReaderTypes, DeviceTypes, LoseTypes DEF Next, Reader
<1>3. QED BY <1>1, <1>2

LEMMA AlwaysTypes == Spec => []TypesOK
<1>1. Init => TypesOK
  BY InitTypes, TypeParts DEF TypesOK
<1>2. QED BY <1>1, StepTypes, PTL DEF Spec

(* Every variable of the connection keeps its type: above all, no sequence  *)
(* number leaves an unsigned char and _heartbeat is NULL or an object.      *)
THEOREM TypeCorrect == Spec => []TypeOK
<1>1. TypesOK => TypeOK
  BY TypeParts DEF TypesOK
<1>2. QED BY <1>1, AlwaysTypes, PTL

-----------------------------------------------------------------------------
(* The heartbeat.  Between the test of the counter and its increment the    *)
(* reader can only make it smaller, so the test for equality is never       *)
(* jumped over.                                                             *)
BeatInv ==
  \A b \in BeatIds :
    /\ beats[b].counter <= MaxUnanswered
    /\ beats[b].pc = "inc" => beats[b].counter < MaxUnanswered

LEMMA BeatsUntouched == BeatInv /\ UNCHANGED beats => BeatInv'
BY DEF BeatInv

LEMMA BeatStep ==
  ASSUME TypesOK, BeatInv, [Next]_vars
  PROVE  BeatInv'
<1>1. MaxUnanswered \in Nat
  BY BoundsAssumption
<1>2. beats \in [BeatIds -> [pc : BeatPCs, counter : Int, ch : Channels \cup {0}]]
  BY DEF TypesOK, HbOK
<1>3. ASSUME NEW t \in Threads, NEW m \in toServer, ConnectRecv(t, m) PROVE BeatInv'
  <2>1. CASE UNCHANGED beats
    BY <2>1, BeatsUntouched
  <2>2. CASE ~UNCHANGED beats
    <3>1. PICK b \in BeatIds :
            beats' = [beats EXCEPT ![b] = [pc |-> "started", counter |-> 0, ch |-> 0]]
      BY <1>3, <2>2 DEF ConnectRecv, hb
    <3>2. QED BY <1>1, <1>2, <3>1 DEF BeatInv
  <2>3. QED BY <2>1, <2>2
<1>4. ASSUME NEW t \in Threads, Connect(t) \/ DisConnect(t) PROVE BeatInv'
  BY <1>3, <1>4, BeatsUntouched
     DEF Connect, DisConnect, ConnectSend, ConnectTimeout, ConnectDone, DisConnectSend,
         DisConnectMark, DisConnectDone, hb
<1>5. ASSUME NEW b \in BeatIds, HeartBeat(b) PROVE BeatInv'
  <2>1. beats[b].counter \in Int /\ beats[b].counter <= MaxUnanswered
        /\ (beats[b].pc = "inc" => beats[b].counter < MaxUnanswered)
    BY <1>2 DEF BeatInv
  <2>2. CASE BeatStart(b)
    BY <1>2, <2>2 DEF BeatStart, BeatInv
  <2>3. CASE BeatLoop(b)
    <3>1. CASE beats' = [beats EXCEPT ![b].pc = "inc"] /\ beats[b].counter # MaxUnanswered
      <4>1. beats[b].counter < MaxUnanswered
        BY <1>1, <2>1, <3>1
      <4>2. QED BY <1>2, <3>1, <4>1 DEF BeatInv
    <3>2. CASE beats' = [beats EXCEPT ![b].pc = "exit"]
      BY <1>2, <3>2 DEF BeatInv
    <3>3. QED BY <2>3, <3>1, <3>2 DEF BeatLoop
  <2>4. CASE BeatInc(b)
    <3>1. beats[b].counter + 1 <= MaxUnanswered
      BY <1>1, <2>1, <2>4 DEF BeatInc
    <3>2. beats' = [beats EXCEPT ![b].pc = "loop", ![b].counter = beats[b].counter + 1]
      BY <2>4 DEF BeatInc
    <3>3. QED BY <1>2, <3>1, <3>2 DEF BeatInv
  <2>5. CASE BeatExit(b)
    BY <1>2, <2>5 DEF BeatExit, BeatInv
  <2>6. QED BY <1>5, <2>2, <2>3, <2>4, <2>5 DEF HeartBeat
<1>6. ASSUME NEW m \in toServer, ReceiveDataFrame(m) PROVE BeatInv'
  <2>1. CASE UNCHANGED beats
    BY <2>1, BeatsUntouched
  <2>2. CASE ~UNCHANGED beats
    <3>1. heartbeat \in BeatIds /\ DecrementCounter(heartbeat)
      BY <1>6, <2>2
         DEF ReceiveDataFrame, HandleDisconnectRequest, HandleDisconnectResponse,
             HandleTunnelingAck, HandleConnectionStateResponse, HandleUnknown,
             HandleTunnelRequest, TypesOK, HbOK
    <3> DEFINE b == heartbeat
    <3>2. beats[b].counter \in Int /\ beats[b].counter <= MaxUnanswered
          /\ (beats[b].pc = "inc" => beats[b].counter < MaxUnanswered)
      BY <1>2, <3>1 DEF BeatInv
    <3>3. beats[b].counter - 1 < MaxUnanswered
      BY <1>1, <3>2
    <3>4. \/ beats' = [beats EXCEPT ![b].counter = beats[b].counter - 1]
          \/ beats' = [beats EXCEPT ![b].counter = beats[b].counter - 1, ![b].pc = "loop"]
      BY <2>2, <3>1 DEF DecrementCounter
    <3>5. QED BY <1>1, <1>2, <3>1, <3>2, <3>3, <3>4 DEF BeatInv
  <2>3. QED BY <2>1, <2>2
<1>7. ASSUME SendDataFrame \/ Device \/ Lose PROVE BeatInv'
  BY <1>7, BeatsUntouched
     DEF SendDataFrame, SendDataFrameCheck, SendDataFrameLocked, Device, DevTransmit,
         DevClose, DevDown, DevReceive, Lose, hb
<1>8. CASE UNCHANGED vars
  BY <1>8, BeatsUntouched DEF vars, hb
<1>9. QED
  BY <1>4, <1>5, <1>6, <1>7, <1>8 DEF Next, Reader

(* CTunnelHeartBeat::run tests its counter for equality with the limit. The *)
(* counter never exceeds it, although the reader thread decrements it       *)
(* without a lock.                                                          *)
THEOREM HeartbeatNeverOvershoots == Spec => []HeartbeatBounded
<1>1. Init => BeatInv
  BY BoundsAssumption DEF Init, BeatInv
<1>2. TypesOK /\ BeatInv /\ [Next]_vars => BeatInv'
  BY BeatStep
<1>3. BeatInv => HeartbeatBounded
  BY DEF BeatInv, HeartbeatBounded
<1>4. QED BY <1>1, <1>2, <1>3, AlwaysTypes, PTL DEF Spec

-----------------------------------------------------------------------------
(***************************************************************************)
(* The frames of the device.  The invariant relates every datagram on the  *)
(* network to the number of frames the two sides have counted.  As long as *)
(* the identities it can carry lie less than SeqMod apart, its sequence    *)
(* number determines its identity.                                         *)
(***************************************************************************)
IsRequest(m) == m.type = "TUNNELLING_REQUEST"
IsAck(m)     == m.type = "TUNNELLING_ACK"

(* No request carries the channel id of a closed connection.                *)
Addressed == \A m \in toServer : IsRequest(m) => m.ch # 0

(* A request is for the current frame of the device, or a recent one.       *)
RequestsCurrent ==
  \A m \in toServer : IsRequest(m) =>
    /\ m.seq = m.id % SeqMod
    /\ m.id <= dev.id
    /\ dev.id < m.id + SeqMod - 1

(* An ack is for an accepted frame, the device's current one or a recent one.*)
AcksCurrent ==
  \A m \in toDevice : IsAck(m) =>
    /\ m.seq = m.id % SeqMod
    /\ m.id < Len(accepted)
    /\ dev.id < m.id + SeqMod - 1

DeviceInStep ==
  /\ dev.send = dev.id % SeqMod
  /\ history.sessions = 0 => dev.ch = 0 /\ dev.id = 0

ServerInStep ==
  /\ channelid # 0 => recv_sequence = Len(accepted) % SeqMod
  /\ history.epoch = 0 => channelid = 0 /\ recv_sequence = 0 /\ accepted = <<>>

Delivered ==
  /\ \A i \in 1 .. Len(accepted) : accepted[i] = i - 1
  /\ dev.id \in {Len(accepted) - 1, Len(accepted)}

InStep == RequestsCurrent /\ AcksCurrent /\ DeviceInStep /\ ServerInStep /\ Delivered

DataInv == Addressed /\ (FirstConnection => InStep)

LEMMA InitData == Init => DataInv
<1> SUFFICES ASSUME Init PROVE DataInv
  OBVIOUS
<1>1. Addressed /\ RequestsCurrent /\ AcksCurrent
  BY DEF Init, Addressed, RequestsCurrent, AcksCurrent
<1>2. DeviceInStep
  BY SeqModAssumption, SmallRemainder DEF Init, InitialDevice, DeviceInStep
<1>3. ServerInStep /\ Delivered
  BY DEF Init, InitialDevice, ServerInStep, Delivered
<1>4. QED BY <1>1, <1>2, <1>3 DEF DataInv, InStep

(* The counters of the history only grow.                                   *)
LEMMA StillFirst ==
  ASSUME TypesOK,
         history'.sessions \in {history.sessions, history.sessions + 1},
         history'.epoch \in {history.epoch, history.epoch + 1},
         FirstConnection'
  PROVE  FirstConnection
BY DEF TypesOK, HistoryOK, FirstConnection

(* Most steps count no frame and put no request or ack on the network; they *)
(* may drop datagrams and close the channel.                                *)
Quiet ==
  /\ dev'.id = dev.id /\ dev'.send = dev.send /\ dev'.ch \in {dev.ch, 0}
  /\ accepted' = accepted
  /\ \/ channelid' = channelid /\ recv_sequence' = recv_sequence
     \/ channelid' = 0 /\ recv_sequence' = 0
  /\ history'.sessions = history.sessions /\ history'.epoch = history.epoch
  /\ \A m \in toServer' : IsRequest(m) => m \in toServer
  /\ \A m \in toDevice' : IsAck(m) => m \in toDevice

LEMMA QuietKeeps ==
  ASSUME TypesOK, DataInv, Quiet
  PROVE  DataInv'
<1> USE DEF Quiet
<1>1. Addressed'
  BY DEF DataInv, Addressed
<1>2. ASSUME FirstConnection' PROVE InStep'
  <2>1. InStep
    BY <1>2, StillFirst DEF DataInv
  <2>2. RequestsCurrent' /\ AcksCurrent'
    BY <2>1 DEF InStep, RequestsCurrent, AcksCurrent
  <2>3. DeviceInStep' /\ ServerInStep' /\ Delivered'
    BY <2>1 DEF InStep, DeviceInStep, ServerInStep, Delivered
  <2>4. QED BY <2>2, <2>3 DEF InStep
<1>3. QED BY <1>1, <1>2 DEF DataInv

LEMMA ControlIsQuiet ==
  /\ \A t, c : Control(t, c).type = t
  /\ \A c, s, i : IsAck(Ack(c, s, i)) /\ ~IsRequest(Ack(c, s, i))
  /\ \A c, s, i, code : IsRequest(Request(c, s, i, code)) /\ ~IsAck(Request(c, s, i, code))
BY DEF Control, Ack, Request, IsAck, IsRequest

(* Connect counts from zero on the first channel it is given.               *)
LEMMA ConnectData ==
  ASSUME TypesOK, DataInv, NEW t \in Threads, Connect(t)
  PROVE  DataInv'
<1>1. CASE ConnectSend(t)
  <2>1. Quiet
    BY <1>1, ControlIsQuiet DEF ConnectSend, Quiet, IsAck, conn
  <2>2. QED BY <2>1, QuietKeeps
<1>2. CASE ConnectTimeout(t)
  <2>1. Quiet
    BY <1>2 DEF ConnectTimeout, Quiet, conn, net
  <2>2. QED BY <2>1, QuietKeeps
<1>3. CASE ConnectDone(t)
  <2>1. Quiet
    BY <1>3 DEF ConnectDone, Quiet, net
  <2>2. QED BY <2>1, QuietKeeps
<1>4. ASSUME NEW m \in toServer, ConnectRecv(t, m) PROVE DataInv'
  <2>1. /\ UNCHANGED <<recv_sequence, toDevice, dev, accepted>>
        /\ toServer' \subseteq toServer
    BY <1>4, NetworkShrinks DEF ConnectRecv
  <2>2. CASE UNCHANGED <<channelid, history>>
    <3>1. Quiet
      BY <2>1, <2>2 DEF Quiet
    <3>2. QED BY <3>1, QuietKeeps
  <2>3. CASE history' = [history EXCEPT !.epoch = @ + 1]
    <3>1. history'.epoch = history.epoch + 1 /\ history'.sessions = history.sessions
          /\ history.epoch \in Nat
      BY <2>3 DEF TypesOK, HistoryOK
    <3>2. Addressed'
      BY <2>1 DEF DataInv, Addressed
    <3>3. ASSUME FirstConnection' PROVE InStep'
      <4>1. FirstConnection /\ history.epoch = 0
        BY <3>1, <3>3, StillFirst DEF FirstConnection
      <4>2. InStep
        BY <4>1 DEF DataInv
      <4>3. RequestsCurrent' /\ AcksCurrent' /\ DeviceInStep' /\ Delivered'
        BY <2>1, <3>1, <4>2
           DEF InStep, RequestsCurrent, AcksCurrent, DeviceInStep, Delivered
      <4>4. ServerInStep'
        <5>1. recv_sequence' = 0 /\ accepted' = <<>>
          BY <2>1, <4>1, <4>2 DEF InStep, ServerInStep
        <5>2. 0 % SeqMod = 0
          BY SeqModAssumption, SmallRemainder
        <5>3. QED BY <3>1, <5>1, <5>2 DEF ServerInStep
      <4>5. QED BY <4>3, <4>4 DEF InStep
    <3>4. QED BY <3>2, <3>3 DEF DataInv
  <2>4. QED BY <1>4, <2>2, <2>3 DEF ConnectRecv
<1>5. QED BY <1>1, <1>2, <1>3, <1>4 DEF Connect

LEMMA DisConnectData ==
  ASSUME TypesOK, DataInv, NEW t \in Threads, DisConnect(t)
  PROVE  DataInv'
<1>1. CASE DisConnectSend(t)
  <2>1. Quiet
    BY <1>1, ControlIsQuiet DEF DisConnectSend, Quiet, IsAck, conn
  <2>2. QED BY <2>1, QuietKeeps
<1>2. CASE DisConnectMark(t) \/ DisConnectDone(t)
  <2>1. Quiet
    BY <1>2 DEF DisConnectMark, DisConnectDone, Quiet, net
  <2>2. QED BY <2>1, QuietKeeps
<1>3. QED BY <1>1, <1>2 DEF DisConnect

LEMMA HeartBeatData ==
  ASSUME TypesOK, DataInv, NEW b \in BeatIds, HeartBeat(b)
  PROVE  DataInv'
<1>1. CASE BeatLoop(b)
  <2>1. Quiet
    BY <1>1, ControlIsQuiet DEF BeatLoop, Quiet, IsAck, conn
  <2>2. QED BY <2>1, QuietKeeps
<1>2. CASE BeatStart(b) \/ BeatInc(b) \/ BeatExit(b)
  <2>1. Quiet
    BY <1>2 DEF BeatStart, BeatInc, BeatExit, Quiet, conn, net
  <2>2. QED BY <2>1, QuietKeeps
<1>3. QED BY <1>1, <1>2 DEF HeartBeat

LEMMA SendDataFrameData ==
  ASSUME TypesOK, DataInv, SendDataFrame
  PROVE  DataInv'
<1>1. ASSUME NEW elem \in Elems, SendDataFrameCheck(elem) PROVE DataInv'
  <2>1. history'.sessions = history.sessions /\ history'.epoch = history.epoch
    BY <1>1 DEF SendDataFrameCheck, TypesOK, HistoryOK
  <2>2. Quiet
    BY <1>1, <2>1 DEF SendDataFrameCheck, Quiet, conn, net
  <2>3. QED BY <2>2, QuietKeeps
<1>2. CASE SendDataFrameLocked
  <2>1. Quiet
    BY <1>2, ControlIsQuiet DEF SendDataFrameLocked, Quiet, conn
  <2>2. QED BY <2>1, QuietKeeps
<1>3. QED BY <1>1, <1>2 DEF SendDataFrame

LEMMA LoseData ==
  ASSUME TypesOK, DataInv, Lose
  PROVE  DataInv'
<1>1. Quiet
  BY DEF Lose, Quiet, conn
<1>2. QED BY <1>1, QuietKeeps

(* The handlers that do not deal with tunnelling requests.                  *)
LEMMA OtherHandlersQuiet ==
  ASSUME TypesOK, NEW m \in toServer, ReceiveDataFrame(m), ~HandleTunnelRequest(m)
  PROVE  Quiet
<1>1. toServer' \subseteq toServer /\ dev' = dev
  BY NetworkShrinks DEF ReceiveDataFrame
<1>2. CASE HandleDisconnectRequest(m)
  <2>1. \/ channelid' = channelid /\ recv_sequence' = recv_sequence
        \/ channelid' = 0 /\ recv_sequence' = 0
    BY <1>2 DEF HandleDisconnectRequest, ResetState, conn
  <2>2. UNCHANGED <<accepted, history>>
    BY <1>2 DEF HandleDisconnectRequest
  <2>3. \A d \in toDevice' : IsAck(d) => d \in toDevice
    BY <1>2, ControlIsQuiet DEF HandleDisconnectRequest, IsAck
  <2>4. QED BY <1>1, <2>1, <2>2, <2>3 DEF Quiet
<1>3. CASE HandleDisconnectResponse(m)
  BY <1>1, <1>3 DEF HandleDisconnectResponse, ResetState, Quiet
<1>4. CASE HandleTunnelingAck(m)
  <2>1. UNCHANGED <<channelid, recv_sequence, accepted>>
    BY <1>4 DEF HandleTunnelingAck
  <2>2. \/ toDevice' = toDevice
        \/ toDevice' = Fresh(toDevice, "TUNNELLING_REQUEST", history.acked + 1)
    BY <1>4 DEF HandleTunnelingAck
  <2>3. toDevice' \subseteq toDevice
    BY <2>2 DEF Fresh
  <2>4. history'.sessions = history.sessions /\ history'.epoch = history.epoch
    BY <1>4 DEF HandleTunnelingAck, TypesOK, HistoryOK
  <2>5. QED BY <1>1, <2>1, <2>3, <2>4 DEF Quiet
<1>5. CASE HandleConnectionStateResponse(m) \/ HandleUnknown(m)
  BY <1>1, <1>5 DEF HandleConnectionStateResponse, HandleUnknown, Quiet, conn
<1>6. QED
  BY <1>2, <1>3, <1>4, <1>5 DEF ReceiveDataFrame

(* The heart of the matter: a request that carries the expected sequence    *)
(* number carries the frame that comes next, and one that carries the       *)
(* number before it carries the frame accepted last.                        *)
LEMMA RequestIdentified ==
  ASSUME TypesOK, InStep, channelid # 0,
         NEW m \in toServer, IsRequest(m)
  PROVE  /\ InSequence(m) => m.id = Len(accepted) /\ dev.id = Len(accepted)
         /\ IsPrevious(m) => m.id = Len(accepted) - 1
<1> DEFINE L == Len(accepted)
<1>1. /\ L \in Nat /\ m.id \in Nat /\ dev.id \in Nat
      /\ m.seq = m.id % SeqMod
      /\ m.id <= dev.id /\ dev.id < m.id + SeqMod - 1
      /\ dev.id \in {L - 1, L}
      /\ recv_sequence = L % SeqMod
  BY DEF TypesOK, HistoryOK, NetOK, DevOK, Datagram, InStep, RequestsCurrent, ServerInStep,
         Delivered
<1>2. SeqMod \in Nat \ {0} /\ SeqMod >= 2
  BY SeqModAssumption
<1> HIDE DEF L
<1>3. ASSUME InSequence(m) PROVE m.id = L /\ dev.id = L
  <2>1. m.id % SeqMod = L % SeqMod
    BY <1>1, <1>3 DEF InSequence
  <2>2. m.id - L < SeqMod /\ L - m.id < SeqMod
    BY <1>1, <1>2
  <2>3. m.id = L
    BY <1>1, <1>2, <2>1, <2>2, CloseRemainders
  <2>4. QED BY <1>1, <2>3
<1>4. ASSUME IsPrevious(m) PROVE m.id = L - 1
  <2>1. (m.id % SeqMod) + 1 = L % SeqMod
    BY <1>1, <1>4 DEF IsPrevious
  <2>2. (m.id + 1) % SeqMod = L % SeqMod
    BY <1>1, <1>2, <2>1, SuccessorRemainder
  <2>3. (m.id + 1) - L < SeqMod /\ L - (m.id + 1) < SeqMod /\ m.id + 1 \in Nat
    BY <1>1, <1>2
  <2>4. m.id + 1 = L
    BY <1>1, <1>2, <2>2, <2>3, CloseRemainders
  <2>5. QED BY <1>1, <2>4
<1>5. QED BY <1>3, <1>4 DEF L

LEMMA TunnelRequestData ==
  ASSUME TypesOK, DataInv, NEW m \in toServer,
         ReceiveDataFrame(m), HandleTunnelRequest(m)
  PROVE  DataInv'
<1>1. /\ toServer' \subseteq toServer /\ UNCHANGED <<dev, channelid>>
      /\ IsRequest(m) /\ m.ch # 0
  BY NetworkShrinks
     DEF ReceiveDataFrame, HandleTunnelRequest, DataInv, Addressed, IsRequest
<1>2. Addressed'
  BY <1>1 DEF DataInv, Addressed
<1>3. CASE UNCHANGED <<recv_sequence, toDevice, accepted, history>>
  BY <1>1, <1>3, QuietKeeps DEF Quiet
<1>4. CASE m.ch = channelid /\ AcceptFrame(m)
  <2> USE <1>4 DEF AcceptFrame
  <2>1. ASSUME FirstConnection' PROVE InStep'
    <3>1. FirstConnection
      BY <2>1 DEF FirstConnection
    <3>2. InStep
      BY <3>1 DEF DataInv
    <3> DEFINE L == Len(accepted)
    <3>3. m.id = L /\ dev.id = L /\ m.seq = L % SeqMod
      BY <1>1, <3>2, RequestIdentified DEF InStep, RequestsCurrent
    <3>4. L \in Nat /\ accepted \in Seq(Nat)
      BY DEF TypesOK, HistoryOK
    <3>5. /\ Len(accepted') = L + 1
          /\ \A i \in 1 .. L + 1 : accepted'[i] = IF i = L + 1 THEN m.id ELSE accepted[i]
      BY <3>3, <3>4, AppendProperties
    <3>6. SeqMod \in Nat \ {0} /\ SeqMod >= 2
      BY SeqModAssumption
    <3>7. RequestsCurrent'
      BY <1>1, <3>2 DEF InStep, RequestsCurrent
    <3>8. AcksCurrent'
      <4>1. ASSUME NEW d \in toDevice', IsAck(d)
            PROVE  d.seq = d.id % SeqMod /\ d.id < L + 1 /\ dev.id < d.id + SeqMod - 1
        <5>1. CASE d \in toDevice
          <6>1. d.seq = d.id % SeqMod /\ d.id < L /\ dev.id < d.id + SeqMod - 1
            BY <3>2, <4>1, <5>1 DEF InStep, AcksCurrent
          <6>2. d.id \in Nat
            BY <5>1 DEF TypesOK, NetOK, Datagram
          <6>3. QED BY <3>4, <6>1, <6>2
        <5>2. CASE d = Ack(m.ch, m.seq, m.id)
          <6>1. d.seq = m.seq /\ d.id = m.id
            BY <5>2 DEF Ack
          <6>2. QED BY <3>3, <3>4, <3>6, <6>1
        <5>3. QED BY <4>1, <5>1, <5>2
      <4>2. QED BY <1>1, <3>5, <4>1 DEF AcksCurrent
    <3>9. DeviceInStep'
      BY <1>1, <3>2 DEF InStep, DeviceInStep
    <3>10. ServerInStep'
      <4>1. channelid # 0 /\ history.epoch # 0
        BY <1>1, <3>2 DEF InStep, ServerInStep
      <4>2. recv_sequence = L % SeqMod
        BY <3>2, <4>1 DEF InStep, ServerInStep
      <4>3. recv_sequence' = (L + 1) % SeqMod
        BY <3>4, <3>6, <4>2, NextRemainder DEF Inc
      <4>4. QED BY <1>1, <3>5, <4>1, <4>3 DEF ServerInStep
    <3>11. Delivered'
      <4>1. \A i \in 1 .. L + 1 : accepted'[i] = i - 1
        BY <3>2, <3>3, <3>4, <3>5 DEF InStep, Delivered
      <4>2. QED BY <1>1, <3>3, <3>4, <3>5, <4>1 DEF Delivered
    <3>12. QED BY <3>7, <3>8, <3>9, <3>10, <3>11 DEF InStep
  <2>2. QED BY <1>2, <2>1 DEF DataInv
<1>5. CASE m.ch = channelid /\ AckPrevious(m)
  <2> USE <1>5 DEF AckPrevious
  <2>1. ASSUME FirstConnection' PROVE InStep'
    <3>1. FirstConnection
      BY <2>1 DEF FirstConnection
    <3>2. InStep
      BY <3>1 DEF DataInv
    <3>3. /\ m.id = Len(accepted) - 1
          /\ m.seq = m.id % SeqMod /\ dev.id < m.id + SeqMod - 1
      BY <1>1, <3>2, RequestIdentified DEF InStep, RequestsCurrent
    <3>4. Len(accepted) \in Nat
      BY DEF TypesOK, HistoryOK
    <3>5. RequestsCurrent' /\ DeviceInStep' /\ ServerInStep' /\ Delivered'
      BY <1>1, <3>2
         DEF InStep, RequestsCurrent, DeviceInStep, ServerInStep, Delivered
    <3>6. AcksCurrent'
      <4>1. ASSUME NEW d \in toDevice', IsAck(d)
            PROVE  /\ d.seq = d.id % SeqMod /\ d.id < Len(accepted)
                   /\ dev.id < d.id + SeqMod - 1
        <5>1. CASE d \in toDevice
          BY <3>2, <4>1, <5>1 DEF InStep, AcksCurrent
        <5>2. CASE d = Ack(m.ch, m.seq, m.id)
          <6>1. d.seq = m.seq /\ d.id = m.id
            BY <5>2 DEF Ack
          <6>2. QED BY <3>3, <3>4, <6>1
        <5>3. QED BY <4>1, <5>1, <5>2
      <4>2. QED BY <1>1, <4>1 DEF AcksCurrent
    <3>7. QED BY <3>5, <3>6 DEF InStep
  <2>2. QED BY <1>2, <2>1 DEF DataInv
<1>6. CASE m.ch = channelid /\ CountOutOfSync(m)
  <2>1. history'.sessions = history.sessions /\ history'.epoch = history.epoch
    BY <1>6 DEF CountOutOfSync, TypesOK, HistoryOK
  <2>2. Quiet
    BY <1>1, <1>6, <2>1 DEF CountOutOfSync, Quiet
  <2>3. QED BY <2>2, QuietKeeps
<1>7. QED
  BY <1>3, <1>4, <1>5, <1>6 DEF HandleTunnelRequest

LEMMA ReaderData ==
  ASSUME TypesOK, DataInv, NEW m \in toServer, ReceiveDataFrame(m)
  PROVE  DataInv'
BY TunnelRequestData, OtherHandlersQuiet, QuietKeeps

(* The device sends its current frame again and again.                      *)
LEMMA DevTransmitData ==
  ASSUME TypesOK, DataInv, DevTransmit
  PROVE  DataInv'
<1> USE DEF DevTransmit
<1>1. /\ UNCHANGED <<channelid, recv_sequence, toDevice, accepted, history>>
      /\ dev.ch # 0
      /\ toServer' = toServer \cup {Request(dev.ch, dev.send, dev.id, dev'.mc)}
  BY DEF conn, DevReply
<1>2. dev'.ch = dev.ch /\ dev'.send = dev.send /\ dev'.id = dev.id
  <2>1. CASE UNCHANGED dev
    BY <2>1
  <2>2. ASSUME NEW code \in Codes,
               dev' = [dev EXCEPT !.mc = code,
                                  !.todo = IF code = "L_DATA_IND" THEN @ ELSE @ - 1]
        PROVE  dev'.ch = dev.ch /\ dev'.send = dev.send /\ dev'.id = dev.id
    BY <2>2 DEF TypesOK, DevOK
  <2>3. QED BY <2>1, <2>2
<1> HIDE DEF DevTransmit
<1>3. Addressed'
  BY <1>1 DEF DataInv, Addressed, Request
<1>4. ASSUME FirstConnection' PROVE InStep'
  <2>1. InStep
    BY <1>1, <1>4 DEF FirstConnection, DataInv
  <2>2. AcksCurrent' /\ DeviceInStep' /\ ServerInStep' /\ Delivered'
    BY <1>1, <1>2, <2>1 DEF InStep, AcksCurrent, DeviceInStep, ServerInStep, Delivered
  <2>3. RequestsCurrent'
    <3>1. ASSUME NEW m \in toServer', IsRequest(m)
          PROVE  m.seq = m.id % SeqMod /\ m.id <= dev.id /\ dev.id < m.id + SeqMod - 1
      <4>1. CASE m \in toServer
        BY <2>1, <3>1, <4>1 DEF InStep, RequestsCurrent
      <4>2. CASE m = Request(dev.ch, dev.send, dev.id, dev'.mc)
        <5>1. m.seq = dev.send /\ m.id = dev.id
          BY <4>2 DEF Request
        <5>2. dev.id \in Nat /\ dev.send = dev.id % SeqMod
          BY <2>1 DEF TypesOK, DevOK, InStep, DeviceInStep
        <5>3. QED BY <5>1, <5>2, SeqModAssumption
      <4>3. QED BY <1>1, <3>1, <4>1, <4>2
    <3>2. QED BY <1>2, <3>1 DEF RequestsCurrent
  <2>4. QED BY <2>2, <2>3 DEF InStep
<1>5. QED BY <1>3, <1>4 DEF DataInv

(* The ack that moves the device on is for its current frame.               *)
LEMMA DevAckData ==
  ASSUME TypesOK, DataInv, NEW m \in toDevice, DevReceive(m), DevAck(m)
  PROVE  DataInv'
<1>1. PICK rest \in AfterDelivery(toDevice, m) :
        toDevice' = Fresh(rest, "TUNNELLING_ACK", dev'.id)
  BY DEF DevReceive
<1>2. rest \subseteq toDevice /\ toDevice' \subseteq rest
  BY <1>1, NetworkShrinks
<1>3. UNCHANGED <<channelid, recv_sequence, accepted, history>>
  BY DEF DevReceive, DevAck, conn
<1>4. CASE UNCHANGED <<dev, toServer>>
  <2>1. Quiet
    BY <1>2, <1>3, <1>4 DEF Quiet
  <2>2. QED BY <2>1, QuietKeeps
<1>5. CASE /\ dev.ch # 0 /\ m.seq = dev.send
           /\ dev' = [dev EXCEPT !.send = Inc(@), !.id = @ + 1, !.mc = "NONE"]
           /\ toServer' = Fresh(toServer, "TUNNELLING_REQUEST", dev.id + 1)
  <2>1. Addressed'
    BY <1>5, NetworkShrinks DEF DataInv, Addressed
  <2>2. ASSUME FirstConnection' PROVE InStep'
    <3>1. InStep
      BY <1>3, <2>2 DEF FirstConnection, DataInv
    <3>2. dev'.send = Inc(dev.send) /\ dev'.id = dev.id + 1 /\ dev'.ch = dev.ch
      BY <1>5 DEF TypesOK, DevOK
    <3>3. SeqMod \in Nat \ {0} /\ SeqMod >= 2
      BY SeqModAssumption
    <3>4. dev.id = Len(accepted) - 1 /\ Len(accepted) \in Nat /\ dev.id \in Nat
      <4> DEFINE L == Len(accepted)
      <4>1. /\ L \in Nat /\ dev.id \in Nat /\ m.id \in Nat
            /\ dev.id \in {L - 1, L}
        BY <3>1 DEF TypesOK, HistoryOK, DevOK, NetOK, Datagram, InStep, Delivered
      <4>2. m.id % SeqMod = dev.id % SeqMod /\ m.id < L /\ dev.id < m.id + SeqMod - 1
        BY <1>5, <3>1 DEF DevAck, InStep, AcksCurrent, DeviceInStep, IsAck
      <4> HIDE DEF L
      <4>3. m.id - dev.id < SeqMod /\ dev.id - m.id < SeqMod
        BY <3>3, <4>1, <4>2
      <4>4. m.id = dev.id
        BY <3>3, <4>1, <4>2, <4>3, CloseRemainders
      <4>5. dev.id = L - 1
        BY <4>1, <4>2, <4>4
      <4>6. QED BY <4>1, <4>5 DEF L
    <3>5. RequestsCurrent'
      <4>1. ASSUME NEW d \in toServer', IsRequest(d)
            PROVE  /\ d.seq = d.id % SeqMod /\ d.id <= dev.id + 1
                   /\ dev.id + 1 < d.id + SeqMod - 1
        <5>1. d \in toServer /\ d.id + SeqMod - 1 > dev.id + 1
          BY <1>5, <4>1 DEF Fresh, IsRequest
        <5>2. d.seq = d.id % SeqMod /\ d.id <= dev.id
          BY <3>1, <4>1, <5>1 DEF InStep, RequestsCurrent
        <5>3. d.id \in Nat
          BY <5>1 DEF TypesOK, NetOK, Datagram
        <5>4. QED BY <3>3, <3>4, <5>1, <5>2, <5>3
      <4>2. QED BY <3>2, <4>1 DEF RequestsCurrent
    <3>6. AcksCurrent'
      <4>1. ASSUME NEW d \in toDevice', IsAck(d)
            PROVE  /\ d.seq = d.id % SeqMod /\ d.id < Len(accepted)
                   /\ dev.id + 1 < d.id + SeqMod - 1
        <5>1. d \in toDevice /\ d.id + SeqMod - 1 > dev.id + 1
          BY <1>1, <1>2, <3>2, <4>1 DEF Fresh, IsAck
        <5>2. d.seq = d.id % SeqMod /\ d.id < Len(accepted)
          BY <3>1, <4>1, <5>1 DEF InStep, AcksCurrent
        <5>3. d.id \in Nat
          BY <5>1 DEF TypesOK, NetOK, Datagram
        <5>4. QED BY <3>3, <3>4, <5>1, <5>2, <5>3
      <4>2. QED BY <1>3, <3>2, <4>1 DEF AcksCurrent
    <3>7. DeviceInStep'
      <4>1. dev'.send = (dev.id + 1) % SeqMod
        BY <3>1, <3>2, <3>3, <3>4, NextRemainder DEF InStep, DeviceInStep, Inc
      <4>2. history.sessions # 0
        BY <1>5, <3>1 DEF InStep, DeviceInStep
      <4>3. QED BY <1>3, <3>2, <4>1, <4>2 DEF DeviceInStep
    <3>8. ServerInStep' /\ Delivered'
      BY <1>3, <3>1, <3>2, <3>4 DEF InStep, ServerInStep, Delivered
    <3>9. QED BY <3>5, <3>6, <3>7, <3>8 DEF InStep
  <2>3. QED BY <2>1, <2>2 DEF DataInv
<1>6. QED BY <1>4, <1>5 DEF DevAck

(* A device that grants its first channel has sent nothing before.          *)
LEMMA DevConnectData ==
  ASSUME TypesOK, DataInv, NEW m \in toDevice, DevReceive(m), DevConnect(m)
  PROVE  DataInv'
<1>1. PICK rest \in AfterDelivery(toDevice, m) :
        toDevice' = Fresh(rest, "TUNNELLING_ACK", dev'.id)
  BY DEF DevReceive
<1>2. toDevice' \subseteq toDevice
  BY <1>1, NetworkShrinks
<1>3. UNCHANGED <<channelid, recv_sequence, accepted>>
  BY DEF DevReceive, conn
<1>4. ASSUME NEW d \in toServer', IsRequest(d) PROVE d \in toServer
  <2>1. ASSUME NEW t \in {"CONNECT_ERROR", "CONNECT_RESPONSE"}, NEW c,
               toServer' = toServer \cup {Control(t, c)}
        PROVE  d \in toServer
    BY <1>4, <2>1, ControlIsQuiet DEF IsRequest
  <2>2. CASE dev.ch # 0
    BY <2>1, <2>2 DEF DevConnect, DevReply
  <2>3. CASE dev.ch = 0
    <3>1. PICK c \in Channels : DevReply({Control("CONNECT_RESPONSE", c)})
      BY <2>3 DEF DevConnect
    <3>2. QED BY <2>1, <3>1 DEF DevReply
  <2>4. QED BY <2>2, <2>3
<1>5. CASE UNCHANGED <<dev, history>>
  <2>1. Quiet
    BY <1>2, <1>3, <1>4, <1>5 DEF Quiet
  <2>2. QED BY <2>1, QuietKeeps
<1>6. CASE dev.ch = 0 /\ history' = [history EXCEPT !.sessions = @ + 1]
  <2>1. /\ history'.sessions = history.sessions + 1 /\ history'.epoch = history.epoch
        /\ history.sessions \in Nat
    BY <1>6 DEF TypesOK, HistoryOK
  <2>2. PICK c \in Channels :
          dev' = [dev EXCEPT !.ch = c, !.send = 0, !.recv = 0, !.mc = "NONE", !.todo = 0]
    BY <1>6 DEF DevConnect
  <2>3. dev'.send = 0 /\ dev'.id = dev.id
    BY <2>2 DEF TypesOK, DevOK
  <2>4. Addressed'
    BY <1>4 DEF DataInv, Addressed
  <2>5. ASSUME FirstConnection' PROVE InStep'
    <3>1. FirstConnection /\ history.sessions = 0
      BY <2>1, <2>5, StillFirst DEF FirstConnection
    <3>2. InStep
      BY <3>1 DEF DataInv
    <3>3. RequestsCurrent' /\ AcksCurrent' /\ ServerInStep' /\ Delivered'
      BY <1>2, <1>3, <1>4, <2>1, <2>3, <3>2
         DEF InStep, RequestsCurrent, AcksCurrent, ServerInStep, Delivered
    <3>4. DeviceInStep'
      <4>1. dev.id = 0
        BY <3>1, <3>2 DEF InStep, DeviceInStep
      <4>2. 0 % SeqMod = 0
        BY SeqModAssumption, SmallRemainder
      <4>3. QED BY <2>1, <2>3, <4>1, <4>2 DEF DeviceInStep
    <3>5. QED BY <3>3, <3>4 DEF InStep
  <2>6. QED BY <2>4, <2>5 DEF DataInv
<1>7. QED BY <1>5, <1>6 DEF DevConnect

LEMMA DevReceiveData ==
  ASSUME TypesOK, DataInv, NEW m \in toDevice, DevReceive(m)
  PROVE  DataInv'
<1>1. toDevice' \subseteq toDevice
  BY NetworkShrinks DEF DevReceive
<1>2. UNCHANGED <<channelid, recv_sequence, accepted>>
  BY DEF DevReceive, conn
<1>3. CASE DevDisconnectRequest(m) \/ DevConnectionState(m) \/ DevDisconnectResponse(m)
  <2>1. \A d \in toServer' : IsRequest(d) => d \in toServer
    BY <1>3, ControlIsQuiet
       DEF DevDisconnectRequest, DevConnectionState, DevDisconnectResponse, DevReply, IsRequest
  <2>2. dev'.id = dev.id /\ dev'.send = dev.send /\ dev'.ch \in {dev.ch, 0}
    BY <1>3
       DEF DevDisconnectRequest, DevConnectionState, DevDisconnectResponse, TypesOK, DevOK
  <2>3. UNCHANGED history
    BY <1>3 DEF DevDisconnectRequest, DevConnectionState, DevDisconnectResponse
  <2>4. QED BY <1>1, <1>2, <2>1, <2>2, <2>3, QuietKeeps DEF Quiet
<1>4. CASE DevTunnelRequest(m)
  <2>1. \A d \in toServer' : IsRequest(d) => d \in toServer
    BY <1>4, ControlIsQuiet DEF DevTunnelRequest, DevReply
  <2>2. dev'.id = dev.id /\ dev'.send = dev.send /\ dev'.ch = dev.ch
    BY <1>4 DEF DevTunnelRequest, TypesOK, DevOK
  <2>3. UNCHANGED history
    BY <1>4 DEF DevTunnelRequest
  <2>4. QED BY <1>1, <1>2, <2>1, <2>2, <2>3, QuietKeeps DEF Quiet
<1>5. QED BY <1>3, <1>4, DevConnectData, DevAckData DEF DevReceive

LEMMA DeviceData ==
  ASSUME TypesOK, DataInv, Device
  PROVE  DataInv'
<1>1. CASE DevClose
  <2>1. dev'.id = dev.id /\ dev'.send = dev.send /\ dev'.ch = 0
    BY <1>1 DEF DevClose, TypesOK, DevOK
  <2>2. Quiet
    BY <1>1, <2>1, ControlIsQuiet DEF DevClose, DevReply, Quiet, IsRequest, conn
  <2>3. QED BY <2>2, QuietKeeps
<1>2. CASE DevDown
  <2>1. dev'.id = dev.id /\ dev'.send = dev.send /\ dev'.ch = dev.ch
    BY <1>2 DEF DevDown, TypesOK, DevOK
  <2>2. Quiet
    BY <1>2, <2>1 DEF DevDown, Quiet, conn, net
  <2>3. QED BY <2>2, QuietKeeps
<1>3. QED BY <1>1, <1>2, DevTransmitData, DevReceiveData DEF Device

LEMMA StepData == TypesOK /\ DataInv /\ [Next]_vars => DataInv'
<1> SUFFICES ASSUME TypesOK, DataInv, [Next]_vars PROVE DataInv'
  OBVIOUS
<1>1. CASE UNCHANGED vars
  <2>1. Quiet
    BY <1>1 DEF vars, conn, net, Quiet
  <2>2. QED BY <2>1, QuietKeeps
<1>2. CASE Next
  BY <1>2, ConnectData, DisConnectData, HeartBeatData, SendDataFrameData, ReaderData,
     DeviceData, LoseData DEF Next, Reader
<1>3. QED BY <1>1, <1>2

LEMMA AlwaysData == Spec => []DataInv
<1>1. TypesOK /\ DataInv /\ [Next]_vars => DataInv'
  BY StepData
<1>2. QED BY <1>1, InitData, AlwaysTypes, PTL DEF Spec

(* HandleTunnelRequest accepts the frames of the first connection in order, *)
(* each exactly once, for every modulus and whatever the network loses,     *)
(* repeats or reorders.                                                     *)
THEOREM FramesAcceptedInOrder == Spec => []AcceptedInOrder
<1>1. DataInv => AcceptedInOrder
  BY DEF DataInv, InStep, Delivered, AcceptedInOrder
<1>2. QED BY <1>1, AlwaysData, PTL

(* A device that has its ack has had its frame accepted.                    *)
THEOREM AcksAreTrue == Spec => []AckedWasAccepted
<1>1. DataInv => AckedWasAccepted
  BY DEF DataInv, InStep, Delivered, AckedWasAccepted
<1>2. QED BY <1>1, AlwaysData, PTL

-----------------------------------------------------------------------------
(***************************************************************************)
(* The frames of the server.  It sends a request without waiting for the   *)
(* ack of the one before, so several requests may carry the same number; a *)
(* request is identified by the number of acks the server has counted when *)
(* it sends it.  The device has accepted R requests: as many as the server *)
(* has counted acks, or one more.                                          *)
(***************************************************************************)
(* No ack carries the channel id of a closed connection, and nothing is     *)
(* counted before there is a channel.                                       *)
Uncounted ==
  /\ \A m \in toServer : IsAck(m) => m.ch # 0
  /\ history.epoch = 0 => channelid = 0 /\ send_sequence = 0 /\ history.acked = 0
  /\ history.sessions = 0 =>
       /\ dev.ch = 0 /\ dev.recv = 0 /\ history.acked = 0
       /\ \A m \in toServer : ~IsAck(m)

(* A request carries the number its identity asks for, and is recent.       *)
SendsCurrent ==
  \A m \in toDevice : IsRequest(m) =>
    /\ m.seq = m.id % SeqMod
    /\ m.id <= history.acked
    /\ history.acked < m.id + SeqMod - 1

(* An ack carries the number of its request, or 0 if it is an error ack.    *)
RepliesCurrent ==
  \A m \in toServer : IsAck(m) =>
    /\ m.seq = m.id % SeqMod \/ (ErrorAcks /\ m.seq = 0)
    /\ history.acked < m.id + SeqMod - 1

(* The device has accepted R requests, and answered no later one.           *)
Received(R) ==
  /\ R \in {history.acked, history.acked + 1}
  /\ dev.recv = R % SeqMod
  /\ \A m \in toServer : IsAck(m) => m.id < R

SendInStep == /\ send_sequence = history.acked % SeqMod
              /\ SendsCurrent /\ RepliesCurrent
              /\ \E R \in Nat : Received(R)

(* The first connection, until the server gives its channel up.             *)
Counting ==
  /\ FirstConnection
  /\ history.epoch = 0 \/ channelid # 0
  /\ ErrorAcks => history.acked <= SeqMod

SendInv == Uncounted /\ (Counting => SendInStep)

LEMMA InitSend == Init => SendInv
<1> SUFFICES ASSUME Init PROVE SendInv
  OBVIOUS
<1>1. Uncounted /\ SendsCurrent /\ RepliesCurrent
  BY DEF Init, InitialDevice, Uncounted, SendsCurrent, RepliesCurrent
<1>2. 0 % SeqMod = 0
  BY SeqModAssumption, SmallRemainder
<1>3. Received(0) /\ send_sequence = history.acked % SeqMod
  BY <1>2 DEF Init, InitialDevice, Received
<1>4. QED BY <1>1, <1>3 DEF SendInv, SendInStep

(* Most steps count no ack, put no request and no ack on the network and    *)
(* leave the sequence numbers alone; they may close the channel.            *)
SendQuiet ==
  /\ dev'.recv = dev.recv /\ dev'.ch \in {dev.ch, 0}
  /\ \/ channelid' = channelid /\ send_sequence' = send_sequence
     \/ channelid' = 0 /\ send_sequence' = 0
  /\ history'.sessions = history.sessions /\ history'.epoch = history.epoch
  /\ history'.acked = history.acked
  /\ \A m \in toServer' : IsAck(m) => m \in toServer
  /\ \A m \in toDevice' : IsRequest(m) => m \in toDevice

LEMMA SendQuietKeeps ==
  ASSUME TypesOK, SendInv, SendQuiet
  PROVE  SendInv'
<1> USE DEF SendQuiet
<1>1. Uncounted'
  BY DEF SendInv, Uncounted
<1>2. ASSUME Counting' PROVE SendInStep'
  <2>1. Counting
    BY <1>2 DEF Counting, FirstConnection, SendInv, Uncounted
  <2>2. SendInStep
    BY <2>1 DEF SendInv
  <2>3. send_sequence' = history'.acked % SeqMod
    <3>1. send_sequence' = send_sequence
      BY <1>2 DEF SendInv, Uncounted, Counting
    <3>2. QED BY <2>2, <3>1 DEF SendInStep
  <2>4. SendsCurrent' /\ RepliesCurrent'
    BY <2>2 DEF SendInStep, SendsCurrent, RepliesCurrent
  <2>5. \A R \in Nat : Received(R) => Received(R)'
    BY DEF Received
  <2>6. QED BY <2>2, <2>3, <2>4, <2>5 DEF SendInStep
<1>3. QED BY <1>1, <1>2 DEF SendInv

LEMMA ConnectSends ==
  ASSUME TypesOK, SendInv, NEW t \in Threads, Connect(t)
  PROVE  SendInv'
<1>1. CASE ConnectSend(t)
  <2>1. SendQuiet
    BY <1>1, ControlIsQuiet DEF ConnectSend, SendQuiet, IsRequest, conn
  <2>2. QED BY <2>1, SendQuietKeeps
<1>2. CASE ConnectTimeout(t)
  <2>1. SendQuiet
    BY <1>2 DEF ConnectTimeout, SendQuiet, conn, net
  <2>2. QED BY <2>1, SendQuietKeeps
<1>3. CASE ConnectDone(t)
  <2>1. SendQuiet
    BY <1>3 DEF ConnectDone, SendQuiet, net
  <2>2. QED BY <2>1, SendQuietKeeps
<1>4. ASSUME NEW m \in toServer, ConnectRecv(t, m) PROVE SendInv'
  <2>1. /\ UNCHANGED <<send_sequence, toDevice, dev>>
        /\ toServer' \subseteq toServer
    BY <1>4, NetworkShrinks DEF ConnectRecv
  <2>2. CASE UNCHANGED <<channelid, history>>
    <3>1. SendQuiet
      BY <2>1, <2>2 DEF SendQuiet
    <3>2. QED BY <3>1, SendQuietKeeps
  <2>3. CASE history' = [history EXCEPT !.epoch = @ + 1]
    <3>1. history'.epoch = history.epoch + 1 /\ history'.sessions = history.sessions
          /\ history'.acked = history.acked /\ history.epoch \in Nat
      BY <2>3 DEF TypesOK, HistoryOK
    <3>2. Uncounted'
      BY <2>1, <3>1 DEF SendInv, Uncounted
    <3>3. ASSUME Counting' PROVE SendInStep'
      <4>1. Counting
        <5>1. FirstConnection /\ history.epoch = 0
          BY <3>1, <3>3, StillFirst DEF Counting, FirstConnection
        <5>2. QED BY <3>1, <3>3, <5>1 DEF Counting
      <4>2. SendInStep
        BY <4>1 DEF SendInv
      <4>3. \A R \in Nat : Received(R) => Received(R)'
        BY <2>1, <3>1 DEF Received
      <4>4. SendsCurrent' /\ RepliesCurrent'
        BY <2>1, <3>1, <4>2 DEF SendInStep, SendsCurrent, RepliesCurrent
      <4>5. QED BY <2>1, <3>1, <4>2, <4>3, <4>4 DEF SendInStep
    <3>4. QED BY <3>2, <3>3 DEF SendInv
  <2>4. QED BY <1>4, <2>2, <2>3 DEF ConnectRecv
<1>5. QED BY <1>1, <1>2, <1>3, <1>4 DEF Connect

LEMMA ServerSends ==
  ASSUME TypesOK, SendInv,
         \/ \E t \in Threads : DisConnect(t)
         \/ \E b \in BeatIds : HeartBeat(b)
         \/ Lose
         \/ UNCHANGED vars
  PROVE  SendInv'
<1>1. ASSUME NEW t \in Threads, DisConnect(t) PROVE SendQuiet
  BY <1>1, ControlIsQuiet
     DEF DisConnect, DisConnectSend, DisConnectMark, DisConnectDone, SendQuiet, IsRequest,
         conn, net
<1>2. ASSUME NEW b \in BeatIds, HeartBeat(b) PROVE SendQuiet
  BY <1>2, ControlIsQuiet
     DEF HeartBeat, BeatStart, BeatLoop, BeatInc, BeatExit, SendQuiet, IsRequest, conn, net
<1>3. Lose => SendQuiet
  BY DEF Lose, SendQuiet, conn
<1>4. UNCHANGED vars => SendQuiet
  BY DEF vars, conn, net, SendQuiet
<1>5. QED BY <1>1, <1>2, <1>3, <1>4, SendQuietKeeps

(* A request is sent with the number of the next ack.                       *)
LEMMA SendDataFrameSends ==
  ASSUME TypesOK, SendInv, SendDataFrame
  PROVE  SendInv'
<1>1. ASSUME NEW elem \in Elems, SendDataFrameCheck(elem) PROVE SendInv'
  <2>1. history'.sessions = history.sessions /\ history'.epoch = history.epoch
        /\ history'.acked = history.acked
    BY <1>1 DEF SendDataFrameCheck, TypesOK, HistoryOK
  <2>2. SendQuiet
    BY <1>1, <2>1 DEF SendDataFrameCheck, SendQuiet, conn, net
  <2>3. QED BY <2>2, SendQuietKeeps
<1>2. CASE SendDataFrameLocked
  <2> DEFINE r == Request(channelid, send_sequence, history.acked, "NONE")
  <2>1. /\ UNCHANGED <<channelid, send_sequence, toServer, dev, history>>
        /\ toDevice' = toDevice \cup {r}
    BY <1>2 DEF SendDataFrameLocked, conn
  <2>2. ~IsAck(r) /\ r.seq = send_sequence /\ r.id = history.acked
    BY ControlIsQuiet DEF Request
  <2> HIDE DEF r
  <2>3. Uncounted'
    BY <2>1 DEF SendInv, Uncounted
  <2>4. ASSUME Counting' PROVE SendInStep'
    <3>1. SendInStep
      BY <2>1, <2>4 DEF SendInv, Counting, FirstConnection
    <3>2. \A R \in Nat : Received(R) => Received(R)'
      BY <2>1 DEF Received
    <3>3. RepliesCurrent'
      BY <2>1, <3>1 DEF SendInStep, RepliesCurrent
    <3>4. SendsCurrent'
      <4>1. history.acked \in Nat
        BY DEF TypesOK, HistoryOK
      <4>2. history.acked < history.acked + SeqMod - 1
        BY <4>1, SeqModAssumption
      <4>3. QED BY <2>1, <2>2, <3>1, <4>1, <4>2 DEF SendInStep, SendsCurrent
    <3>5. QED BY <2>1, <3>1, <3>2, <3>3, <3>4 DEF SendInStep
  <2>5. QED BY <2>3, <2>4 DEF SendInv
<1>3. QED BY <1>1, <1>2 DEF SendDataFrame

(* The awaited ack is for the request that the device has just accepted: its*)
(* number tells it from the late ones, and before the number wraps an error *)
(* ack can be taken for it only while none is counted.                      *)
LEMMA AckIdentified ==
  ASSUME TypesOK, SendInStep, NEW R \in Nat, Received(R),
         NEW m \in toServer, IsAck(m), m.seq = send_sequence,
         ErrorAcks => history.acked < SeqMod
  PROVE  R = history.acked + 1
<1> DEFINE A == history.acked
           i == m.id
<1>1. /\ A \in Nat /\ i \in Nat /\ R \in {A, A + 1} /\ i < R
      /\ A < i + SeqMod - 1
      /\ send_sequence = A % SeqMod
      /\ m.seq = i % SeqMod \/ (ErrorAcks /\ m.seq = 0)
  BY DEF TypesOK, HistoryOK, NetOK, Datagram, SendInStep, RepliesCurrent, Received
<1>2. SeqMod \in Nat \ {0} /\ SeqMod >= 2
  BY SeqModAssumption
<1>3. ErrorAcks => A < SeqMod
  OBVIOUS
<1>4. m.seq = A % SeqMod
  BY <1>1
<1> HIDE DEF A, i
<1>5. CASE m.seq = i % SeqMod
  <2>1. i - A < SeqMod /\ A - i < SeqMod
    BY <1>1, <1>2
  <2>2. i = A
    BY <1>1, <1>2, <1>4, <1>5, <2>1, CloseRemainders
  <2>3. QED BY <1>1, <2>2 DEF A
<1>6. CASE ErrorAcks /\ m.seq = 0
  <2>1. A \in 0 .. SeqMod - 1
    BY <1>1, <1>2, <1>3, <1>6
  <2>2. A % SeqMod = A
    BY <1>2, <2>1, SmallRemainder
  <2>3. A = 0
    BY <1>4, <1>6, <2>2
  <2>4. QED BY <1>1, <2>3 DEF A
<1>7. QED BY <1>1, <1>5, <1>6

LEMMA AckSends ==
  ASSUME TypesOK, SendInv, NEW m \in toServer, ReceiveDataFrame(m), HandleTunnelingAck(m),
         m.ch = channelid, m.seq = send_sequence
  PROVE  SendInv'
<1> DEFINE A == history.acked
<1>1. /\ IsAck(m) /\ send_sequence' = Inc(send_sequence)
      /\ history' = [history EXCEPT !.acked = @ + 1]
      /\ toDevice' = Fresh(toDevice, "TUNNELLING_REQUEST", A + 1)
      /\ UNCHANGED <<channelid, dev>>
  BY DEF HandleTunnelingAck, IsAck, ReceiveDataFrame
<1>2. /\ history'.acked = A + 1 /\ history'.sessions = history.sessions
      /\ history'.epoch = history.epoch /\ A \in Nat
  BY <1>1 DEF TypesOK, HistoryOK
<1>3. PICK rest \in AfterDelivery(toServer, m) :
        toServer' = Fresh(rest, "TUNNELLING_ACK", history'.acked)
  BY DEF ReceiveDataFrame
<1>4. toServer' \subseteq rest /\ rest \subseteq toServer /\ toDevice' \subseteq toDevice
  BY <1>1, <1>3, NetworkShrinks
<1>5. m.ch # 0 /\ history.epoch # 0 /\ history.sessions # 0
  BY <1>1 DEF SendInv, Uncounted
<1>6. Uncounted'
  BY <1>2, <1>4, <1>5 DEF SendInv, Uncounted
<1>7. ASSUME Counting' PROVE SendInStep'
  <2>1. Counting /\ (ErrorAcks => A < SeqMod)
    <3>1. SeqMod \in Nat
      BY SeqModAssumption
    <3>2. ErrorAcks => A + 1 <= SeqMod
      BY <1>2, <1>7 DEF Counting
    <3>3. ErrorAcks => A < SeqMod /\ A <= SeqMod
      BY <1>2, <3>1, <3>2
    <3>4. QED BY <1>1, <1>2, <1>7, <3>3 DEF Counting, FirstConnection
  <2>2. SendInStep
    BY <2>1 DEF SendInv
  <2>3. PICK R \in Nat : Received(R)
    BY <2>2 DEF SendInStep
  <2>4. R = A + 1
    BY <1>1, <2>1, <2>2, <2>3, AckIdentified
  <2>5. Received(R)'
    <3>1. dev'.recv = R % SeqMod /\ \A a \in toServer' : IsAck(a) => a.id < R
      BY <1>1, <1>4, <2>3 DEF Received
    <3>2. QED BY <1>2, <2>4, <3>1 DEF Received
  <2>6. send_sequence' = (A + 1) % SeqMod
    BY <1>1, <1>2, <2>2, SeqModAssumption, NextRemainder DEF SendInStep, Inc
  <2>7. SendsCurrent'
    <3>1. ASSUME NEW d \in toDevice', IsRequest(d)
          PROVE  /\ d.seq = d.id % SeqMod /\ d.id <= A + 1
                 /\ A + 1 < d.id + SeqMod - 1
      <4>1. d \in toDevice /\ d.id + SeqMod - 1 > A + 1
        BY <1>1, <3>1 DEF Fresh, IsRequest
      <4>2. d.seq = d.id % SeqMod /\ d.id <= A /\ d.id \in Nat
        BY <2>2, <3>1, <4>1 DEF SendInStep, SendsCurrent, TypesOK, NetOK, Datagram
      <4>3. QED BY <1>2, <4>1, <4>2, SeqModAssumption
    <3>2. QED BY <1>2, <3>1 DEF SendsCurrent
  <2>8. RepliesCurrent'
    <3>1. ASSUME NEW d \in toServer', IsAck(d)
          PROVE  /\ d.seq = d.id % SeqMod \/ (ErrorAcks /\ d.seq = 0)
                 /\ A + 1 < d.id + SeqMod - 1
      <4>1. d \in toServer /\ d.id + SeqMod - 1 > A + 1
        BY <1>2, <1>3, <1>4, <3>1 DEF Fresh, IsAck
      <4>2. d.id \in Nat
        BY <4>1 DEF TypesOK, NetOK, Datagram
      <4>3. QED BY <1>2, <2>2, <3>1, <4>1, <4>2, SeqModAssumption DEF SendInStep, RepliesCurrent
    <3>2. QED BY <1>2, <3>1 DEF RepliesCurrent
  <2>9. QED BY <1>2, <2>5, <2>6, <2>7, <2>8 DEF SendInStep
<1>8. QED BY <1>6, <1>7 DEF SendInv

LEMMA ReaderSends ==
  ASSUME TypesOK, SendInv, NEW m \in toServer, ReceiveDataFrame(m)
  PROVE  SendInv'
<1>1. toServer' \subseteq toServer /\ dev' = dev
  BY NetworkShrinks DEF ReceiveDataFrame
<1>2. CASE HandleDisconnectRequest(m)
  <2>1. \/ channelid' = channelid /\ send_sequence' = send_sequence
        \/ channelid' = 0 /\ send_sequence' = 0
    BY <1>2 DEF HandleDisconnectRequest, ResetState, conn
  <2>2. UNCHANGED history
    BY <1>2 DEF HandleDisconnectRequest
  <2>3. \A d \in toDevice' : IsRequest(d) => d \in toDevice
    BY <1>2, ControlIsQuiet DEF HandleDisconnectRequest, IsRequest
  <2>4. QED BY <1>1, <2>1, <2>2, <2>3, SendQuietKeeps DEF SendQuiet
<1>3. CASE HandleDisconnectResponse(m)
  BY <1>1, <1>3, SendQuietKeeps DEF HandleDisconnectResponse, ResetState, SendQuiet
<1>4. CASE HandleTunnelingAck(m)
  <2>1. CASE m.ch = channelid /\ m.seq = send_sequence
    BY <1>4, <2>1, AckSends
  <2>2. CASE ~(m.ch = channelid /\ m.seq = send_sequence)
    BY <1>1, <1>4, <2>2, SendQuietKeeps DEF HandleTunnelingAck, SendQuiet
  <2>3. QED BY <2>1, <2>2
<1>5. CASE HandleConnectionStateResponse(m) \/ HandleUnknown(m)
  BY <1>1, <1>5, SendQuietKeeps
     DEF HandleConnectionStateResponse, HandleUnknown, SendQuiet, conn
<1>6. CASE HandleTunnelRequest(m)
  <2>1. channelid' = channelid /\ send_sequence' = send_sequence
    BY <1>6 DEF HandleTunnelRequest
  <2>2. \A d \in toDevice' : IsRequest(d) => d \in toDevice
    BY <1>6, ControlIsQuiet
       DEF HandleTunnelRequest, AcceptFrame, AckPrevious, CountOutOfSync
  <2>3. history'.sessions = history.sessions /\ history'.epoch = history.epoch
        /\ history'.acked = history.acked
    BY <1>6
       DEF HandleTunnelRequest, AcceptFrame, AckPrevious, CountOutOfSync, TypesOK, HistoryOK
  <2>4. QED BY <1>1, <2>1, <2>2, <2>3, SendQuietKeeps DEF SendQuiet
<1>7. QED
  BY <1>2, <1>3, <1>4, <1>5, <1>6 DEF ReceiveDataFrame

(* The device accepts the next request, and no other: what it refuses or    *)
(* acknowledges again is older.                                             *)
LEMMA RequestOutIdentified ==
  ASSUME TypesOK, SendInStep, NEW R \in Nat, Received(R),
         NEW m \in toDevice, IsRequest(m)
  PROVE  /\ m.seq = dev.recv => m.id = R /\ R = history.acked
         /\ m.seq # dev.recv => m.id < R
<1> DEFINE A == history.acked
           i == m.id
<1>1. /\ A \in Nat /\ i \in Nat /\ R \in {A, A + 1}
      /\ m.seq = i % SeqMod /\ i <= A /\ A < i + SeqMod - 1
      /\ dev.recv = R % SeqMod
  BY DEF TypesOK, HistoryOK, NetOK, Datagram, SendInStep, SendsCurrent, Received
<1>2. SeqMod \in Nat \ {0} /\ SeqMod >= 2
  BY SeqModAssumption
<1> HIDE DEF A, i
<1>3. ASSUME m.seq = dev.recv PROVE i = R /\ R = A
  <2>1. i - R < SeqMod /\ R - i < SeqMod
    BY <1>1, <1>2
  <2>2. i = R
    BY <1>1, <1>2, <1>3, <2>1, CloseRemainders
  <2>3. QED BY <1>1, <2>2
<1>4. ASSUME m.seq # dev.recv PROVE i < R
  <2>1. i # R
    BY <1>1, <1>4
  <2>2. QED BY <1>1, <2>1
<1>5. QED BY <1>3, <1>4 DEF A, i

(* The answer of the device keeps the rest of the invariant.                *)
LEMMA RepliesKeep ==
  ASSUME SendInStep, NEW m \in toDevice, IsRequest(m), NEW a,
         a.id = m.id, a.seq = m.seq \/ (ErrorAcks /\ a.seq = 0),
         toServer' = toServer \cup {a},
         UNCHANGED history
  PROVE  RepliesCurrent'
<1>1. /\ a.seq = a.id % SeqMod \/ (ErrorAcks /\ a.seq = 0)
      /\ history.acked < a.id + SeqMod - 1
  BY DEF SendInStep, SendsCurrent
<1>2. QED BY <1>1 DEF SendInStep, RepliesCurrent

LEMMA DevTunnelSends ==
  ASSUME TypesOK, SendInv, NEW m \in toDevice, DevReceive(m), DevTunnelRequest(m)
  PROVE  SendInv'
<1>1. /\ toDevice' \subseteq toDevice /\ IsRequest(m)
      /\ UNCHANGED <<channelid, send_sequence, history>>
  BY NetworkShrinks DEF DevReceive, DevTunnelRequest, conn, IsRequest
<1>2. CASE UNCHANGED <<toServer, dev>>
  BY <1>1, <1>2, SendQuietKeeps DEF SendQuiet
<1>3. ASSUME m.ch = dev.ch, dev.ch # 0,
             NEW a, IsAck(a), a.ch = m.ch, a.id = m.id,
             a.seq = m.seq \/ (ErrorAcks /\ a.seq = 0),
             toServer' = toServer \cup {a}, dev'.ch = dev.ch,
             \/ m.seq = dev.recv /\ dev'.recv = Inc(dev.recv)
             \/ m.seq # dev.recv /\ dev'.recv = dev.recv
      PROVE  SendInv'
  <2>1. Uncounted'
    BY <1>1, <1>3 DEF SendInv, Uncounted
  <2>2. ASSUME Counting' PROVE SendInStep'
    <3>1. SendInStep
      BY <1>1, <2>2 DEF SendInv, Counting, FirstConnection
    <3>2. PICK R \in Nat : Received(R)
      BY <3>1 DEF SendInStep
    <3>3. RepliesCurrent' /\ SendsCurrent'
      BY <1>1, <1>3, <3>1, RepliesKeep DEF SendInStep, SendsCurrent
    <3>4. CASE m.seq = dev.recv
      <4>1. m.id = R /\ R = history.acked
        BY <1>1, <3>1, <3>2, <3>4, RequestOutIdentified
      <4>2. dev'.recv = (R + 1) % SeqMod
        <5>1. dev'.recv = ((R % SeqMod) + 1) % SeqMod
          BY <1>3, <3>2, <3>4 DEF Received, Inc
        <5>2. SeqMod \in Nat \ {0}
          BY SeqModAssumption
        <5>3. ((R % SeqMod) + 1) % SeqMod = (R + 1) % SeqMod
          BY <5>2, NextRemainder
        <5>4. QED BY <5>1, <5>3
      <4>3. \A d \in toServer' : IsAck(d) => d.id < R + 1
        <5>1. \A d \in toServer : d.id \in Nat
          BY DEF TypesOK, NetOK, Datagram
        <5>2. QED BY <1>3, <3>2, <4>1, <5>1 DEF Received
      <4>4. Received(R + 1)'
        BY <1>1, <4>1, <4>2, <4>3 DEF Received
      <4>5. QED BY <1>1, <3>1, <3>3, <4>4 DEF SendInStep
    <3>5. CASE m.seq # dev.recv
      <4>1. m.id < R
        BY <1>1, <3>1, <3>2, <3>5, RequestOutIdentified
      <4>2. Received(R)'
        BY <1>1, <1>3, <3>2, <3>5, <4>1 DEF Received
      <4>3. QED BY <1>1, <3>1, <3>3, <4>2 DEF SendInStep
    <3>6. QED BY <3>4, <3>5
  <2>3. QED BY <2>1, <2>2 DEF SendInv
<1>4. \A q : LET a == Ack(m.ch, q, m.id) IN
        IsAck(a) /\ a.ch = m.ch /\ a.id = m.id /\ a.seq = q
  BY DEF Ack, IsAck
<1>5. m.seq \in SeqNo /\ dev.recv \in SeqNo /\ Inc(m.seq) # m.seq
  <2>1. m.seq \in SeqNo /\ dev.recv \in SeqNo
    BY DEF TypesOK, NetOK, Datagram, DevOK
  <2>2. CASE m.seq + 1 < SeqMod
    <3>1. m.seq + 1 \in 0 .. SeqMod - 1
      BY <2>1, <2>2, SeqModAssumption DEF SeqNo
    <3>2. Inc(m.seq) = m.seq + 1
      BY <3>1, SeqModAssumption, SmallRemainder DEF Inc
    <3>3. QED BY <2>1, <3>2 DEF SeqNo
  <2>3. CASE m.seq + 1 = SeqMod
    <3>1. Inc(m.seq) = 0
      BY <2>3, SeqModAssumption, SmallRemainder DEF Inc
    <3>2. QED BY <2>1, <2>3, <3>1, SeqModAssumption DEF SeqNo
  <2>4. QED BY <2>1, <2>2, <2>3, SeqModAssumption DEF SeqNo
<1>6. CASE m.ch = dev.ch /\ dev.ch # 0
  <2>1. CASE m.seq = dev.recv
    <3> DEFINE a == Ack(m.ch, m.seq, m.id)
    <3>1. /\ toServer' = toServer \cup {a}
          /\ dev' = [dev EXCEPT !.recv = Inc(@), !.todo = @ + 1]
      BY <1>5, <1>6, <2>1 DEF DevTunnelRequest, DevReply
    <3>2. dev'.ch = dev.ch /\ dev'.recv = Inc(dev.recv)
      BY <3>1 DEF TypesOK, DevOK
    <3>3. IsAck(a) /\ a.ch = m.ch /\ a.id = m.id /\ a.seq = m.seq
      BY <1>4
    <3> HIDE DEF a
    <3>4. QED BY <1>3, <1>6, <2>1, <3>1, <3>2, <3>3
  <2>2. CASE m.seq # dev.recv /\ toServer' # toServer
    <3>1. PICK q \in SeqNo : /\ toServer' = toServer \cup {Ack(m.ch, q, m.id)}
                             /\ q = m.seq \/ (ErrorAcks /\ q = 0)
      <4>1. 0 \in SeqNo
        BY SeqModAssumption DEF SeqNo
      <4>2. QED BY <1>5, <1>6, <2>2, <4>1 DEF DevTunnelRequest, DevReply
    <3> DEFINE a == Ack(m.ch, q, m.id)
    <3>2. IsAck(a) /\ a.ch = m.ch /\ a.id = m.id /\ a.seq = q
      BY <1>4
    <3>3. dev' = dev
      BY <1>6, <2>2 DEF DevTunnelRequest
    <3>4. toServer' = toServer \cup {a}
      BY <3>1
    <3> HIDE DEF a
    <3>5. QED BY <1>3, <1>6, <2>2, <3>1, <3>2, <3>3, <3>4
  <2>3. CASE m.seq # dev.recv /\ toServer' = toServer
    <3>1. dev' = dev
      BY <1>6, <2>3 DEF DevTunnelRequest
    <3>2. QED BY <1>2, <2>3, <3>1
  <2>4. QED BY <2>1, <2>2, <2>3
<1>7. CASE ~(m.ch = dev.ch /\ dev.ch # 0)
  BY <1>2, <1>7 DEF DevTunnelRequest
<1>8. QED BY <1>6, <1>7

(* A device that grants its first channel has acknowledged nothing.         *)
LEMMA DevConnectSends ==
  ASSUME TypesOK, SendInv, NEW m \in toDevice, DevReceive(m), DevConnect(m)
  PROVE  SendInv'
<1>1. /\ toDevice' \subseteq toDevice /\ UNCHANGED <<channelid, send_sequence>>
  BY NetworkShrinks DEF DevReceive, conn
<1>2. ASSUME NEW d \in toServer', IsAck(d) PROVE d \in toServer
  <2>1. ASSUME NEW t \in {"CONNECT_ERROR", "CONNECT_RESPONSE"}, NEW c,
               toServer' = toServer \cup {Control(t, c)}
        PROVE  d \in toServer
    BY <1>2, <2>1, ControlIsQuiet DEF IsAck
  <2>2. CASE dev.ch # 0
    BY <2>1, <2>2 DEF DevConnect, DevReply
  <2>3. CASE dev.ch = 0
    <3>1. PICK c \in Channels : DevReply({Control("CONNECT_RESPONSE", c)})
      BY <2>3 DEF DevConnect
    <3>2. QED BY <2>1, <3>1 DEF DevReply
  <2>4. QED BY <2>2, <2>3
<1>3. CASE UNCHANGED <<dev, history>>
  BY <1>1, <1>2, <1>3, SendQuietKeeps DEF SendQuiet
<1>4. CASE dev.ch = 0 /\ history' = [history EXCEPT !.sessions = @ + 1]
  <2>1. /\ history'.sessions = history.sessions + 1 /\ history'.epoch = history.epoch
        /\ history'.acked = history.acked /\ history.sessions \in Nat
    BY <1>4 DEF TypesOK, HistoryOK
  <2>2. PICK c \in Channels :
          dev' = [dev EXCEPT !.ch = c, !.send = 0, !.recv = 0, !.mc = "NONE", !.todo = 0]
    BY <1>4 DEF DevConnect
  <2>3. dev'.recv = 0
    BY <2>2 DEF TypesOK, DevOK
  <2>4. Uncounted'
    BY <1>1, <1>2, <2>1 DEF SendInv, Uncounted
  <2>5. ASSUME Counting' PROVE SendInStep'
    <3>1. Counting /\ history.sessions = 0
      BY <1>1, <2>1, <2>5, StillFirst DEF Counting, FirstConnection
    <3>2. SendInStep /\ dev.recv = 0
      BY <3>1 DEF SendInv, Uncounted
    <3>3. \A R \in Nat : Received(R) => Received(R)'
      BY <1>2, <2>1, <2>3, <3>2 DEF Received
    <3>4. SendsCurrent' /\ RepliesCurrent'
      BY <1>1, <1>2, <2>1, <3>2 DEF SendInStep, SendsCurrent, RepliesCurrent
    <3>5. QED BY <1>1, <2>1, <3>2, <3>3, <3>4 DEF SendInStep
  <2>6. QED BY <2>4, <2>5 DEF SendInv
<1>5. QED BY <1>3, <1>4 DEF DevConnect

LEMMA DeviceSends ==
  ASSUME TypesOK, SendInv, Device
  PROVE  SendInv'
<1>1. ASSUME NEW m \in toDevice, DevReceive(m) PROVE SendInv'
  <2>1. /\ toDevice' \subseteq toDevice /\ UNCHANGED <<channelid, send_sequence>>
    BY <1>1, NetworkShrinks DEF DevReceive, conn
  <2>2. CASE DevDisconnectRequest(m) \/ DevConnectionState(m) \/ DevDisconnectResponse(m)
    <3>1. \A d \in toServer' : IsAck(d) => d \in toServer
      BY <2>2, ControlIsQuiet
         DEF DevDisconnectRequest, DevConnectionState, DevDisconnectResponse, DevReply, IsAck
    <3>2. dev'.recv = dev.recv /\ dev'.ch \in {dev.ch, 0}
      BY <2>2
         DEF DevDisconnectRequest, DevConnectionState, DevDisconnectResponse, TypesOK, DevOK
    <3>3. UNCHANGED history
      BY <2>2 DEF DevDisconnectRequest, DevConnectionState, DevDisconnectResponse
    <3>4. QED BY <2>1, <3>1, <3>2, <3>3, SendQuietKeeps DEF SendQuiet
  <2>3. CASE DevAck(m)
    <3>1. toServer' \subseteq toServer
      BY <2>3 DEF DevAck, Fresh
    <3>2. dev'.recv = dev.recv /\ dev'.ch = dev.ch
      BY <2>3 DEF DevAck, TypesOK, DevOK
    <3>3. UNCHANGED history
      BY <2>3 DEF DevAck
    <3>4. QED BY <2>1, <3>1, <3>2, <3>3, SendQuietKeeps DEF SendQuiet
  <2>4. QED BY <1>1, <2>2, <2>3, DevConnectSends, DevTunnelSends DEF DevReceive
<1>2. CASE DevTransmit
  <2>1. \A d \in toServer' : IsAck(d) => d \in toServer
    <3>1. toServer' = toServer \cup {Request(dev.ch, dev.send, dev.id, dev'.mc)}
      BY <1>2 DEF DevTransmit, DevReply
    <3>2. QED BY <3>1, ControlIsQuiet
  <2>2. dev'.recv = dev.recv /\ dev'.ch = dev.ch
    <3>1. CASE UNCHANGED dev
      BY <3>1
    <3>2. ASSUME NEW code \in Codes,
                 dev' = [dev EXCEPT !.mc = code,
                                    !.todo = IF code = "L_DATA_IND" THEN @ ELSE @ - 1]
          PROVE  dev'.recv = dev.recv /\ dev'.ch = dev.ch
      BY <3>2 DEF TypesOK, DevOK
    <3>3. QED BY <1>2, <3>1, <3>2 DEF DevTransmit
  <2>3. UNCHANGED <<channelid, send_sequence, toDevice, history>>
    BY <1>2 DEF DevTransmit, conn
  <2>4. QED BY <2>1, <2>2, <2>3, SendQuietKeeps DEF SendQuiet
<1>3. CASE DevClose \/ DevDown
  <2>1. dev'.recv = dev.recv /\ dev'.ch \in {dev.ch, 0}
    BY <1>3 DEF DevClose, DevDown, TypesOK, DevOK
  <2>2. \A d \in toServer' : IsAck(d) => d \in toServer
    BY <1>3, ControlIsQuiet DEF DevClose, DevDown, DevReply, IsAck, net
  <2>3. UNCHANGED <<channelid, send_sequence, toDevice, history>>
    BY <1>3 DEF DevClose, DevDown, conn, net
  <2>4. QED BY <2>1, <2>2, <2>3, SendQuietKeeps DEF SendQuiet
<1>4. QED BY <1>1, <1>2, <1>3 DEF Device

LEMMA StepSend == TypesOK /\ SendInv /\ [Next]_vars => SendInv'
<1> SUFFICES ASSUME TypesOK, SendInv, [Next]_vars PROVE SendInv'
  OBVIOUS
<1>1. QED
  BY ConnectSends, ServerSends, SendDataFrameSends, ReaderSends, DeviceSends DEF Next, Reader

(* The server and the device keep counting the same requests, although the  *)
(* server does not wait for acks, looks at nothing but their number, and    *)
(* gets them late, twice or not at all - with error acks, until the number  *)
(* wraps.                                                                   *)
THEOREM RequestsStayInStep == Spec => []RequestsInStep
<1>1. TypesOK /\ SendInv => RequestsInStep
  <2> SUFFICES ASSUME TypesOK, SendInv, FirstConnection, channelid # 0,
                      ErrorAcks => history.acked <= SeqMod
               PROVE  dev.recv \in {send_sequence, Inc(send_sequence)}
    BY DEF RequestsInStep
  <2>1. SendInStep
    BY DEF SendInv, Counting
  <2>2. PICK R \in Nat : Received(R)
    BY <2>1 DEF SendInStep
  <2>3. history.acked \in Nat
    BY DEF TypesOK, HistoryOK
  <2>4. Inc(send_sequence) = (history.acked + 1) % SeqMod
    BY <2>1, <2>3, SeqModAssumption, NextRemainder DEF SendInStep, Inc
  <2>5. QED BY <2>1, <2>2, <2>4 DEF SendInStep, Received
<1>2. QED BY <1>1, InitSend, StepSend, AlwaysTypes, PTL DEF Spec

=============================================================================
