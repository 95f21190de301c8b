----------------------------- MODULE KnxFrames -----------------------------
(***************************************************************************)
(* What the bytes mean on the way of a telegram: from a program through the *)
(* server to a device and back, and of the messages of KNXnet/IP around it. *)
(* Every class that writes a message is paired with the one that reads it,  *)
(* on a host that stores the low byte of a word first.  Sockets, queues and *)
(* threads are in the other modules: here one message is under way at a     *)
(* time.                                                                   *)
(***************************************************************************)
EXTENDS Integers, FiniteSets, Sequences

CONSTANTS
  KnxTexts,      \* addresses as the configuration writes them: separator and numbers
  KnxValues,     \* values of telegrams: the command bits first
  KnxTpcis,      \* the byte before the value, in telegrams that others send
  KnxEndpoints,  \* addresses of sockets
  KnxServices,   \* masks of the services that a device offers
  KnxNames,      \* names of devices
  KnxMaxSends    \* bound on telegrams and messages

Below(n) == {k \in Nat : k < n}
Octet == Below(256)
Word == Below(65536)

(* Numbers of an address that are larger are cut without a word.  A name is *)
(* ended by a zero within its thirty bytes, and there are four services.    *)
ASSUME KnxAssumption ==
  /\ KnxTexts \subseteq
       [sep : {"/"}, parts : Below(32) \X Below(8) \X Octet]
         \cup [sep : {"/"}, parts : Below(32) \X Below(2048)]
         \cup [sep : {"."}, parts : Below(16) \X Below(16) \X Octet]
  /\ \A v \in KnxValues : v \in Seq(Octet) /\ Len(v) \in Octet \ {0}
  /\ KnxTpcis \subseteq Octet
  /\ \A e \in KnxEndpoints : e \in [ip : Seq(Octet), port : Word] /\ Len(e.ip) = 4
  /\ KnxServices \subseteq Below(16)
  /\ \A name \in KnxNames : name \in Seq(Octet \ {0}) /\ Len(name) < 30

VARIABLES
  knxMsg,    \* the frame object of the client thread, used in both directions
  knxDb,     \* the emulator: values and physical addresses of the groups it has
  knxWire,   \* the message under way
  knxTrip,   \* what its sender meant, and what the receiver read
  knxSent    \* messages so far

knxVars == <<knxMsg, knxDb, knxWire, knxTrip, knxSent>>

Nothing == [kind |-> "nothing"]

-----------------------------------------------------------------------------
(* Words in memory and on the wire.                                         *)

Htons(w) == (w % 256) * 256 + (w \div 256)
Memory(w) == <<w % 256, w \div 256>>
WordAt(bytes, i) == bytes[i] + 256 * bytes[i + 1]
From(bytes, i) == SubSeq(bytes, i, Len(bytes))
Zeros(n) == [i \in 1 .. n |-> 0]

(* The bit of a mask that counts p, a power of two.                          *)
Bit(mask, p) == (mask \div p) % 2

(* CEibAddress.                                                             *)

(* Text to two bytes.                                                       *)
AddressOf(text) ==
  LET p == text.parts
      high == CASE text.sep = "." -> p[1] * 16 + (p[2] % 16)
                [] text.sep = "/" /\ Len(p) = 3 -> p[1] * 8 + (p[2] % 8)
                [] text.sep = "/" /\ Len(p) = 2 -> p[1] * 8 + (p[2] \div 256)
  IN [high |-> high, low |-> IF Len(p) = 2 THEN p[2] % 256 ELSE p[3], group |-> text.sep = "/",
      levels |-> Len(p)]

AddressSet(w, group) == [high |-> w \div 256, low |-> w % 256, group |-> group, levels |-> 3]
NoAddress == AddressSet(0, FALSE)

ToByteArray(a) == (a.high % 256) * 256 + (a.low % 256)

ToText(a) ==
  IF ~a.group
  THEN [sep |-> ".", parts |-> <<(a.high \div 16) % 16, a.high % 16, a.low % 256>>]
  ELSE IF a.levels = 2
       THEN [sep |-> "/", parts |-> <<(a.high \div 8) % 256, (a.high % 8) * 256 + a.low>>]
       ELSE [sep |-> "/", parts |-> <<(a.high \div 8) % 256, a.high % 8, a.low % 256>>]

-----------------------------------------------------------------------------
(* CCemi_L_Data_Frame.                                                      *)

LDataReq == 17
LDataCon == 46
LDataInd == 41
PriorityNormal == 4
MaxValue == 14

EmptyFrame == [mc |-> 0, addil |-> 0, ctrl1 |-> 0, ctrl2 |-> 0, saddr |-> 0, daddr |-> 0,
               tpci |-> 0, value |-> <<>>]

WithPriority(f, p) == [f EXCEPT !.ctrl1 = @ - 4 * ((@ \div 4) % 4) + p]
WithStandardFormat(f) == [f EXCEPT !.ctrl1 = 128 + (@ % 128), !.ctrl2 = @ - (@ % 16)]
WithDestUnflagged(f, a) == [f EXCEPT !.daddr = ToByteArray(a), !.ctrl2 = @ % 128]
WithDest(f, a) ==
  [f EXCEPT !.daddr = ToByteArray(a), !.ctrl2 = IF a.group THEN 128 + (@ % 128) ELSE @ % 128]
WithSource(f, a) == [f EXCEPT !.saddr = ToByteArray(a)]

DestOf(f) == AddressSet(f.daddr, Bit(f.ctrl2, 128) = 1)
HopCount(f) == (f.ctrl2 \div 16) % 8

(* The constructor that the emulator uses for its indications; it throws for *)
(* a value that does not fit.                                               *)
Fits(value) == Len(value) <= MaxValue

NewFrame(mc, src, dst, value) ==
  LET default == [EmptyFrame EXCEPT !.mc = mc, !.ctrl2 = 96, !.value = value]
  IN WithSource(WithDest(WithStandardFormat(WithPriority(default, PriorityNormal)), dst), src)

FrameBytes(f) ==
  <<f.mc, f.addil, f.ctrl1, f.ctrl2>> \o Memory(Htons(f.saddr)) \o Memory(Htons(f.daddr))
    \o <<Len(f.value), f.tpci>> \o f.value

TotalSize(f) == 10 + Len(f.value)

FrameParses(b) == b[2] = 0
FrameOf(b) ==
  [mc |-> b[1], addil |-> b[2], ctrl1 |-> b[3], ctrl2 |-> b[4],
   saddr |-> Htons(WordAt(b, 5)), daddr |-> Htons(WordAt(b, 7)),
   tpci |-> b[10], value |-> SubSeq(b, 11, 10 + b[9])]

(* Building a command: the client thread and, on an object of their own, the *)
(* scheduler and the web.  The byte tpci is the one that the object has.     *)
CommandFrame(object, a, value) ==
  LET cleared == [object EXCEPT !.mc = LDataReq, !.addil = 0, !.ctrl1 = 0, !.ctrl2 = 6]
      standard == WithStandardFormat(WithPriority(cleared, PriorityNormal))
  IN [WithDest(WithSource(standard, NoAddress), a) EXCEPT !.value = value]

-----------------------------------------------------------------------------
(* The header, and the addresses of sockets.                                *)

Services == [search_request |-> 513, search_response |-> 514, description_request |-> 515,
             connect_request |-> 517, connect_response |-> 518, state_request |-> 519,
             state_response |-> 520, disconnect_request |-> 521, disconnect_response |-> 522,
             tunnelling_request |-> 1056, tunnelling_ack |-> 1057, routing_indication |-> 1328]

Header(kind, size) == <<6, 16>> \o Memory(Htons(Services[kind])) \o Memory(Htons(6 + size))

(* Whoever dispatches on the service turns the words of the header round in  *)
(* the buffer; the constructor then turns them again, and uses neither.      *)
Dispatched(b) ==
  SubSeq(b, 1, 2) \o Memory(Htons(WordAt(b, 3))) \o Memory(Htons(WordAt(b, 5))) \o From(b, 7)

ServiceOf(b) ==
  CHOOSE kind \in DOMAIN Services : Services[kind] = Htons(WordAt(b, 3))

HeaderParses(b) == b[1] = 6 /\ b[2] = 16

(* CHPAI keeps the port in the order of the host, and FillBuffer of each     *)
(* message turns it round.                                                  *)
HpaiBytes(e) == <<8, 1>> \o e.ip \o Memory(Htons(e.port))
HpaiParses(b) == b[1] = 8 /\ b[2] = 1
HpaiOf(b) == [ip |-> SubSeq(b, 3, 6), port |-> b[7] * 256 + b[8]]

(* A connection of the one type there is, tunnelling.                        *)
CriBytes(options) == <<4, 4>> \o options
CriParses(b) == b[1] = 4

(* The device information and the families of services.                      *)

(* The parallel sum of bits, as it is written.                               *)
CountBits(mask) ==
  LET halved == mask \div 2
      pairs == mask - (Bit(halved, 1) + 4 * Bit(halved, 4) + 16 * Bit(halved, 16) + 64 * Bit(halved, 64))
      nibbles == (pairs % 4) + 16 * ((pairs \div 16) % 4) + ((pairs \div 4) % 4) + 16 * ((pairs \div 64) % 4)
  IN nibbles + ((nibbles \div 16) % 16)

Offered(mask, service, family) == IF Bit(mask, service) = 1 THEN <<family, 1>> ELSE <<>>
FamilyBytes(mask) ==
  <<2 * CountBits(mask) + 2, 2>>
    \o Offered(mask, 1, 2) \o Offered(mask, 2, 3) \o Offered(mask, 4, 4) \o Offered(mask, 8, 5)

DeviceBytes(d) ==
  <<54, 1, 2, 1>> \o Memory(Htons(ToByteArray(d.address))) \o Memory(0) \o d.serial \o d.group
    \o d.mac \o d.name \o Zeros(30 - Len(d.name))

FamiliesOf(b) ==
  LET Service(family, service) ==
        IF \E i \in 3 .. b[1] : i % 2 = 1 /\ b[i] = family THEN service ELSE 0
  IN Service(2, 1) + Service(3, 2) + Service(4, 4) + Service(5, 8)

(* A text ends at its first zero.                                           *)
TextAt(b) ==
  SubSeq(b, 1, CHOOSE n \in 0 .. Len(b) : /\ \A i \in 1 .. n : b[i] # 0
                                          /\ n < Len(b) => b[n + 1] = 0)

DeviceParses(b) == b[1] = 54 /\ b[2] = 1 /\ b[56] = 2
DeviceOf(b) ==
  [address |-> AddressSet(Htons(WordAt(b, 5)), FALSE), serial |-> SubSeq(b, 9, 14),
   group |-> SubSeq(b, 15, 18), mac |-> SubSeq(b, 19, 24),
   name |-> TextAt(SubSeq(b, 25, 54)),
   services |-> FamiliesOf(From(b, 55))]

(* CCemi_L_BusMon_Frame: items of a type, a length and data; the first       *)
(* status and the first time stamp count.                                   *)
Item(i) == <<i.type, Len(i.data)>> \o i.data
MonitorBytes(m) ==
  LET info == Item(m.info[1]) \o Item(m.info[2])
  IN <<4, m.channel, m.number, 0, 43, Len(info)>> \o info \o m.raw

(* Where the loop over the items is when it has read n of them.             *)
MonitorEnd(b) == 7 + b[6]
AfterItems(b) ==
  LET after[n \in 0 .. Len(b)] ==
        IF n = 0 THEN 7
        ELSE LET i == after[n - 1] IN IF i < MonitorEnd(b) THEN i + 2 + b[i + 1] ELSE i
  IN after

FirstOf(b, types) ==
  LET after == AfterItems(b)
      found == {i \in {after[n] : n \in 0 .. Len(b)} : i < MonitorEnd(b) /\ b[i] \in types}
      first == CHOOSE i \in found : \A j \in found : i <= j
  IN IF found = {} THEN <<>> ELSE SubSeq(b, first + 2, first + 1 + b[first + 1])

ReadStatus(b) == FirstOf(b, {3})
BigEndian(data) ==
  CASE data = <<>> -> 0
    [] Len(data) = 2 -> 256 * data[1] + data[2]
    [] Len(data) = 4 -> 256 * (256 * (256 * data[1] + data[2]) + data[3]) + data[4]
ReadTimestamp(b) == BigEndian(FirstOf(b, {4, 6}))

MonitorParses(b) ==
  /\ Len(b) >= 14 /\ b[5] = 43 /\ b[6] >= 7
  /\ Len(FirstOf(b, {3})) \in {0, 1}
  /\ Len(FirstOf(b, {4, 6})) \in {0, 2, 4}

-----------------------------------------------------------------------------
(* The messages.                                                            *)

(* Each class: how it fills a buffer, and how it reads one.                  *)

SearchRequestBytes(m) == HpaiBytes(m.at)
SearchRequestOf(b) ==
  IF HpaiParses(b) THEN [kind |-> "search_request", at |-> HpaiOf(b)] ELSE Nothing

DescriptionRequestBytes(m) == HpaiBytes(m.at)
DescriptionRequestOf(b) ==
  IF HpaiParses(b) THEN [kind |-> "description_request", at |-> HpaiOf(b)] ELSE Nothing

SearchResponseBytes(m) ==
  HpaiBytes(m.at) \o DeviceBytes(m.device) \o FamilyBytes(m.device.services)
SearchResponseOf(b) ==
  IF HpaiParses(b) /\ DeviceParses(From(b, 9))
  THEN [kind |-> "search_response", at |-> HpaiOf(b), device |-> DeviceOf(From(b, 9))]
  ELSE Nothing

(* The device is asked for a connection; of the option, nothing is read.     *)
ConnectRequestBytes(m) == HpaiBytes(m.at) \o HpaiBytes(m.at) \o CriBytes(<<m.option, 0>>)
ConnectRequestOf(b) ==
  IF HpaiParses(b) /\ HpaiParses(From(b, 9)) /\ CriParses(From(b, 17))
  THEN [kind |-> "connect_request", at |-> HpaiOf(b)] ELSE Nothing

ConnectResponseBytes(m) == <<m.channel, 0>> \o HpaiBytes(m.at) \o CriBytes(<<2, 0>>)
ConnectResponseOf(b) ==
  IF b[2] = 0 /\ HpaiParses(From(b, 3)) /\ CriParses(From(b, 11))
  THEN [kind |-> "connect_response", channel |-> b[1], at |-> HpaiOf(From(b, 3))] ELSE Nothing

StateRequestBytes(m) == <<m.channel, 0>> \o HpaiBytes(m.at)
StateRequestOf(b) ==
  IF HpaiParses(From(b, 3))
  THEN [kind |-> "state_request", channel |-> b[1], at |-> HpaiOf(From(b, 3))] ELSE Nothing

DisconnectRequestBytes(m) == <<m.channel, 0>> \o HpaiBytes(m.at)
DisconnectRequestOf(b) ==
  IF HpaiParses(From(b, 3))
  THEN [kind |-> "disconnect_request", channel |-> b[1], at |-> HpaiOf(From(b, 3))] ELSE Nothing

StateResponseBytes(m) == <<m.channel, m.status>>
StateResponseOf(b) == [kind |-> "state_response", channel |-> b[1], status |-> b[2]]

DisconnectResponseBytes(m) == <<m.channel, m.status>>
DisconnectResponseOf(b) == [kind |-> "disconnect_response", channel |-> b[1], status |-> b[2]]

TunnelAckBytes(m) == <<4, m.channel, m.number, m.status>>
TunnelAckOf(b) == [kind |-> "tunnelling_ack", channel |-> b[2], number |-> b[3], status |-> b[4]]

TunnelRequestBytes(m) == <<4, m.channel, m.number, 0>> \o FrameBytes(m.frame)
TunnelRequestOf(b) ==
  IF FrameParses(From(b, 5))
  THEN [kind |-> "tunnelling_request", channel |-> b[2], number |-> b[3],
        frame |-> FrameOf(From(b, 5))]
  ELSE Nothing

RoutingIndicationBytes(m) == FrameBytes(m.frame)
RoutingIndicationOf(b) ==
  IF FrameParses(b) THEN [kind |-> "routing_indication", frame |-> FrameOf(b)] ELSE Nothing

MonitorOf(b) ==
  IF MonitorParses(b)
  THEN [kind |-> "monitor_indication", status |-> ReadStatus(b), time |-> ReadTimestamp(b),
        raw |-> From(b, MonitorEnd(b))]
  ELSE Nothing

Body(m) ==
  CASE m.kind = "search_request" -> SearchRequestBytes(m)
    [] m.kind = "description_request" -> DescriptionRequestBytes(m)
    [] m.kind = "search_response" -> SearchResponseBytes(m)
    [] m.kind = "connect_request" -> ConnectRequestBytes(m)
    [] m.kind = "connect_response" -> ConnectResponseBytes(m)
    [] m.kind = "state_request" -> StateRequestBytes(m)
    [] m.kind = "disconnect_request" -> DisconnectRequestBytes(m)
    [] m.kind = "state_response" -> StateResponseBytes(m)
    [] m.kind = "disconnect_response" -> DisconnectResponseBytes(m)
    [] m.kind = "tunnelling_ack" -> TunnelAckBytes(m)
    [] m.kind = "tunnelling_request" -> TunnelRequestBytes(m)
    [] m.kind = "routing_indication" -> RoutingIndicationBytes(m)
    [] m.kind = "monitor_indication" -> MonitorBytes(m)

Filled(m) ==
  LET kind == IF m.kind = "monitor_indication" THEN "tunnelling_request" ELSE m.kind
  IN Header(kind, Len(Body(m))) \o Body(m)

MessageOf(kind, b) ==
  CASE kind = "search_request" -> SearchRequestOf(b)
    [] kind = "description_request" -> DescriptionRequestOf(b)
    [] kind = "search_response" -> SearchResponseOf(b)
    [] kind = "connect_request" -> ConnectRequestOf(b)
    [] kind = "connect_response" -> ConnectResponseOf(b)
    [] kind = "state_request" -> StateRequestOf(b)
    [] kind = "disconnect_request" -> DisconnectRequestOf(b)
    [] kind = "state_response" -> StateResponseOf(b)
    [] kind = "disconnect_response" -> DisconnectResponseOf(b)
    [] kind = "tunnelling_ack" -> TunnelAckOf(b)
    [] kind = "tunnelling_request" -> TunnelRequestOf(b)
    [] kind = "routing_indication" -> RoutingIndicationOf(b)

(* A bus monitor takes every tunnelling request for its own.                 *)
Read(bytes, monitoring) ==
  LET body == From(Dispatched(bytes), 7)
  IN IF ~HeaderParses(bytes) THEN Nothing
     ELSE IF monitoring THEN MonitorOf(body) ELSE MessageOf(ServiceOf(bytes), body)

-----------------------------------------------------------------------------
(* The messages around the telegrams.                                       *)

DeviceWord == 4608
KnxDevices ==
  [address : {AddressSet(DeviceWord, FALSE)}, serial : {<<0, 1, 2, 3, 4, 255>>},
   group : {<<224, 0, 23, 12>>}, mac : {<<0, 0, 0, 0, 0, 1>>}, name : KnxNames,
   services : KnxServices]

Numbers == {0, 255}

KnxMessages ==
  [kind : {"search_request", "description_request"}, at : KnxEndpoints]
    \cup [kind : {"search_response"}, at : KnxEndpoints, device : KnxDevices]
    \cup [kind : {"connect_request"}, at : KnxEndpoints, option : {2, 128}]
    \cup [kind : {"connect_response", "state_request", "disconnect_request"},
          channel : Numbers, at : KnxEndpoints]
    \cup [kind : {"state_response", "disconnect_response"}, channel : Numbers, status : {0, 33}]
    \cup [kind : {"tunnelling_ack"}, channel : Numbers, number : Numbers, status : {0, 33}]

KnxMonitored ==
  [kind : {"monitor_indication"}, channel : {255}, number : {0}, raw : {<<188>>, <<188, 17>>},
   info : {<<[type |-> 3, data |-> <<161>>], [type |-> 4, data |-> <<1, 2>>]>>,
           <<[type |-> 6, data |-> <<0, 1, 2, 3>>], [type |-> 3, data |-> <<7>>]>>}]

(* What the one who reads a message can know of it.                          *)
DataOf(info, types) == (CHOOSE item \in {info[1], info[2]} : item.type \in types).data
Kept(m) ==
  CASE m.kind = "connect_request" -> [kind |-> m.kind, at |-> m.at]
    [] m.kind = "monitor_indication" ->
         [kind |-> m.kind, status |-> DataOf(m.info, {3}), time |-> BigEndian(DataOf(m.info, {4, 6})),
          raw |-> m.raw]
    [] OTHER -> m

KnxSends(wire) ==
  /\ knxWire = Nothing /\ knxSent < KnxMaxSends
  /\ knxSent' = knxSent + 1 /\ knxWire' = wire

Arrives(read) == knxTrip' = [meant |-> knxWire.meant, read |-> read]

KnxSendsMessage ==
  /\ \E m \in KnxMessages \cup KnxMonitored :
       KnxSends([kind |-> IF m \in KnxMonitored THEN "monitored" ELSE "message",
                 bytes |-> Filled(m), meant |-> Kept(m)])
  /\ UNCHANGED <<knxMsg, knxDb, knxTrip>>

KnxReadsMessage ==
  /\ knxWire.kind \in {"message", "monitored"}
  /\ Arrives(Read(knxWire.bytes, knxWire.kind = "monitored"))
  /\ knxWire' = Nothing /\ UNCHANGED <<knxMsg, knxDb, knxSent>>

-----------------------------------------------------------------------------
(* Telegrams.                                                               *)

(* A telegram as programs know it.  The messages between a program and the   *)
(* server have no place for the byte tpci: see FreshCommand below.           *)
Telegram(text, value) == [text |-> text, value |-> value]
TelegramOf(f) == Telegram(ToText(DestOf(f)), f.value)

KnxGroups == {AddressOf(t) : t \in {u \in KnxTexts : u.sep = "/"}}

KnxInit ==
  /\ knxMsg = EmptyFrame
  /\ knxDb = [w \in {ToByteArray(a) : a \in KnxGroups} |-> [value |-> <<128>>, phy |-> 4353]]
  /\ knxWire = Nothing /\ knxTrip = [meant |-> Nothing, read |-> Nothing] /\ knxSent = 0

(* A group as its telegrams name it, in three levels.                        *)
InLevels(t) ==
  IF Len(t.parts) = 2 THEN [t EXCEPT !.parts = <<@[1], @[2] \div 256, @[2] % 256>>] ELSE t

(* SendEIBNetwork of an address and a value.                                *)
KnxProgramCommands ==
  /\ \E t \in KnxTexts, v \in KnxValues :
       /\ Fits(v)
       /\ KnxSends([kind |-> "command", logical |-> AddressOf(t).group,
                    function |-> ToByteArray(AddressOf(t)), value |-> v, meant |-> Telegram(InLevels(t), v)])
  /\ UNCHANGED <<knxMsg, knxDb, knxTrip>>

(* The frames of others, with values of any length.                          *)
KnxForeignFrames(mc) ==
  {[NewFrame(mc, NoAddress, AddressOf(t), v) EXCEPT !.tpci = p] :
     t \in KnxTexts, v \in KnxValues, p \in KnxTpcis}

(* SendEIBNetwork of a frame.  The message has room for a value of one byte  *)
(* more than any other place has, and FillBuffer throws from there on.       *)
RelayRoom == 11 + MaxValue

KnxRelayCommands ==
  /\ \E f \in KnxForeignFrames(LDataReq) :
       /\ TotalSize(f) <= RelayRoom
       /\ KnxSends([kind |-> "relayed", bytes |-> FrameBytes(f), meant |-> f])
  /\ UNCHANGED <<knxMsg, knxDb, knxTrip>>

(* HandleIncomingPktsFromClient, and SendDataFrame of either connection.     *)
KnxServerTakes(f) ==
  /\ knxMsg' = f
  /\ \E m \in {[kind |-> "tunnelling_request", channel |-> 1, number |-> 0, frame |-> f],
               [kind |-> "routing_indication", frame |-> f]} :
       knxWire' = [kind |-> "to_device", from |-> knxWire.kind, bytes |-> Filled(m),
                   meant |-> knxWire.meant]

KnxServerForwards ==
  /\ \/ /\ knxWire.kind = "command"
        /\ KnxServerTakes(CommandFrame(knxMsg, AddressSet(knxWire.function, knxWire.logical),
                                       knxWire.value))
     \/ knxWire.kind = "relayed" /\ KnxServerTakes(FrameOf(knxWire.bytes))
  /\ UNCHANGED <<knxDb, knxTrip, knxSent>>

(* CEmulatorDB: the array that SetValueForGroup copies into is one of        *)
(* pointers, eight bytes each, and starts as zeros.  A fifteenth byte lands  *)
(* behind arrays of fourteen and is never sent: only the length counts.      *)
Stored(value) ==
  IF Len(value) = 1 THEN value
  ELSE SubSeq(<<value[1]>> \o Zeros(7) \o Tail(value), 1, Len(value))

KnxIsRead(f) == Len(f.value) = 1 /\ f.value[1] = 0 /\ f.tpci = 0

(* The indication with the value of a group, as a response.                 *)
Response(f) ==
  LET entry == knxDb[f.daddr]
  IN NewFrame(LDataInd, AddressSet(entry.phy, FALSE), DestOf(f),
              [entry.value EXCEPT ![1] = IF Bit(@, 64) = 1 THEN @ ELSE @ + 64])

(* The emulator: confirmation, and the group's value if it was asked for.  A *)
(* value that no frame takes, which a relay can write, throws before either  *)
(* is sent.                                                                 *)
KnxDeviceTakes ==
  LET f == Read(knxWire.bytes, FALSE).frame
      known == f.daddr \in DOMAIN knxDb
      source == IF known THEN AddressSet(knxDb[f.daddr].phy, FALSE) ELSE NoAddress
      confirmation == WithSource(WithDest([f EXCEPT !.mc = LDataCon], DestOf(f)), source)
      answers == IF ~(KnxIsRead(f) /\ known) THEN <<confirmation>>
                 ELSE IF Fits(knxDb[f.daddr].value) THEN <<confirmation, Response(f)>> ELSE <<>>
      queue == [i \in 1 .. Len(answers) |->
                 Filled([kind |-> "tunnelling_request", channel |-> 1, number |-> i,
                         frame |-> answers[i]])]
  IN /\ knxWire.kind = "to_device"
     /\ Arrives(IF knxWire.from = "command" THEN TelegramOf(f) ELSE f)
     /\ knxDb' = IF KnxIsRead(f) \/ ~known THEN knxDb
                 ELSE [knxDb EXCEPT ![f.daddr].value = Stored(f.value)]
     /\ knxWire' = IF answers = <<>> THEN Nothing ELSE [kind |-> "to_server", queue |-> queue]
     /\ UNCHANGED <<knxMsg, knxSent>>

KnxBusBrings ==
  /\ \E f \in KnxForeignFrames(LDataInd) :
       KnxSends([kind |-> "to_server",
                 queue |-> <<Filled([kind |-> "tunnelling_request", channel |-> 1, number |-> 0,
                                     frame |-> f])>>])
  /\ UNCHANGED <<knxMsg, knxDb, knxTrip>>

(* RunEIBReader takes the value of every frame for the statistics, before it *)
(* calls Brodcast: a value that does not fit throws there (EIBHandler.cpp:50 *)
(* and CCemi_L_Data_Frame.cpp:248), so that a relay, whose message has room  *)
(* for one byte more, does not see it either.                               *)
ReaderForwards(f) == Fits(f.value)

(* Then the client thread of a program or of a relay: a confirmation is for  *)
(* relays only.                                                             *)
KnxServerReads ==
  LET f == Read(Head(knxWire.queue), FALSE).frame
      rest == Tail(knxWire.queue)
      dropped == IF rest = <<>> THEN Nothing ELSE [knxWire EXCEPT !.queue = rest]
  IN /\ knxWire.kind = "to_server"
     /\ \/ /\ ~ReaderForwards(f)
           /\ knxWire' = dropped /\ UNCHANGED knxMsg
        \/ /\ ReaderForwards(f) /\ f.mc = LDataInd
           /\ knxWire' = [kind |-> "status", logical |-> DestOf(f).group,
                           function |-> Htons(ToByteArray(DestOf(f))), value |-> f.value,
                           queue |-> rest, meant |-> TelegramOf(f)]
           /\ knxMsg' = f
        \/ /\ ReaderForwards(f) /\ f.mc \in {LDataInd, LDataCon}
           /\ TotalSize(f) <= RelayRoom
           /\ knxWire' = [kind |-> "raw_status", bytes |-> FrameBytes(f), queue |-> rest, meant |-> f]
           /\ knxMsg' = f
        \/ /\ f.mc = LDataCon
           /\ knxWire' = dropped /\ UNCHANGED knxMsg
     /\ UNCHANGED <<knxDb, knxTrip, knxSent>>

(* ReceiveEIBNetwork, of an address and a value or of a frame.               *)
KnxClientReads ==
  /\ \/ /\ knxWire.kind = "status"
        /\ LET b == Memory(knxWire.function)
               address == [high |-> b[1], low |-> b[2], group |-> knxWire.logical, levels |-> 3]
           IN Arrives(Telegram(ToText(address), knxWire.value))
     \/ knxWire.kind = "raw_status" /\ Arrives(FrameOf(knxWire.bytes))
  /\ knxWire' = IF knxWire.queue = <<>> THEN Nothing
                ELSE [kind |-> "to_server", queue |-> knxWire.queue]
  /\ UNCHANGED <<knxMsg, knxDb, knxSent>>

KnxNext ==
  \/ KnxSendsMessage \/ KnxReadsMessage \/ KnxProgramCommands \/ KnxRelayCommands
  \/ KnxServerForwards \/ KnxDeviceTakes \/ KnxBusBrings \/ KnxServerReads \/ KnxClientReads

KnxSpec == KnxInit /\ [][KnxNext]_knxVars

-----------------------------------------------------------------------------
(* Whoever reads a message reads what its sender meant: every class that     *)
(* fills a buffer agrees with the one that parses it, and a telegram keeps   *)
(* its group and value on every leg, program to device and bus to program,   *)
(* although each class turns the words round in a place of its own.          *)
KnxReadAsMeant == knxTrip.read = knxTrip.meant

(* Not so in this code.  A command keeps the byte tpci of the last telegram  *)
(* that its client thread saw, because they share the frame object           *)
(* (Client.cpp:163) and "build the packet" (Client.cpp:106) leaves it alone. *)
FreshCommand ==
  knxWire.kind = "to_device" /\ knxWire.from = "command" =>
    Read(knxWire.bytes, FALSE).frame.tpci = 0

(* "set the TTL to 6 (Default)", Client.cpp:110: the 6 goes to the low bits, *)
(* which SetFrameFormatStandard clears, and the hop count is 0.              *)
HopCountIsDefault ==
  knxWire.kind = "to_device" /\ knxWire.from = "command" =>
    HopCount(Read(knxWire.bytes, FALSE).frame) = 6

(* The emulator stores the value it is given: not when it is longer than one *)
(* byte, because what follows the first lands past eight pointers.           *)
EmulatorKeepsValue == \A v \in KnxValues : Fits(v) => Stored(v) = v

(* "fast algorithm to count the number of set bits": right below sixteen,    *)
(* so for these four families, and wrong from there on.                      *)
ServicesCounted ==
  \A mask \in 0 .. 255 :
    CountBits(mask) = Cardinality({b \in 0 .. 7 : Bit(mask, 2 ^ b) = 1})
=============================================================================
