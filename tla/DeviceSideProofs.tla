-------------------------- MODULE DeviceSideProofs --------------------------
(***************************************************************************)
(* Theorems about the two programs that are a KNXnet/IP device to their     *)
(* clients, the relay and the emulator, for every number of connections and *)
(* every patience, and about the relay for every size of its sequence       *)
(* numbers and every number of datagrams on their way; and about what the   *)
(* bytes of telegrams and messages mean, for all addresses and values.      *)
(*                                                                         *)
(* That the relay keeps the order of the frames rests on the order in which *)
(* datagrams arrive: Announced, InOrder and AtHome say that nothing of a    *)
(* connection is on its way any more when its channel is drawn again, and   *)
(* Forward and Backward order what is on its way in the two directions.     *)
(***************************************************************************)
EXTENDS RelayHandler, EmulatorHandler, KnxFrames, ModularArithmetic, SequenceTheorems

(***************************************************************************)
(* What is on its way: x, y behind x, and y between z and x.                *)
(***************************************************************************)
On(q, x) == \E k \in 1 .. Len(q) : q[k] = x
Behind(q, x, y) == \E k, l \in 1 .. Len(q) : k < l /\ q[k] = x /\ q[l] = y
Behind2(q, z, x, y) ==
  \E j, k, l \in 1 .. Len(q) : j < k /\ k < l /\ q[j] = z /\ q[k] = x /\ q[l] = y

(***************************************************************************)
(* The inductive invariant of the relay.                                   *)
(***************************************************************************)
RelayNumbers == 0 .. RelayMod - 1
RelayStates ==
  [channel : RelayChannels \ {0}, connected : BOOLEAN, recv : RelayNumbers, send : RelayNumbers,
   left : 0 .. RelayPatience]
RelayConnects == {"connect", "connect other"}
RelayByes == {"bye", "bye ok"}
RelayKinds ==
  RelayConnects \cup RelayByes
    \cup {"request", "ack", "state", "search", "describe", "connected"}
RelayDatagrams ==
  [kind : RelayKinds, channel : RelayChannels, seq : RelayNumbers, data : Nat]

RelayOutputs ==
  [pc : {"read", "lock", "scan", "send", "done"}, stop : BOOLEAN, slot : Nat, frame : Nat,
   freed : {"no", "timeout", "disconnect"}]

RelayTypes ==
  /\ relayTable \in [RelaySlots -> RelayStates \cup {NoState}]
  /\ relayIn \in [pc : {"clean", "receive", "done"}, stop : BOOLEAN]
  /\ relayOut \in RelayOutputs
  /\ relayWire \in [toRelay : Seq(RelayDatagrams), toClient : Seq(RelayDatagrams)]
  /\ relayPassed \in Seq(Nat)
  /\ relayClient \in [channel : RelayChannels, asks : Nat, made : Nat, tries : 0 .. 2,
                      send : RelayNumbers, recv : RelayNumbers, got : Seq(Nat)]

(* A connection that the output thread has found and that has not been      *)
(* freed is in the table.                                                   *)
FoundIsThere ==
  relayOut.pc = "send" /\ relayOut.freed = "no" => relayOut.slot \in RelayUsed

Alive(c) == \E i \in RelayUsed : relayTable[i].channel = c /\ relayTable[i].left > 0

(* A connect response on its way names a live connection, once, and no      *)
(* disconnect of that channel is on its way.                                *)
Announced ==
  /\ \A x \in RelayDatagrams :
       On(relayWire.toClient, x) /\ x.kind = "connected" =>
         /\ x.channel # 0 /\ Alive(x.channel)
         /\ \A y \in RelayDatagrams :
              On(relayWire.toRelay, y) /\ y.kind \in RelayByes => y.channel # x.channel
  /\ \A x, y \in RelayDatagrams :
       Behind(relayWire.toClient, x, y) /\ x.kind = "connected" /\ y.kind = "connected" =>
         x.channel # y.channel

(* Behind a request for a connection come only datagrams of live ones, and  *)
(* behind a disconnect none of that channel.                                *)
InOrder ==
  \A x, y \in RelayDatagrams :
    Behind(relayWire.toRelay, x, y) /\ y.channel # 0 =>
      /\ x.kind \in RelayConnects => Alive(y.channel)
      /\ x.kind \in RelayByes => x.channel # y.channel

(* The connection of the client is not announced or closed again, and lives *)
(* while a request for another is on its way.                               *)
AtHome ==
  relayClient.channel # 0 =>
    /\ \A x \in RelayDatagrams :
         On(relayWire.toClient, x) /\ x.kind = "connected" => x.channel # relayClient.channel
    /\ \A x \in RelayDatagrams : On(relayWire.toRelay, x) =>
         /\ x.kind \in RelayByes => x.channel # relayClient.channel
         /\ x.kind \in RelayConnects => Alive(relayClient.channel)

(* If d has been passed on, the connections of channel c expect the number  *)
(* after n.                                                                 *)
TakenAs(d, c, n) ==
  On(relayPassed, d) =>
    \A i \in RelayUsed : relayTable[i].channel = c => relayTable[i].recv = RelaySucc(n)

(* The requests on their way go up, up to repetition, and are not below     *)
(* what has been passed on; one that has been is not expected any more.     *)
Forward ==
  /\ \A d \in Nat : On(relayPassed, d) => d <= relayClient.made
  /\ \A x \in RelayDatagrams : On(relayWire.toRelay, x) /\ x.kind = "request" =>
       /\ x.channel # 0
       /\ x.data <= relayClient.made
       /\ \A d \in Nat : On(relayPassed, d) => d <= x.data
       /\ TakenAs(x.data, x.channel, x.seq)
  /\ \A x, y \in RelayDatagrams :
       Behind(relayWire.toRelay, x, y) /\ x.kind = "request" /\ y.kind = "request" =>
         /\ x.data <= y.data
         /\ x.data = y.data => x.channel = y.channel /\ x.seq = y.seq

(* The request that the client may repeat.                                  *)
Repeated ==
  /\ relayClient.tries # 0 => relayClient.channel # 0
  /\ relayClient.tries = 1 =>
       /\ TakenAs(relayClient.made, relayClient.channel, relayClient.send)
       /\ \A x \in RelayDatagrams :
            On(relayWire.toRelay, x) /\ x.kind = "request" /\ x.data = relayClient.made =>
              x.channel = relayClient.channel /\ x.seq = relayClient.send

(* The frames on their way to the client, in one connection, go up.         *)
Backward ==
  /\ \A d \in Nat : On(relayClient.got, d) => d <= relayOut.frame
  /\ \A x \in RelayDatagrams :
       On(relayWire.toClient, x) /\ x.kind = "request" =>
         /\ x.data <= relayOut.frame /\ x.channel # 0
         /\ x.channel = relayClient.channel =>
              \A d \in Nat : On(relayClient.got, d) => d < x.data
  /\ \A x, y \in RelayDatagrams :
       (/\ Behind(relayWire.toClient, x, y) /\ x.kind = "request" /\ y.kind = "request"
        /\ x.channel = relayClient.channel /\ y.channel = relayClient.channel /\ x.channel # 0) =>
         x.data < y.data
  /\ \A z, x, y \in RelayDatagrams :
       (/\ Behind2(relayWire.toClient, z, x, y)
        /\ z.kind = "connected" /\ x.kind = "request" /\ y.kind = "request"
        /\ x.channel = z.channel /\ y.channel = z.channel) =>
         x.data < y.data

(* The output thread has not come to slot i with its frame.                 *)
Unserved(i) ==
  relayOut.pc = "lock" \/ (relayOut.pc \in {"scan", "send"} /\ relayOut.slot <= i)

(* What such a connection has been sent was made before.                    *)
NotYetSent ==
  \A i \in RelayUsed : Unserved(i) =>
    /\ relayTable[i].channel = relayClient.channel =>
         /\ \A d \in Nat : On(relayClient.got, d) => d < relayOut.frame
         /\ \A x \in RelayDatagrams :
              (/\ On(relayWire.toClient, x) /\ x.kind = "request"
               /\ x.channel = relayClient.channel) =>
                x.data < relayOut.frame
    /\ \A z, x \in RelayDatagrams :
         (/\ Behind(relayWire.toClient, z, x) /\ z.kind = "connected" /\ x.kind = "request"
          /\ z.channel = relayTable[i].channel /\ x.channel = relayTable[i].channel) =>
           x.data < relayOut.frame

RelayInv ==
  /\ RelayTypes /\ RelayChannelsDistinct /\ FoundIsThere
  /\ Announced /\ InOrder /\ AtHome /\ Forward /\ Repeated /\ Backward /\ NotYetSent
  /\ RelayedInOrder

(***************************************************************************)
(* Queues: what is behind what after an append, or a datagram less.         *)
(***************************************************************************)
LEMMA AppendOn ==
  ASSUME NEW S, NEW q \in Seq(S), NEW m \in S
  PROVE  /\ Append(q, m) \in Seq(S)
         /\ \A x : On(Append(q, m), x) => On(q, x) \/ x = m
         /\ \A x, y : Behind(Append(q, m), x, y) => Behind(q, x, y) \/ (On(q, x) /\ y = m)
         /\ \A z, x, y : Behind2(Append(q, m), z, x, y) =>
              Behind2(q, z, x, y) \/ (Behind(q, z, x) /\ y = m)
<1> DEFINE a == Append(q, m)
<1>1. /\ a \in Seq(S) /\ Len(a) = Len(q) + 1 /\ Len(q) \in Nat
      /\ \A k \in 1 .. Len(q) : a[k] = q[k]
      /\ a[Len(q) + 1] = m
  BY AppendProperties, LenProperties
<1> HIDE DEF a
<1>2. \A k \in 1 .. Len(a) : k \in 1 .. Len(q) \/ k = Len(q) + 1
  BY <1>1
<1>3. \A x : On(a, x) => On(q, x) \/ x = m
  BY <1>1, <1>2 DEF On
<1>4. \A x, y : Behind(a, x, y) => Behind(q, x, y) \/ (On(q, x) /\ y = m)
  <2> SUFFICES ASSUME NEW x, NEW y, Behind(a, x, y)
               PROVE  Behind(q, x, y) \/ (On(q, x) /\ y = m)
    OBVIOUS
  <2>1. PICK k, l \in 1 .. Len(a) : k < l /\ a[k] = x /\ a[l] = y
    BY DEF Behind
  <2>2. k \in 1 .. Len(q) /\ a[k] = q[k]
    BY <1>1, <2>1
  <2>3. CASE l \in 1 .. Len(q)
    BY <1>1, <2>1, <2>2, <2>3 DEF Behind
  <2>4. CASE l = Len(q) + 1
    BY <1>1, <2>1, <2>2, <2>4 DEF On
  <2>5. QED BY <1>2, <2>3, <2>4
<1>5. \A z, x, y : Behind2(a, z, x, y) => Behind2(q, z, x, y) \/ (Behind(q, z, x) /\ y = m)
  <2> SUFFICES ASSUME NEW z, NEW x, NEW y, Behind2(a, z, x, y)
               PROVE  Behind2(q, z, x, y) \/ (Behind(q, z, x) /\ y = m)
    OBVIOUS
  <2>1. PICK j, k, l \in 1 .. Len(a) : j < k /\ k < l /\ a[j] = z /\ a[k] = x /\ a[l] = y
    BY DEF Behind2
  <2>2. k \in 1 .. Len(q) /\ a[k] = q[k] /\ j \in 1 .. Len(q) /\ a[j] = q[j]
    BY <1>1, <2>1
  <2>3. CASE l \in 1 .. Len(q)
    BY <1>1, <2>1, <2>2, <2>3 DEF Behind2
  <2>4. CASE l = Len(q) + 1
    BY <1>1, <2>1, <2>2, <2>4 DEF Behind
  <2>5. QED BY <1>2, <2>3, <2>4
<1>6. QED BY <1>1, <1>3, <1>4, <1>5 DEF a

LEMMA TailOn ==
  ASSUME NEW S, NEW q \in Seq(S), q # <<>>
  PROVE  /\ Head(q) \in S /\ On(q, Head(q))
         /\ Tail(q) \in Seq(S)
         /\ \A x : On(Tail(q), x) => On(q, x) /\ Behind(q, Head(q), x)
         /\ \A x, y : Behind(Tail(q), x, y) =>
              Behind(q, x, y) /\ Behind2(q, Head(q), x, y)
         /\ \A z, x, y : Behind2(Tail(q), z, x, y) => Behind2(q, z, x, y)
<1> DEFINE t == Tail(q)
<1>1. /\ t \in Seq(S) /\ Len(t) = Len(q) - 1 /\ Len(q) \in Nat \ {0}
      /\ \A k \in 1 .. Len(t) : t[k] = q[k + 1]
      /\ Head(q) = q[1] /\ Head(q) \in S
  BY HeadTailProperties, LenProperties, EmptySeq
<1> HIDE DEF t
<1>2. /\ 1 \in 1 .. Len(q)
      /\ \A k \in 1 .. Len(t) : k + 1 \in 1 .. Len(q) /\ 1 < k + 1
  BY <1>1
<1>3. On(q, Head(q)) /\ \A x : On(t, x) => On(q, x) /\ Behind(q, Head(q), x)
  BY <1>1, <1>2 DEF On, Behind
<1>4. \A x, y : Behind(t, x, y) => Behind(q, x, y) /\ Behind2(q, Head(q), x, y)
  <2> SUFFICES ASSUME NEW x, NEW y, Behind(t, x, y)
               PROVE  Behind(q, x, y) /\ Behind2(q, Head(q), x, y)
    OBVIOUS
  <2>1. PICK k, l \in 1 .. Len(t) : k < l /\ t[k] = x /\ t[l] = y
    BY DEF Behind
  <2>2. k + 1 < l + 1 /\ q[k + 1] = x /\ q[l + 1] = y
    BY <1>1, <2>1
  <2>3. QED BY <1>1, <1>2, <2>2 DEF Behind, Behind2
<1>5. \A z, x, y : Behind2(t, z, x, y) => Behind2(q, z, x, y)
  <2> SUFFICES ASSUME NEW z, NEW x, NEW y, Behind2(t, z, x, y)
               PROVE  Behind2(q, z, x, y)
    OBVIOUS
  <2>1. PICK j, k, l \in 1 .. Len(t) : j < k /\ k < l /\ t[j] = z /\ t[k] = x /\ t[l] = y
    BY DEF Behind2
  <2>2. j + 1 < k + 1 /\ k + 1 < l + 1 /\ q[j + 1] = z /\ q[k + 1] = x /\ q[l + 1] = y
    BY <1>1, <2>1
  <2>3. QED BY <1>1, <1>2, <2>2 DEF Behind2
<1>6. QED BY <1>1, <1>3, <1>4, <1>5 DEF t

LEMMA NothingOn ==
  /\ \A x : ~On(<<>>, x)
  /\ \A x, y : ~Behind(<<>>, x, y)
  /\ \A z, x, y : ~Behind2(<<>>, z, x, y)
BY DEF On, Behind, Behind2

(* A datagram that may be lost.                                             *)
LEMMA SentOn ==
  ASSUME NEW S, NEW q \in Seq(S), NEW m \in S, NEW r \in RelaySent(q, m)
  PROVE  /\ r \in Seq(S)
         /\ \A x : On(r, x) => On(q, x) \/ x = m
         /\ \A x, y : Behind(r, x, y) => Behind(q, x, y) \/ (On(q, x) /\ y = m)
         /\ \A z, x, y : Behind2(r, z, x, y) => Behind2(q, z, x, y) \/ (Behind(q, z, x) /\ y = m)
<1>1. r = q \/ r = Append(q, m)
  BY DEF RelaySent
<1>2. CASE r = q
  BY <1>2
<1>3. CASE r = Append(q, m)
  BY <1>3, AppendOn
<1>4. QED BY <1>1, <1>2, <1>3

LEMMA IncreasingAppend ==
  ASSUME NEW s \in Seq(Nat), NEW d \in Nat, RelayIncreasing(s),
         \A x \in Nat : On(s, x) => x < d
  PROVE  RelayIncreasing(Append(s, d))
<1> DEFINE a == Append(s, d)
<1>1. /\ Len(a) = Len(s) + 1 /\ Len(s) \in Nat
      /\ \A k \in 1 .. Len(s) : a[k] = s[k] /\ s[k] \in Nat
      /\ a[Len(s) + 1] = d
  BY AppendProperties, LenProperties, ElementOfSeq
<1> HIDE DEF a
<1>2. \A k \in 1 .. Len(s) : s[k] < d
  BY <1>1 DEF On
<1>3. RelayIncreasing(a)
  <2> SUFFICES ASSUME NEW i \in 1 .. Len(a), NEW j \in 1 .. Len(a), i < j
               PROVE  a[i] < a[j]
    BY DEF RelayIncreasing
  <2>1. i \in 1 .. Len(s) /\ (j \in 1 .. Len(s) \/ j = Len(s) + 1)
    BY <1>1
  <2>2. QED BY <1>1, <1>2, <2>1 DEF RelayIncreasing
<1>4. QED BY <1>3 DEF a

(***************************************************************************)
(* Types of the relay.                                                     *)
(***************************************************************************)
LEMMA RelaySuccessor ==
  ASSUME NEW n \in RelayNumbers
  PROVE  RelaySucc(n) \in RelayNumbers /\ RelaySucc(n) # n
<1>1. RelayMod \in Nat \ {0} /\ RelayMod > 1
  BY RelayAssumption
<1>2. /\ \A r \in 0 .. RelayMod - 1 : r % RelayMod = r
      /\ RelayMod % RelayMod = 0
  BY <1>1, SmallRemainder
<1>3. CASE n + 1 = RelayMod
  BY <1>1, <1>2, <1>3 DEF RelaySucc, RelayNumbers
<1>4. CASE n + 1 # RelayMod
  <2>1. n + 1 \in 0 .. RelayMod - 1
    BY <1>1, <1>4 DEF RelayNumbers
  <2>2. QED BY <1>1, <1>2, <2>1 DEF RelaySucc, RelayNumbers
<1>5. QED BY <1>3, <1>4

(* What the handlers need of the datagram they take.                        *)
LEMMA RelayRequestTyped ==
  ASSUME RelayTypes, relayWire.toRelay # <<>>
  PROVE  /\ RelayRequest \in RelayDatagrams
         /\ Tail(relayWire.toRelay) \in Seq(RelayDatagrams)
BY TailOn DEF RelayTypes, RelayRequest

(* The types of what a step of the input thread changes.                    *)
LEMMA RelayAnswersTyped ==
  ASSUME RelayTypes, relayWire.toRelay # <<>>, NEW m \in RelayDatagrams,
         RelayAnswers(m) \/ RelayTaken
  PROVE  relayWire' \in [toRelay : Seq(RelayDatagrams), toClient : Seq(RelayDatagrams)]
<1>1. Tail(relayWire.toRelay) \in Seq(RelayDatagrams)
  BY RelayRequestTyped
<1>2. CASE RelayAnswers(m)
  <2>1. PICK queue \in RelaySent(relayWire.toClient, m) :
          relayWire' = [toRelay |-> Tail(relayWire.toRelay), toClient |-> queue]
    BY <1>2 DEF RelayAnswers
  <2>2. queue \in Seq(RelayDatagrams)
    BY SentOn DEF RelayTypes
  <2>3. QED BY <1>1, <2>1, <2>2
<1>3. CASE RelayTaken
  BY <1>1, <1>3 DEF RelayTaken, RelayTypes
<1>4. QED BY <1>2, <1>3

LEMMA RelayFreeTyped ==
  ASSUME RelayTypes, NEW slots, NEW why \in {"timeout", "disconnect"}, RelayFree(slots, why)
  PROVE  /\ relayTable' \in [RelaySlots -> RelayStates \cup {NoState}]
         /\ relayOut' \in RelayOutputs
BY DEF RelayTypes, RelayFree, RelayOutputs

LEMMA UsedTyped ==
  ASSUME RelayTypes, NEW i \in RelayUsed
  PROVE  i \in RelaySlots /\ relayTable[i] \in RelayStates
BY DEF RelayTypes, RelayUsed

LEMMA UsedIsState ==
  ASSUME RelayTypes, NEW i \in RelaySlots, relayTable[i] \in RelayStates
  PROVE  i \in RelayUsed
<1>1. NoState.channel = -1 /\ NoState.channel \notin Nat
  BY DEF NoState
<1>2. relayTable[i].channel \in Nat
  BY RelayAssumption DEF RelayStates
<1>3. QED BY <1>1, <1>2 DEF RelayUsed
LEMMA StateUpdates ==
  ASSUME NEW r \in RelayStates
  PROVE  /\ \A n \in RelayNumbers : [r EXCEPT !.send = n] \in RelayStates
         /\ \A n \in RelayNumbers : [r EXCEPT !.recv = n] \in RelayStates
         /\ \A n \in 0 .. RelayPatience : [r EXCEPT !.left = n] \in RelayStates
         /\ {r.recv, r.send} \subseteq RelayNumbers /\ r.left \in 0 .. RelayPatience
         /\ r.channel \in RelayChannels \ {0}
BY DEF RelayStates

LEMMA RelayBasics ==
  /\ RelayPatience \in Nat \ {0} /\ RelayPatience \in 0 .. RelayPatience /\ RelayPatience > 0
  /\ 0 \in RelayNumbers /\ 0 \in RelayChannels
  /\ RelayChannels \subseteq Nat /\ RelaySlots \subseteq Nat
BY RelayAssumption DEF RelayNumbers

LEMMA StatesAreUsed == \A r \in RelayStates : r # NoState
BY RelayBasics DEF RelayStates, NoState

LEMMA RelayInitTypes == RelayInit => RelayTypes
<1> SUFFICES ASSUME RelayInit PROVE RelayTypes
  OBVIOUS
<1> USE DEF RelayInit
<1>1. relayTable \in [RelaySlots -> RelayStates \cup {NoState}]
  OBVIOUS
<1>2. /\ relayIn \in [pc : {"clean", "receive", "done"}, stop : BOOLEAN]
      /\ relayOut \in RelayOutputs
  BY DEF RelayOutputs
<1>3. /\ relayWire \in [toRelay : Seq(RelayDatagrams), toClient : Seq(RelayDatagrams)]
      /\ relayPassed \in Seq(Nat)
  BY EmptySeq
<1>4. relayClient \in [channel : RelayChannels, asks : Nat, made : Nat, tries : 0 .. 2,
                       send : RelayNumbers, recv : RelayNumbers, got : Seq(Nat)]
  BY EmptySeq, RelayBasics
<1>5. QED BY <1>1, <1>2, <1>3, <1>4 DEF RelayTypes

LEMMA RelayInputTypes == RelayTypes /\ RelayInput => RelayTypes'
<1> SUFFICES ASSUME RelayTypes, RelayInput PROVE RelayTypes'
  OBVIOUS
<1> DEFINE Others == UNCHANGED <<relayPassed, relayClient>>
           Wire == relayWire' \in [toRelay : Seq(RelayDatagrams), toClient : Seq(RelayDatagrams)]
           Table == relayTable' \in [RelaySlots -> RelayStates \cup {NoState}]
           In == relayIn' \in [pc : {"clean", "receive", "done"}, stop : BOOLEAN]
           Out == relayOut' \in RelayOutputs
<1>a. ASSUME relayIn' = [relayIn EXCEPT !.pc = "clean"]
             \/ relayIn' = [relayIn EXCEPT !.pc = "receive"]
             \/ relayIn' = [relayIn EXCEPT !.pc = "done"]
      PROVE  In
  BY <1>a DEF RelayTypes
<1>b. ASSUME UNCHANGED relayOut PROVE Out
  BY <1>b DEF RelayTypes
<1>c. ASSUME UNCHANGED relayTable PROVE Table
  BY <1>c DEF RelayTypes
<1>d. ASSUME Others, Wire, Table, In, Out PROVE RelayTypes'
  BY <1>d DEF RelayTypes
<1>e. ASSUME NEW kind, RelayReceives(kind)
      PROVE  In /\ relayWire.toRelay # <<>> /\ RelayRequest \in RelayDatagrams
  BY <1>e, <1>a, RelayRequestTyped DEF RelayReceives
<1>f. ASSUME RelayTaken, relayWire.toRelay # <<>> PROVE Wire
  <2>1. RelayMsg("ack", 0, 0, 0) \in RelayDatagrams
    BY RelayBasics DEF RelayMsg, RelayDatagrams, RelayKinds, RelayConnects, RelayByes
  <2>2. QED BY <1>f, <2>1, RelayAnswersTyped
<1>1. CASE CheckConnectionsCleanup
  <2>1. In /\ Wire /\ Others
    BY <1>1, <1>a DEF CheckConnectionsCleanup, RelayTypes
  <2>2. Table /\ Out
    BY <1>1, RelayFreeTyped DEF CheckConnectionsCleanup
  <2>3. QED BY <1>d, <2>1, <2>2
<1>2. CASE RelayReceivesNothing
  <2>1. In /\ Wire /\ Others
    BY <1>2, <1>a DEF RelayReceivesNothing, RelayTypes
  <2>2. Table /\ Out
    BY <1>2, <1>b, <1>c DEF RelayReceivesNothing
  <2>3. QED BY <1>d, <2>1, <2>2
<1>3. CASE RelayHandleTunnelAck
  <2>1. In /\ Wire /\ Others /\ Out
    BY <1>3, <1>b, <1>e, <1>f DEF RelayHandleTunnelAck, RelayReceives
  <2>2. Table
    <3>1. \A i \in RelayUsed : [relayTable[i] EXCEPT !.send = RelaySucc(@)] \in RelayStates
      BY UsedTyped, StateUpdates, RelaySuccessor
    <3>2. QED BY <1>3, <3>1 DEF RelayHandleTunnelAck, RelayTypes, RelayGetState
  <2>3. QED BY <1>d, <2>1, <2>2
<1>4. CASE RelayHandleTunnelRequest
  <2>1. In /\ Out /\ UNCHANGED relayClient /\ relayWire.toRelay # <<>>
        /\ RelayRequest \in RelayDatagrams
    BY <1>4, <1>b, <1>e DEF RelayHandleTunnelRequest, RelayReceives
  <2>2. CASE RelayTaken /\ UNCHANGED <<relayTable, relayPassed>>
    BY <2>1, <2>2, <1>c, <1>d, <1>f
  <2>3. ASSUME NEW i \in RelayGetState(RelayRequest.channel),
               relayTable' = [relayTable EXCEPT ![i].recv = RelaySucc(@)],
               relayPassed' \in {Append(relayPassed, RelayRequest.data), relayPassed},
               RelayAnswers(RelayMsg("ack", RelayRequest.channel, RelayRequest.seq, 0))
        PROVE  RelayTypes'
    <3>1. RelayMsg("ack", RelayRequest.channel, RelayRequest.seq, 0) \in RelayDatagrams
      BY <2>1 DEF RelayMsg, RelayDatagrams, RelayKinds
    <3>2. Wire
      BY <2>1, <2>3, <3>1, RelayAnswersTyped
    <3>3. Table
      <4>1. [relayTable[i] EXCEPT !.recv = RelaySucc(@)] \in RelayStates
        BY UsedTyped, StateUpdates, RelaySuccessor DEF RelayGetState
      <4>2. QED BY <2>3, <4>1 DEF RelayTypes
    <3>4. Append(relayPassed, RelayRequest.data) \in Seq(Nat)
      BY <2>1, AppendProperties DEF RelayTypes, RelayDatagrams
    <3>5. relayPassed' \in Seq(Nat)
      BY <2>3, <3>4 DEF RelayTypes
    <3>6. QED BY <2>1, <3>2, <3>3, <3>5 DEF RelayTypes
  <2>4. QED BY <1>4, <2>2, <2>3 DEF RelayHandleTunnelRequest
<1>5. CASE RelayHandleDisconnectRequest
  <2>1. In /\ Wire /\ Others
    BY <1>5, <1>e, <1>f DEF RelayHandleDisconnectRequest, RelayReceives
  <2>2. Table /\ Out
    BY <1>5, <1>b, <1>c, RelayFreeTyped DEF RelayHandleDisconnectRequest
  <2>3. QED BY <1>d, <2>1, <2>2
<1>6. CASE RelayHandleDisconnectResponse
  <2>1. In /\ Wire /\ Others
    BY <1>6, <1>e, <1>f DEF RelayHandleDisconnectResponse, RelayReceives
  <2>2. Table /\ Out
    BY <1>6, RelayFreeTyped DEF RelayHandleDisconnectResponse
  <2>3. QED BY <1>d, <2>1, <2>2
<1>7. CASE RelayHandleConnectionState
  <2>1. In /\ Wire /\ Others /\ Out
    BY <1>7, <1>b, <1>e, <1>f DEF RelayHandleConnectionState, RelayReceives
  <2>2. Table
    <3>1. \A i \in RelayUsed : [relayTable[i] EXCEPT !.left = RelayPatience] \in RelayStates
      BY UsedTyped, StateUpdates, RelayBasics
    <3>2. QED BY <1>7, <3>1 DEF RelayHandleConnectionState, RelayTypes, RelayGetState
  <2>3. QED BY <1>d, <2>1, <2>2
<1>8. CASE RelayHandleSearchRequest
  <2>1. In /\ Wire /\ Others /\ Out /\ Table
    BY <1>8, <1>b, <1>c, <1>e, <1>f DEF RelayHandleSearchRequest, RelayReceives
  <2>2. QED BY <1>d, <2>1
<1>9. CASE RelayInputEnds
  <2>1. In /\ Wire /\ Others /\ Out /\ Table
    BY <1>9, <1>a, <1>b, <1>c DEF RelayInputEnds, RelayTypes
  <2>2. QED BY <1>d, <2>1
<1>10. ASSUME NEW kind \in {"connect", "connect other"}, RelayHandleConnectRequest(kind)
       PROVE  RelayTypes'
  <2>1. In /\ Out /\ Others /\ relayWire.toRelay # <<>>
    BY <1>10, <1>b, <1>e DEF RelayHandleConnectRequest, RelayReceives
  <2>2. CASE RelayTaken /\ UNCHANGED relayTable
    BY <2>1, <2>2, <1>c, <1>d, <1>f
  <2>3. ASSUME NEW i \in RelaySlots, NEW c \in RelayChannels, RelayFreshChannel(c),
               relayTable' = [relayTable EXCEPT
                 ![i] = [RelayInitState(c) EXCEPT !.connected = (kind = "connect")]],
               RelayAnswers(RelayMsg("connected", c, 0, 0)) \/ RelayTaken
        PROVE  RelayTypes'
    <3>1. RelayMsg("connected", c, 0, 0) \in RelayDatagrams
      BY RelayBasics DEF RelayMsg, RelayDatagrams, RelayKinds
    <3>2. Wire
      BY <2>1, <2>3, <3>1, RelayAnswersTyped
    <3>3. [RelayInitState(c) EXCEPT !.connected = (kind = "connect")] \in RelayStates
      BY <2>3, RelayBasics DEF RelayInitState, RelayStates, RelayFreshChannel
    <3>4. Table
      BY <2>3, <3>3 DEF RelayTypes
    <3>5. QED BY <2>1, <3>2, <3>4, <1>d
  <2>4. QED
    BY <1>10, <2>2, <2>3 DEF RelayHandleConnectRequest
<1>11. QED
  BY <1>1, <1>2, <1>3, <1>4, <1>5, <1>6, <1>7, <1>8, <1>9, <1>10 DEF RelayInput

LEMMA RelayOutputTypes == RelayTypes /\ FoundIsThere /\ RelayOutput => RelayTypes'
<1> SUFFICES ASSUME RelayTypes, FoundIsThere, RelayOutput PROVE RelayTypes'
  OBVIOUS
<1>0. relayOut \in RelayOutputs /\ relayOut.slot + 1 \in Nat /\ relayOut.frame + 1 \in Nat
  BY DEF RelayTypes, RelayOutputs
<1>a. ASSUME RelayOutputStep(relayOut'), UNCHANGED relayWire, relayOut' \in RelayOutputs
      PROVE  RelayTypes'
  BY <1>a DEF RelayTypes, RelayOutputStep, RelayOutputs
<1>1. CASE RelayOutputReads
  BY <1>0, <1>1, <1>a DEF RelayOutputReads, RelayOutputStep, RelayOutputs
<1>2. CASE RelayOutputEnds
  BY <1>0, <1>2, <1>a DEF RelayOutputEnds, RelayOutputStep, RelayOutputs
<1>3. CASE BroadcastLocks
  BY <1>0, <1>3, <1>a DEF BroadcastLocks, RelayOutputStep, RelayOutputs
<1>4. CASE BroadcastScans
  BY <1>0, <1>4, <1>a DEF BroadcastScans, RelayOutputStep, RelayOutputs
<1>5. CASE SendTunnelToClient
  <2>1. relayOut' \in RelayOutputs /\ UNCHANGED <<relayTable, relayIn, relayPassed, relayClient>>
    BY <1>0, <1>5 DEF SendTunnelToClient, RelayOutputStep, RelayOutputs
  <2>2. relayWire' \in [toRelay : Seq(RelayDatagrams), toClient : Seq(RelayDatagrams)]
    <3> DEFINE s == relayTable[relayOut.slot]
               m == RelayMsg("request", s.channel, s.send, relayOut.frame)
    <3>1. CASE UNCHANGED relayWire
      BY <3>1 DEF RelayTypes
    <3>2. ASSUME relayOut.freed = "no",
                 NEW queue \in RelaySent(relayWire.toClient, m),
                 relayWire' = [relayWire EXCEPT !.toClient = queue]
          PROVE  relayWire' \in [toRelay : Seq(RelayDatagrams), toClient : Seq(RelayDatagrams)]
      <4>1. s \in RelayStates
        BY <1>5, <3>2, UsedTyped DEF FoundIsThere, SendTunnelToClient
      <4>2. s.channel \in RelayChannels /\ s.send \in RelayNumbers
        BY <4>1, StateUpdates
      <4> HIDE DEF s
      <4>3. m \in RelayDatagrams
        BY <1>0, <4>2 DEF RelayMsg, RelayDatagrams, RelayKinds, RelayOutputs
      <4> HIDE DEF m
      <4>4. queue \in Seq(RelayDatagrams)
        BY <3>2, <4>3, SentOn DEF RelayTypes
      <4>5. QED BY <3>2, <4>4 DEF RelayTypes
    <3>3. QED BY <1>5, <3>1, <3>2 DEF SendTunnelToClient
  <2>3. QED BY <2>1, <2>2 DEF RelayTypes, RelayOutputs
<1>6. QED BY <1>1, <1>2, <1>3, <1>4, <1>5 DEF RelayOutput
(* What a step of the client leaves.                                        *)
ClientLeaves == UNCHANGED <<relayTable, relayLock, relayIn, relayOut, relayMain, relayPassed>>
RelayClients ==
  [channel : RelayChannels, asks : Nat, made : Nat, tries : 0 .. 2,
   send : RelayNumbers, recv : RelayNumbers, got : Seq(Nat)]

LEMMA ClientSendsTyped ==
  ASSUME RelayTypes, NEW m \in RelayDatagrams, NEW next \in RelayClients, ClientSends(m, next)
  PROVE  RelayTypes'
<1>1. PICK queue \in RelaySent(relayWire.toRelay, m) : relayWire' = [relayWire EXCEPT !.toRelay = queue]
  BY DEF ClientSends
<1>2. queue \in Seq(RelayDatagrams)
  BY SentOn DEF RelayTypes
<1>3. relayWire' \in [toRelay : Seq(RelayDatagrams), toClient : Seq(RelayDatagrams)]
  BY <1>1, <1>2 DEF RelayTypes
<1>4. QED BY <1>3 DEF ClientSends, RelayTypes, RelayClients

LEMMA MsgTyped ==
  ASSUME NEW kind \in RelayKinds, NEW c \in RelayChannels, NEW n \in RelayNumbers, NEW d \in Nat
  PROVE  /\ RelayMsg(kind, c, n, d) \in RelayDatagrams
         /\ RelayMsg(kind, c, n, d).kind = kind /\ RelayMsg(kind, c, n, d).channel = c
         /\ RelayMsg(kind, c, n, d).seq = n /\ RelayMsg(kind, c, n, d).data = d
BY DEF RelayMsg, RelayDatagrams

LEMMA ClientUpdates ==
  ASSUME NEW r \in RelayClients, NEW c \in RelayChannels, NEW n \in RelayNumbers,
         NEW g \in Seq(Nat)
  PROVE  /\ [r EXCEPT !.asks = @ + 1] \in RelayClients
         /\ [r EXCEPT !.tries = 1, !.made = @ + 1] \in RelayClients
         /\ [r EXCEPT !.tries = 2] \in RelayClients
         /\ [r EXCEPT !.channel = c, !.tries = 0] \in RelayClients
         /\ [r EXCEPT !.channel = c, !.send = n, !.recv = n, !.got = g] \in RelayClients
         /\ [r EXCEPT !.tries = 0, !.send = n] \in RelayClients
         /\ [r EXCEPT !.recv = n, !.got = g] \in RelayClients
<1> USE DEF RelayClients
<1>1. r.asks + 1 \in Nat /\ r.made + 1 \in Nat /\ {0, 1, 2} \subseteq 0 .. 2
  OBVIOUS
<1>2. /\ [r EXCEPT !.asks = @ + 1] \in RelayClients
      /\ [r EXCEPT !.tries = 1, !.made = @ + 1] \in RelayClients
  BY <1>1
<1>3. /\ [r EXCEPT !.tries = 2] \in RelayClients
      /\ [r EXCEPT !.channel = c, !.tries = 0] \in RelayClients
  BY <1>1
<1>4. [r EXCEPT !.channel = c, !.send = n, !.recv = n, !.got = g] \in RelayClients
  OBVIOUS
<1>5. [r EXCEPT !.tries = 0, !.send = n] \in RelayClients
  BY <1>1
<1>6. [r EXCEPT !.recv = n, !.got = g] \in RelayClients
  OBVIOUS
<1>7. QED BY <1>2, <1>3, <1>4, <1>5, <1>6

LEMMA RelayClientTypes ==
  ASSUME RelayTypes,
         ClientSearches \/ ClientConnects \/ ClientTransmits \/ ClientRepeats \/ ClientCloses
           \/ ClientBeats
  PROVE  RelayTypes'
<1>0. relayClient \in RelayClients /\ relayClient.channel \in RelayChannels
      /\ relayClient.send \in RelayNumbers /\ relayClient.made \in Nat
      /\ relayClient.made + 1 \in Nat
  BY DEF RelayTypes, RelayClients
<1>a. \A kind \in RelayKinds, n \in RelayNumbers, d \in Nat, c \in RelayChannels :
        RelayMsg(kind, c, n, d) \in RelayDatagrams
  BY MsgTyped
<1>b. {"connect", "connect other", "search", "describe", "request", "bye", "bye ok", "state"}
        \subseteq RelayKinds
  BY DEF RelayKinds, RelayConnects, RelayByes
<1>c. 0 \in RelayNumbers /\ 0 \in RelayChannels /\ 0 \in Nat
  BY RelayBasics
<1>1. CASE ClientSearches
  BY <1>0, <1>1, <1>a, <1>b, <1>c, ClientSendsTyped DEF ClientSearches
<1>2. CASE ClientConnects
  <2>1. [relayClient EXCEPT !.asks = @ + 1] \in RelayClients
    BY <1>0, RelayBasics, ClientUpdates, EmptySeq
  <2>2. QED BY <1>0, <1>2, <2>1, <1>a, <1>b, <1>c, ClientSendsTyped DEF ClientConnects
<1>3. CASE ClientTransmits
  <2>1. [relayClient EXCEPT !.tries = 1, !.made = @ + 1] \in RelayClients
    BY <1>0, RelayBasics, ClientUpdates, EmptySeq
  <2>2. QED BY <1>0, <1>3, <2>1, <1>a, <1>b, <1>c, ClientSendsTyped DEF ClientTransmits
<1>4. CASE ClientRepeats
  <2>1. [relayClient EXCEPT !.tries = 2] \in RelayClients
    BY <1>0, RelayBasics, ClientUpdates, EmptySeq
  <2>2. QED BY <1>0, <1>4, <2>1, <1>a, <1>b, <1>c, ClientSendsTyped DEF ClientRepeats
<1>5. CASE ClientCloses
  <2>1. [relayClient EXCEPT !.channel = 0, !.tries = 0] \in RelayClients
    BY <1>0, RelayBasics, ClientUpdates, EmptySeq
  <2>2. QED BY <1>0, <1>5, <2>1, <1>a, <1>b, <1>c, ClientSendsTyped DEF ClientCloses
<1>6. CASE ClientBeats
  BY <1>0, <1>6, <1>a, <1>b, <1>c, ClientSendsTyped DEF ClientBeats
<1>7. QED BY <1>1, <1>2, <1>3, <1>4, <1>5, <1>6

LEMMA RelayReceivesTypes ==
  ASSUME RelayTypes, ClientReceives
  PROVE  RelayTypes'
<1> DEFINE m == Head(relayWire.toClient)
           acks == RelaySent(relayWire.toRelay, RelayMsg("ack", m.channel, m.seq, 0))
<1>1. /\ relayWire.toClient # <<>> /\ ClientLeaves
      /\ relayWire.toClient \in Seq(RelayDatagrams) /\ relayWire.toRelay \in Seq(RelayDatagrams)
  BY DEF ClientReceives, ClientLeaves, RelayTypes
<1>2. m \in RelayDatagrams /\ Tail(relayWire.toClient) \in Seq(RelayDatagrams)
  BY <1>1, TailOn
<1>3. m.channel \in RelayChannels /\ m.seq \in RelayNumbers /\ m.data \in Nat
  BY <1>2 DEF RelayDatagrams
<1>4. relayClient \in RelayClients
  BY DEF RelayTypes, RelayClients
<1>5. relayClient' \in RelayClients
  <2>1. [relayClient EXCEPT !.channel = m.channel, !.send = 0, !.recv = 0, !.got = <<>>] \in RelayClients
    BY <1>3, <1>4, RelayBasics, ClientUpdates, EmptySeq
  <2>2. [relayClient EXCEPT !.tries = 0, !.send = RelaySucc(@)] \in RelayClients
    <3>1. RelaySucc(relayClient.send) \in RelayNumbers
      BY <1>4, RelaySuccessor DEF RelayClients
    <3>2. QED BY <1>4, <3>1, RelayBasics, ClientUpdates, EmptySeq
  <2>3. Append(relayClient.got, m.data) \in Seq(Nat)
    BY <1>3, <1>4, AppendProperties DEF RelayClients
  <2>4. [relayClient EXCEPT !.recv = RelaySucc(@), !.got = Append(@, m.data)] \in RelayClients
    <3>1. RelaySucc(relayClient.recv) \in RelayNumbers
      BY <1>4, RelaySuccessor DEF RelayClients
    <3>2. QED BY <1>4, <2>3, <3>1, RelayBasics, ClientUpdates
  <2>5. QED BY <1>4, <2>1, <2>2, <2>4 DEF ClientReceives
<1>6. relayWire' \in [toRelay : Seq(RelayDatagrams), toClient : Seq(RelayDatagrams)]
  <2>1. PICK queue \in acks \cup {relayWire.toRelay} :
          relayWire' = [toRelay |-> queue, toClient |-> Tail(relayWire.toClient)]
    BY DEF ClientReceives
  <2>2. RelayMsg("ack", m.channel, m.seq, 0) \in RelayDatagrams
    BY <1>3, MsgTyped DEF RelayKinds
  <2>3. queue \in Seq(RelayDatagrams)
    BY <1>1, <2>2, SentOn
  <2>4. QED BY <1>2, <2>1, <2>3
<1>7. QED BY <1>1, <1>5, <1>6 DEF RelayTypes, ClientLeaves, RelayClients

LEMMA RelayTickTypes ==
  ASSUME RelayTypes, RelayTick
  PROVE  RelayTypes'
<1>1. \A i \in RelayUsed : relayTable[i].left > 0 =>
        [relayTable[i] EXCEPT !.left = @ - 1] \in RelayStates
  <2> SUFFICES ASSUME NEW i \in RelayUsed, relayTable[i].left > 0
               PROVE  [relayTable[i] EXCEPT !.left = @ - 1] \in RelayStates
    OBVIOUS
  <2>1. relayTable[i] \in RelayStates /\ relayTable[i].left - 1 \in 0 .. RelayPatience
    BY UsedTyped, StateUpdates, RelayBasics
  <2>2. QED BY <2>1, StateUpdates
<1>2. relayTable' \in [RelaySlots -> RelayStates \cup {NoState}]
  BY <1>1 DEF RelayTick, RelayTypes
<1>3. QED BY <1>2 DEF RelayTick, RelayTypes

LEMMA RelayTypesStep == RelayTypes /\ FoundIsThere /\ [RelayNext]_relayVars => RelayTypes'
<1> SUFFICES ASSUME RelayTypes, FoundIsThere, [RelayNext]_relayVars PROVE RelayTypes'
  OBVIOUS
<1>1. CASE RelayCloses
  BY <1>1 DEF RelayCloses, RelayTypes, RelayOutputs
<1>2. CASE UNCHANGED relayVars
  BY <1>2 DEF relayVars, RelayTypes
<1>3. QED
  BY <1>1, <1>2, RelayInputTypes, RelayOutputTypes, RelayTickTypes, RelayClientTypes,
     RelayReceivesTypes DEF RelayNext
(***************************************************************************)
(* Steps that add no connection and no datagram: at most connections are    *)
(* freed, and a datagram is taken.                                         *)
(***************************************************************************)
RelayOld ==
  \A i \in RelayUsed' :
    /\ i \in RelayUsed
    /\ relayTable'[i].channel = relayTable[i].channel
    /\ relayTable'[i].recv = relayTable[i].recv

Closed(c) ==
  relayWire.toRelay # <<>> /\ RelayRequest.kind \in RelayByes /\ RelayRequest.channel = c

RelayQuiet ==
  /\ RelayOld
  /\ UNCHANGED <<relayPassed, relayClient>>
  /\ relayWire'.toClient = relayWire.toClient
  /\ \/ relayWire'.toRelay = relayWire.toRelay
     \/ relayWire.toRelay # <<>> /\ relayWire'.toRelay = Tail(relayWire.toRelay)
  /\ relayOut'.pc = relayOut.pc /\ relayOut'.slot = relayOut.slot
  /\ relayOut'.frame = relayOut.frame
  /\ \A c : Alive(c) => Alive(c)' \/ (Closed(c) /\ relayWire'.toRelay = Tail(relayWire.toRelay))
  /\ FoundIsThere'

(* A table in which connections keep their channel and their life.          *)
LEMMA SameConnections ==
  ASSUME RelayTypes, RelayTypes',
         \A i \in RelayUsed :
           /\ relayTable'[i] \in RelayStates
           /\ relayTable'[i].channel = relayTable[i].channel
           /\ relayTable[i].left > 0 => relayTable'[i].left > 0,
         \A i \in RelaySlots \ RelayUsed : relayTable'[i] = relayTable[i]
  PROVE  RelayUsed' = RelayUsed /\ \A c : Alive(c) => Alive(c)'
<1>1. \A i \in RelaySlots : relayTable'[i] \in RelayStates => i \in RelayUsed'
  <2> SUFFICES ASSUME NEW i \in RelaySlots, relayTable'[i] \in RelayStates
               PROVE  relayTable'[i] # NoState
    BY DEF RelayUsed
  <2>1. relayTable'[i].channel \in Nat /\ NoState.channel = -1 /\ -1 \notin Nat
    BY RelayBasics, StateUpdates DEF NoState
  <2>2. QED BY <2>1
<1>2. RelayUsed' = RelayUsed
  BY <1>1 DEF RelayUsed
<1>3. QED BY <1>2 DEF Alive

LEMMA SameTable ==
  ASSUME UNCHANGED relayTable
  PROVE  RelayUsed' = RelayUsed /\ RelayOld /\ \A c : Alive(c) => Alive(c)'
BY DEF RelayUsed, RelayOld, Alive

LEMMA FreedConnections ==
  ASSUME RelayTypes, FoundIsThere, NEW slots, NEW why \in {"timeout", "disconnect"},
         RelayFree(slots, why)
  PROVE  /\ RelayOld /\ FoundIsThere'
         /\ \A i \in RelayUsed : i \notin slots => i \in RelayUsed' /\ relayTable'[i] = relayTable[i]
         /\ relayOut'.pc = relayOut.pc /\ relayOut'.slot = relayOut.slot
         /\ relayOut'.frame = relayOut.frame
<1>1. \A i \in RelaySlots : relayTable'[i] = IF i \in slots THEN NoState ELSE relayTable[i]
  BY DEF RelayFree
<1>2. RelayUsed' = RelayUsed \ slots
  BY <1>1 DEF RelayUsed
<1>3. \A i \in RelayUsed' : relayTable'[i] = relayTable[i]
  BY <1>1, <1>2 DEF RelayUsed
<1>4. /\ relayOut'.pc = relayOut.pc /\ relayOut'.slot = relayOut.slot
      /\ relayOut'.frame = relayOut.frame
      /\ relayOut.pc = "send" /\ relayOut.slot \in slots => relayOut'.freed = why
      /\ ~(relayOut.pc = "send" /\ relayOut.slot \in slots) => relayOut' = relayOut
  BY DEF RelayFree, RelayTypes, RelayOutputs
<1>5. FoundIsThere'
  BY <1>2, <1>4 DEF FoundIsThere
<1>6. QED BY <1>2, <1>3, <1>4, <1>5 DEF RelayOld

LEMMA QuietSteps ==
  ASSUME RelayTypes, RelayTypes', FoundIsThere,
         \/ CheckConnectionsCleanup \/ RelayReceivesNothing \/ RelayHandleTunnelAck
         \/ RelayHandleDisconnectRequest \/ RelayHandleDisconnectResponse
         \/ RelayHandleConnectionState \/ RelayHandleSearchRequest \/ RelayInputEnds \/ RelayCloses
  PROVE  RelayQuiet
<1> DEFINE Wired == /\ relayWire'.toClient = relayWire.toClient
                    /\ \/ relayWire'.toRelay = relayWire.toRelay
                       \/ relayWire.toRelay # <<>> /\ relayWire'.toRelay = Tail(relayWire.toRelay)
           Out == relayOut'.pc = relayOut.pc /\ relayOut'.slot = relayOut.slot
                    /\ relayOut'.frame = relayOut.frame
           Lives == \A c : Alive(c) => Alive(c)' \/ (Closed(c) /\ relayWire'.toRelay = Tail(relayWire.toRelay))
           Rest == UNCHANGED <<relayPassed, relayClient>>
<1>a. ASSUME RelayOld, Rest, Wired, Out, Lives, FoundIsThere' PROVE RelayQuiet
  BY <1>a DEF RelayQuiet
<1>b. ASSUME RelayTaken, relayWire.toRelay # <<>> PROVE Wired /\ relayWire'.toRelay = Tail(relayWire.toRelay)
  BY <1>b DEF RelayTaken, RelayTypes
<1>c. ASSUME UNCHANGED relayOut, RelayUsed' = RelayUsed PROVE Out /\ FoundIsThere'
  BY <1>c DEF FoundIsThere
<1>d. ASSUME UNCHANGED relayTable, UNCHANGED relayOut
      PROVE  RelayOld /\ Out /\ Lives /\ FoundIsThere'
  BY <1>c, <1>d, SameTable
<1>1. CASE CheckConnectionsCleanup
  <2> DEFINE late == {i \in RelayUsed : relayTable[i].left = 0}
  <2>1. RelayFree(late, "timeout") /\ Rest /\ Wired
    BY <1>1 DEF CheckConnectionsCleanup
  <2>2. RelayOld /\ FoundIsThere' /\ Out
        /\ \A i \in RelayUsed : i \notin late => i \in RelayUsed' /\ relayTable'[i] = relayTable[i]
    BY <2>1, FreedConnections
  <2>3. \A c : Alive(c) => Alive(c)'
    BY <2>2 DEF Alive
  <2>4. QED BY <1>a, <2>1, <2>2, <2>3
<1>2. CASE RelayReceivesNothing \/ RelayInputEnds
  <2>1. Rest /\ Wired /\ UNCHANGED <<relayTable, relayOut>>
    BY <1>2 DEF RelayReceivesNothing, RelayInputEnds
  <2>2. QED BY <1>a, <1>d, <2>1
<1>3. CASE RelayHandleSearchRequest
  <2>1. Rest /\ Wired /\ UNCHANGED <<relayTable, relayOut>>
    BY <1>3, <1>b DEF RelayHandleSearchRequest, RelayReceives
  <2>2. QED BY <1>a, <1>d, <2>1
<1>4. CASE RelayHandleTunnelAck
  <2>1. Rest /\ Wired /\ UNCHANGED relayOut
    BY <1>4, <1>b DEF RelayHandleTunnelAck, RelayReceives
  <2>2. \A i \in RelayUsed :
          /\ relayTable'[i] \in RelayStates
          /\ relayTable'[i].channel = relayTable[i].channel /\ relayTable'[i].recv = relayTable[i].recv
          /\ relayTable'[i].left = relayTable[i].left
    <3> SUFFICES ASSUME NEW i \in RelayUsed
                 PROVE  /\ relayTable'[i] \in RelayStates
                        /\ relayTable'[i].channel = relayTable[i].channel
                        /\ relayTable'[i].recv = relayTable[i].recv
                        /\ relayTable'[i].left = relayTable[i].left
      OBVIOUS
    <3>1. i \in RelaySlots /\ relayTable[i] \in RelayStates
      BY UsedTyped
    <3>2. RelaySucc(relayTable[i].send) \in RelayNumbers
      BY <3>1, StateUpdates, RelaySuccessor
    <3>3. \/ relayTable'[i] = [relayTable[i] EXCEPT !.send = RelaySucc(relayTable[i].send)]
          \/ relayTable'[i] = relayTable[i]
      BY <1>4, <3>1 DEF RelayHandleTunnelAck
    <3>4. QED BY <3>1, <3>2, <3>3 DEF RelayStates
  <2>3. \A i \in RelaySlots \ RelayUsed : relayTable'[i] = relayTable[i]
    BY <1>4 DEF RelayHandleTunnelAck, RelayGetState
  <2>4. RelayUsed' = RelayUsed /\ \A c : Alive(c) => Alive(c)'
    BY <2>2, <2>3, SameConnections
  <2>5. RelayOld
    BY <2>2, <2>4 DEF RelayOld
  <2>6. QED BY <1>a, <1>c, <2>1, <2>4, <2>5
<1>5. CASE RelayHandleConnectionState
  <2>1. Rest /\ Wired /\ UNCHANGED relayOut
    BY <1>5, <1>b DEF RelayHandleConnectionState, RelayReceives
  <2>2. \A i \in RelayUsed :
          /\ relayTable'[i] \in RelayStates
          /\ relayTable'[i].channel = relayTable[i].channel /\ relayTable'[i].recv = relayTable[i].recv
          /\ relayTable[i].left > 0 => relayTable'[i].left > 0
    <3> SUFFICES ASSUME NEW i \in RelayUsed
                 PROVE  /\ relayTable'[i] \in RelayStates
                        /\ relayTable'[i].channel = relayTable[i].channel
                        /\ relayTable'[i].recv = relayTable[i].recv
                        /\ relayTable[i].left > 0 => relayTable'[i].left > 0
      OBVIOUS
    <3>1. i \in RelaySlots /\ relayTable[i] \in RelayStates
      BY UsedTyped
    <3>2. \/ relayTable'[i] = [relayTable[i] EXCEPT !.left = RelayPatience]
          \/ relayTable'[i] = relayTable[i]
      BY <1>5, <3>1 DEF RelayHandleConnectionState
    <3>3. QED BY <3>1, <3>2, RelayBasics DEF RelayStates
  <2>3. \A i \in RelaySlots \ RelayUsed : relayTable'[i] = relayTable[i]
    BY <1>5 DEF RelayHandleConnectionState, RelayGetState
  <2>4. RelayUsed' = RelayUsed /\ \A c : Alive(c) => Alive(c)'
    BY <2>2, <2>3, SameConnections
  <2>5. RelayOld
    BY <2>2, <2>4 DEF RelayOld
  <2>6. QED BY <1>a, <1>c, <2>1, <2>4, <2>5
<1>6. ASSUME NEW slots \in SUBSET RelayGetState(RelayRequest.channel), RelayFree(slots, "disconnect"),
             relayWire.toRelay # <<>>, RelayRequest.kind \in RelayByes, RelayTaken, Rest
      PROVE  RelayQuiet
  <2>1. Wired /\ relayWire'.toRelay = Tail(relayWire.toRelay)
    BY <1>b, <1>6
  <2>2. RelayOld /\ FoundIsThere' /\ Out
        /\ \A i \in RelayUsed : i \notin slots => i \in RelayUsed' /\ relayTable'[i] = relayTable[i]
    BY <1>6, FreedConnections
  <2>3. \A c : c # RelayRequest.channel => (Alive(c) => Alive(c)')
    BY <1>6, <2>2 DEF Alive, RelayGetState
  <2>4. Lives
    BY <1>6, <2>1, <2>3 DEF Closed
  <2>5. QED BY <1>a, <1>6, <2>1, <2>2, <2>4
<1>7. CASE RelayHandleDisconnectRequest
  <2>1. /\ relayWire.toRelay # <<>> /\ RelayRequest.kind \in RelayByes /\ Rest /\ RelayTaken
    BY <1>7 DEF RelayHandleDisconnectRequest, RelayReceives, RelayByes, RelayRequest
  <2>2. CASE UNCHANGED <<relayTable, relayOut>>
    BY <1>a, <1>b, <1>d, <2>1, <2>2
  <2>3. ASSUME NEW i \in RelayGetState(RelayRequest.channel), RelayFree({i}, "disconnect")
        PROVE  RelayQuiet
    BY <1>6, <2>1, <2>3
  <2>4. QED BY <1>7, <2>2, <2>3 DEF RelayHandleDisconnectRequest
<1>8. CASE RelayHandleDisconnectResponse
  BY <1>6, <1>8 DEF RelayHandleDisconnectResponse, RelayReceives, RelayByes, RelayRequest
<1>9. CASE RelayCloses
  <2>1. Rest /\ Wired /\ UNCHANGED relayTable
    BY <1>9 DEF RelayCloses
  <2>2. Out /\ relayOut'.freed = relayOut.freed
    BY <1>9 DEF RelayCloses, RelayTypes, RelayOutputs
  <2>3. RelayOld /\ RelayUsed' = RelayUsed /\ \A c : Alive(c) => Alive(c)'
    BY <2>1, SameTable
  <2>4. FoundIsThere'
    BY <2>2, <2>3 DEF FoundIsThere
  <2>5. QED BY <1>a, <2>1, <2>2, <2>3, <2>4
<1>10. QED BY <1>1, <1>2, <1>3, <1>4, <1>5, <1>7, <1>8, <1>9
(* The queue of datagrams to the relay after one of them has been taken, or *)
(* none.                                                                    *)
LEMMA TakenQueue ==
  ASSUME RelayTypes,
         \/ relayWire'.toRelay = relayWire.toRelay
         \/ relayWire.toRelay # <<>> /\ relayWire'.toRelay = Tail(relayWire.toRelay)
  PROVE  /\ \A x : On(relayWire'.toRelay, x) => On(relayWire.toRelay, x)
         /\ \A x, y : Behind(relayWire'.toRelay, x, y) => Behind(relayWire.toRelay, x, y)
<1>1. relayWire.toRelay \in Seq(RelayDatagrams)
  BY DEF RelayTypes
<1>2. CASE relayWire'.toRelay = relayWire.toRelay
  BY <1>2
<1>3. CASE relayWire.toRelay # <<>> /\ relayWire'.toRelay = Tail(relayWire.toRelay)
  BY <1>1, <1>3, TailOn
<1>4. QED BY <1>2, <1>3

LEMMA TakenRequest ==
  ASSUME RelayTypes, relayWire.toRelay # <<>>, relayWire'.toRelay = Tail(relayWire.toRelay)
  PROVE  /\ RelayRequest \in RelayDatagrams /\ On(relayWire.toRelay, RelayRequest)
         /\ \A x : On(relayWire'.toRelay, x) => Behind(relayWire.toRelay, RelayRequest, x)
BY TailOn DEF RelayTypes, RelayRequest

(* A disconnect that is taken is behind nothing that lives.                 *)
LEMMA ClosedIsLeft ==
  ASSUME RelayInv, NEW c, c # 0, Closed(c), relayWire'.toRelay = Tail(relayWire.toRelay)
  PROVE  /\ relayClient.channel # c
         /\ \A x \in RelayDatagrams : On(relayWire.toClient, x) /\ x.kind = "connected" => x.channel # c
         /\ \A x \in RelayDatagrams : On(relayWire'.toRelay, x) => x.channel # c
<1>1. /\ RelayRequest \in RelayDatagrams /\ On(relayWire.toRelay, RelayRequest)
      /\ \A x : On(relayWire'.toRelay, x) => Behind(relayWire.toRelay, RelayRequest, x)
      /\ RelayRequest.kind \in RelayByes /\ RelayRequest.channel = c
  BY TakenRequest DEF RelayInv, Closed
<1>2. relayClient.channel # c
  BY <1>1 DEF RelayInv, AtHome
<1>3. \A x \in RelayDatagrams : On(relayWire.toClient, x) /\ x.kind = "connected" => x.channel # c
  BY <1>1 DEF RelayInv, Announced
<1>4. \A x \in RelayDatagrams : On(relayWire'.toRelay, x) => x.channel # c
  BY <1>1 DEF RelayInv, InOrder
<1>5. QED BY <1>2, <1>3, <1>4

LEMMA QuietKeeps ==
  ASSUME RelayInv, RelayTypes', RelayQuiet
  PROVE  RelayInv'
<1>1. /\ \A x : On(relayWire'.toRelay, x) => On(relayWire.toRelay, x)
      /\ \A x, y : Behind(relayWire'.toRelay, x, y) => Behind(relayWire.toRelay, x, y)
  BY TakenQueue DEF RelayInv, RelayQuiet
<1>2. /\ relayWire'.toClient = relayWire.toClient /\ UNCHANGED <<relayPassed, relayClient>>
      /\ relayOut'.pc = relayOut.pc /\ relayOut'.slot = relayOut.slot
      /\ relayOut'.frame = relayOut.frame
      /\ FoundIsThere'
  BY DEF RelayQuiet
<1>3. \A i \in RelayUsed' : i \in RelayUsed /\ relayTable'[i].channel = relayTable[i].channel
                            /\ relayTable'[i].recv = relayTable[i].recv
  BY DEF RelayQuiet, RelayOld
<1>4. \A c : c # 0 => (Alive(c) => Alive(c)' \/ (Closed(c) /\ relayWire'.toRelay = Tail(relayWire.toRelay)))
  BY DEF RelayQuiet
<1>5. RelayChannelsDistinct' /\ RelayedInOrder'
  BY <1>2, <1>3 DEF RelayInv, RelayChannelsDistinct, RelayedInOrder
<1>6. Announced'
  <2>1. ASSUME NEW x \in RelayDatagrams, On(relayWire.toClient, x), x.kind = "connected"
        PROVE  x.channel # 0 /\ Alive(x.channel)'
    <3>1. x.channel # 0 /\ Alive(x.channel)
      BY <2>1 DEF RelayInv, Announced
    <3>2. QED BY <1>4, <2>1, <3>1, ClosedIsLeft
  <2>2. QED BY <1>1, <1>2, <2>1 DEF RelayInv, Announced
<1>7. InOrder'
  <2>1. ASSUME NEW y \in RelayDatagrams, On(relayWire'.toRelay, y), y.channel # 0, Alive(y.channel)
        PROVE  Alive(y.channel)'
    BY <1>4, <2>1, ClosedIsLeft
  <2>2. \A x, y : Behind(relayWire'.toRelay, x, y) => On(relayWire'.toRelay, y)
    BY DEF Behind, On
  <2>3. QED BY <1>1, <2>1, <2>2 DEF RelayInv, InOrder
<1>8. AtHome'
  <2>1. ASSUME relayClient.channel # 0, Alive(relayClient.channel)
        PROVE  Alive(relayClient.channel)'
    BY <1>2, <1>4, <2>1, ClosedIsLeft
  <2>2. QED BY <1>1, <1>2, <2>1 DEF RelayInv, AtHome
<1>9. \A d, c, n : TakenAs(d, c, n) => TakenAs(d, c, n)'
  BY <1>2, <1>3 DEF TakenAs
<1>10. Forward' /\ Repeated'
  BY <1>1, <1>2, <1>9 DEF RelayInv, Forward, Repeated
<1>11. Backward'
  BY <1>2 DEF RelayInv, Backward
<1>12. NotYetSent'
  BY <1>2, <1>3 DEF RelayInv, NotYetSent, Unserved
<1>13. QED BY <1>2, <1>5, <1>6, <1>7, <1>8, <1>10, <1>11, <1>12 DEF RelayInv
(***************************************************************************)
(* Two minutes pass: nothing is on its way.                                 *)
(***************************************************************************)
LEMMA TickKeeps ==
  ASSUME RelayInv, RelayTypes', RelayTick
  PROVE  RelayInv'
<1>1. /\ relayWire = [toRelay |-> <<>>, toClient |-> <<>>]
      /\ UNCHANGED <<relayLock, relayIn, relayOut, relayMain, relayWire, relayPassed, relayClient>>
  BY DEF RelayTick
<1>2. /\ \A x : ~On(relayWire'.toRelay, x) /\ ~On(relayWire'.toClient, x)
      /\ \A x, y : ~Behind(relayWire'.toRelay, x, y) /\ ~Behind(relayWire'.toClient, x, y)
      /\ \A z, x, y : ~Behind2(relayWire'.toClient, z, x, y)
  BY <1>1, NothingOn
<1>3. \A i \in RelaySlots :
        relayTable'[i] = IF i \in RelayUsed /\ relayTable[i].left > 0
                         THEN [relayTable[i] EXCEPT !.left = @ - 1] ELSE relayTable[i]
  BY DEF RelayTick
<1>4. \A i \in RelayUsed' : i \in RelayUsed /\ relayTable'[i].channel = relayTable[i].channel
                            /\ relayTable'[i].recv = relayTable[i].recv
  <2> SUFFICES ASSUME NEW i \in RelayUsed'
               PROVE  i \in RelayUsed /\ relayTable'[i].channel = relayTable[i].channel
                        /\ relayTable'[i].recv = relayTable[i].recv
    OBVIOUS
  <2>1. i \in RelaySlots /\ i \in RelayUsed
    BY <1>3 DEF RelayUsed
  <2>2. relayTable[i] \in RelayStates
    BY <2>1, UsedTyped DEF RelayInv
  <2>3. QED BY <1>3, <2>1, <2>2 DEF RelayStates
<1>5. RelayUsed' = RelayUsed
  <2>1. \A i \in RelayUsed : i \in RelaySlots /\ relayTable'[i] \in RelayStates
    <3> SUFFICES ASSUME NEW i \in RelayUsed
                 PROVE  i \in RelaySlots /\ relayTable'[i] \in RelayStates
      OBVIOUS
    <3>1. i \in RelaySlots /\ relayTable[i] \in RelayStates /\ relayTable[i].left \in 0 .. RelayPatience
      BY UsedTyped, StateUpdates DEF RelayInv
    <3>2. CASE relayTable[i].left > 0
      <4>1. relayTable[i].left - 1 \in 0 .. RelayPatience
        BY <3>1, <3>2, RelayBasics
      <4>2. QED BY <1>3, <3>1, <3>2, <4>1, StateUpdates
    <3>3. CASE ~(relayTable[i].left > 0)
      BY <1>3, <3>1, <3>3
    <3>4. QED BY <3>2, <3>3
  <2>2. QED BY <1>4, <2>1, StatesAreUsed DEF RelayUsed
<1>6. RelayChannelsDistinct' /\ RelayedInOrder' /\ FoundIsThere'
  BY <1>1, <1>4, <1>5 DEF RelayInv, RelayChannelsDistinct, RelayedInOrder, FoundIsThere
<1>7. Announced' /\ InOrder' /\ AtHome'
  BY <1>2 DEF Announced, InOrder, AtHome
<1>8. \A d, c, n : TakenAs(d, c, n) => TakenAs(d, c, n)'
  BY <1>1, <1>4 DEF TakenAs
<1>9. Forward' /\ Repeated'
  BY <1>1, <1>2, <1>8 DEF RelayInv, Forward, Repeated
<1>10. Backward' /\ NotYetSent'
  BY <1>1, <1>2, <1>4 DEF RelayInv, Backward, NotYetSent, Unserved
<1>11. QED BY <1>6, <1>7, <1>9, <1>10 DEF RelayInv

(***************************************************************************)
(* The input thread takes a request, and opens a connection.                *)
(***************************************************************************)
(* The queue to the client after an answer.                                 *)
LEMMA AnswerQueue ==
  ASSUME RelayTypes, relayWire.toRelay # <<>>, NEW m \in RelayDatagrams,
         RelayAnswers(m) \/ RelayTaken
  PROVE  /\ relayWire'.toRelay = Tail(relayWire.toRelay)
         /\ \A x : On(relayWire'.toClient, x) => On(relayWire.toClient, x) \/ x = m
         /\ \A x, y : Behind(relayWire'.toClient, x, y) =>
              Behind(relayWire.toClient, x, y) \/ (On(relayWire.toClient, x) /\ y = m)
         /\ \A z, x, y : Behind2(relayWire'.toClient, z, x, y) =>
              Behind2(relayWire.toClient, z, x, y) \/ (Behind(relayWire.toClient, z, x) /\ y = m)
<1>1. CASE RelayTaken
  <2>1. relayWire'.toRelay = Tail(relayWire.toRelay) /\ relayWire'.toClient = relayWire.toClient
    BY <1>1 DEF RelayTaken, RelayTypes
  <2>2. QED BY <2>1
<1>2. CASE RelayAnswers(m)
  <2>1. PICK queue \in RelaySent(relayWire.toClient, m) :
          relayWire' = [toRelay |-> Tail(relayWire.toRelay), toClient |-> queue]
    BY <1>2 DEF RelayAnswers
  <2>2. relayWire'.toRelay = Tail(relayWire.toRelay) /\ relayWire'.toClient = queue
    BY <2>1
  <2>3. relayWire.toClient \in Seq(RelayDatagrams)
    BY DEF RelayTypes
  <2>4. QED BY <2>2, <2>3, SentOn
<1>3. QED BY <1>1, <1>2

LEMMA RequestKeeps ==
  ASSUME RelayInv, RelayTypes', RelayHandleTunnelRequest
  PROVE  RelayInv'
<1>0. PICK m : m = RelayRequest
  OBVIOUS
<1> DEFINE reply == RelayMsg("ack", m.channel, m.seq, 0)
<1>1. /\ relayWire.toRelay # <<>> /\ m.kind = "request"
      /\ UNCHANGED <<relayOut, relayClient>>
  BY <1>0 DEF RelayHandleTunnelRequest, RelayReceives, RelayRequest
<1>2. CASE RelayTaken /\ UNCHANGED <<relayTable, relayPassed>>
  <2>1. relayWire'.toRelay = Tail(relayWire.toRelay) /\ relayWire'.toClient = relayWire.toClient
    BY <1>2 DEF RelayTaken
  <2>2. RelayUsed' = RelayUsed /\ RelayOld /\ \A c : Alive(c) => Alive(c)'
    BY <1>2, SameTable
  <2>3. FoundIsThere'
    BY <1>1, <2>2 DEF RelayInv, FoundIsThere
  <2>4. RelayQuiet
    BY <1>1, <1>2, <2>1, <2>2, <2>3 DEF RelayQuiet
  <2>5. QED BY <2>4, QuietKeeps
<1>3. ASSUME NEW i \in RelayGetState(m.channel), m.seq = relayTable[i].recv,
             relayTable' = [relayTable EXCEPT ![i].recv = RelaySucc(@)],
             relayPassed' \in {Append(relayPassed, m.data), relayPassed},
             RelayAnswers(reply)
      PROVE  RelayInv'
  <2>1. /\ m \in RelayDatagrams /\ On(relayWire.toRelay, m)
        /\ relayWire'.toRelay = Tail(relayWire.toRelay)
        /\ \A x : On(relayWire'.toRelay, x) => Behind(relayWire.toRelay, m, x)
    <3>1. m \in RelayDatagrams
      BY <1>0, <1>1, RelayRequestTyped DEF RelayInv
    <3>2. relayWire'.toRelay = Tail(relayWire.toRelay)
      BY <1>3 DEF RelayAnswers
    <3>3. QED BY <1>0, <1>1, <3>1, <3>2, TakenRequest DEF RelayInv
  <2>2. /\ reply \in RelayDatagrams /\ reply.kind = "ack"
        /\ m.channel \in RelayChannels /\ m.seq \in RelayNumbers /\ m.data \in Nat
    <3>1. m.channel \in RelayChannels /\ m.seq \in RelayNumbers /\ m.data \in Nat
      BY <2>1 DEF RelayDatagrams
    <3>2. "ack" \in RelayKinds /\ 0 \in Nat
      BY ONLY DEF RelayKinds
    <3>3. /\ RelayMsg("ack", m.channel, m.seq, 0) \in RelayDatagrams
          /\ RelayMsg("ack", m.channel, m.seq, 0).kind = "ack"
      BY ONLY <3>1, <3>2 DEF RelayMsg, RelayDatagrams
    <3>4. QED BY ONLY <3>1, <3>3, Zenon
  <2> HIDE DEF reply
  <2>3. /\ \A x : On(relayWire'.toClient, x) => On(relayWire.toClient, x) \/ x = reply
        /\ \A x, y : Behind(relayWire'.toClient, x, y) =>
             Behind(relayWire.toClient, x, y) \/ (On(relayWire.toClient, x) /\ y = reply)
        /\ \A z, x, y : Behind2(relayWire'.toClient, z, x, y) =>
             Behind2(relayWire.toClient, z, x, y) \/ (Behind(relayWire.toClient, z, x) /\ y = reply)
    BY <1>1, <1>3, <2>2, AnswerQueue DEF RelayInv
  <2>4. /\ \A x : On(relayWire'.toRelay, x) => On(relayWire.toRelay, x)
        /\ \A x, y : Behind(relayWire'.toRelay, x, y) => Behind(relayWire.toRelay, x, y)
    BY <1>1, <2>1, TakenQueue DEF RelayInv
  <2>5. i \in RelayUsed /\ i \in RelaySlots /\ relayTable[i].channel = m.channel
        /\ relayTable[i] \in RelayStates
    BY <1>3, UsedTyped DEF RelayGetState, RelayInv
  <2>6. /\ relayTable'[i] = [relayTable[i] EXCEPT !.recv = RelaySucc(m.seq)]
        /\ \A j \in RelaySlots \ {i} : relayTable'[j] = relayTable[j]
    BY <1>3, <2>5 DEF RelayInv, RelayTypes
  <2>7. relayTable'[i] \in RelayStates /\ relayTable'[i].recv = RelaySucc(m.seq)
        /\ relayTable'[i].channel = m.channel /\ relayTable'[i].left = relayTable[i].left
    <3>1. RelaySucc(m.seq) \in RelayNumbers
      BY <2>2, RelaySuccessor
    <3>2. QED BY <2>5, <2>6, <3>1 DEF RelayStates
  <2>8. RelayUsed' = RelayUsed /\ \A c : Alive(c) => Alive(c)'
    <3>1. \A j \in RelayUsed : relayTable[j] \in RelayStates
      BY UsedTyped DEF RelayInv
    <3>2. \A j \in RelayUsed :
            /\ relayTable'[j] \in RelayStates
            /\ relayTable'[j].channel = relayTable[j].channel
            /\ relayTable[j].left > 0 => relayTable'[j].left > 0
      BY <2>5, <2>6, <2>7, <3>1 DEF RelayUsed
    <3>3. \A j \in RelaySlots \ RelayUsed : relayTable'[j] = relayTable[j]
      BY <2>5, <2>6
    <3>4. QED BY <3>2, <3>3, SameConnections DEF RelayInv
  <2>9. \A j \in RelayUsed : /\ relayTable'[j].channel = relayTable[j].channel
                             /\ j # i => relayTable'[j] = relayTable[j]
    BY <2>5, <2>6, <2>7 DEF RelayUsed
  <2>10. RelayChannelsDistinct' /\ FoundIsThere'
    BY <1>1, <2>8, <2>9 DEF RelayInv, RelayChannelsDistinct, FoundIsThere
  <2>11. Announced' /\ InOrder' /\ AtHome'
    BY <1>1, <2>2, <2>3, <2>4, <2>8 DEF RelayInv, Announced, InOrder, AtHome
  <2>12. Backward' /\ NotYetSent'
    BY <1>1, <2>2, <2>3, <2>8, <2>9 DEF RelayInv, Backward, NotYetSent, Unserved
  <2>13. m.channel # 0 /\ m.data <= relayClient.made
         /\ (\A d \in Nat : On(relayPassed, d) => d <= m.data)
         /\ TakenAs(m.data, m.channel, m.seq)
    BY <1>1, <2>1 DEF RelayInv, Forward
  <2>14. ~On(relayPassed, m.data)
    <3>1. On(relayPassed, m.data) => relayTable[i].recv = RelaySucc(m.seq)
      BY <2>5, <2>13 DEF TakenAs
    <3>2. QED BY <1>3, <2>2, <3>1, RelaySuccessor
  <2>15. \A d \in Nat : On(relayPassed, d) => d < m.data
    BY <2>2, <2>13, <2>14
  <2>16. \A d : On(relayPassed', d) => On(relayPassed, d) \/ d = m.data
    <3>1. relayPassed \in Seq(Nat)
      BY DEF RelayInv, RelayTypes
    <3>2. \A d : On(Append(relayPassed, m.data), d) => On(relayPassed, d) \/ d = m.data
      BY <2>2, <3>1, AppendOn
    <3>3. QED BY <1>3, <3>2
  <2>17. RelayedInOrder'
    <3>1. relayPassed \in Seq(Nat) /\ RelayIncreasing(relayPassed)
          /\ RelayIncreasing(relayClient'.got)
      BY <1>1 DEF RelayInv, RelayTypes, RelayedInOrder
    <3>2. RelayIncreasing(Append(relayPassed, m.data))
      BY <2>2, <2>15, <3>1, IncreasingAppend
    <3>3. RelayIncreasing(relayPassed')
      BY <1>3, <3>1, <3>2
    <3>4. QED BY <3>1, <3>3 DEF RelayedInOrder, RelayIncreasing
  <2>18. \A x \in RelayDatagrams : On(relayWire'.toRelay, x) /\ x.kind = "request" =>
           /\ m.data <= x.data
           /\ m.data = x.data => m.channel = x.channel /\ m.seq = x.seq
    BY <1>1, <2>1 DEF RelayInv, Forward
  <2>19. \A d \in Nat : \A c, n :
           /\ TakenAs(d, c, n) /\ m.data < d => TakenAs(d, c, n)'
    <3> SUFFICES ASSUME NEW d \in Nat, NEW c, NEW n, m.data < d
                 PROVE  TakenAs(d, c, n)'
      OBVIOUS
    <3>1. ~On(relayPassed', d)
      BY <2>2, <2>15, <2>16
    <3>2. QED BY <3>1 DEF TakenAs
  <2>20. TakenAs(m.data, m.channel, m.seq)'
    <3>1. \A j \in RelayUsed : relayTable[j].channel = m.channel => j = i
      BY <2>5 DEF RelayInv, RelayChannelsDistinct
    <3>2. QED BY <2>7, <2>8, <2>9, <3>1 DEF TakenAs
  <2>21. Forward'
    <3>1. \A d \in Nat : On(relayPassed', d) => d <= relayClient'.made
      BY <1>1, <2>13, <2>16 DEF RelayInv, Forward
    <3>2. ASSUME NEW x \in RelayDatagrams, On(relayWire'.toRelay, x), x.kind = "request"
          PROVE  /\ x.channel # 0 /\ x.data <= relayClient'.made
                 /\ \A d \in Nat : On(relayPassed', d) => d <= x.data
                 /\ TakenAs(x.data, x.channel, x.seq)'
      <4>1. x.channel # 0 /\ x.data <= relayClient'.made /\ x.data \in Nat
        BY <1>1, <2>4, <3>2 DEF RelayInv, Forward, RelayDatagrams
      <4>2. m.data <= x.data
        BY <2>18, <3>2
      <4>3. \A d \in Nat : On(relayPassed', d) => d <= x.data
        BY <2>2, <2>15, <2>16, <4>1, <4>2
      <4>4. ASSUME m.data = x.data PROVE TakenAs(x.data, x.channel, x.seq)'
        BY <2>18, <2>20, <3>2, <4>4
      <4>5. ASSUME m.data < x.data PROVE TakenAs(x.data, x.channel, x.seq)'
        <5>1. TakenAs(x.data, x.channel, x.seq)
          BY <2>4, <3>2 DEF RelayInv, Forward
        <5>2. QED BY <2>19, <4>1, <4>5, <5>1
      <4>6. QED BY <2>2, <4>1, <4>2, <4>3, <4>4, <4>5
    <3>3. QED BY <2>4, <3>1, <3>2 DEF RelayInv, Forward
  <2>22. Repeated'
    <3>1. ASSUME relayClient.tries = 1
          PROVE  TakenAs(relayClient.made, relayClient.channel, relayClient.send)'
      <4>1. relayClient.made \in Nat
        BY DEF RelayInv, RelayTypes
      <4>2. CASE m.data = relayClient.made
        <5>1. m.channel = relayClient.channel /\ m.seq = relayClient.send
          BY <1>1, <2>1, <3>1, <4>2 DEF RelayInv, Repeated
        <5>2. QED BY <1>1, <2>20, <4>2, <5>1
      <4>3. CASE m.data < relayClient.made
        <5>1. TakenAs(relayClient.made, relayClient.channel, relayClient.send)
          BY <3>1 DEF RelayInv, Repeated
        <5>2. QED BY <1>1, <2>19, <4>1, <4>3, <5>1
      <4>4. QED BY <2>2, <2>13, <4>1, <4>2, <4>3
    <3>2. QED BY <1>1, <2>4, <3>1 DEF RelayInv, Repeated
  <2>23. QED BY <2>10, <2>11, <2>12, <2>17, <2>21, <2>22 DEF RelayInv
<1>4. QED BY <1>0, <1>2, <1>3 DEF RelayHandleTunnelRequest

LEMMA ConnectKeeps ==
  ASSUME RelayInv, RelayTypes', NEW kind \in {"connect", "connect other"},
         RelayHandleConnectRequest(kind)
  PROVE  RelayInv'
<1>1. /\ relayWire.toRelay # <<>> /\ RelayRequest.kind \in RelayConnects
      /\ UNCHANGED <<relayOut, relayClient, relayPassed>>
  BY DEF RelayHandleConnectRequest, RelayReceives, RelayRequest, RelayConnects
<1>2. CASE RelayTaken /\ UNCHANGED relayTable
  <2>1. relayWire'.toRelay = Tail(relayWire.toRelay) /\ relayWire'.toClient = relayWire.toClient
    BY <1>2 DEF RelayTaken, RelayInv, RelayTypes
  <2>2. RelayUsed' = RelayUsed /\ RelayOld /\ \A c : Alive(c) => Alive(c)'
    BY <1>2, SameTable
  <2>3. FoundIsThere'
    BY <1>1, <2>2 DEF RelayInv, FoundIsThere
  <2>4. RelayQuiet
    BY <1>1, <1>2, <2>1, <2>2, <2>3 DEF RelayQuiet
  <2>5. QED BY <2>4, QuietKeeps
<1> DEFINE new(c) == [RelayInitState(c) EXCEPT !.connected = (kind = "connect")]
<1>a. \A c \in RelayChannels \ {0} :
        new(c) \in RelayStates /\ new(c).channel = c /\ new(c).left = RelayPatience
  BY RelayBasics DEF RelayInitState, RelayStates
<1> HIDE DEF new
<1>3. ASSUME NEW i \in RelaySlots \ RelayUsed, NEW c \in RelayChannels, RelayFreshChannel(c),
             relayTable' = [relayTable EXCEPT ![i] = new(c)],
             RelayAnswers(RelayMsg("connected", c, 0, 0)) \/ RelayTaken
      PROVE  RelayInv'
  <2> DEFINE told == RelayMsg("connected", c, 0, 0)
  <2>1. told \in RelayDatagrams /\ told.kind = "connected" /\ told.channel = c
    <3>1. 0 \in RelayNumbers /\ 0 \in Nat
      BY RelayBasics
    <3>2. QED BY <3>1 DEF RelayMsg, RelayDatagrams, RelayKinds
  <2> HIDE DEF told
  <2>2. RelayAnswers(told) \/ RelayTaken
    BY <1>3 DEF told
  <2>3. /\ relayWire'.toRelay = Tail(relayWire.toRelay)
        /\ \A x : On(relayWire'.toClient, x) => On(relayWire.toClient, x) \/ x = told
        /\ \A x, y : Behind(relayWire'.toClient, x, y) =>
             Behind(relayWire.toClient, x, y) \/ (On(relayWire.toClient, x) /\ y = told)
        /\ \A z, x, y : Behind2(relayWire'.toClient, z, x, y) =>
             Behind2(relayWire.toClient, z, x, y) \/ (Behind(relayWire.toClient, z, x) /\ y = told)
    BY <1>1, <2>1, <2>2, AnswerQueue DEF RelayInv
  <2>4. /\ RelayRequest \in RelayDatagrams /\ On(relayWire.toRelay, RelayRequest)
        /\ \A x : On(relayWire'.toRelay, x) => Behind(relayWire.toRelay, RelayRequest, x)
        /\ \A x : On(relayWire'.toRelay, x) => On(relayWire.toRelay, x)
        /\ \A x, y : Behind(relayWire'.toRelay, x, y) => Behind(relayWire.toRelay, x, y)
    BY <1>1, <2>3, TakenRequest, TakenQueue DEF RelayInv
  <2>5. c # 0 /\ \A j \in RelayUsed : relayTable[j].channel # c
    BY <1>3 DEF RelayFreshChannel, RelayGetState
  <2>6. /\ relayTable'[i].channel = c /\ relayTable'[i].left = RelayPatience
        /\ relayTable'[i] \in RelayStates
        /\ \A j \in RelaySlots \ {i} : relayTable'[j] = relayTable[j]
    <3>1. relayTable'[i] = new(c) /\ \A j \in RelaySlots \ {i} : relayTable'[j] = relayTable[j]
      BY <1>3 DEF RelayInv, RelayTypes
    <3>2. QED BY <1>a, <2>5, <3>1
  <2>7. RelayUsed' = RelayUsed \cup {i}
    BY <2>6, StatesAreUsed DEF RelayUsed
  <2>8. \A j \in RelayUsed : j # i /\ j \in RelaySlots /\ relayTable'[j] = relayTable[j]
    BY <2>6 DEF RelayUsed
  <2>9. Alive(c)' /\ ~Alive(c) /\ \A d : Alive(d) => Alive(d)'
    <3>1. ~Alive(c)
      BY <2>5 DEF Alive
    <3>2. relayTable'[i].left > 0
      <4>1. RelayPatience > 0
        BY RelayBasics
      <4>2. QED BY <2>6, <4>1
    <3>3. Alive(c)'
      <4>1. i \in RelayUsed'
        BY <2>7
      <4>2. QED BY <2>6, <3>2, <4>1 DEF Alive
    <3>4. \A d : Alive(d) => Alive(d)'
      BY <2>7, <2>8 DEF Alive
    <3>5. QED BY <3>1, <3>3, <3>4
  <2>10. /\ relayClient.channel # c
         /\ \A y \in RelayDatagrams : On(relayWire'.toRelay, y) => y.channel # c
         /\ \A x \in RelayDatagrams : On(relayWire.toClient, x) /\ x.kind = "connected" =>
              x.channel # c
    <3>1. relayClient.channel # c
      BY <1>1, <2>4, <2>5, <2>9 DEF RelayInv, AtHome
    <3>2. \A y \in RelayDatagrams : On(relayWire'.toRelay, y) => y.channel # c
      BY <1>1, <2>4, <2>5, <2>9 DEF RelayInv, InOrder
    <3>3. QED BY <2>9, <3>1, <3>2 DEF RelayInv, Announced
  <2>11. RelayChannelsDistinct' /\ FoundIsThere' /\ RelayedInOrder'
    <3>1. \A j \in RelayUsed' : j = i \/ j \in RelayUsed
      BY <2>7
    <3>2. RelayChannelsDistinct'
      BY <2>5, <2>6, <2>8, <3>1 DEF RelayInv, RelayChannelsDistinct
    <3>3. FoundIsThere'
      BY <1>1, <2>7 DEF RelayInv, FoundIsThere
    <3>4. RelayedInOrder'
      BY <1>1 DEF RelayInv, RelayedInOrder
    <3>5. QED BY <3>2, <3>3, <3>4
  <2>12. Announced'
    BY <2>1, <2>3, <2>4, <2>5, <2>9, <2>10 DEF RelayInv, Announced
  <2>13. InOrder' /\ AtHome'
    BY <1>1, <2>1, <2>3, <2>4, <2>9, <2>10 DEF RelayInv, InOrder, AtHome
  <2>14. \A d, e, n : e # c /\ TakenAs(d, e, n) => TakenAs(d, e, n)'
    BY <1>1, <2>6, <2>7, <2>8 DEF TakenAs
  <2>15. Forward' /\ Repeated'
    BY <1>1, <2>4, <2>10, <2>14 DEF RelayInv, Forward, Repeated
  <2>16. Backward'
    BY <1>1, <2>1, <2>3 DEF RelayInv, Backward
  <2>17. NotYetSent'
    <3>1. ASSUME NEW j \in RelayUsed, Unserved(j)'
          PROVE  /\ relayTable'[j].channel = relayClient'.channel =>
                      /\ \A d \in Nat : On(relayClient'.got, d) => d < relayOut'.frame
                      /\ \A x \in RelayDatagrams :
                           (/\ On(relayWire'.toClient, x) /\ x.kind = "request"
                            /\ x.channel = relayClient'.channel) =>
                             x.data < relayOut'.frame
                 /\ \A z, x \in RelayDatagrams :
                      (/\ Behind(relayWire'.toClient, z, x) /\ z.kind = "connected" /\ x.kind = "request"
                       /\ z.channel = relayTable'[j].channel /\ x.channel = relayTable'[j].channel) =>
                        x.data < relayOut'.frame
      BY <1>1, <2>1, <2>3, <2>8, <3>1 DEF RelayInv, NotYetSent, Unserved
    <3>2. ASSUME NEW z \in RelayDatagrams, NEW x \in RelayDatagrams,
                 Behind(relayWire'.toClient, z, x), z.kind = "connected", x.kind = "request",
                 z.channel = c
          PROVE  FALSE
      <4>1. Behind(relayWire.toClient, z, x)
        BY <2>1, <2>3, <3>2
      <4>2. On(relayWire.toClient, z)
        BY <4>1 DEF Behind, On
      <4>3. QED BY <2>10, <3>2, <4>2
    <3>3. relayTable'[i].channel # relayClient'.channel
      BY <1>1, <2>6, <2>10
    <3>4. \A j \in RelayUsed' : j = i \/ j \in RelayUsed
      BY <2>7
    <3>5. SUFFICES ASSUME NEW j \in RelayUsed', Unserved(j)'
          PROVE  /\ relayTable'[j].channel = relayClient'.channel =>
                      /\ \A d \in Nat : On(relayClient'.got, d) => d < relayOut'.frame
                      /\ \A x \in RelayDatagrams :
                           (/\ On(relayWire'.toClient, x) /\ x.kind = "request"
                            /\ x.channel = relayClient'.channel) =>
                             x.data < relayOut'.frame
                 /\ \A z, x \in RelayDatagrams :
                      (/\ Behind(relayWire'.toClient, z, x) /\ z.kind = "connected" /\ x.kind = "request"
                       /\ z.channel = relayTable'[j].channel /\ x.channel = relayTable'[j].channel) =>
                        x.data < relayOut'.frame
      BY DEF NotYetSent
    <3>6. CASE j \in RelayUsed
      BY <3>1, <3>5, <3>6
    <3>7. CASE j = i
      BY <2>6, <3>2, <3>3, <3>7
    <3>8. QED BY <3>4, <3>6, <3>7
  <2>18. QED BY <2>11, <2>12, <2>13, <2>15, <2>16, <2>17 DEF RelayInv
<1>4. QED BY <1>2, <1>3 DEF RelayHandleConnectRequest, new

(***************************************************************************)
(* The output thread.                                                      *)
(***************************************************************************)
LEMMA OutputKeeps ==
  ASSUME RelayInv, RelayTypes', RelayOutput
  PROVE  RelayInv'
<1>1. UNCHANGED <<relayTable, relayPassed, relayClient>>
  BY DEF RelayOutput, RelayOutputReads, RelayOutputEnds, BroadcastLocks, BroadcastScans,
         SendTunnelToClient, RelayOutputStep
<1>2. RelayUsed' = RelayUsed /\ \A c : Alive(c) <=> Alive(c)'
  BY <1>1 DEF RelayUsed, Alive
<1>3. RelayChannelsDistinct' /\ RelayedInOrder'
  BY <1>1, <1>2 DEF RelayInv, RelayChannelsDistinct, RelayedInOrder
<1>4. relayOut.slot \in Nat /\ relayOut.frame \in Nat /\ RelaySlots \subseteq Nat
      /\ RelayUsed \subseteq RelaySlots
  BY RelayBasics DEF RelayInv, RelayTypes, RelayOutputs, RelayUsed
<1>5. \A d, c, n : TakenAs(d, c, n) => TakenAs(d, c, n)'
  BY <1>1, <1>2 DEF TakenAs
<1>6. CASE UNCHANGED relayWire
  <2>1. Announced' /\ InOrder' /\ AtHome'
    BY <1>1, <1>2, <1>6 DEF RelayInv, Announced, InOrder, AtHome
  <2>2. Forward' /\ Repeated'
    BY <1>1, <1>5, <1>6 DEF RelayInv, Forward, Repeated
  <2>a. ASSUME relayOut.frame <= relayOut'.frame, FoundIsThere', NotYetSent' PROVE RelayInv'
    <3>1. \A d \in Nat : d <= relayOut.frame => d <= relayOut'.frame
      BY <1>4, <2>a DEF RelayTypes, RelayOutputs
    <3>2. \A x \in RelayDatagrams : x.data \in Nat
      BY DEF RelayDatagrams
    <3>3. Backward'
      BY <1>1, <1>6, <3>1, <3>2 DEF RelayInv, Backward
    <3>4. QED BY <1>3, <2>1, <2>2, <2>a, <3>3 DEF RelayInv
  <2>b. ASSUME \A i \in RelayUsed : Unserved(i)' => Unserved(i), relayOut'.frame = relayOut.frame
        PROVE  NotYetSent'
    BY <1>1, <1>2, <1>6, <2>b DEF RelayInv, NotYetSent
  <2>3. CASE RelayOutputReads
    <3>1. relayOut' = [relayOut EXCEPT !.pc = "lock", !.frame = @ + 1]
      BY <2>3 DEF RelayOutputReads, RelayOutputStep
    <3>2. relayOut'.frame = relayOut.frame + 1 /\ relayOut'.pc = "lock"
      BY <3>1 DEF RelayInv, RelayTypes, RelayOutputs
    <3>3. \A d \in Nat : d <= relayOut.frame => d < relayOut'.frame
      BY <1>4, <3>2
    <3>4. \A x \in RelayDatagrams : x.data \in Nat
      BY DEF RelayDatagrams
    <3>5. \A x, y : Behind(relayWire.toClient, x, y) => On(relayWire.toClient, y)
      BY DEF Behind, On
    <3>6. NotYetSent'
      BY <1>1, <1>6, <3>3, <3>4, <3>5 DEF RelayInv, Backward, NotYetSent
    <3>7. FoundIsThere'
      BY <3>2 DEF FoundIsThere
    <3>8. QED BY <1>4, <2>a, <3>2, <3>6, <3>7
  <2>4. CASE RelayOutputEnds
    <3>1. relayOut' = [relayOut EXCEPT !.pc = "done"]
      BY <2>4 DEF RelayOutputEnds, RelayOutputStep
    <3>2. relayOut'.frame = relayOut.frame /\ relayOut'.pc = "done"
      BY <3>1 DEF RelayInv, RelayTypes, RelayOutputs
    <3>3. FoundIsThere' /\ \A i \in RelayUsed : ~Unserved(i)'
      BY <3>2 DEF FoundIsThere, Unserved
    <3>4. QED BY <1>4, <2>a, <2>b, <3>2, <3>3
  <2>5. CASE BroadcastLocks
    <3>1. relayOut' = [relayOut EXCEPT !.pc = "scan", !.slot = 0] /\ relayOut.pc = "lock"
      BY <2>5 DEF BroadcastLocks, RelayOutputStep
    <3>2. relayOut'.frame = relayOut.frame /\ relayOut'.pc = "scan"
      BY <3>1 DEF RelayInv, RelayTypes, RelayOutputs
    <3>3. FoundIsThere' /\ \A i \in RelayUsed : Unserved(i)
      BY <3>1, <3>2 DEF FoundIsThere, Unserved
    <3>4. QED BY <1>4, <2>a, <2>b, <3>2, <3>3
  <2>6. CASE BroadcastScans
    <3>1. CASE relayOut.slot \notin RelaySlots
      <4>1. relayOut' = [relayOut EXCEPT !.pc = "read"]
        BY <2>6, <3>1 DEF BroadcastScans, RelayOutputStep
      <4>2. relayOut'.frame = relayOut.frame /\ relayOut'.pc = "read"
        BY <4>1 DEF RelayInv, RelayTypes, RelayOutputs
      <4>3. FoundIsThere' /\ \A i \in RelayUsed : ~Unserved(i)'
        BY <4>2 DEF FoundIsThere, Unserved
      <4>4. QED BY <1>4, <2>a, <2>b, <4>2, <4>3
    <3>2. CASE relayOut.slot \in RelaySlots /\ relayTable[relayOut.slot] = NoState
      <4>1. relayOut' = [relayOut EXCEPT !.slot = @ + 1] /\ relayOut.pc = "scan"
        BY <2>6, <3>2 DEF BroadcastScans, RelayOutputStep
      <4>2. relayOut'.frame = relayOut.frame /\ relayOut'.pc = "scan"
            /\ relayOut'.slot = relayOut.slot + 1
        BY <4>1 DEF RelayInv, RelayTypes, RelayOutputs
      <4>3. FoundIsThere' /\ \A i \in RelayUsed : Unserved(i)' => Unserved(i)
        BY <1>4, <4>1, <4>2 DEF FoundIsThere, Unserved
      <4>4. QED BY <1>4, <2>a, <2>b, <4>2, <4>3
    <3>3. CASE relayOut.slot \in RelaySlots /\ relayTable[relayOut.slot] # NoState
      <4>1. relayOut' = [relayOut EXCEPT !.pc = "send", !.freed = "no"] /\ relayOut.pc = "scan"
        BY <2>6, <3>3 DEF BroadcastScans, RelayOutputStep
      <4>2. relayOut'.frame = relayOut.frame /\ relayOut'.pc = "send"
            /\ relayOut'.slot = relayOut.slot
        BY <4>1 DEF RelayInv, RelayTypes, RelayOutputs
      <4>3. FoundIsThere' /\ \A i \in RelayUsed : Unserved(i)' => Unserved(i)
        BY <1>2, <3>3, <4>1, <4>2 DEF FoundIsThere, Unserved, RelayUsed
      <4>4. QED BY <1>4, <2>a, <2>b, <4>2, <4>3
    <3>4. QED BY <3>1, <3>2, <3>3
  <2>7. CASE SendTunnelToClient
    <3>1. relayOut' = [relayOut EXCEPT !.pc = "scan", !.slot = @ + 1, !.freed = "no"]
          /\ relayOut.pc = "send"
      BY <2>7 DEF SendTunnelToClient, RelayOutputStep
    <3>2. relayOut'.frame = relayOut.frame /\ relayOut'.pc = "scan"
          /\ relayOut'.slot = relayOut.slot + 1
      BY <3>1 DEF RelayInv, RelayTypes, RelayOutputs
    <3>3. FoundIsThere' /\ \A i \in RelayUsed : Unserved(i)' => Unserved(i)
      BY <1>4, <3>1, <3>2 DEF FoundIsThere, Unserved
    <3>4. QED BY <1>4, <2>a, <2>b, <3>2, <3>3
  <2>8. QED BY <2>3, <2>4, <2>5, <2>6, <2>7 DEF RelayOutput
<1>7. CASE SendTunnelToClient /\ relayOut.freed = "no"
  <2> DEFINE i == relayOut.slot
             s == relayTable[i]
             frame == RelayMsg("request", s.channel, s.send, relayOut.frame)
  <2>1. i \in RelayUsed /\ relayOut.pc = "send" /\ s \in RelayStates
    BY <1>7, UsedTyped DEF SendTunnelToClient, RelayInv, FoundIsThere
  <2>2. /\ frame \in RelayDatagrams /\ frame.kind = "request" /\ frame.channel = relayTable[i].channel
        /\ frame.data = relayOut.frame
    BY <1>4, <2>1, StateUpdates, MsgTyped DEF RelayKinds
  <2>3. CASE UNCHANGED relayWire
    BY <1>6, <2>3
  <2>4. ASSUME NEW queue \in RelaySent(relayWire.toClient, frame),
               relayWire' = [relayWire EXCEPT !.toClient = queue]
        PROVE  RelayInv'
    <3>1. relayWire'.toRelay = relayWire.toRelay /\ relayWire'.toClient = queue
      BY <2>4 DEF RelayInv, RelayTypes
    <3> HIDE DEF frame, s, i
    <3>2. /\ \A x : On(relayWire'.toClient, x) => On(relayWire.toClient, x) \/ x = frame
          /\ \A x, y : Behind(relayWire'.toClient, x, y) =>
               Behind(relayWire.toClient, x, y) \/ (On(relayWire.toClient, x) /\ y = frame)
          /\ \A z, x, y : Behind2(relayWire'.toClient, z, x, y) =>
               Behind2(relayWire.toClient, z, x, y) \/ (Behind(relayWire.toClient, z, x) /\ y = frame)
      <4>1. relayWire.toClient \in Seq(RelayDatagrams)
        BY DEF RelayInv, RelayTypes
      <4>2. QED BY <2>2, <2>4, <3>1, <4>1, SentOn
    <3>3. /\ relayOut'.frame = relayOut.frame /\ relayOut'.pc = "scan"
          /\ relayOut'.slot = i + 1
      BY <1>7 DEF RelayInv, RelayTypes, RelayOutputs, SendTunnelToClient, RelayOutputStep, i
    <3>4. /\ Unserved(i) /\ \A j \in RelayUsed : Unserved(j)' => Unserved(j) /\ j # i
          /\ FoundIsThere'
      BY <1>4, <2>1, <3>3 DEF Unserved, FoundIsThere, i
    <3>5. Announced' /\ InOrder' /\ AtHome'
      BY <1>1, <1>2, <2>2, <3>1, <3>2 DEF RelayInv, Announced, InOrder, AtHome
    <3>6. Forward' /\ Repeated'
      BY <1>1, <1>5, <3>1 DEF RelayInv, Forward, Repeated
    <3>7. /\ frame.channel = relayClient.channel =>
               /\ \A d \in Nat : On(relayClient.got, d) => d < frame.data
               /\ \A x \in RelayDatagrams :
                    (On(relayWire.toClient, x) /\ x.kind = "request" /\ x.channel = frame.channel) =>
                      x.data < frame.data
          /\ \A z, x \in RelayDatagrams :
               (/\ Behind(relayWire.toClient, z, x) /\ z.kind = "connected" /\ x.kind = "request"
                /\ z.channel = frame.channel /\ x.channel = frame.channel) =>
                 x.data < frame.data
      BY <2>1, <2>2, <3>4 DEF RelayInv, NotYetSent
    <3>8. Backward'
      <4>1. frame.channel # 0
        BY <2>1, <2>2 DEF RelayInv, RelayChannelsDistinct
      <4>2. QED BY <1>1, <1>4, <2>2, <3>2, <3>3, <3>7, <4>1 DEF RelayInv, Backward
    <3>9. NotYetSent'
      <4>1. \A j \in RelayUsed : j # i => relayTable[j].channel # frame.channel
        BY <2>1, <2>2 DEF RelayInv, RelayChannelsDistinct
      <4>2. QED BY <1>1, <1>2, <3>2, <3>3, <3>4, <4>1 DEF RelayInv, NotYetSent
    <3>10. QED BY <1>3, <3>4, <3>5, <3>6, <3>8, <3>9 DEF RelayInv
  <2>5. QED BY <1>7, <2>3, <2>4 DEF SendTunnelToClient
<1>8. QED
  BY <1>6, <1>7 DEF RelayOutput, RelayOutputReads, RelayOutputEnds, BroadcastLocks, BroadcastScans,
                    SendTunnelToClient

(***************************************************************************)
(* The client sends.                                                       *)
(***************************************************************************)
LEMMA SentQueue ==
  ASSUME RelayTypes, NEW m \in RelayDatagrams, NEW next, ClientSends(m, next)
  PROVE  /\ relayClient' = next /\ UNCHANGED <<relayTable, relayOut, relayPassed>>
         /\ relayWire'.toClient = relayWire.toClient
         /\ \A x : On(relayWire'.toRelay, x) => On(relayWire.toRelay, x) \/ x = m
         /\ \A x, y : Behind(relayWire'.toRelay, x, y) =>
              Behind(relayWire.toRelay, x, y) \/ (On(relayWire.toRelay, x) /\ y = m)
<1>1. PICK queue \in RelaySent(relayWire.toRelay, m) :
        relayWire' = [relayWire EXCEPT !.toRelay = queue]
  BY DEF ClientSends
<1>2. relayWire'.toRelay = queue /\ relayWire'.toClient = relayWire.toClient
  BY <1>1 DEF RelayTypes
<1>3. relayWire.toRelay \in Seq(RelayDatagrams)
  BY DEF RelayTypes
<1>4. /\ \A x : On(queue, x) => On(relayWire.toRelay, x) \/ x = m
      /\ \A x, y : Behind(queue, x, y) =>
           Behind(relayWire.toRelay, x, y) \/ (On(relayWire.toRelay, x) /\ y = m)
  BY <1>3, SentOn
<1>5. QED BY <1>2, <1>4 DEF ClientSends

(* What a client sends belongs to its connection, or to none.               *)
LEMMA SendKeeps ==
  ASSUME RelayInv, RelayTypes', NEW m \in RelayDatagrams, NEW next, ClientSends(m, next),
         next.channel \in {0, relayClient.channel}, next.got = relayClient.got,
         m.channel \in {0, relayClient.channel},
         m.kind \in RelayByes => next.channel = 0 /\ m.channel # 0,
         m.kind \in RelayConnects => next.channel = 0,
         Forward', Repeated'
  PROVE  RelayInv'
<1>1. /\ relayClient' = next /\ UNCHANGED <<relayTable, relayOut, relayPassed>>
      /\ relayWire'.toClient = relayWire.toClient
      /\ \A x : On(relayWire'.toRelay, x) => On(relayWire.toRelay, x) \/ x = m
      /\ \A x, y : Behind(relayWire'.toRelay, x, y) =>
           Behind(relayWire.toRelay, x, y) \/ (On(relayWire.toRelay, x) /\ y = m)
  BY SentQueue DEF RelayInv
<1>2. RelayUsed' = RelayUsed /\ \A c : Alive(c) <=> Alive(c)'
  BY <1>1 DEF RelayUsed, Alive
<1>3. RelayChannelsDistinct' /\ FoundIsThere' /\ RelayedInOrder'
  BY <1>1, <1>2 DEF RelayInv, RelayChannelsDistinct, FoundIsThere, RelayedInOrder
<1>4. Announced'
  BY <1>1, <1>2 DEF RelayInv, Announced, AtHome
<1>5. InOrder'
  BY <1>1, <1>2 DEF RelayInv, InOrder, AtHome
<1>6. AtHome'
  BY <1>1, <1>2 DEF RelayInv, AtHome
<1>7. Backward'
  BY <1>1, <1>2 DEF RelayInv, Backward
<1>8. NotYetSent'
  BY <1>1, <1>2 DEF RelayInv, RelayChannelsDistinct, NotYetSent, Unserved
<1>9. QED BY <1>3, <1>4, <1>5, <1>6, <1>7, <1>8 DEF RelayInv

LEMMA OtherSendKeeps ==
  ASSUME RelayInv, RelayTypes', NEW m \in RelayDatagrams, NEW next, ClientSends(m, next),
         m.kind # "request", next.made = relayClient.made,
         \/ next.tries = 0
         \/ /\ next.channel = relayClient.channel /\ next.tries = relayClient.tries
            /\ next.send = relayClient.send
  PROVE  Forward' /\ Repeated'
<1>1. /\ relayClient' = next /\ UNCHANGED <<relayTable, relayOut, relayPassed>>
      /\ \A x : On(relayWire'.toRelay, x) => On(relayWire.toRelay, x) \/ x = m
      /\ \A x, y : Behind(relayWire'.toRelay, x, y) =>
           Behind(relayWire.toRelay, x, y) \/ (On(relayWire.toRelay, x) /\ y = m)
  BY SentQueue DEF RelayInv
<1>2. \A d, c, n : TakenAs(d, c, n) => TakenAs(d, c, n)'
  BY <1>1 DEF TakenAs, RelayUsed
<1>3. Forward'
  BY <1>1, <1>2 DEF RelayInv, Forward
<1>4. Repeated'
  BY <1>1, <1>2 DEF RelayInv, Repeated
<1>5. QED BY <1>3, <1>4

LEMMA OtherSendsKeep ==
  ASSUME RelayInv, RelayTypes', ClientSearches \/ ClientConnects \/ ClientCloses \/ ClientBeats
  PROVE  RelayInv'
<1>0. relayClient \in RelayClients /\ relayClient.channel \in RelayChannels
  BY DEF RelayInv, RelayTypes, RelayClients
<1>a. \A kind \in RelayKinds, c \in RelayChannels :
        /\ RelayMsg(kind, c, 0, 0) \in RelayDatagrams
        /\ RelayMsg(kind, c, 0, 0).kind = kind /\ RelayMsg(kind, c, 0, 0).channel = c
  BY RelayBasics DEF RelayMsg, RelayDatagrams
<1>1. ASSUME NEW kind \in RelayKinds \ RelayByes, kind # "request", NEW next,
             ClientSends(RelayMsg(kind, 0, 0, 0), next),
             next.channel = relayClient.channel, next.got = relayClient.got,
             next.made = relayClient.made, next.tries = relayClient.tries,
             next.send = relayClient.send,
             kind \in RelayConnects => relayClient.channel = 0
      PROVE  RelayInv'
  <2> DEFINE m == RelayMsg(kind, 0, 0, 0)
  <2>1. m \in RelayDatagrams /\ m.kind = kind /\ m.channel = 0 /\ ClientSends(m, next)
    BY <1>1, <1>a, RelayBasics
  <2> HIDE DEF m
  <2>2. Forward' /\ Repeated'
    BY <1>1, <2>1, OtherSendKeeps
  <2>3. QED BY <1>1, <2>1, <2>2, SendKeeps
<1>2. CASE ClientSearches
  <2>1. {"search", "describe"} \subseteq RelayKinds \ RelayByes
        /\ \A kind \in {"search", "describe"} : kind # "request" /\ kind \notin RelayConnects
    BY DEF RelayKinds, RelayByes, RelayConnects
  <2>2. QED BY <1>1, <1>2, <2>1 DEF ClientSearches
<1>3. CASE ClientConnects
  <2> DEFINE next == [relayClient EXCEPT !.asks = @ + 1]
  <2>1. {"connect", "connect other"} \subseteq RelayKinds \ RelayByes
        /\ \A kind \in {"connect", "connect other"} : kind # "request"
    BY DEF RelayKinds, RelayByes, RelayConnects
  <2>2. /\ next.channel = relayClient.channel /\ next.got = relayClient.got
        /\ next.made = relayClient.made /\ next.tries = relayClient.tries
        /\ next.send = relayClient.send
    BY <1>0 DEF RelayClients
  <2>3. relayClient.channel = 0
        /\ \E kind \in {"connect", "connect other"} : ClientSends(RelayMsg(kind, 0, 0, 0), next)
    BY <1>3 DEF ClientConnects
  <2> HIDE DEF next
  <2>4. QED BY <1>1, <2>1, <2>2, <2>3
<1>4. CASE ClientCloses
  <2> DEFINE next == [relayClient EXCEPT !.channel = 0, !.tries = 0]
  <2>1. PICK kind \in RelayByes : ClientSends(RelayMsg(kind, relayClient.channel, 0, 0), next)
    BY <1>4 DEF ClientCloses, RelayByes
  <2>2. next.channel = 0 /\ next.got = relayClient.got /\ next.made = relayClient.made
        /\ next.tries = 0
    BY <1>0 DEF RelayClients
  <2>3. kind \in RelayKinds /\ kind # "request" /\ kind \notin RelayConnects
        /\ relayClient.channel # 0
    BY <1>4 DEF ClientCloses, RelayKinds, RelayByes, RelayConnects
  <2> DEFINE m == RelayMsg(kind, relayClient.channel, 0, 0)
  <2>4. /\ m \in RelayDatagrams /\ m.kind = kind /\ m.channel = relayClient.channel
        /\ ClientSends(m, next)
    BY <1>0, <1>a, <2>1, <2>3
  <2> HIDE DEF m, next
  <2>5. Forward' /\ Repeated'
    BY <2>2, <2>3, <2>4, OtherSendKeeps
  <2>6. QED BY <2>2, <2>3, <2>4, <2>5, SendKeeps
<1>5. CASE ClientBeats
  <2> DEFINE m == RelayMsg("state", relayClient.channel, 0, 0)
  <2>1. "state" \in RelayKinds /\ "state" \notin RelayByes /\ "state" \notin RelayConnects
    BY DEF RelayKinds, RelayByes, RelayConnects
  <2>2. /\ m \in RelayDatagrams /\ m.kind = "state" /\ m.channel = relayClient.channel
        /\ ClientSends(m, relayClient)
    BY <1>0, <1>5, <1>a, <2>1 DEF ClientBeats
  <2> HIDE DEF m
  <2>3. Forward' /\ Repeated'
    BY <2>2, OtherSendKeeps
  <2>4. QED BY <2>1, <2>2, <2>3, SendKeeps
<1>6. QED BY <1>2, <1>3, <1>4, <1>5

(* A request of the client: a new one, or the last one once more.           *)
LEMMA RequestsSentKeep ==
  ASSUME RelayInv, RelayTypes', ClientTransmits \/ ClientRepeats
  PROVE  RelayInv'
<1>0. /\ relayClient \in RelayClients /\ relayClient.channel \in RelayChannels
      /\ relayClient.send \in RelayNumbers /\ relayClient.made \in Nat
      /\ relayClient.made + 1 \in Nat
  BY DEF RelayInv, RelayTypes, RelayClients
<1>a. "request" \in RelayKinds /\ "request" \notin RelayByes /\ "request" \notin RelayConnects
  BY DEF RelayKinds, RelayByes, RelayConnects
<1>b. \A x \in RelayDatagrams : x.data \in Nat
  BY DEF RelayDatagrams
<1>c. relayClient.channel # 0
  BY DEF RelayInv, Repeated, ClientTransmits, ClientRepeats
<1>1. CASE ClientTransmits
  <2> DEFINE made == RelayMsg("request", relayClient.channel, relayClient.send, relayClient.made + 1)
             next == [relayClient EXCEPT !.tries = 1, !.made = @ + 1]
  <2>a. /\ made \in RelayDatagrams /\ made.kind = "request" /\ made.channel = relayClient.channel
        /\ made.seq = relayClient.send /\ made.data = relayClient.made + 1
    BY <1>0, <1>a DEF RelayMsg, RelayDatagrams
  <2>b. PICK m \in RelayDatagrams : m = made
    BY <2>a
  <2>1. /\ m \in RelayDatagrams /\ m.kind = "request" /\ m.channel = relayClient.channel
        /\ m.seq = relayClient.send /\ m.data = relayClient.made + 1
    BY <2>a, <2>b
  <2>2. /\ next.channel = relayClient.channel /\ next.got = relayClient.got
        /\ next.made = relayClient.made + 1 /\ next.tries = 1 /\ next.send = relayClient.send
    BY <1>0 DEF RelayClients
  <2>3. ClientSends(m, next)
    BY <1>1, <2>b DEF ClientTransmits
  <2> HIDE DEF made, next
  <2>4. /\ relayClient' = next /\ UNCHANGED <<relayTable, relayOut, relayPassed>>
        /\ \A x : On(relayWire'.toRelay, x) => On(relayWire.toRelay, x) \/ x = m
        /\ \A x, y : Behind(relayWire'.toRelay, x, y) =>
             Behind(relayWire.toRelay, x, y) \/ (On(relayWire.toRelay, x) /\ y = m)
    BY <2>1, <2>3, SentQueue DEF RelayInv
  <2>5. \A d, c, n : TakenAs(d, c, n) => TakenAs(d, c, n)'
    BY <2>4 DEF TakenAs, RelayUsed
  <2>6. \A d \in Nat : On(relayPassed, d) => d <= relayClient.made
    BY DEF RelayInv, Forward
  <2>7. \A x \in RelayDatagrams : On(relayWire.toRelay, x) /\ x.kind = "request" =>
          x.data <= relayClient.made
    BY DEF RelayInv, Forward
  <2>8. \A d \in Nat : d <= relayClient.made => d < relayClient.made + 1 /\ d # relayClient.made + 1
    BY <1>0
  <2>9. \A d, c, n : d = relayClient.made + 1 => TakenAs(d, c, n)'
    BY <1>0, <2>4, <2>6, <2>8 DEF TakenAs
  <2>10. Forward'
    <3>1. \A d \in Nat : On(relayPassed', d) => d <= relayClient'.made
      BY <1>0, <2>2, <2>4, <2>6, <2>8
    <3>2. ASSUME NEW x \in RelayDatagrams, On(relayWire.toRelay, x), x.kind = "request"
          PROVE  /\ x.channel # 0 /\ x.data <= relayClient'.made
                 /\ \A d \in Nat : On(relayPassed', d) => d <= x.data
                 /\ TakenAs(x.data, x.channel, x.seq)'
      BY <1>0, <1>b, <2>2, <2>4, <2>5, <2>7, <2>8, <3>2 DEF RelayInv, Forward
    <3>3. /\ m.channel # 0 /\ m.data <= relayClient'.made
          /\ \A d \in Nat : On(relayPassed', d) => d <= m.data
          /\ TakenAs(m.data, m.channel, m.seq)'
      BY <1>0, <1>c, <2>1, <2>2, <2>4, <2>6, <2>8, <2>9
    <3>4. ASSUME NEW x \in RelayDatagrams, NEW y \in RelayDatagrams,
                 Behind(relayWire'.toRelay, x, y), x.kind = "request", y.kind = "request"
          PROVE  /\ x.data <= y.data
                 /\ x.data = y.data => x.channel = y.channel /\ x.seq = y.seq
      <4>1. CASE Behind(relayWire.toRelay, x, y)
        BY <3>4, <4>1 DEF RelayInv, Forward
      <4>2. CASE On(relayWire.toRelay, x) /\ y = m
        <5>1. x.data < y.data /\ x.data \in Nat /\ y.data \in Nat
          BY <1>0, <1>b, <2>1, <2>7, <2>8, <3>4, <4>2
        <5>2. QED BY <5>1
      <4>3. QED BY <2>4, <3>4, <4>1, <4>2
    <3>5. QED BY <2>4, <3>1, <3>2, <3>3, <3>4 DEF Forward
  <2>11. Repeated'
    <3>1. \A x \in RelayDatagrams :
            On(relayWire'.toRelay, x) /\ x.kind = "request" /\ x.data = relayClient.made + 1 => x = m
      BY <1>b, <2>4, <2>7, <2>8
    <3>2. \A x \in RelayDatagrams :
            On(relayWire'.toRelay, x) /\ x.kind = "request" /\ x.data = relayClient'.made =>
              x.channel = relayClient'.channel /\ x.seq = relayClient'.send
      BY <2>1, <2>2, <2>4, <3>1
    <3>3. TakenAs(relayClient.made, relayClient.channel, relayClient.send)'
      BY <2>2, <2>4, <2>9
    <3>4. relayClient'.channel # 0
      BY <1>c, <2>2, <2>4
    <3>5. QED BY <3>2, <3>3, <3>4 DEF Repeated
  <2>12. QED BY <1>a, <2>1, <2>2, <2>3, <2>10, <2>11, SendKeeps
<1>2. CASE ClientRepeats
  <2> DEFINE made == RelayMsg("request", relayClient.channel, relayClient.send, relayClient.made)
             next == [relayClient EXCEPT !.tries = 2]
  <2>a. /\ made \in RelayDatagrams /\ made.kind = "request" /\ made.channel = relayClient.channel
        /\ made.seq = relayClient.send /\ made.data = relayClient.made
    BY <1>0, <1>a DEF RelayMsg, RelayDatagrams
  <2>b. PICK m \in RelayDatagrams : m = made
    BY <2>a
  <2>1. /\ m \in RelayDatagrams /\ m.kind = "request" /\ m.channel = relayClient.channel
        /\ m.seq = relayClient.send /\ m.data = relayClient.made
    BY <2>a, <2>b
  <2>2. /\ next.channel = relayClient.channel /\ next.got = relayClient.got
        /\ next.made = relayClient.made /\ next.tries = 2
    BY <1>0 DEF RelayClients
  <2>3. ClientSends(m, next) /\ relayClient.tries = 1
    BY <1>2, <2>b DEF ClientRepeats
  <2> HIDE DEF made, next
  <2>4. /\ relayClient' = next /\ UNCHANGED <<relayTable, relayOut, relayPassed>>
        /\ \A x : On(relayWire'.toRelay, x) => On(relayWire.toRelay, x) \/ x = m
        /\ \A x, y : Behind(relayWire'.toRelay, x, y) =>
             Behind(relayWire.toRelay, x, y) \/ (On(relayWire.toRelay, x) /\ y = m)
    BY <2>1, <2>3, SentQueue DEF RelayInv
  <2>5. \A d, c, n : TakenAs(d, c, n) => TakenAs(d, c, n)'
    BY <2>4 DEF TakenAs, RelayUsed
  <2>6. /\ m.channel # 0 /\ m.data <= relayClient.made
        /\ \A d \in Nat : On(relayPassed, d) => d <= m.data
        /\ TakenAs(m.data, m.channel, m.seq)
    <3>1. TakenAs(relayClient.made, relayClient.channel, relayClient.send)
      BY <2>3 DEF RelayInv, Repeated
    <3>2. \A d \in Nat : On(relayPassed, d) => d <= relayClient.made
      BY DEF RelayInv, Forward
    <3>3. QED BY <1>0, <1>c, <2>1, <3>1, <3>2
  <2>7. \A x \in RelayDatagrams : On(relayWire.toRelay, x) /\ x.kind = "request" =>
          /\ x.data <= m.data
          /\ x.data = m.data => x.channel = m.channel /\ x.seq = m.seq
    BY <2>1, <2>3 DEF RelayInv, Forward, Repeated
  <2>8. Forward'
    BY <2>2, <2>4, <2>5, <2>6, <2>7 DEF RelayInv, Forward
  <2>9. Repeated'
    BY <1>c, <2>2, <2>4 DEF Repeated
  <2>10. QED BY <1>a, <2>1, <2>2, <2>3, <2>8, <2>9, SendKeeps
<1>3. QED BY <1>1, <1>2

(***************************************************************************)
(* The client receives.                                                    *)
(***************************************************************************)
LEMMA ReceivedQueues ==
  ASSUME RelayTypes, ClientReceives, NEW m, m = Head(relayWire.toClient)
  PROVE  /\ m \in RelayDatagrams /\ On(relayWire.toClient, m)
         /\ UNCHANGED <<relayTable, relayOut, relayPassed>>
         /\ \A x : On(relayWire'.toClient, x) =>
              On(relayWire.toClient, x) /\ Behind(relayWire.toClient, m, x)
         /\ \A x, y : Behind(relayWire'.toClient, x, y) =>
              Behind(relayWire.toClient, x, y) /\ Behind2(relayWire.toClient, m, x, y)
         /\ \A z, x, y : Behind2(relayWire'.toClient, z, x, y) => Behind2(relayWire.toClient, z, x, y)
         /\ \/ relayWire'.toRelay = relayWire.toRelay
            \/ \E a \in RelayDatagrams :
                 /\ m.kind = "request" /\ m.channel = relayClient.channel
                 /\ a.kind = "ack" /\ a.channel = m.channel
                 /\ \A x : On(relayWire'.toRelay, x) => On(relayWire.toRelay, x) \/ x = a
                 /\ \A x, y : Behind(relayWire'.toRelay, x, y) =>
                      Behind(relayWire.toRelay, x, y) \/ (On(relayWire.toRelay, x) /\ y = a)
<1> DEFINE ack == RelayMsg("ack", m.channel, m.seq, 0)
<1>1. /\ relayWire.toClient \in Seq(RelayDatagrams) /\ relayWire.toClient # <<>>
      /\ relayWire.toRelay \in Seq(RelayDatagrams)
      /\ UNCHANGED <<relayTable, relayOut, relayPassed>>
  BY DEF RelayTypes, ClientReceives
<1>2. m \in RelayDatagrams /\ On(relayWire.toClient, m)
  BY <1>1, TailOn
<1>3. ack \in RelayDatagrams /\ ack.kind = "ack" /\ ack.channel = m.channel
  <2>1. m.channel \in RelayChannels /\ m.seq \in RelayNumbers
    BY <1>2 DEF RelayDatagrams
  <2>2. QED BY <2>1 DEF RelayMsg, RelayDatagrams, RelayKinds
<1>4. \/ relayWire' = [toRelay |-> relayWire.toRelay, toClient |-> Tail(relayWire.toClient)]
      \/ /\ m.kind = "request" /\ m.channel = relayClient.channel
         /\ \E queue \in RelaySent(relayWire.toRelay, ack) :
              relayWire' = [toRelay |-> queue, toClient |-> Tail(relayWire.toClient)]
  BY DEF ClientReceives
<1> HIDE DEF ack
<1>5. relayWire'.toClient = Tail(relayWire.toClient)
  <2>1. ASSUME NEW queue, relayWire' = [toRelay |-> queue, toClient |-> Tail(relayWire.toClient)]
        PROVE  relayWire'.toClient = Tail(relayWire.toClient)
    BY <2>1
  <2>2. QED BY <1>4, <2>1
<1>6. /\ \A x : On(relayWire'.toClient, x) =>
           On(relayWire.toClient, x) /\ Behind(relayWire.toClient, m, x)
      /\ \A x, y : Behind(relayWire'.toClient, x, y) =>
           Behind(relayWire.toClient, x, y) /\ Behind2(relayWire.toClient, m, x, y)
      /\ \A z, x, y : Behind2(relayWire'.toClient, z, x, y) => Behind2(relayWire.toClient, z, x, y)
  BY <1>1, <1>5, TailOn
<1>7. ASSUME NEW queue \in RelaySent(relayWire.toRelay, ack), relayWire'.toRelay = queue
      PROVE  /\ \A x : On(relayWire'.toRelay, x) => On(relayWire.toRelay, x) \/ x = ack
             /\ \A x, y : Behind(relayWire'.toRelay, x, y) =>
                  Behind(relayWire.toRelay, x, y) \/ (On(relayWire.toRelay, x) /\ y = ack)
  BY <1>1, <1>3, <1>7, SentOn
<1>8. CASE relayWire' = [toRelay |-> relayWire.toRelay, toClient |-> Tail(relayWire.toClient)]
  <2>1. relayWire'.toRelay = relayWire.toRelay
    BY <1>8
  <2>2. QED BY <1>1, <1>2, <1>6, <2>1
<1>9. ASSUME m.kind = "request", m.channel = relayClient.channel,
             NEW queue \in RelaySent(relayWire.toRelay, ack),
             relayWire' = [toRelay |-> queue, toClient |-> Tail(relayWire.toClient)]
      PROVE  \E a \in RelayDatagrams :
               /\ a.kind = "ack" /\ a.channel = m.channel
               /\ \A x : On(relayWire'.toRelay, x) => On(relayWire.toRelay, x) \/ x = a
               /\ \A x, y : Behind(relayWire'.toRelay, x, y) =>
                    Behind(relayWire.toRelay, x, y) \/ (On(relayWire.toRelay, x) /\ y = a)
  <2>1. relayWire'.toRelay = queue
    BY <1>9
  <2>2. QED BY <1>3, <1>7, <2>1
<1>10. QED BY <1>1, <1>2, <1>4, <1>6, <1>8, <1>9

(* A connect response: what is behind it orders the frames of the new       *)
(* connection.                                                              *)
LEMMA ConnectedKeeps ==
  ASSUME RelayInv, RelayTypes', ClientReceives, NEW m, m = Head(relayWire.toClient),
         m.kind = "connected", relayClient.channel = 0
  PROVE  RelayInv'
<1>1. /\ m \in RelayDatagrams /\ On(relayWire.toClient, m)
      /\ UNCHANGED <<relayTable, relayOut, relayPassed>>
      /\ relayWire'.toRelay = relayWire.toRelay
      /\ \A x : On(relayWire'.toClient, x) =>
           On(relayWire.toClient, x) /\ Behind(relayWire.toClient, m, x)
      /\ \A x, y : Behind(relayWire'.toClient, x, y) =>
           Behind(relayWire.toClient, x, y) /\ Behind2(relayWire.toClient, m, x, y)
      /\ \A z, x, y : Behind2(relayWire'.toClient, z, x, y) => Behind2(relayWire.toClient, z, x, y)
  BY ReceivedQueues DEF RelayInv
<1>2. relayClient' = [relayClient EXCEPT !.channel = m.channel, !.send = 0, !.recv = 0, !.got = <<>>]
  BY DEF ClientReceives
<1>3. /\ relayClient'.channel = m.channel /\ relayClient'.got = <<>>
      /\ relayClient'.made = relayClient.made /\ relayClient'.tries = relayClient.tries
  BY <1>2 DEF RelayInv, RelayTypes
<1>4. relayClient.tries = 0 /\ m.channel # 0 /\ Alive(m.channel)
  BY <1>1 DEF RelayInv, Repeated, Announced
<1>5. RelayUsed' = RelayUsed /\ \A c : Alive(c) <=> Alive(c)'
  BY <1>1 DEF RelayUsed, Alive
<1>6. \A x : ~On(<<>>, x)
  BY NothingOn
<1>7. RelayChannelsDistinct' /\ FoundIsThere'
  BY <1>1, <1>5 DEF RelayInv, RelayChannelsDistinct, FoundIsThere
<1>8. RelayedInOrder'
  <2>1. RelayIncreasing(<<>>)
    BY DEF RelayIncreasing
  <2>2. QED BY <1>1, <1>3, <2>1 DEF RelayInv, RelayedInOrder
<1>9. Announced' /\ InOrder'
  BY <1>1, <1>5 DEF RelayInv, Announced, InOrder
<1>10. AtHome'
  BY <1>1, <1>3, <1>4, <1>5 DEF RelayInv, Announced, AtHome
<1>11. \A d, c, n : TakenAs(d, c, n) => TakenAs(d, c, n)'
  BY <1>1 DEF TakenAs, RelayUsed
<1>12. Forward' /\ Repeated'
  BY <1>1, <1>3, <1>4, <1>11 DEF RelayInv, Forward, Repeated
<1>13. Backward'
  BY <1>1, <1>3, <1>6 DEF RelayInv, Backward
<1>14. NotYetSent'
  BY <1>1, <1>3, <1>5, <1>6 DEF RelayInv, NotYetSent, Unserved
<1>15. QED BY <1>7, <1>8, <1>9, <1>10, <1>12, <1>13, <1>14 DEF RelayInv

(* What is left in order by any other datagram.                             *)
LEMMA ReceivedKeeps ==
  ASSUME RelayInv, RelayTypes', ClientReceives, NEW m, m = Head(relayWire.toClient),
         relayClient'.channel = relayClient.channel, relayClient'.made = relayClient.made,
         \/ relayClient'.tries = 0
         \/ relayClient'.tries = relayClient.tries /\ relayClient'.send = relayClient.send,
         \/ relayClient'.got = relayClient.got
         \/ /\ m.kind = "request" /\ m.channel = relayClient.channel
            /\ relayClient'.got = Append(relayClient.got, m.data)
  PROVE  RelayInv'
<1>1. /\ m \in RelayDatagrams /\ On(relayWire.toClient, m)
      /\ UNCHANGED <<relayTable, relayOut, relayPassed>>
      /\ \A x : On(relayWire'.toClient, x) =>
           On(relayWire.toClient, x) /\ Behind(relayWire.toClient, m, x)
      /\ \A x, y : Behind(relayWire'.toClient, x, y) =>
           Behind(relayWire.toClient, x, y) /\ Behind2(relayWire.toClient, m, x, y)
      /\ \A z, x, y : Behind2(relayWire'.toClient, z, x, y) => Behind2(relayWire.toClient, z, x, y)
      /\ \/ relayWire'.toRelay = relayWire.toRelay
         \/ \E a \in RelayDatagrams :
              /\ m.kind = "request" /\ m.channel = relayClient.channel
              /\ a.kind = "ack" /\ a.channel = m.channel
              /\ \A x : On(relayWire'.toRelay, x) => On(relayWire.toRelay, x) \/ x = a
              /\ \A x, y : Behind(relayWire'.toRelay, x, y) =>
                   Behind(relayWire.toRelay, x, y) \/ (On(relayWire.toRelay, x) /\ y = a)
  BY ReceivedQueues DEF RelayInv
<1>2. /\ \A x : On(relayWire'.toRelay, x) =>
           On(relayWire.toRelay, x) \/ x.kind = "ack"
      /\ \A x, y : Behind(relayWire'.toRelay, x, y) =>
           Behind(relayWire.toRelay, x, y)
           \/ (On(relayWire.toRelay, x) /\ y.kind = "ack" /\ y.channel = relayClient.channel)
  BY <1>1
<1>3. "ack" \notin RelayByes /\ "ack" \notin RelayConnects /\ "ack" # "request"
  BY DEF RelayByes, RelayConnects
<1>4. RelayUsed' = RelayUsed /\ \A c : Alive(c) <=> Alive(c)'
  BY <1>1 DEF RelayUsed, Alive
<1>5. \A d, c, n : TakenAs(d, c, n) => TakenAs(d, c, n)'
  BY <1>1 DEF TakenAs, RelayUsed
<1>6. RelayChannelsDistinct' /\ FoundIsThere'
  BY <1>1, <1>4 DEF RelayInv, RelayChannelsDistinct, FoundIsThere
<1>7. Announced'
  BY <1>1, <1>2, <1>3, <1>4 DEF RelayInv, Announced
<1>8. InOrder'
  BY <1>1, <1>2, <1>3, <1>4 DEF RelayInv, InOrder, AtHome
<1>9. AtHome'
  BY <1>1, <1>2, <1>3, <1>4 DEF RelayInv, AtHome
<1>10. Forward' /\ Repeated'
  BY <1>1, <1>2, <1>3, <1>5 DEF RelayInv, Forward, Repeated
<1>11. CASE relayClient'.got = relayClient.got
  <2>1. RelayedInOrder'
    BY <1>1, <1>11 DEF RelayInv, RelayedInOrder
  <2>2. Backward'
    BY <1>1, <1>11 DEF RelayInv, Backward
  <2>3. NotYetSent'
    BY <1>1, <1>4, <1>11 DEF RelayInv, NotYetSent, Unserved
  <2>4. QED BY <1>6, <1>7, <1>8, <1>9, <1>10, <2>1, <2>2, <2>3 DEF RelayInv
<1>12. CASE /\ m.kind = "request" /\ m.channel = relayClient.channel
            /\ relayClient'.got = Append(relayClient.got, m.data)
  <2>1. relayClient.got \in Seq(Nat) /\ m.data \in Nat
    BY <1>1 DEF RelayInv, RelayTypes, RelayDatagrams
  <2>2. /\ m.data <= relayOut.frame /\ m.channel # 0
        /\ \A d \in Nat : On(relayClient.got, d) => d < m.data
    BY <1>1, <1>12 DEF RelayInv, Backward
  <2>3. \A d : On(relayClient'.got, d) => On(relayClient.got, d) \/ d = m.data
    BY <1>12, <2>1, AppendOn
  <2>4. RelayedInOrder'
    <3>1. RelayIncreasing(relayClient.got)
      BY DEF RelayInv, RelayedInOrder
    <3>2. RelayIncreasing(Append(relayClient.got, m.data))
      BY <2>1, <2>2, <3>1, IncreasingAppend
    <3>3. QED BY <1>1, <1>12, <3>2 DEF RelayInv, RelayedInOrder
  <2>5. Backward'
    BY <1>1, <1>12, <2>2, <2>3 DEF RelayInv, Backward
  <2>6. NotYetSent'
    BY <1>1, <1>4, <1>12, <2>3 DEF RelayInv, NotYetSent, Unserved
  <2>7. QED BY <1>6, <1>7, <1>8, <1>9, <1>10, <2>4, <2>5, <2>6 DEF RelayInv
<1>13. QED BY <1>11, <1>12

LEMMA ReceiveKeeps ==
  ASSUME RelayInv, RelayTypes', ClientReceives
  PROVE  RelayInv'
<1>1. PICK m : m = Head(relayWire.toClient)
  OBVIOUS
<1>2. CASE m.kind = "connected" /\ relayClient.channel = 0
  BY <1>1, <1>2, ConnectedKeeps
<1>3. CASE relayClient' = relayClient
  BY <1>1, <1>3, ReceivedKeeps
<1>4. CASE relayClient' = [relayClient EXCEPT !.tries = 0, !.send = RelaySucc(@)]
  <2>1. /\ relayClient'.channel = relayClient.channel /\ relayClient'.made = relayClient.made
        /\ relayClient'.tries = 0 /\ relayClient'.got = relayClient.got
    BY <1>4 DEF RelayInv, RelayTypes
  <2>2. QED BY <1>1, <2>1, ReceivedKeeps
<1>5. CASE /\ m.kind = "request" /\ m.channel = relayClient.channel
           /\ relayClient' = [relayClient EXCEPT !.recv = RelaySucc(@), !.got = Append(@, m.data)]
  <2>1. /\ relayClient'.channel = relayClient.channel /\ relayClient'.made = relayClient.made
        /\ relayClient'.tries = relayClient.tries /\ relayClient'.send = relayClient.send
        /\ relayClient'.got = Append(relayClient.got, m.data)
    BY <1>5 DEF RelayInv, RelayTypes
  <2>2. QED BY <1>1, <1>5, <2>1, ReceivedKeeps
<1>6. QED BY <1>1, <1>2, <1>3, <1>4, <1>5 DEF ClientReceives

(***************************************************************************)
(* The theorems about the relay.                                           *)
(***************************************************************************)
LEMMA RelayInitInv == RelayInit => RelayInv
<1> SUFFICES ASSUME RelayInit PROVE RelayInv
  OBVIOUS
<1>1. RelayTypes
  BY RelayInitTypes
<1>2. RelayUsed = {}
  BY DEF RelayInit, RelayUsed
<1>3. /\ \A x : ~On(relayWire.toRelay, x) /\ ~On(relayWire.toClient, x)
                /\ ~On(relayPassed, x) /\ ~On(relayClient.got, x)
      /\ \A x, y : ~Behind(relayWire.toRelay, x, y) /\ ~Behind(relayWire.toClient, x, y)
      /\ \A z, x, y : ~Behind2(relayWire.toClient, z, x, y)
  BY NothingOn DEF RelayInit
<1>4. relayOut.pc = "read" /\ relayClient.channel = 0 /\ relayClient.tries = 0
  BY DEF RelayInit
<1>5. RelayChannelsDistinct /\ FoundIsThere /\ NotYetSent
  BY <1>2, <1>4 DEF RelayChannelsDistinct, FoundIsThere, NotYetSent
<1>6. Announced /\ InOrder /\ AtHome
  BY <1>3, <1>4 DEF Announced, InOrder, AtHome
<1>7. Forward /\ Repeated /\ Backward
  BY <1>3, <1>4 DEF Forward, Repeated, Backward
<1>8. RelayedInOrder
  BY DEF RelayInit, RelayedInOrder, RelayIncreasing
<1>9. QED BY <1>1, <1>5, <1>6, <1>7, <1>8 DEF RelayInv

LEMMA RelayInvStep == RelayInv /\ [RelayNext]_relayVars => RelayInv'
<1> SUFFICES ASSUME RelayInv, [RelayNext]_relayVars PROVE RelayInv'
  OBVIOUS
<1>1. RelayTypes /\ FoundIsThere /\ RelayTypes'
  BY RelayTypesStep DEF RelayInv
<1>2. CASE RelayInput
  <2>1. CASE RelayHandleTunnelRequest
    BY <1>1, <2>1, RequestKeeps
  <2>2. ASSUME NEW kind \in {"connect", "connect other"}, RelayHandleConnectRequest(kind)
        PROVE  RelayInv'
    BY <1>1, <2>2, ConnectKeeps
  <2>3. QED BY <1>1, <1>2, <2>1, <2>2, QuietSteps, QuietKeeps DEF RelayInput
<1>3. CASE RelayOutput
  BY <1>1, <1>3, OutputKeeps
<1>4. CASE RelayCloses
  BY <1>1, <1>4, QuietSteps, QuietKeeps
<1>5. CASE RelayTick
  BY <1>1, <1>5, TickKeeps
<1>6. CASE ClientSearches \/ ClientConnects \/ ClientCloses \/ ClientBeats
  BY <1>1, <1>6, OtherSendsKeep
<1>7. CASE ClientTransmits \/ ClientRepeats
  BY <1>1, <1>7, RequestsSentKeep
<1>8. CASE ClientReceives
  BY <1>1, <1>8, ReceiveKeeps
<1>9. CASE UNCHANGED relayVars
  <2>1. /\ UNCHANGED <<relayOut, relayPassed, relayClient>> /\ UNCHANGED relayWire
        /\ UNCHANGED relayTable
    BY <1>9 DEF relayVars
  <2>2. RelayOld /\ FoundIsThere' /\ \A c : Alive(c) => Alive(c)'
    BY <1>1, <2>1, SameTable DEF FoundIsThere
  <2>3. RelayQuiet
    BY <2>1, <2>2 DEF RelayQuiet
  <2>4. QED BY <1>1, <2>3, QuietKeeps
<1>10. QED
  BY <1>2, <1>3, <1>4, <1>5, <1>6, <1>7, <1>8, <1>9 DEF RelayNext

(* Every variable of the relay keeps its type, and what is in its table, in *)
(* the hands of its output thread and on its way in both directions stays   *)
(* in step, whatever the clients ask for and the network drops or repeats   *)
(* (every handler of RelayHandler.cpp): the invariant the next two rest on. *)
THEOREM RelayAlwaysInv == RelaySpec => []RelayInv
<1>1. RelayInit => RelayInv
  BY RelayInitInv
<1>2. RelayInv /\ [RelayNext]_relayVars => RelayInv'
  BY RelayInvStep
<1>3. QED BY <1>1, <1>2, PTL DEF RelaySpec

(* GetState (RelayHandler.cpp) finds the one connection a client means:     *)
(* AllocateNewState never draws a channel that is in use, nor channel 0,    *)
(* however many connections there are and however they come and go.         *)
THEOREM ChannelsStayDistinct == RelaySpec => []RelayChannelsDistinct
<1>1. RelayInv => RelayChannelsDistinct
  BY DEF RelayInv
<1>2. QED BY <1>1, RelayAlwaysInv, PTL

(* Broadcast and HandleTunnelRequest pass frames on in order and at most    *)
(* once, although datagrams are lost and repeated, connections are freed    *)
(* and opened again on the same channel, and Broadcast sends a frame to a   *)
(* connection without having had the last one acknowledged.                 *)
THEOREM FramesRelayedInOrder == RelaySpec => []RelayedInOrder
<1>1. RelayInv => RelayedInOrder
  BY DEF RelayInv
<1>2. QED BY <1>1, RelayAlwaysInv, PTL

(***************************************************************************)
(* The emulator.  Only the input thread opens connections, and Close has    *)
(* joined it when the clients are told: that it has ended is what makes the *)
(* property inductive.                                                     *)
(***************************************************************************)
EmuSettled == EmuNobodyLeftBehind /\ (emuMain = "closed" => emuIn.pc = "done")

(* The input thread does nothing once it has ended.                         *)
LEMMA EmuInputHasEnded == EmuInput => emuIn.pc # "done" /\ UNCHANGED emuMain
<1> SUFFICES ASSUME EmuInput PROVE emuIn.pc # "done" /\ UNCHANGED emuMain
  OBVIOUS
<1>1. CASE EmuHandleTunnelAck \/ EmuHandleTunnelRequest \/ EmuHandleDisconnectRequest
           \/ EmuHandleDisconnectResponse \/ EmuHandleSearchRequest \/ EmuHandleConnectRequest
  BY <1>1 DEF EmuHandleTunnelAck, EmuHandleTunnelRequest, EmuHandleDisconnectRequest,
              EmuHandleDisconnectResponse, EmuHandleSearchRequest, EmuHandleConnectRequest,
              EmuReceives
<1>2. CASE EmuCheckConnectionsCleanup \/ EmuInputTurns
  BY <1>2 DEF EmuCheckConnectionsCleanup, EmuInputTurns, EmuInputStep
<1>3. CASE EmuInputLocks \/ EmuInputSends \/ EmuInputReadsAck
  <2>1. emuIn.pc \in {"lock", "scan", "ack"}
    BY <1>3 DEF EmuInputLocks, EmuInputSends, EmuInputReadsAck
  <2>2. UNCHANGED emuMain
    BY <1>3 DEF EmuInputLocks, EmuInputSends, EmuInputReadsAck, EmuInputStep
  <2>3. QED BY <2>1, <2>2
<1>4. QED BY <1>1, <1>2, <1>3 DEF EmuInput

LEMMA EmuSettledStep == EmuSettled /\ [EmuNext]_emuVars => EmuSettled'
<1> SUFFICES ASSUME EmuSettled, [EmuNext]_emuVars, emuMain' = "closed"
             PROVE  emuIn'.pc = "done" /\ \A i \in EmuSlots : emuConn'[i] # "open"
  BY DEF EmuSettled, EmuNobodyLeftBehind
<1>1. CASE EmuInput
  BY <1>1, EmuInputHasEnded DEF EmuSettled
<1>2. CASE EmuOutput \/ EnqueueFrame \/ UNCHANGED emuVars
  <2>1. UNCHANGED <<emuMain, emuIn, emuConn>>
    BY <1>2 DEF EmuOutput, EmuOutputTakes, EmuOutputLocks, EmuOutputSends, EmuOutputGoesOn,
                EmuOutputStep, EnqueueFrame, emuVars
  <2>2. QED BY <2>1 DEF EmuSettled, EmuNobodyLeftBehind
<1>3. CASE DisconnectClients
  BY <1>3 DEF DisconnectClients
<1>4. CASE EmuCloses
  BY <1>4 DEF EmuCloses, EmuMainStep, EmuToldToEnd
<1>5. QED BY <1>1, <1>2, <1>3, <1>4 DEF EmuNext

(* Close of the emulator joins the input thread before it tells the clients *)
(* to end: no client is let in after that and waits for acknowledgements of *)
(* a server that is gone.                                                   *)
THEOREM NobodyIsLeftBehind == EmuSpec => []EmuNobodyLeftBehind
<1>1. EmuInit => EmuSettled
  BY DEF EmuInit, EmuSettled, EmuNobodyLeftBehind
<1>2. EmuSettled /\ [EmuNext]_emuVars => EmuSettled'
  BY EmuSettledStep
<1>3. EmuSettled => EmuNobodyLeftBehind
  BY DEF EmuSettled
<1>4. QED BY <1>1, <1>2, <1>3, PTL DEF EmuSpec

-----------------------------------------------------------------------------
(***************************************************************************)
(* The frames and the messages of KNXnet/IP.  A class that fills a buffer    *)
(* is undone by the one that parses it: one lemma for each.  The invariant  *)
(* KnxInv says what is known of the message under way, by its kind: its      *)
(* bytes are read as what its sender meant.                                 *)
(***************************************************************************)
Bytes == Seq(Int)

(* Words and octets, without their bounds as numbers that count.           *)
LEMMA Numerals ==
  /\ \A w : w \in Word <=> w \in Int /\ 0 <= w /\ w <= 65535
  /\ \A w : w \in Octet <=> w \in Int /\ 0 <= w /\ w <= 255
BY DEF Word, Octet, Below

(* b is made of the parts s and t.                                          *)
Joins(b, s, t) ==
  /\ b = s \o t /\ b \in Bytes /\ Len(b) = Len(s) + Len(t)
  /\ \A i \in 1 .. Len(s) : b[i] = s[i]
  /\ \A i \in 1 .. Len(t) : b[Len(s) + i] = t[i]
  /\ From(b, Len(s) + 1) = t
  /\ \A i, j \in 1 .. Len(s) : SubSeq(b, i, j) = SubSeq(s, i, j)

(* What is put together can be taken apart again.                          *)
LEMMA Joined ==
  ASSUME NEW s \in Bytes, NEW t \in Bytes
  PROVE  Joins(s \o t, s, t)
<1>1. s \o t \in Bytes /\ Len(s \o t) = Len(s) + Len(t)
  BY ConcatProperties DEF Bytes
<1>2. Len(s) \in Nat /\ Len(t) \in Nat
  BY LenProperties DEF Bytes
<1>3. /\ \A i \in 1 .. Len(s) : (s \o t)[i] = s[i]
      /\ \A i \in 1 .. Len(t) : (s \o t)[Len(s) + i] = t[i]
  BY <1>2, ConcatProperties DEF Bytes
<1>4. From(s \o t, Len(s) + 1) = t
  <2> DEFINE u == SubSeq(s \o t, Len(s) + 1, Len(s) + Len(t))
  <2>1. \A i \in Len(s) + 1 .. Len(s) + Len(t) : (s \o t)[i] \in Int
    BY <1>1, <1>2 DEF Bytes
  <2>2. /\ u \in Bytes /\ Len(u) = Len(t)
        /\ \A i \in 1 .. Len(t) : u[i] = (s \o t)[Len(s) + i]
    BY <2>1, <1>2, SubSeqProperties DEF Bytes
  <2>3. u = t
    BY <2>2, <1>3, SeqEqual DEF Bytes
  <2>4. QED BY <2>3, <1>1 DEF From
<1>5. \A i, j \in 1 .. Len(s) : SubSeq(s \o t, i, j) = SubSeq(s, i, j)
  BY SubSeqOfConcat1 DEF Bytes
<1>6. QED BY <1>1, <1>3, <1>4, <1>5 DEF Joins

LEMMA Pair ==
  ASSUME NEW a \in Int, NEW b \in Int
  PROVE  \E t \in Bytes : t = <<a, b>> /\ Len(t) = 2 /\ t[1] = a /\ t[2] = b
<1>1. <<a, b>> \in Bytes /\ Len(<<a, b>>) = 2 /\ <<a, b>>[1] = a /\ <<a, b>>[2] = b
  BY DEF Bytes
<1>2. QED BY <1>1, Zenon

(* A word turned twice is the word, and its bytes in memory are in the     *)
(* order of the wire.                                                      *)
LEMMA WordsTurned ==
  ASSUME NEW w \in Word
  PROVE  /\ Htons(w) \in Word /\ Htons(Htons(w)) = w
         /\ Memory(w) = <<w % 256, w \div 256>>
         /\ Memory(Htons(w)) = <<w \div 256, w % 256>>
         /\ w \div 256 \in Octet /\ w % 256 \in Octet
         /\ w = 256 * (w \div 256) + (w % 256)
<1>1. w \in Int /\ 0 <= w /\ w <= 65535
  BY Numerals
<1>2. PICK high \in Int, low \in Int : w \div 256 = high /\ w % 256 = low
  BY <1>1
<1>3. w = 256 * high + low /\ 0 <= low /\ low <= 255 /\ 0 <= high /\ high <= 255
  BY <1>1, <1>2
<1>4. Htons(w) = low * 256 + high
  <2>1. Htons(w) = (w % 256) * 256 + (w \div 256)
    BY DEF Htons
  <2>2. QED BY <2>1, <1>2
<1>5. PICK turned \in Int : turned = low * 256 + high
  BY <1>3
<1>6. turned \div 256 = low /\ turned % 256 = high
  BY <1>3, <1>5
<1>7. Htons(w) = turned /\ turned \in Word /\ Htons(turned) = w
  <2>1. Htons(turned) = (turned % 256) * 256 + (turned \div 256)
    BY DEF Htons
  <2>2. Htons(turned) = high * 256 + low
    BY <2>1, <1>6
  <2>3. Htons(w) = turned
    BY <1>4, <1>5
  <2>4. turned \in Word
    <3>1. 0 <= turned /\ turned <= 65535
      BY <1>3, <1>5
    <3>2. QED BY <3>1, Numerals
  <2>5. Htons(turned) = w
    BY <2>2, <1>3
  <2>6. QED BY <2>3, <2>4, <2>5
<1>8. Memory(turned) = <<high, low>> /\ Memory(w) = <<low, high>>
  BY <1>6, <1>2 DEF Memory
<1>9. QED BY <1>2, <1>3, <1>7, <1>8, Numerals

LEMMA MemoryTyped ==
  ASSUME NEW w \in Int
  PROVE  /\ Memory(w) \in Bytes /\ Len(Memory(w)) = 2
         /\ Memory(Htons(w)) \in Bytes /\ Len(Memory(Htons(w))) = 2
<1>1. ASSUME NEW x \in Int PROVE Memory(x) \in Bytes /\ Len(Memory(x)) = 2
  BY DEF Memory, Bytes
<1>2. Htons(w) \in Int
  BY DEF Htons
<1>3. QED BY <1>1, <1>2

(* A word is read where its low byte comes first.                          *)
LEMMA WordIsRead ==
  ASSUME NEW w \in Word, NEW b \in Bytes, NEW i \in Int, b[i] = w % 256, b[i + 1] = w \div 256
  PROVE  WordAt(b, i) = w
<1>1. PICK high \in Int, low \in Int : high = w \div 256 /\ low = w % 256
  BY Numerals
<1>2. w = 256 * high + low
  BY <1>1, WordsTurned
<1>3. WordAt(b, i) = low + 256 * high
  BY <1>1, Zenon DEF WordAt
<1>4. QED BY <1>1, <1>2, <1>3
(* Two bytes that hold a word as it is on the wire.                         *)
Holds(t, w) ==
  /\ t \in Bytes /\ Len(t) = 2 /\ t[1] \in Int /\ t[2] \in Int
  /\ Htons(t[1] + 256 * t[2]) = w /\ 256 * t[1] + t[2] = w

(* A word that the writer turned, and the reader turns again.               *)
LEMMA WordRead ==
  ASSUME NEW w \in Word
  PROVE  /\ Holds(Memory(Htons(w)), w)
         /\ Memory(Htons(w))[1] = w \div 256 /\ Memory(Htons(w))[2] = w % 256
<1>1. /\ Htons(w) \in Word /\ Htons(Htons(w)) = w /\ Memory(Htons(w)) = <<w \div 256, w % 256>>
      /\ w \div 256 \in Octet /\ w % 256 \in Octet /\ w = 256 * (w \div 256) + (w % 256)
  BY WordsTurned
<1>2. PICK high \in Int, low \in Int : w \div 256 = high /\ w % 256 = low
  <2>1. w \div 256 \in Int /\ w % 256 \in Int
    BY <1>1, Numerals
  <2>2. QED BY <2>1, Zenon
<1>3. PICK t \in Bytes : t = <<high, low>> /\ Len(t) = 2 /\ t[1] = high /\ t[2] = low
  BY Pair
<1>4. w = 256 * high + low
  BY <1>1, <1>2
<1>5. Htons(w) = high + 256 * low
  <2>1. Htons(w) = (w % 256) * 256 + (w \div 256)
    BY DEF Htons
  <2>2. QED BY <2>1, <1>2
<1>6. t = Memory(Htons(w))
  BY <1>1, <1>2, <1>3, Zenon
<1>7. t[1] + 256 * t[2] = Htons(w) /\ 256 * t[1] + t[2] = w
  BY <1>3, <1>4, <1>5
<1>8. Htons(t[1] + 256 * t[2]) = w
  BY <1>7, <1>1
<1>9. Len(t) = 2 /\ t[1] \in Int /\ t[2] \in Int
  BY <1>3
<1>10. Holds(t, w) /\ t[1] = w \div 256 /\ t[2] = w % 256
  BY <1>2, <1>3, <1>7, <1>8, <1>9, Zenon DEF Holds
<1>11. QED BY <1>6, <1>10, Zenon

LEMMA JoinAgain ==
  ASSUME NEW s \in Bytes, NEW t \in Bytes, NEW u \in Bytes
  PROVE  (s \o t) \o u = s \o (t \o u)
BY ConcatAssociative DEF Bytes

LEMMA NothingJoined ==
  ASSUME NEW s \in Bytes
  PROVE  s \o <<>> = s
BY ConcatEmptySeq, EmptySeq DEF Bytes

-----------------------------------------------------------------------------
(* The header: six bytes and the body.                                      *)

(* No two services have the same number.                                   *)
LEMMA ServicesDiffer ==
  /\ \A kind \in DOMAIN Services : Services[kind] \in Word
  /\ \A kind, other \in DOMAIN Services : Services[kind] = Services[other] => kind = other
<1>1. DOMAIN Services =
        {"search_request", "search_response", "description_request", "connect_request",
         "connect_response", "state_request", "state_response", "disconnect_request",
         "disconnect_response", "tunnelling_request", "tunnelling_ack", "routing_indication"}
  BY DEF Services
<1>2. /\ Services["search_request"] = 513 /\ Services["search_response"] = 514
      /\ Services["description_request"] = 515 /\ Services["connect_request"] = 517
      /\ Services["connect_response"] = 518 /\ Services["state_request"] = 519
      /\ Services["state_response"] = 520 /\ Services["disconnect_request"] = 521
      /\ Services["disconnect_response"] = 522 /\ Services["tunnelling_request"] = 1056
      /\ Services["tunnelling_ack"] = 1057 /\ Services["routing_indication"] = 1328
  BY DEF Services
<1>3. \A kind \in DOMAIN Services : Services[kind] \in Word
  <2>1. PICK s : s = Services
    OBVIOUS
  <2>2. \A kind \in DOMAIN s :
          s[kind] \in {513, 514, 515, 517, 518, 519, 520, 521, 522, 1056, 1057, 1328}
    BY <1>1, <1>2, <2>1
  <2>3. \A n \in {513, 514, 515, 517, 518, 519, 520, 521, 522, 1056, 1057, 1328} : n \in Word
    BY Numerals
  <2>4. \A kind \in DOMAIN s : s[kind] \in Word
    BY <2>2, <2>3
  <2>5. QED BY <2>1, <2>4, Zenon
<1>4. \A kind, other \in DOMAIN Services : Services[kind] = Services[other] => kind = other
  <2>1. PICK s : s = Services
    OBVIOUS
  <2>2. QED BY <1>1, <1>2, <2>1
<1>5. QED BY <1>3, <1>4

(* A message is read by the class of its service, from its body.            *)
LEMMA MessageRead ==
  ASSUME NEW kind \in DOMAIN Services, NEW body \in Bytes, 6 + Len(body) \in Word
  PROVE  LET b == Header(kind, Len(body)) \o body
         IN Read(b, FALSE) = MessageOf(kind, body) /\ Read(b, TRUE) = MonitorOf(body)
<1>1. Services[kind] \in Word
  BY ServicesDiffer
<1>2. PICK t \in Bytes : /\ t = Memory(Htons(Services[kind])) /\ Len(t) = 2
                         /\ Htons(t[1] + 256 * t[2]) = Services[kind]
  <2>1. Holds(Memory(Htons(Services[kind])), Services[kind])
    BY <1>1, WordRead
  <2>2. QED BY <2>1, Zenon DEF Holds
<1>3. PICK u \in Bytes : u = Memory(Htons(6 + Len(body))) /\ Len(u) = 2
  <2>1. Holds(Memory(Htons(6 + Len(body))), 6 + Len(body))
    BY WordRead
  <2>2. QED BY <2>1, Zenon DEF Holds
<1>4. PICK h \in Bytes : h = <<6, 16>> /\ Len(h) = 2 /\ h[1] = 6 /\ h[2] = 16
  BY Pair
<1>5. PICK b, c, d : b = c \o body /\ c = d \o u /\ d = h \o t
  OBVIOUS
<1>6. b = Header(kind, Len(body)) \o body
  BY <1>2, <1>3, <1>4, <1>5, Zenon DEF Header
<1>7. Len(h) = 2 /\ h[1] = 6 /\ h[2] = 16
  BY <1>4
<1>8. Joins(d, h, t)
  BY <1>5, Joined
<1>9. d \in Bytes /\ Len(d) = 4 /\ d[1] = 6 /\ d[2] = 16 /\ d[3] = t[1] /\ d[4] = t[2]
  BY <1>7, <1>8, <1>2 DEF Joins
<1>10. Joins(c, d, u)
  BY <1>5, <1>9, Joined
<1>11. c \in Bytes /\ Len(c) = 6 /\ c[1] = 6 /\ c[2] = 16 /\ c[3] = t[1] /\ c[4] = t[2]
  BY <1>9, <1>10, <1>3 DEF Joins
<1>12. Joins(b, c, body)
  BY <1>5, <1>11, Joined
<1>13. /\ b \in Bytes /\ Len(b) = 6 + Len(body) /\ From(b, 7) = body
       /\ b[1] = 6 /\ b[2] = 16 /\ b[3] = t[1] /\ b[4] = t[2]
  BY <1>11, <1>12 DEF Joins
<1>14. HeaderParses(b)
  BY <1>13 DEF HeaderParses
<1>15. ServiceOf(b) = kind
  <2>1. Htons(WordAt(b, 3)) = Services[kind]
    BY <1>2, <1>13 DEF WordAt
  <2>2. \A k \in DOMAIN Services : Services[k] = Htons(WordAt(b, 3)) => k = kind
    BY <2>1, ServicesDiffer
  <2>3. QED BY <2>1, <2>2, Zenon DEF ServiceOf
<1>16. From(Dispatched(b), 7) = body
  <2>1. \A i \in 1 .. 6 : b[i] \in Int
    <3>1. Len(body) \in Nat
      BY LenProperties DEF Bytes
    <3>2. QED BY <1>13, <3>1, ElementOfSeq DEF Bytes
  <2>2. WordAt(b, 3) \in Int /\ WordAt(b, 5) \in Int
    <3>1. b[3] \in Int /\ b[4] \in Int /\ b[5] \in Int /\ b[6] \in Int
      BY <2>1
    <3>2. b[3] + 256 * b[4] \in Int /\ b[5] + 256 * b[6] \in Int
      <4>1. \A p, q \in Int : p + 256 * q \in Int
        OBVIOUS
      <4>2. QED BY <3>1, <4>1, Zenon
    <3>3. WordAt(b, 3) = b[3] + 256 * b[4] /\ WordAt(b, 5) = b[5] + 256 * b[6]
      BY DEF WordAt
    <3>4. QED BY <3>2, <3>3
  <2>3. PICK v \in Bytes : v = Memory(Htons(WordAt(b, 3))) /\ Len(v) = 2
    BY <2>2, MemoryTyped, Zenon
  <2>4. PICK x \in Bytes : x = Memory(Htons(WordAt(b, 5))) /\ Len(x) = 2
    BY <2>2, MemoryTyped, Zenon
  <2>5. PICK w \in Bytes : w = SubSeq(b, 1, 2) /\ Len(w) = 2
    <3>1. SubSeq(b, 1, 2) \in Bytes /\ Len(SubSeq(b, 1, 2)) = 2
      BY <2>1, SubSeqProperties DEF Bytes
    <3>2. QED BY <3>1, Zenon
  <2>x. Len(v) = 2 /\ Len(x) = 2 /\ Len(w) = 2
    BY <2>3, <2>4, <2>5, Zenon
  <2>6. PICK e, f, g : e = f \o body /\ f = g \o x /\ g = w \o v
    OBVIOUS
  <2>7. e = Dispatched(b)
    BY <2>3, <2>4, <2>5, <2>6, <1>13, Zenon DEF Dispatched
  <2>8. Joins(g, w, v)
    BY <2>6, Joined
  <2>9. g \in Bytes /\ Len(g) = 4
    BY <2>8, <2>x DEF Joins
  <2>10. Joins(f, g, x)
    BY <2>6, <2>9, Joined
  <2>11. f \in Bytes /\ Len(f) = 6
    BY <2>10, <2>9, <2>x DEF Joins
  <2>12. Joins(e, f, body)
    BY <2>6, <2>11, Joined
  <2>13. QED BY <2>7, <2>11, <2>12 DEF Joins
<1>17. QED BY <1>6, <1>14, <1>15, <1>16, Zenon DEF Read

-----------------------------------------------------------------------------
(* Frames.                                                                  *)

Values == {v \in Bytes : Len(v) < 256}
Frames ==
  [mc : Int, addil : {0}, ctrl1 : Int, ctrl2 : Int, saddr : Word, daddr : Word,
   tpci : Int, value : Values]

(* Where the fields of a frame are.                                        *)
LEMMA FrameFields ==
  ASSUME NEW f \in Frames
  PROVE  /\ f.mc \in Int /\ f.addil = 0 /\ f.ctrl1 \in Int /\ f.ctrl2 \in Int
         /\ f.saddr \in Word /\ f.daddr \in Word /\ f.tpci \in Int
         /\ f.value \in Bytes /\ Len(f.value) \in Nat /\ Len(f.value) < 256
         /\ f = [mc |-> f.mc, addil |-> f.addil, ctrl1 |-> f.ctrl1, ctrl2 |-> f.ctrl2,
                 saddr |-> f.saddr, daddr |-> f.daddr, tpci |-> f.tpci, value |-> f.value]
<1>1. /\ f.mc \in Int /\ f.addil = 0 /\ f.ctrl1 \in Int /\ f.ctrl2 \in Int
      /\ f.saddr \in Word /\ f.daddr \in Word /\ f.tpci \in Int /\ f.value \in Values
  BY DEF Frames
<1>2. f.value \in Bytes /\ Len(f.value) \in Nat /\ Len(f.value) < 256
  BY <1>1, LenProperties DEF Values, Bytes
<1>3. f = [mc |-> f.mc, addil |-> f.addil, ctrl1 |-> f.ctrl1, ctrl2 |-> f.ctrl2,
           saddr |-> f.saddr, daddr |-> f.daddr, tpci |-> f.tpci, value |-> f.value]
  BY DEF Frames
<1>4. QED BY <1>1, <1>2, <1>3

(* What is written of a frame is read as that frame.                        *)
LEMMA FrameRead ==
  ASSUME NEW f \in Frames
  PROVE  /\ FrameBytes(f) \in Bytes /\ Len(FrameBytes(f)) = 10 + Len(f.value)
         /\ FrameParses(FrameBytes(f)) /\ FrameOf(FrameBytes(f)) = f
<1>1. PICK h \in Bytes : /\ h = <<f.mc, f.addil, f.ctrl1, f.ctrl2>> /\ Len(h) = 4
                         /\ h[1] = f.mc /\ h[2] = f.addil /\ h[3] = f.ctrl1 /\ h[4] = f.ctrl2
  <2>1. f.mc \in Int /\ f.addil \in Int /\ f.ctrl1 \in Int /\ f.ctrl2 \in Int
    BY FrameFields
  <2>2. PICK i \in Int, j \in Int, k \in Int, l \in Int :
          i = f.mc /\ j = f.addil /\ k = f.ctrl1 /\ l = f.ctrl2
    BY <2>1, Zenon
  <2>3. PICK h : h = <<i, j, k, l>>
    OBVIOUS
  <2>4. h \in Bytes /\ Len(h) = 4 /\ h[1] = i /\ h[2] = j /\ h[3] = k /\ h[4] = l
    BY <2>3 DEF Bytes
  <2>5. QED BY <2>2, <2>3, <2>4, Zenon
<1>2. PICK t \in Bytes : t = Memory(Htons(f.saddr)) /\ Holds(t, f.saddr)
  <2>1. Holds(Memory(Htons(f.saddr)), f.saddr)
    BY FrameFields, WordRead
  <2>2. QED BY <2>1, Zenon DEF Holds
<1>3. PICK u \in Bytes : u = Memory(Htons(f.daddr)) /\ Holds(u, f.daddr)
  <2>1. Holds(Memory(Htons(f.daddr)), f.daddr)
    BY FrameFields, WordRead
  <2>2. QED BY <2>1, Zenon DEF Holds
<1>4. PICK v \in Bytes : /\ v = <<Len(f.value), f.tpci>> /\ Len(v) = 2
                         /\ v[1] = Len(f.value) /\ v[2] = f.tpci
  <2>1. Len(f.value) \in Int /\ f.tpci \in Int
    BY FrameFields
  <2>2. PICK i \in Int, j \in Int : i = Len(f.value) /\ j = f.tpci
    BY <2>1, Zenon
  <2>3. PICK v \in Bytes : v = <<i, j>> /\ Len(v) = 2 /\ v[1] = i /\ v[2] = j
    BY Pair
  <2>4. QED BY <2>2, <2>3, Zenon
<1>5. PICK b, c, d, e : b = c \o f.value /\ c = d \o v /\ d = e \o u /\ e = h \o t
  BY ONLY Zenon
<1>6. b = FrameBytes(f)
  BY <1>1, <1>2, <1>3, <1>4, <1>5, Zenon DEF FrameBytes
<1>7. /\ Len(h) = 4 /\ h[1] = f.mc /\ h[2] = f.addil /\ h[3] = f.ctrl1 /\ h[4] = f.ctrl2
      /\ Len(v) = 2 /\ v[1] = Len(f.value) /\ v[2] = f.tpci /\ Len(t) = 2 /\ Len(u) = 2
      /\ f.value \in Bytes /\ Len(f.value) \in Nat
  BY <1>1, <1>2, <1>3, <1>4, FrameFields, Zenon DEF Holds
<1>8. Joins(e, h, t)
  BY <1>5, Joined
<1>9. /\ e \in Bytes /\ Len(e) = 6 /\ e[1] = f.mc /\ e[2] = f.addil /\ e[3] = f.ctrl1
      /\ e[4] = f.ctrl2 /\ e[5] = t[1] /\ e[6] = t[2]
  BY <1>7, <1>8 DEF Joins
<1>10. Joins(d, e, u)
  BY <1>5, <1>9, Joined
<1>11. /\ d \in Bytes /\ Len(d) = 8 /\ d[1] = f.mc /\ d[2] = f.addil /\ d[3] = f.ctrl1
       /\ d[4] = f.ctrl2 /\ d[5] = t[1] /\ d[6] = t[2] /\ d[7] = u[1] /\ d[8] = u[2]
  BY <1>7, <1>9, <1>10 DEF Joins
<1>12. Joins(c, d, v)
  BY <1>5, <1>11, Joined
<1>13. /\ c \in Bytes /\ Len(c) = 10 /\ c[1] = f.mc /\ c[2] = f.addil /\ c[3] = f.ctrl1
       /\ c[4] = f.ctrl2 /\ c[5] = t[1] /\ c[6] = t[2] /\ c[7] = u[1] /\ c[8] = u[2]
       /\ c[9] = Len(f.value) /\ c[10] = f.tpci
  <2>1. Len(v) = 2
    BY <1>7
  <2>2. c \in Bytes /\ Len(c) = 10 /\ \A i \in 1 .. 8 : c[i] = d[i]
    BY <2>1, <1>11, <1>12 DEF Joins
  <2>3. c[8 + 1] = v[1] /\ c[8 + 2] = v[2]
    BY <2>1, <1>11, <1>12 DEF Joins
  <2>4. c[9] = v[1] /\ c[10] = v[2]
    BY <2>3
  <2>5. QED BY <2>2, <2>4, <1>7, <1>11
<1>14. Joins(b, c, f.value)
  BY <1>5, <1>7, <1>13, Joined
<1>15. /\ b \in Bytes /\ Len(b) = 10 + Len(f.value) /\ b[1] = f.mc /\ b[2] = f.addil
       /\ b[3] = f.ctrl1 /\ b[4] = f.ctrl2 /\ b[5] = t[1] /\ b[6] = t[2] /\ b[7] = u[1]
       /\ b[8] = u[2] /\ b[9] = Len(f.value) /\ b[10] = f.tpci /\ From(b, 11) = f.value
  <2>1. /\ b \in Bytes /\ Len(b) = 10 + Len(f.value) /\ From(b, 11) = f.value
        /\ \A i \in 1 .. 10 : b[i] = c[i]
    <3>1. Len(c) = 10 /\ 10 + 1 = 11
      BY <1>13
    <3>2. /\ b \in Bytes /\ Len(b) = Len(c) + Len(f.value) /\ From(b, Len(c) + 1) = f.value
          /\ \A i \in 1 .. Len(c) : b[i] = c[i]
      BY ONLY <1>14, Zenon DEF Joins
    <3>3. QED BY ONLY <3>1, <3>2, Zenon
  <2>2. /\ b[1] = c[1] /\ b[2] = c[2] /\ b[3] = c[3] /\ b[4] = c[4] /\ b[5] = c[5]
        /\ b[6] = c[6] /\ b[7] = c[7] /\ b[8] = c[8] /\ b[9] = c[9] /\ b[10] = c[10]
    <3>1. \A i \in 1 .. 10 : b[i] = c[i]
      BY ONLY <2>1, Zenon
    <3>2. QED BY ONLY <3>1
  <2>3. QED BY ONLY <2>1, <2>2, <1>13, Zenon
<1>16. Htons(WordAt(b, 5)) = f.saddr /\ Htons(WordAt(b, 7)) = f.daddr
  <2>1. WordAt(b, 5) = t[1] + 256 * t[2] /\ WordAt(b, 7) = u[1] + 256 * u[2]
    BY <1>15 DEF WordAt
  <2>2. QED BY <2>1, <1>2, <1>3, Zenon DEF Holds
<1>17. SubSeq(b, 11, 10 + b[9]) = f.value
  <2>1. b[9] = Len(f.value) /\ Len(b) = 10 + Len(f.value) /\ From(b, 11) = f.value
    BY ONLY <1>15, Zenon
  <2>2. 10 + b[9] = Len(b)
    BY ONLY <2>1, Zenon
  <2>3. QED BY ONLY <2>1, <2>2, Zenon DEF From
<1>18. FrameOf(b) = f
  BY <1>15, <1>16, <1>17, FrameFields, Zenon DEF FrameOf
<1>19. FrameParses(b)
  BY <1>15, FrameFields DEF FrameParses
<1>20. QED BY <1>6, <1>15, <1>18, <1>19, Zenon

-----------------------------------------------------------------------------
(* Addresses of sockets.                                                    *)

Endpoints == [ip : {ip \in Bytes : Len(ip) = 4}, port : Word]

(* The bytes of a socket's address, and what is read from them.            *)
LEMMA HpaiFilled ==
  ASSUME NEW e \in Endpoints
  PROVE  /\ HpaiBytes(e) \in Bytes /\ Len(HpaiBytes(e)) = 8
         /\ HpaiParses(HpaiBytes(e)) /\ HpaiOf(HpaiBytes(e)) = e
<1>1. e.ip \in Bytes /\ Len(e.ip) = 4 /\ e.port \in Word /\ e = [ip |-> e.ip, port |-> e.port]
  BY DEF Endpoints
<1>2. PICK p \in Bytes : p = <<8, 1>> /\ Len(p) = 2 /\ p[1] = 8 /\ p[2] = 1
  BY Pair
<1>3. PICK t \in Bytes : /\ t = Memory(Htons(e.port)) /\ Len(t) = 2 /\ t[1] \in Int /\ t[2] \in Int
                         /\ 256 * t[1] + t[2] = e.port
  <2>1. Holds(Memory(Htons(e.port)), e.port)
    BY <1>1, WordRead
  <2>2. PICK t \in Bytes : t = Memory(Htons(e.port)) /\ Holds(t, e.port)
    BY ONLY <2>1, Zenon DEF Holds
  <2>3. Len(t) = 2 /\ t[1] \in Int /\ t[2] \in Int /\ 256 * t[1] + t[2] = e.port
    BY ONLY <2>2 DEF Holds
  <2>4. QED BY ONLY <2>2, <2>3, Zenon
<1>4. PICK b, c : b = c \o t /\ c = p \o e.ip
  BY ONLY Zenon
<1>5. b = HpaiBytes(e)
  BY <1>2, <1>3, <1>4, Zenon DEF HpaiBytes
<1>6. Len(p) = 2 /\ p[1] = 8 /\ p[2] = 1 /\ Len(t) = 2
  BY <1>2, <1>3, Zenon
<1>7. Joins(c, p, e.ip)
  BY <1>1, <1>4, Joined
<1>8. c \in Bytes /\ Len(c) = 6 /\ c[1] = 8 /\ c[2] = 1 /\ From(c, 3) = e.ip
  BY <1>1, <1>6, <1>7 DEF Joins
<1>9. Joins(b, c, t)
  BY <1>4, <1>8, Joined
<1>10. /\ b \in Bytes /\ Len(b) = 8 /\ b[1] = 8 /\ b[2] = 1 /\ b[7] = t[1] /\ b[8] = t[2]
       /\ SubSeq(b, 3, 6) = SubSeq(c, 3, 6)
  BY <1>6, <1>8, <1>9 DEF Joins
<1>11. SubSeq(c, 3, 6) = e.ip
  BY <1>8, Zenon DEF From
<1>12. b[7] * 256 + b[8] = e.port
  <2>1. b[7] * 256 + b[8] = t[1] * 256 + t[2]
    BY <1>10
  <2>2. t[1] \in Int /\ t[2] \in Int
    BY <1>3
  <2>3. QED BY <2>1, <2>2, <1>3
<1>13. HpaiOf(b) = e
  BY <1>1, <1>10, <1>11, <1>12, Zenon DEF HpaiOf
<1>14. HpaiParses(b)
  BY <1>10 DEF HpaiParses
<1>15. QED BY <1>5, <1>10, <1>13, <1>14

(* An address with something behind it.                                     *)
LEMMA HpaiRead ==
  ASSUME NEW e \in Endpoints, NEW rest \in Bytes
  PROVE  /\ HpaiBytes(e) \o rest \in Bytes /\ Len(HpaiBytes(e) \o rest) = 8 + Len(rest)
         /\ HpaiParses(HpaiBytes(e) \o rest) /\ HpaiOf(HpaiBytes(e) \o rest) = e
         /\ From(HpaiBytes(e) \o rest, 9) = rest
<1>1. PICK h \in Bytes : /\ h = HpaiBytes(e) /\ Len(h) = 8 /\ HpaiParses(h) /\ HpaiOf(h) = e
  BY HpaiFilled
<1>2. PICK b : b = h \o rest
  BY ONLY Zenon
<1>3. Joins(b, h, rest)
  BY <1>2, Joined
<1>4. /\ b \in Bytes /\ Len(b) = 8 + Len(rest) /\ From(b, 9) = rest
      /\ \A i \in 1 .. 8 : b[i] = h[i]
      /\ SubSeq(b, 3, 6) = SubSeq(h, 3, 6)
  BY <1>1, <1>3 DEF Joins
<1>5. b[1] = h[1] /\ b[2] = h[2] /\ b[7] = h[7] /\ b[8] = h[8]
  BY <1>4
<1>6. HpaiParses(b)
  BY <1>1, <1>5, Zenon DEF HpaiParses
<1>7. HpaiOf(b) = HpaiOf(h)
  BY <1>4, <1>5, Zenon DEF HpaiOf
<1>8. QED BY <1>1, <1>2, <1>4, <1>6, <1>7, Zenon

-----------------------------------------------------------------------------
(* The messages, one by one.                                                *)

(* A message of the kind is read as what can be known of it.                *)
Understood(m) ==
  /\ Body(m) \in Bytes /\ Len(Body(m)) < 1000
  /\ m.kind \in DOMAIN Services /\ MessageOf(m.kind, Body(m)) = Kept(m)

(* What the parser of its kind understands, Read returns.                  *)
LEMMA UnderstoodIsRead ==
  ASSUME NEW m, Understood(m), m.kind # "monitor_indication"
  PROVE  Read(Filled(m), FALSE) = Kept(m)
<1>1. /\ Body(m) \in Bytes /\ Len(Body(m)) < 1000
      /\ m.kind \in DOMAIN Services /\ MessageOf(m.kind, Body(m)) = Kept(m)
  BY DEF Understood
<1>2. 6 + Len(Body(m)) \in Word
  <2>1. Len(Body(m)) \in Nat
    BY <1>1, LenProperties DEF Bytes
  <2>2. QED BY <2>1, <1>1, Numerals
<1>3. Filled(m) = Header(m.kind, Len(Body(m))) \o Body(m)
  BY DEF Filled
<1>4. QED BY <1>1, <1>2, <1>3, MessageRead, Zenon

LEMMA Understand ==
  ASSUME NEW m, NEW b \in Bytes, Body(m) = b, Len(b) < 1000, m.kind \in DOMAIN Services,
         MessageOf(m.kind, b) = Kept(m)
  PROVE  Understood(m)
BY Zenon DEF Understood

(* Each kind of message in turn: its parser undoes its FillBuffer.         *)
LEMMA RequestUnderstood ==
  ASSUME NEW kind \in {"search_request", "description_request"}, NEW e \in Endpoints
  PROVE  Understood([kind |-> kind, at |-> e])
<1>1. PICK m : m = [kind |-> kind, at |-> e]
  OBVIOUS
<1>2. m.kind = kind /\ m.at = e
  BY <1>1
<1>3. PICK b \in Bytes : b = HpaiBytes(e) /\ Len(b) = 8 /\ HpaiParses(b) /\ HpaiOf(b) = e
  BY HpaiFilled
<1>4. Body(m) = b
  BY <1>2, <1>3 DEF Body, SearchRequestBytes, DescriptionRequestBytes
<1>5. kind \in DOMAIN Services
  BY DEF Services
<1>6. Kept(m) = m
  BY <1>2 DEF Kept
<1>7. MessageOf(kind, b) = m
  BY <1>1, <1>3 DEF MessageOf, SearchRequestOf, DescriptionRequestOf
<1>8. Understood(m)
  <2>1. Len(b) < 1000
    BY <1>3
  <2>2. QED BY <1>2, <1>4, <1>5, <1>6, <1>7, <2>1, Understand, Zenon
<1>9. QED BY <1>1, <1>8

LEMMA ConnectRequestUnderstood ==
  ASSUME NEW e \in Endpoints, NEW option \in Int
  PROVE  Understood([kind |-> "connect_request", at |-> e, option |-> option])
<1>1. PICK m : m = [kind |-> "connect_request", at |-> e, option |-> option]
  OBVIOUS
<1>2. m.kind = "connect_request" /\ m.at = e /\ m.option = option
  BY <1>1
<1>3. PICK h \in Bytes : h = HpaiBytes(e) /\ Len(h) = 8
  BY HpaiFilled
<1>4. PICK o \in Bytes : o = <<option, 0>> /\ Len(o) = 2
  BY Pair
<1>5. PICK q \in Bytes : q = <<4, 4>> /\ Len(q) = 2 /\ q[1] = 4
  BY Pair
<1>6. PICK c, b, d, g : c = q \o o /\ b = g \o c /\ g = h \o h /\ d = h \o c
  OBVIOUS
<1>7. Joins(c, q, o)
  BY <1>6, Joined
<1>8. Len(h) = 8 /\ Len(q) = 2 /\ q[1] = 4 /\ Len(o) = 2
  BY <1>3, <1>4, <1>5, Zenon
<1>9. c \in Bytes /\ Len(c) = 4 /\ c[1] = 4
  BY <1>7, <1>8 DEF Joins
<1>10. Joins(g, h, h)
  BY <1>6, Joined
<1>11. g \in Bytes /\ Len(g) = 16
  BY <1>8, <1>10 DEF Joins
<1>12. Joins(b, g, c)
  BY <1>6, <1>9, <1>11, Joined
<1>13. b \in Bytes /\ Len(b) = 20 /\ From(b, 17) = c
  <2>1. Len(g) = 16 /\ Len(c) = 4
    BY <1>9, <1>11
  <2>2. b \in Bytes /\ Len(b) = 20
    <3>1. b \in Bytes /\ Len(b) = Len(g) + Len(c)
      BY <1>12, Zenon DEF Joins
    <3>2. QED BY <2>1, <3>1
  <2>3. From(b, Len(g) + 1) = c
    BY <1>12 DEF Joins
  <2>4. QED BY <2>1, <2>2, <2>3
<1>14. d \in Bytes /\ b = h \o d
  <2>1. Joins(d, h, c)
    BY <1>6, <1>9, Joined
  <2>2. d \in Bytes
    BY <2>1 DEF Joins
  <2>3. (h \o h) \o c = h \o (h \o c)
    BY <1>9, JoinAgain
  <2>4. QED BY <1>6, <2>2, <2>3, Zenon
<1>15. HpaiParses(b) /\ HpaiOf(b) = e /\ From(b, 9) = d /\ HpaiParses(d)
  BY <1>3, <1>6, <1>9, <1>14, HpaiRead, Zenon
<1>16. CriParses(From(b, 17))
  BY <1>9, <1>13 DEF CriParses
<1>17. Body(m) = b
  <2>1. Body(m) = ConnectRequestBytes(m)
    BY <1>2 DEF Body
  <2>2. ConnectRequestBytes(m) = (HpaiBytes(e) \o HpaiBytes(e)) \o (<<4, 4>> \o <<option, 0>>)
    BY <1>2, Zenon DEF ConnectRequestBytes, CriBytes
  <2>3. QED BY <2>1, <2>2, <1>3, <1>4, <1>5, <1>6, Zenon
<1>18. Kept(m) = [kind |-> "connect_request", at |-> e]
  BY <1>2 DEF Kept
<1>19. MessageOf("connect_request", b) = [kind |-> "connect_request", at |-> e]
  <2>1. MessageOf("connect_request", b) = ConnectRequestOf(b)
    BY DEF MessageOf
  <2>2. QED BY <2>1, <1>15, <1>16, Zenon DEF ConnectRequestOf
<1>20. Understood(m)
  <2>1. Len(b) < 1000 /\ "connect_request" \in DOMAIN Services
    BY <1>13 DEF Services
  <2>2. QED BY <1>2, <1>13, <1>17, <1>18, <1>19, <2>1, Understand, Zenon
<1>21. QED BY <1>1, <1>20

LEMMA ConnectResponseUnderstood ==
  ASSUME NEW e \in Endpoints, NEW channel \in Int
  PROVE  Understood([kind |-> "connect_response", channel |-> channel, at |-> e])
<1>1. PICK m : m = [kind |-> "connect_response", channel |-> channel, at |-> e]
  OBVIOUS
<1>2. m.kind = "connect_response" /\ m.at = e /\ m.channel = channel
  BY <1>1
<1>3. PICK h \in Bytes : h = HpaiBytes(e) /\ Len(h) = 8
  BY HpaiFilled
<1>4. PICK o \in Bytes : o = <<2, 0>> /\ Len(o) = 2
  BY Pair
<1>5. PICK q \in Bytes : q = <<4, 4>> /\ Len(q) = 2 /\ q[1] = 4
  BY Pair
<1>6. PICK p \in Bytes : p = <<channel, 0>> /\ Len(p) = 2 /\ p[1] = channel /\ p[2] = 0
  BY Pair
<1>7. PICK c, b, d, g : c = q \o o /\ b = g \o c /\ g = p \o h /\ d = h \o c
  OBVIOUS
<1>8. /\ Len(h) = 8 /\ Len(q) = 2 /\ q[1] = 4 /\ Len(o) = 2
      /\ Len(p) = 2 /\ p[1] = channel /\ p[2] = 0
  BY <1>3, <1>4, <1>5, <1>6, Zenon
<1>9. Joins(c, q, o)
  BY <1>7, Joined
<1>10. c \in Bytes /\ Len(c) = 4 /\ c[1] = 4
  BY <1>9, <1>8 DEF Joins
<1>11. Joins(g, p, h)
  BY <1>7, Joined
<1>12. g \in Bytes /\ Len(g) = 10 /\ g[1] = channel /\ g[2] = 0
  BY <1>8, <1>11 DEF Joins
<1>13. Joins(b, g, c)
  BY <1>7, <1>10, <1>12, Joined
<1>14. b \in Bytes /\ Len(b) = 14 /\ From(b, 11) = c /\ b[1] = channel /\ b[2] = 0
  BY <1>10, <1>12, <1>13 DEF Joins
<1>15. d \in Bytes /\ b = p \o d
  <2>1. Joins(d, h, c)
    BY <1>7, <1>10, Joined
  <2>2. d \in Bytes
    BY <2>1 DEF Joins
  <2>3. (p \o h) \o c = p \o (h \o c)
    BY <1>10, JoinAgain
  <2>4. QED BY <1>7, <2>2, <2>3, Zenon
<1>16. From(b, 3) = d
  <2>1. Joins(b, p, d)
    BY <1>15, Joined
  <2>2. QED BY <1>8, <2>1 DEF Joins
<1>17. HpaiParses(d) /\ HpaiOf(d) = e
  BY <1>3, <1>7, <1>10, HpaiRead, Zenon
<1>18. CriParses(From(b, 11))
  BY <1>10, <1>14 DEF CriParses
<1>19. Body(m) = b
  <2>1. Body(m) = ConnectResponseBytes(m)
    BY <1>2 DEF Body
  <2>2. ConnectResponseBytes(m) = (<<channel, 0>> \o HpaiBytes(e)) \o (<<4, 4>> \o <<2, 0>>)
    BY <1>2, Zenon DEF ConnectResponseBytes, CriBytes
  <2>3. QED BY <2>1, <2>2, <1>3, <1>4, <1>5, <1>6, <1>7, Zenon
<1>20. Kept(m) = m
  BY <1>2 DEF Kept
<1>21. MessageOf("connect_response", b) = m
  <2>1. MessageOf("connect_response", b) = ConnectResponseOf(b)
    BY DEF MessageOf
  <2>2. QED BY <2>1, <1>1, <1>14, <1>16, <1>17, <1>18, Zenon DEF ConnectResponseOf
<1>22. Understood(m)
  <2>1. Len(b) < 1000 /\ "connect_response" \in DOMAIN Services
    BY <1>14 DEF Services
  <2>2. QED BY <1>2, <1>14, <1>19, <1>20, <1>21, <2>1, Understand, Zenon
<1>23. QED BY <1>1, <1>22

LEMMA ChannelRequestUnderstood ==
  ASSUME NEW kind \in {"state_request", "disconnect_request"},
         NEW e \in Endpoints, NEW channel \in Int
  PROVE  Understood([kind |-> kind, channel |-> channel, at |-> e])
<1>1. PICK m : m = [kind |-> kind, channel |-> channel, at |-> e]
  OBVIOUS
<1>2. m.kind = kind /\ m.at = e /\ m.channel = channel
  BY <1>1
<1>3. PICK h \in Bytes : h = HpaiBytes(e) /\ Len(h) = 8 /\ HpaiParses(h) /\ HpaiOf(h) = e
  BY HpaiFilled
<1>4. PICK p \in Bytes : p = <<channel, 0>> /\ Len(p) = 2 /\ p[1] = channel /\ p[2] = 0
  BY Pair
<1>5. PICK b : b = p \o h
  OBVIOUS
<1>6. Len(h) = 8 /\ Len(p) = 2 /\ p[1] = channel /\ p[2] = 0
  BY <1>3, <1>4, Zenon
<1>7. Joins(b, p, h)
  BY <1>5, Joined
<1>8. b \in Bytes /\ Len(b) = 10 /\ b[1] = channel /\ From(b, 3) = h
  BY <1>6, <1>7 DEF Joins
<1>9. Body(m) = b
  <2>1. Body(m) = <<m.channel, 0>> \o HpaiBytes(m.at)
    BY <1>2 DEF Body, StateRequestBytes, DisconnectRequestBytes
  <2>2. QED BY <2>1, <1>2, <1>3, <1>4, <1>5, Zenon
<1>10. Kept(m) = m
  BY <1>2 DEF Kept
<1>11. MessageOf(kind, b) = m
  <2>1. HpaiParses(From(b, 3)) /\ HpaiOf(From(b, 3)) = e
    BY <1>3, <1>8, Zenon
  <2>2. CASE kind = "state_request"
    <3>1. MessageOf(kind, b) = StateRequestOf(b)
      BY <2>2 DEF MessageOf
    <3>2. QED BY <3>1, <2>1, <2>2, <1>1, <1>8, Zenon DEF StateRequestOf
  <2>3. CASE kind = "disconnect_request"
    <3>1. MessageOf(kind, b) = DisconnectRequestOf(b)
      BY <2>3 DEF MessageOf
    <3>2. QED BY <3>1, <2>1, <2>3, <1>1, <1>8, Zenon DEF DisconnectRequestOf
  <2>4. QED BY <2>2, <2>3
<1>12. Understood(m)
  <2>1. Len(b) < 1000 /\ kind \in DOMAIN Services
    BY <1>8 DEF Services
  <2>2. QED BY <1>2, <1>8, <1>9, <1>10, <1>11, <2>1, Understand, Zenon
<1>13. QED BY <1>1, <1>12

LEMMA ResponseUnderstood ==
  ASSUME NEW kind \in {"state_response", "disconnect_response"},
         NEW channel \in Int, NEW status \in Int
  PROVE  Understood([kind |-> kind, channel |-> channel, status |-> status])
<1>1. PICK m : m = [kind |-> kind, channel |-> channel, status |-> status]
  OBVIOUS
<1>2. m.kind = kind /\ m.status = status /\ m.channel = channel
  BY <1>1
<1>3. PICK b \in Bytes : b = <<channel, status>> /\ Len(b) = 2 /\ b[1] = channel /\ b[2] = status
  BY Pair
<1>4. Body(m) = b
  <2>1. Body(m) = <<m.channel, m.status>>
    BY <1>2 DEF Body, StateResponseBytes, DisconnectResponseBytes
  <2>2. QED BY <2>1, <1>2, <1>3, Zenon
<1>5. Kept(m) = m
  BY <1>2 DEF Kept
<1>6. MessageOf(kind, b) = m
  <2>1. CASE kind = "state_response"
    <3>1. MessageOf(kind, b) = StateResponseOf(b)
      BY <2>1 DEF MessageOf
    <3>2. QED BY <3>1, <2>1, <1>1, <1>3, Zenon DEF StateResponseOf
  <2>2. CASE kind = "disconnect_response"
    <3>1. MessageOf(kind, b) = DisconnectResponseOf(b)
      BY <2>2 DEF MessageOf
    <3>2. QED BY <3>1, <2>2, <1>1, <1>3, Zenon DEF DisconnectResponseOf
  <2>3. QED BY <2>1, <2>2
<1>7. Understood(m)
  <2>1. Len(b) < 1000 /\ kind \in DOMAIN Services
    BY <1>3 DEF Services
  <2>2. QED BY <1>2, <1>3, <1>4, <1>5, <1>6, <2>1, Understand, Zenon
<1>8. QED BY <1>1, <1>7

LEMMA AckUnderstood ==
  ASSUME NEW channel \in Int, NEW number \in Int, NEW status \in Int
  PROVE  Understood([kind |-> "tunnelling_ack", channel |-> channel, number |-> number,
                     status |-> status])
<1>1. PICK m : m = [kind |-> "tunnelling_ack", channel |-> channel, number |-> number,
                    status |-> status]
  OBVIOUS
<1>2. m.kind = "tunnelling_ack" /\ m.status = status /\ m.channel = channel /\ m.number = number
  BY <1>1
<1>3. PICK b : b = <<4, channel, number, status>>
  OBVIOUS
<1>4. b \in Bytes /\ Len(b) = 4 /\ b[2] = channel /\ b[3] = number /\ b[4] = status
  BY <1>3 DEF Bytes
<1>5. Body(m) = b
  <2>1. Body(m) = TunnelAckBytes(m)
    BY <1>2 DEF Body
  <2>2. QED BY <2>1, <1>2, <1>3, Zenon DEF TunnelAckBytes
<1>6. Kept(m) = m
  BY <1>2 DEF Kept
<1>7. MessageOf("tunnelling_ack", b) = m
  <2>1. MessageOf("tunnelling_ack", b) = TunnelAckOf(b)
    BY DEF MessageOf
  <2>2. QED BY <2>1, <1>1, <1>4, Zenon DEF TunnelAckOf
<1>8. Understood(m)
  <2>1. Len(b) < 1000 /\ "tunnelling_ack" \in DOMAIN Services
    BY <1>4 DEF Services
  <2>2. QED BY <1>2, <1>4, <1>5, <1>6, <1>7, <2>1, Understand, Zenon
<1>9. QED BY <1>1, <1>8

LEMMA TunnelRequestUnderstood ==
  ASSUME NEW channel \in Int, NEW number \in Int, NEW f \in Frames
  PROVE  Understood([kind |-> "tunnelling_request", channel |-> channel, number |-> number,
                     frame |-> f])
<1>1. PICK m : m = [kind |-> "tunnelling_request", channel |-> channel, number |-> number,
                    frame |-> f]
  OBVIOUS
<1>2. m.kind = "tunnelling_request" /\ m.frame = f /\ m.channel = channel /\ m.number = number
  BY <1>1
<1>3. PICK h : h = <<4, channel, number, 0>>
  OBVIOUS
<1>4. h \in Bytes /\ Len(h) = 4 /\ h[2] = channel /\ h[3] = number
  BY <1>3 DEF Bytes
<1>5. PICK g : g = FrameBytes(f)
  OBVIOUS
<1>6. g \in Bytes /\ Len(g) = 10 + Len(f.value) /\ FrameParses(g) /\ FrameOf(g) = f
  BY <1>5, FrameRead
<1>7. PICK b : b = h \o g
  OBVIOUS
<1>8. Joins(b, h, g)
  BY <1>4, <1>6, <1>7, Joined
<1>9. b \in Bytes /\ Len(b) = 4 + Len(g) /\ b[2] = channel /\ b[3] = number /\ From(b, 5) = g
  BY <1>4, <1>6, <1>8 DEF Joins
<1>10. Body(m) = b
  <2>1. Body(m) = TunnelRequestBytes(m)
    BY <1>2 DEF Body
  <2>2. QED BY <2>1, <1>2, <1>3, <1>5, <1>7, Zenon DEF TunnelRequestBytes
<1>11. Kept(m) = m
  BY <1>2 DEF Kept
<1>12. MessageOf("tunnelling_request", b) = m
  <2>1. MessageOf("tunnelling_request", b) = TunnelRequestOf(b)
    BY DEF MessageOf
  <2>2. QED BY <2>1, <1>1, <1>6, <1>9, Zenon DEF TunnelRequestOf
<1>13. Understood(m)
  <2>1. Len(b) < 1000
    BY <1>6, <1>9, FrameFields
  <2>2. "tunnelling_request" \in DOMAIN Services
    BY DEF Services
  <2>3. QED BY <1>2, <1>9, <1>10, <1>11, <1>12, <2>1, <2>2, Understand, Zenon
<1>14. QED BY <1>1, <1>13

LEMMA RoutingUnderstood ==
  ASSUME NEW f \in Frames
  PROVE  Understood([kind |-> "routing_indication", frame |-> f])
<1>1. PICK m : m = [kind |-> "routing_indication", frame |-> f]
  OBVIOUS
<1>2. m.kind = "routing_indication" /\ m.frame = f
  BY <1>1
<1>3. PICK b : b = FrameBytes(f)
  OBVIOUS
<1>4. b \in Bytes /\ Len(b) = 10 + Len(f.value) /\ FrameParses(b) /\ FrameOf(b) = f
  BY <1>3, FrameRead
<1>5. Body(m) = b
  <2>1. Body(m) = RoutingIndicationBytes(m)
    BY <1>2 DEF Body
  <2>2. QED BY <2>1, <1>2, <1>3, Zenon DEF RoutingIndicationBytes
<1>6. Kept(m) = m
  BY <1>2 DEF Kept
<1>7. MessageOf("routing_indication", b) = m
  <2>1. MessageOf("routing_indication", b) = RoutingIndicationOf(b)
    BY DEF MessageOf
  <2>2. QED BY <2>1, <1>1, <1>4, Zenon DEF RoutingIndicationOf
<1>8. Understood(m)
  <2>1. Len(b) < 1000
    BY <1>4, FrameFields
  <2>2. "routing_indication" \in DOMAIN Services
    BY DEF Services
  <2>3. QED BY <1>2, <1>4, <1>5, <1>6, <1>7, <2>1, <2>2, Understand, Zenon
<1>9. QED BY <1>1, <1>8

-----------------------------------------------------------------------------
(* The services that a device offers.                                       *)

(* The list b has k pairs with its head, and names the families F.          *)
Listed(b, family) == \E i \in 3 .. Len(b) : i % 2 = 1 /\ b[i] = family
IsList(b, k, head, F) ==
  /\ b \in Bytes /\ Len(b) = 2 * k /\ b[1] = head /\ b[2] = 2
  /\ \A family \in Int : Listed(b, family) <=> family \in F
With(F, mask, service, family) == IF Bit(mask, service) = 1 THEN F \cup {family} ELSE F

(* One family of services more, or not.                                    *)
LEMMA FamilyAdded ==
  ASSUME NEW s, NEW k \in Int, k >= 1, NEW head, NEW F, IsList(s, k, head, F),
         NEW mask, NEW service, Bit(mask, service) \in {0, 1}, NEW family \in Int
  PROVE  IsList(s \o Offered(mask, service, family), k + Bit(mask, service), head,
                With(F, mask, service, family))
<1>1. /\ s \in Bytes /\ Len(s) = 2 * k /\ s[1] = head /\ s[2] = 2
      /\ \A other \in Int : Listed(s, other) <=> other \in F
  BY DEF IsList
<1>2. CASE Bit(mask, service) = 1
  <2>1. PICK p \in Bytes : p = <<family, 1>> /\ Len(p) = 2 /\ p[1] = family /\ p[2] = 1
    BY Pair
  <2>2. PICK t : t = s \o p
    OBVIOUS
  <2>3. s \o Offered(mask, service, family) = t
    BY <1>2, <2>1, <2>2, Zenon DEF Offered
  <2>4. Len(p) = 2 /\ p[1] = family
    BY <2>1
  <2>5. Joins(t, s, p)
    BY <1>1, <2>2, Joined
  <2>6. /\ t \in Bytes /\ Len(t) = 2 * k + 2
        /\ \A i \in 1 .. 2 * k : t[i] = s[i]
        /\ t[2 * k + 1] = family
    BY <1>1, <2>4, <2>5 DEF Joins
  <2>7. ASSUME NEW other \in Int
        PROVE  Listed(t, other) <=> other \in F \cup {family}
    <3>1. ASSUME Listed(t, other) PROVE Listed(s, other) \/ other = family
      <4>1. PICK i \in 3 .. 2 * k + 2 : i % 2 = 1 /\ t[i] = other
        BY <2>6, <3>1 DEF Listed
      <4>2. CASE i <= 2 * k
        BY <4>1, <4>2, <1>1, <2>6 DEF Listed
      <4>3. CASE i > 2 * k
        <5>1. i = 2 * k + 1
          BY <4>1, <4>3
        <5>2. QED BY <4>1, <5>1, <2>6
      <4>4. QED BY <4>2, <4>3
    <3>2. ASSUME Listed(s, other) PROVE Listed(t, other)
      <4>1. PICK i \in 3 .. 2 * k : i % 2 = 1 /\ s[i] = other
        BY <1>1, <3>2 DEF Listed
      <4>2. i \in 3 .. Len(t) /\ t[i] = other
        BY <4>1, <2>6
      <4>3. QED BY <4>1, <4>2 DEF Listed
    <3>3. ASSUME other = family PROVE Listed(t, other)
      <4>1. (2 * k + 1) % 2 = 1 /\ 2 * k + 1 \in 3 .. Len(t)
        BY <2>6
      <4>2. QED BY <4>1, <2>6, <3>3 DEF Listed
    <3>4. QED BY <1>1, <3>1, <3>2, <3>3
  <2>8. t[1] = head /\ t[2] = 2 /\ Len(t) = 2 * (k + 1)
    BY <1>1, <2>6
  <2>9. IsList(t, k + 1, head, F \cup {family})
    BY <2>6, <2>7, <2>8 DEF IsList
  <2>10. QED BY <1>2, <2>3, <2>9 DEF With
<1>3. CASE Bit(mask, service) = 0
  <2>1. s \o <<>> = s /\ k + 0 = k
    BY <1>1, NothingJoined
  <2>2. Offered(mask, service, family) = <<>> /\ With(F, mask, service, family) = F
    BY <1>3 DEF Offered, With
  <2>3. QED BY <1>3, <2>1, <2>2, Zenon
<1>4. QED BY <1>2, <1>3

(* A mask of four bits is their sum.                                       *)
LEMMA FourServices ==
  ASSUME NEW mask \in Below(16)
  PROVE  /\ CountBits(mask) = Bit(mask, 1) + Bit(mask, 2) + Bit(mask, 4) + Bit(mask, 8)
         /\ mask = Bit(mask, 1) + 2 * Bit(mask, 2) + 4 * Bit(mask, 4) + 8 * Bit(mask, 8)
         /\ Bit(mask, 1) \in {0, 1} /\ Bit(mask, 2) \in {0, 1}
         /\ Bit(mask, 4) \in {0, 1} /\ Bit(mask, 8) \in {0, 1}
BY DEF CountBits, Bit, Below

(* The families that were offered are the families that are read.          *)
LEMMA FamiliesRead ==
  ASSUME NEW mask \in Below(16)
  PROVE  /\ FamilyBytes(mask) \in Bytes /\ Len(FamilyBytes(mask)) \in 2 .. 10
         /\ FamilyBytes(mask)[2] = 2 /\ FamiliesOf(FamilyBytes(mask)) = mask
<1>1. PICK i \in Int, j \in Int, k \in Int, l \in Int :
        i = Bit(mask, 1) /\ j = Bit(mask, 2) /\ k = Bit(mask, 4) /\ l = Bit(mask, 8)
  <2>1. Bit(mask, 1) \in Int /\ Bit(mask, 2) \in Int /\ Bit(mask, 4) \in Int /\ Bit(mask, 8) \in Int
    BY FourServices
  <2>2. QED BY <2>1, Zenon
<1>2. /\ i \in {0, 1} /\ j \in {0, 1} /\ k \in {0, 1} /\ l \in {0, 1}
      /\ mask = i + 2 * j + 4 * k + 8 * l /\ CountBits(mask) = i + j + k + l
  BY <1>1, FourServices
<1>3. PICK n \in Int : n = 2 * CountBits(mask) + 2
  BY <1>2
<1>4. PICK s \in Bytes : s = <<n, 2>> /\ Len(s) = 2 /\ s[1] = n /\ s[2] = 2
  BY Pair
<1>5. PICK t, u, v, b : /\ t = s \o Offered(mask, 1, 2) /\ u = t \o Offered(mask, 2, 3)
                        /\ v = u \o Offered(mask, 4, 4) /\ b = v \o Offered(mask, 8, 5)
  OBVIOUS
<1>6. b = FamilyBytes(mask)
  BY <1>3, <1>4, <1>5, Zenon DEF FamilyBytes
<1>7. IsList(s, 1, n, {})
  BY <1>4 DEF IsList, Listed
<1>8. PICK F, G, H, K : /\ F = With({}, mask, 1, 2) /\ G = With(F, mask, 2, 3)
                        /\ H = With(G, mask, 4, 4) /\ K = With(H, mask, 8, 5)
  OBVIOUS
<1>9. IsList(t, 1 + i, n, F)
  <2>1. PICK p \in Int : p = 1
    OBVIOUS
  <2>2. p >= 1 /\ IsList(s, p, n, {}) /\ Bit(mask, 1) \in {0, 1}
    <3>1. p >= 1 /\ Bit(mask, 1) \in {0, 1}
      <4>1. 0 <= i /\ 0 <= j /\ 0 <= k
        BY <1>2
      <4>2. QED BY <4>1, <2>1, FourServices
    <3>2. IsList(s, p, n, {})
      BY <1>7, <2>1, Zenon
    <3>3. QED BY <3>1, <3>2
  <2>3. IsList(s \o Offered(mask, 1, 2), p + Bit(mask, 1), n, With({}, mask, 1, 2))
    BY <2>2, FamilyAdded
  <2>4. QED BY <1>1, <1>5, <1>8, <2>1, <2>3, Zenon
<1>10. IsList(u, 1 + i + j, n, G)
  <2>1. PICK p \in Int : p = 1 + i
    OBVIOUS
  <2>2. p >= 1 /\ IsList(t, p, n, F) /\ Bit(mask, 2) \in {0, 1}
    <3>1. p >= 1 /\ Bit(mask, 2) \in {0, 1}
      <4>1. 0 <= i /\ 0 <= j /\ 0 <= k
        BY <1>2
      <4>2. QED BY <4>1, <2>1, FourServices
    <3>2. IsList(t, p, n, F)
      BY <1>9, <2>1, Zenon
    <3>3. QED BY <3>1, <3>2
  <2>3. IsList(t \o Offered(mask, 2, 3), p + Bit(mask, 2), n, With(F, mask, 2, 3))
    BY <2>2, FamilyAdded
  <2>4. QED BY <1>1, <1>5, <1>8, <2>1, <2>3, Zenon
<1>11. IsList(v, 1 + i + j + k, n, H)
  <2>1. PICK p \in Int : p = 1 + i + j
    OBVIOUS
  <2>2. p >= 1 /\ IsList(u, p, n, G) /\ Bit(mask, 4) \in {0, 1}
    <3>1. p >= 1 /\ Bit(mask, 4) \in {0, 1}
      <4>1. 0 <= i /\ 0 <= j /\ 0 <= k
        BY <1>2
      <4>2. QED BY <4>1, <2>1, FourServices
    <3>2. IsList(u, p, n, G)
      BY <1>10, <2>1, Zenon
    <3>3. QED BY <3>1, <3>2
  <2>3. IsList(u \o Offered(mask, 4, 4), p + Bit(mask, 4), n, With(G, mask, 4, 4))
    BY <2>2, FamilyAdded
  <2>4. QED BY <1>1, <1>5, <1>8, <2>1, <2>3, Zenon
<1>12. IsList(b, 1 + i + j + k + l, n, K)
  <2>1. PICK p \in Int : p = 1 + i + j + k
    OBVIOUS
  <2>2. p >= 1 /\ IsList(v, p, n, H) /\ Bit(mask, 8) \in {0, 1}
    <3>1. p >= 1 /\ Bit(mask, 8) \in {0, 1}
      <4>1. 0 <= i /\ 0 <= j /\ 0 <= k
        BY <1>2
      <4>2. QED BY <4>1, <2>1, FourServices
    <3>2. IsList(v, p, n, H)
      BY <1>11, <2>1, Zenon
    <3>3. QED BY <3>1, <3>2
  <2>3. IsList(v \o Offered(mask, 8, 5), p + Bit(mask, 8), n, With(H, mask, 8, 5))
    BY <2>2, FamilyAdded
  <2>4. QED BY <1>1, <1>5, <1>8, <2>1, <2>3, Zenon
<1>13. /\ b \in Bytes /\ b[1] = Len(b) /\ Len(b) \in 2 .. 10 /\ b[2] = 2
       /\ \A family \in Int : Listed(b, family) <=> family \in K
  BY <1>2, <1>3, <1>12 DEF IsList
<1>14. /\ 2 \in K <=> i = 1
       /\ 3 \in K <=> j = 1
       /\ 4 \in K <=> k = 1
       /\ 5 \in K <=> l = 1
  BY <1>1, <1>8 DEF With
<1>15. FamiliesOf(b) = mask
  <2>1. FamiliesOf(b) = (IF Listed(b, 2) THEN 1 ELSE 0) + (IF Listed(b, 3) THEN 2 ELSE 0)
                          + (IF Listed(b, 4) THEN 4 ELSE 0) + (IF Listed(b, 5) THEN 8 ELSE 0)
    BY <1>13, Zenon DEF FamiliesOf, Listed
  <2>2. QED BY <1>2, <1>13, <1>14, <2>1
<1>16. QED BY <1>6, <1>13, <1>15

-----------------------------------------------------------------------------
(* Devices.                                                                 *)

Names == {name \in Bytes : Len(name) < 30 /\ \A i \in 1 .. Len(name) : name[i] # 0}
Devices ==
  [address : {AddressSet(w, FALSE) : w \in Word}, serial : {s \in Bytes : Len(s) = 6},
   group : {s \in Bytes : Len(s) = 4}, mac : {s \in Bytes : Len(s) = 6}, name : Names,
   services : Below(16)]

(* An address that was made of a word gives that word.                     *)
LEMMA AddressKept ==
  ASSUME NEW w \in Word, NEW group
  PROVE  ToByteArray(AddressSet(w, group)) = w
<1>1. PICK a : a = AddressSet(w, group)
  OBVIOUS
<1>2. a.high = w \div 256 /\ a.low = w % 256
  BY <1>1 DEF AddressSet
<1>3. w \in Int /\ 0 <= w /\ w <= 65535
  BY Numerals
<1>4. ((w \div 256) % 256) * 256 + ((w % 256) % 256) = w
  BY <1>3
<1>5. ToByteArray(a) = ((w \div 256) % 256) * 256 + ((w % 256) % 256)
  BY <1>2, Zenon DEF ToByteArray
<1>6. QED BY <1>1, <1>4, <1>5

(* A name ends at the zeros that fill up its thirty bytes.                 *)
LEMMA NameRead ==
  ASSUME NEW name \in Names
  PROVE  LET slot == name \o Zeros(30 - Len(name))
         IN slot \in Bytes /\ Len(slot) = 30 /\ TextAt(slot) = name
<1>1. PICK n \in Nat : n = Len(name)
  BY LenProperties DEF Names, Bytes
<1>2. name \in Bytes /\ Len(name) = n /\ n < 30 /\ \A i \in 1 .. n : name[i] # 0
  BY <1>1 DEF Names
<1>3. PICK z : z = Zeros(30 - Len(name))
  OBVIOUS
<1>4. z \in Bytes /\ Len(z) = 30 - n /\ \A i \in 1 .. 30 - n : z[i] = 0
  BY <1>2, <1>3 DEF Zeros, Bytes
<1>5. PICK b : b = name \o z
  OBVIOUS
<1>6. Joins(b, name, z)
  BY <1>2, <1>4, <1>5, Joined
<1>7. /\ b \in Bytes /\ Len(b) = 30 /\ \A i \in 1 .. n : b[i] = name[i]
      /\ b[n + 1] = z[1]
  BY <1>2, <1>4, <1>6 DEF Joins
<1>8. b[n + 1] = 0 /\ \A i \in 1 .. n : b[i] # 0
  BY <1>2, <1>4, <1>7
<1>9. ASSUME NEW k \in 0 .. Len(b), \A i \in 1 .. k : b[i] # 0, k < Len(b) => b[k + 1] = 0
      PROVE  k = n
  <2>1. CASE k < n
    <3>1. k + 1 \in 1 .. n /\ k < Len(b)
      BY <2>1, <1>2, <1>7
    <3>2. QED BY <3>1, <1>8, <1>9
  <2>2. CASE k > n
    <3>1. n + 1 \in 1 .. k
      BY <2>2, <1>7
    <3>2. QED BY <3>1, <1>8, <1>9
  <2>3. QED BY <2>1, <2>2, <1>7
<1>10. (CHOOSE k \in 0 .. Len(b) : /\ \A i \in 1 .. k : b[i] # 0
                                   /\ k < Len(b) => b[k + 1] = 0) = n
  <2>1. n \in 0 .. Len(b)
    BY <1>2, <1>7
  <2>2. QED BY <2>1, <1>8, <1>9, Zenon
<1>11. TextAt(b) = SubSeq(b, 1, n)
  BY <1>10, Zenon DEF TextAt
<1>12. SubSeq(b, 1, n) = name
  <2>1. CASE n = 0
    <3>1. SubSeq(b, 1, n) = <<>>
      BY <2>1, SubSeqEmpty
    <3>2. name = <<>>
      BY <1>2, <2>1, EmptySeq DEF Bytes
    <3>3. QED BY <3>1, <3>2
  <2>2. CASE n > 0
    <3>1. SubSeq(b, 1, n) = SubSeq(name, 1, n)
      BY <2>2, <1>2, <1>6 DEF Joins
    <3>2. SubSeq(name, 1, n) = name
      BY <1>2, SubSeqFull DEF Bytes
    <3>3. QED BY <3>1, <3>2
  <2>3. QED BY <2>1, <2>2
<1>13. QED BY <1>3, <1>5, <1>7, <1>11, <1>12

(* A device with the services behind it.                                    *)
LEMMA DeviceRead ==
  ASSUME NEW d \in Devices
  PROVE  LET b == DeviceBytes(d) \o FamilyBytes(d.services)
         IN /\ b \in Bytes /\ Len(b) \in 56 .. 64 /\ DeviceBytes(d) \in Bytes
            /\ DeviceParses(b) /\ DeviceOf(b) = d
<1>1. PICK w \in Word : d.address = AddressSet(w, FALSE)
  BY DEF Devices
<1>2. /\ d.serial \in Bytes /\ Len(d.serial) = 6 /\ d.group \in Bytes /\ Len(d.group) = 4
      /\ d.mac \in Bytes /\ Len(d.mac) = 6
  BY DEF Devices
<1>3. d.name \in Names /\ d.services \in Below(16)
  BY DEF Devices
<1>4. PICK fam : fam = FamilyBytes(d.services)
  OBVIOUS
<1>5. fam \in Bytes /\ Len(fam) \in 2 .. 10 /\ fam[2] = 2 /\ FamiliesOf(fam) = d.services
  BY <1>3, <1>4, FamiliesRead
<1>6. PICK zeros : zeros = Zeros(30 - Len(d.name))
  OBVIOUS
<1>7. PICK slot : slot = d.name \o zeros
  OBVIOUS
<1>8. slot \in Bytes /\ Len(slot) = 30 /\ TextAt(slot) = d.name
  BY <1>3, <1>6, <1>7, NameRead
<1>9. zeros \in Bytes /\ d.name \in Bytes
  <2>1. d.name \in Bytes /\ Len(d.name) \in Nat /\ Len(d.name) < 30
    BY <1>3, LenProperties DEF Names, Bytes
  <2>2. QED BY <1>6, <2>1 DEF Zeros, Bytes
<1>10. PICK a : a = <<54, 1, 2, 1>>
  OBVIOUS
<1>11. a \in Bytes /\ Len(a) = 4 /\ a[1] = 54 /\ a[2] = 1
  BY <1>10 DEF Bytes
<1>12. PICK m : m = Memory(Htons(ToByteArray(d.address)))
  OBVIOUS
<1>13. m \in Bytes /\ Len(m) = 2 /\ Htons(m[1] + 256 * m[2]) = w
  <2>1. Holds(Memory(Htons(w)), w)
    BY WordRead
  <2>2. m = Memory(Htons(w))
    BY <1>1, <1>12, AddressKept, Zenon
  <2>3. QED BY <2>1, <2>2, Zenon DEF Holds
<1>14. PICK o : o = Memory(0)
  OBVIOUS
<1>15. o \in Bytes /\ Len(o) = 2
  BY <1>14, MemoryTyped
<1>16. PICK d1, d2, d3, d4, d5, d6, d7, b :
         /\ d1 = a \o m /\ d2 = d1 \o o /\ d3 = d2 \o d.serial /\ d4 = d3 \o d.group
         /\ d5 = d4 \o d.mac /\ d6 = d5 \o d.name /\ d7 = d6 \o zeros /\ b = d7 \o fam
  OBVIOUS
<1>17. d7 = DeviceBytes(d) /\ b = DeviceBytes(d) \o FamilyBytes(d.services)
  BY <1>4, <1>6, <1>10, <1>12, <1>14, <1>16, Zenon DEF DeviceBytes
<1>18. Joins(d1, a, m)
  BY <1>11, <1>13, <1>16, Joined
<1>19. d1 \in Bytes /\ Len(d1) = 6 /\ d1[1] = 54 /\ d1[2] = 1 /\ d1[5] = m[1] /\ d1[6] = m[2]
  BY <1>11, <1>13, <1>18 DEF Joins
<1>20. Joins(d2, d1, o)
  BY <1>15, <1>16, <1>19, Joined
<1>21. d2 \in Bytes /\ Len(d2) = 8 /\ d2[1] = 54 /\ d2[2] = 1 /\ d2[5] = m[1] /\ d2[6] = m[2]
  BY <1>15, <1>19, <1>20 DEF Joins
<1>22. Joins(d3, d2, d.serial)
  BY <1>2, <1>16, <1>21, Joined
<1>23. /\ d3 \in Bytes /\ Len(d3) = 14 /\ d3[1] = 54 /\ d3[2] = 1 /\ d3[5] = m[1] /\ d3[6] = m[2]
       /\ From(d3, 9) = d.serial
  <2>1. d3 \in Bytes /\ Len(d3) = Len(d2) + Len(d.serial) /\ From(d3, Len(d2) + 1) = d.serial
    BY <1>22, Zenon DEF Joins
  <2>2. Len(d2) = 8 /\ Len(d.serial) = 6
    BY <1>2, <1>21
  <2>3. \A i \in 1 .. 8 : d3[i] = d2[i]
    BY <1>22, <2>2, Zenon DEF Joins
  <2>4. \A i, j \in 1 .. 8 : SubSeq(d3, i, j) = SubSeq(d2, i, j)
    BY <1>22, <2>2, Zenon DEF Joins
  <2>5. Len(d3) = 14 /\ From(d3, 9) = d.serial
    BY <2>1, <2>2
  <2>7. d3[1] = d2[1] /\ d3[2] = d2[2] /\ d3[5] = d2[5] /\ d3[6] = d2[6]
    BY <2>3
  <2>8. QED BY <2>1, <2>5, <2>7, <1>21, Zenon
<1>24. Joins(d4, d3, d.group)
  BY <1>2, <1>16, <1>23, Joined
<1>25. /\ d4 \in Bytes /\ Len(d4) = 18 /\ d4[1] = 54 /\ d4[2] = 1 /\ d4[5] = m[1] /\ d4[6] = m[2]
       /\ From(d4, 15) = d.group /\ SubSeq(d4, 9, 14) = SubSeq(d3, 9, 14)
  <2>1. d4 \in Bytes /\ Len(d4) = Len(d3) + Len(d.group) /\ From(d4, Len(d3) + 1) = d.group
    BY <1>24, Zenon DEF Joins
  <2>2. Len(d3) = 14 /\ Len(d.group) = 4
    BY <1>2, <1>23
  <2>3. \A i \in 1 .. 14 : d4[i] = d3[i]
    BY <1>24, <2>2, Zenon DEF Joins
  <2>4. \A i, j \in 1 .. 14 : SubSeq(d4, i, j) = SubSeq(d3, i, j)
    BY <1>24, <2>2, Zenon DEF Joins
  <2>5. Len(d4) = 18 /\ From(d4, 15) = d.group
    BY <2>1, <2>2
  <2>6. SubSeq(d4, 9, 14) = SubSeq(d3, 9, 14)
    BY <2>4
  <2>7. d4[1] = d3[1] /\ d4[2] = d3[2] /\ d4[5] = d3[5] /\ d4[6] = d3[6]
    BY <2>3
  <2>8. QED BY <2>1, <2>5, <2>6, <2>7, <1>23, Zenon
<1>26. Joins(d5, d4, d.mac)
  BY <1>2, <1>16, <1>25, Joined
<1>27. /\ d5 \in Bytes /\ Len(d5) = 24 /\ d5[1] = 54 /\ d5[2] = 1 /\ d5[5] = m[1] /\ d5[6] = m[2]
       /\ From(d5, 19) = d.mac /\ SubSeq(d5, 9, 14) = SubSeq(d4, 9, 14)
       /\ SubSeq(d5, 15, 18) = SubSeq(d4, 15, 18)
  <2>1. d5 \in Bytes /\ Len(d5) = Len(d4) + Len(d.mac) /\ From(d5, Len(d4) + 1) = d.mac
    BY <1>26, Zenon DEF Joins
  <2>2. Len(d4) = 18 /\ Len(d.mac) = 6
    BY <1>2, <1>25
  <2>3. \A i \in 1 .. 18 : d5[i] = d4[i]
    BY <1>26, <2>2, Zenon DEF Joins
  <2>4. \A i, j \in 1 .. 18 : SubSeq(d5, i, j) = SubSeq(d4, i, j)
    BY <1>26, <2>2, Zenon DEF Joins
  <2>5. Len(d5) = 24 /\ From(d5, 19) = d.mac
    BY <2>1, <2>2
  <2>6. SubSeq(d5, 9, 14) = SubSeq(d4, 9, 14) /\ SubSeq(d5, 15, 18) = SubSeq(d4, 15, 18)
    <3>1. 9 \in 1 .. 18 /\ 14 \in 1 .. 18 /\ 15 \in 1 .. 18 /\ 18 \in 1 .. 18
      OBVIOUS
    <3>2. QED BY ONLY <2>4, <3>1, Zenon
  <2>7. d5[1] = d4[1] /\ d5[2] = d4[2] /\ d5[5] = d4[5] /\ d5[6] = d4[6]
    BY <2>3
  <2>8. QED BY <2>1, <2>5, <2>6, <2>7, <1>25, Zenon
<1>28. Joins(d7, d5, slot)
  <2>1. (d5 \o d.name) \o zeros = d5 \o (d.name \o zeros)
    BY <1>9, <1>27, JoinAgain
  <2>2. d7 = d5 \o slot
    BY <1>7, <1>16, <2>1, Zenon
  <2>3. QED BY <1>8, <1>27, <2>2, Joined
<1>29. /\ d7 \in Bytes /\ Len(d7) = 54 /\ d7[1] = 54 /\ d7[2] = 1 /\ d7[5] = m[1] /\ d7[6] = m[2]
       /\ From(d7, 25) = slot /\ SubSeq(d7, 9, 14) = SubSeq(d5, 9, 14)
       /\ SubSeq(d7, 15, 18) = SubSeq(d5, 15, 18) /\ SubSeq(d7, 19, 24) = SubSeq(d5, 19, 24)
  <2>1. d7 \in Bytes /\ Len(d7) = Len(d5) + Len(slot) /\ From(d7, Len(d5) + 1) = slot
    BY <1>28, Zenon DEF Joins
  <2>2. Len(d5) = 24 /\ Len(slot) = 30
    BY <1>8, <1>27
  <2>3. \A i \in 1 .. 24 : d7[i] = d5[i]
    BY <1>28, <2>2, Zenon DEF Joins
  <2>4. \A i, j \in 1 .. 24 : SubSeq(d7, i, j) = SubSeq(d5, i, j)
    BY <1>28, <2>2, Zenon DEF Joins
  <2>5. Len(d7) = 54 /\ From(d7, 25) = slot
    BY <2>1, <2>2
  <2>6. /\ SubSeq(d7, 9, 14) = SubSeq(d5, 9, 14) /\ SubSeq(d7, 15, 18) = SubSeq(d5, 15, 18)
        /\ SubSeq(d7, 19, 24) = SubSeq(d5, 19, 24)
    <3>1. {9, 14, 15, 18, 19, 24} \subseteq 1 .. 24
      OBVIOUS
    <3>2. QED BY <2>4, <3>1, Zenon
  <2>7. d7[1] = d5[1] /\ d7[2] = d5[2] /\ d7[5] = d5[5] /\ d7[6] = d5[6]
    BY <2>3
  <2>8. QED BY <2>1, <2>5, <2>6, <2>7, <1>27, Zenon
<1>30. Joins(b, d7, fam)
  BY <1>5, <1>16, <1>29, Joined
<1>31. /\ b \in Bytes /\ Len(b) \in 56 .. 64 /\ b[1] = 54 /\ b[2] = 1 /\ b[5] = m[1] /\ b[6] = m[2]
       /\ b[56] = 2 /\ From(b, 55) = fam
       /\ SubSeq(b, 25, 54) = SubSeq(d7, 25, 54) /\ SubSeq(b, 9, 14) = SubSeq(d7, 9, 14)
       /\ SubSeq(b, 15, 18) = SubSeq(d7, 15, 18) /\ SubSeq(b, 19, 24) = SubSeq(d7, 19, 24)
  <2>1. b \in Bytes /\ Len(b) = Len(d7) + Len(fam) /\ From(b, Len(d7) + 1) = fam
    BY <1>30, Zenon DEF Joins
  <2>2. Len(d7) = 54 /\ Len(fam) \in 2 .. 10
    BY <1>5, <1>29
  <2>3. \A i \in 1 .. 54 : b[i] = d7[i]
    BY <1>30, <2>2, Zenon DEF Joins
  <2>4. \A i, j \in 1 .. 54 : SubSeq(b, i, j) = SubSeq(d7, i, j)
    BY <1>30, <2>2, Zenon DEF Joins
  <2>5. Len(b) \in 56 .. 64 /\ From(b, 55) = fam
    <3>1. Len(b) \in 56 .. 64
      <4>1. PICK k \in 2 .. 10 : k = Len(fam)
        BY <2>2
      <4>2. Len(b) = 54 + k
        BY <2>1, <2>2, <4>1, Zenon
      <4>3. QED BY <4>2
    <3>2. Len(d7) + 1 = 55
      BY <2>2
    <3>3. QED BY <2>1, <3>1, <3>2, Zenon
  <2>6. /\ SubSeq(b, 25, 54) = SubSeq(d7, 25, 54) /\ SubSeq(b, 9, 14) = SubSeq(d7, 9, 14)
        /\ SubSeq(b, 15, 18) = SubSeq(d7, 15, 18) /\ SubSeq(b, 19, 24) = SubSeq(d7, 19, 24)
    <3>1. {9, 14, 15, 18, 19, 24, 25, 54} \subseteq 1 .. 54
      OBVIOUS
    <3>2. QED BY <2>4, <3>1, Zenon
  <2>7. b[1] = d7[1] /\ b[2] = d7[2] /\ b[5] = d7[5] /\ b[6] = d7[6]
    BY <2>3
  <2>8. b[56] = 2
    <3>1. b[Len(d7) + 2] = fam[2]
      <4>1. \A i \in 1 .. Len(fam) : b[Len(d7) + i] = fam[i]
        BY <1>30, Zenon DEF Joins
      <4>2. QED BY <4>1, <2>2
    <3>2. QED BY <3>1, <2>2, <1>5
  <2>9. QED BY <2>1, <2>5, <2>6, <2>7, <2>8, <1>29, Zenon
<1>32. SubSeq(b, 9, 14) = d.serial
  <2>1. SubSeq(d3, 9, 14) = d.serial
    BY <1>23, Zenon DEF From
  <2>2. QED BY <2>1, <1>25, <1>27, <1>29, <1>31, Zenon
<1>33. SubSeq(b, 15, 18) = d.group
  BY <1>25, <1>27, <1>29, <1>31, Zenon DEF From
<1>34. SubSeq(b, 19, 24) = d.mac
  BY <1>27, <1>29, <1>31, Zenon DEF From
<1>35. TextAt(SubSeq(b, 25, 54)) = d.name
  BY <1>8, <1>29, <1>31, Zenon DEF From
<1>36. AddressSet(Htons(WordAt(b, 5)), FALSE) = d.address
  <2>1. WordAt(b, 5) = m[1] + 256 * m[2]
    BY <1>31 DEF WordAt
  <2>2. QED BY <1>1, <1>13, <2>1, Zenon
<1>37. FamiliesOf(From(b, 55)) = d.services
  BY <1>5, <1>31, Zenon
<1>38. DeviceOf(b) = d
  <2>1. d = [address |-> d.address, serial |-> d.serial, group |-> d.group, mac |-> d.mac,
             name |-> d.name, services |-> d.services]
    BY DEF Devices
  <2>2. QED BY <2>1, <1>32, <1>33, <1>34, <1>35, <1>36, <1>37, Zenon DEF DeviceOf
<1>39. DeviceParses(b)
  BY <1>31 DEF DeviceParses
<1>40. QED BY <1>17, <1>29, <1>31, <1>38, <1>39

LEMMA SearchResponseUnderstood ==
  ASSUME NEW e \in Endpoints, NEW d \in Devices
  PROVE  Understood([kind |-> "search_response", at |-> e, device |-> d])
<1>1. PICK m : m = [kind |-> "search_response", at |-> e, device |-> d]
  OBVIOUS
<1>2. m.kind = "search_response" /\ m.at = e /\ m.device = d
  BY <1>1
<1>3. PICK h \in Bytes : h = HpaiBytes(e)
  BY HpaiFilled
<1>4. PICK c, f : c = DeviceBytes(d) /\ f = FamilyBytes(d.services)
  OBVIOUS
<1>5. d.services \in Below(16)
  BY DEF Devices
<1>6. f \in Bytes
  BY <1>4, <1>5, FamiliesRead
<1>7. PICK g : g = c \o f
  OBVIOUS
<1>8. g \in Bytes /\ Len(g) \in 56 .. 64 /\ c \in Bytes /\ DeviceParses(g) /\ DeviceOf(g) = d
  BY <1>4, <1>7, DeviceRead
<1>9. PICK b : b = (h \o c) \o f
  OBVIOUS
<1>10. b = h \o g
  <2>1. (h \o c) \o f = h \o (c \o f)
    BY <1>6, <1>8, JoinAgain
  <2>2. QED BY <2>1, <1>7, <1>9, Zenon
<1>11. /\ b \in Bytes /\ Len(b) = 8 + Len(g) /\ HpaiParses(b) /\ HpaiOf(b) = e /\ From(b, 9) = g
  BY <1>3, <1>8, <1>10, HpaiRead, Zenon
<1>12. Body(m) = b
  <2>1. Body(m) = SearchResponseBytes(m)
    BY <1>2 DEF Body
  <2>2. QED BY <2>1, <1>2, <1>3, <1>4, <1>9, Zenon DEF SearchResponseBytes
<1>13. Kept(m) = m
  BY <1>2 DEF Kept
<1>14. MessageOf("search_response", b) = m
  <2>1. MessageOf("search_response", b) = SearchResponseOf(b)
    BY DEF MessageOf
  <2>2. QED BY <2>1, <1>1, <1>8, <1>11, Zenon DEF SearchResponseOf
<1>15. Understood(m)
  <2>1. Len(b) < 1000
    <3>1. PICK k \in 56 .. 64 : k = Len(g)
      BY <1>8
    <3>2. Len(b) = 8 + k
      BY <1>11, <3>1, Zenon
    <3>3. QED BY <3>2
  <2>2. "search_response" \in DOMAIN Services
    BY DEF Services
  <2>3. QED BY <1>2, <1>11, <1>12, <1>13, <1>14, <2>1, <2>2, Understand, Zenon
<1>16. QED BY <1>1, <1>15

-----------------------------------------------------------------------------
(* What a bus monitor gets: two items and the telegram as it was.           *)

LEMMA SecondPart ==
  ASSUME NEW b, NEW s \in Bytes, NEW t \in Bytes, Joins(b, s, t), NEW n \in Nat, Len(s) = n
  PROVE  /\ \A i, j \in 1 .. Len(t) : SubSeq(b, n + i, n + j) = SubSeq(t, i, j)
         /\ \A i \in 1 .. Len(t) : b[n + i] = t[i]
<1>1. b = s \o t
  BY Zenon DEF Joins
<1>2. Len(t) \in Nat
  BY LenProperties DEF Bytes
<1>3. ASSUME NEW i \in 1 .. Len(t), NEW j \in 1 .. Len(t)
      PROVE  SubSeq(s \o t, n + i, n + j) = SubSeq(t, i, j)
  <2>1. n + i \in Len(s) + 1 .. Len(s) + Len(t) /\ n + j \in Len(s) + 1 .. Len(s) + Len(t)
    BY <1>2
  <2>2. PICK k, l : k = n + i /\ l = n + j
    OBVIOUS
  <2>3. SubSeq(s \o t, k, l) = SubSeq(t, k - Len(s), l - Len(s))
    BY <2>1, <2>2, SubSeqOfConcat2 DEF Bytes
  <2>4. k - Len(s) = i /\ l - Len(s) = j
    BY <1>2, <2>2
  <2>5. QED BY <2>2, <2>3, <2>4, Zenon
<1>4. \A i \in 1 .. Len(t) : b[n + i] = t[i]
  BY Zenon DEF Joins
<1>5. QED BY <1>1, <1>3, <1>4, Zenon

(* An item of the type u with the n bytes x, from the byte at p on.         *)
HoldsItem(b, p, u, x, n) ==
  b[p] = u /\ b[p + 1] = n /\ SubSeq(b, p + 2, p + 1 + n) = x

(* An item of a bus monitor's information is where it was put.             *)
LEMMA ItemKept ==
  ASSUME NEW c, NEW s \in Bytes, NEW t \in Bytes, Joins(c, s, t),
         NEW p \in Nat, p >= 1, NEW n \in Nat, n >= 1, p + 1 + n <= Len(t), NEW u, NEW x,
         HoldsItem(t, p, u, x, n)
  PROVE  HoldsItem(c, Len(s) + p, u, x, n)
<1>0. PICK h \in Nat : Len(s) = h
  BY LenProperties DEF Bytes
<1>1. PICK q, e \in Nat : q = p + 2 /\ e = p + 1 + n
  <2>1. p + 2 \in Nat /\ p + 1 + n \in Nat
    OBVIOUS
  <2>2. QED BY <2>1
<1>2. PICK o \in Nat : o = p + 1
  OBVIOUS
<1>3. PICK k \in Nat : Len(t) = k
  BY LenProperties DEF Bytes
<1>4. p \in 1 .. k /\ o \in 1 .. k /\ q \in 1 .. k /\ e \in 1 .. k
  BY <1>1, <1>2, <1>3
<1>5. /\ \A i, j \in 1 .. k : SubSeq(c, h + i, h + j) = SubSeq(t, i, j)
      /\ \A i \in 1 .. k : c[h + i] = t[i]
  <2>1. /\ \A i, j \in 1 .. Len(t) : SubSeq(c, h + i, h + j) = SubSeq(t, i, j)
        /\ \A i \in 1 .. Len(t) : c[h + i] = t[i]
    BY ONLY SecondPart, Joins(c, s, t), s \in Bytes, t \in Bytes, h \in Nat, <1>0
  <2>2. QED BY <1>3, <2>1, Zenon
<1>6. t[p] = u /\ t[o] = n /\ SubSeq(t, q, e) = x
  BY <1>1, <1>2, Zenon DEF HoldsItem
<1>7. c[h + p] = u /\ c[h + o] = n /\ SubSeq(c, h + q, h + e) = x
  BY <1>4, <1>5, <1>6, Zenon
<1>8. h + p + 1 = h + o /\ h + p + 2 = h + q /\ h + p + 1 + n = h + e
  BY <1>1, <1>2
<1>9. QED BY <1>0, <1>7, <1>8, Zenon DEF HoldsItem

LEMMA ItemKeptBefore ==
  ASSUME NEW c, NEW s \in Bytes, NEW t \in Bytes, Joins(c, s, t),
         NEW p \in Nat, p >= 1, NEW n \in Nat, n >= 1, p + 1 + n <= Len(s), NEW u, NEW x,
         HoldsItem(s, p, u, x, n)
  PROVE  HoldsItem(c, p, u, x, n)
<1>0. PICK h \in Nat : Len(s) = h
  BY LenProperties DEF Bytes
<1>1. p \in 1 .. h /\ p + 1 \in 1 .. h /\ p + 2 \in 1 .. h /\ p + 1 + n \in 1 .. h
  BY <1>0
<1>2. /\ \A i, j \in 1 .. h : SubSeq(c, i, j) = SubSeq(s, i, j)
      /\ \A i \in 1 .. h : c[i] = s[i]
  BY <1>0, Zenon DEF Joins
<1>3. QED BY <1>1, <1>2, Zenon DEF HoldsItem

LEMMA ItemHeld ==
  ASSUME NEW u \in Int, NEW x \in Bytes, Len(x) >= 1
  PROVE  LET b == <<u, Len(x)>> \o x
         IN b \in Bytes /\ Len(b) = 2 + Len(x) /\ HoldsItem(b, 1, u, x, Len(x))
<1>0. PICK n \in Nat : n = Len(x)
  BY LenProperties DEF Bytes
<1>9. PICK b : b = <<u, n>> \o x
  OBVIOUS
<1>1. PICK p \in Bytes : p = <<u, n>> /\ Len(p) = 2 /\ p[1] = u /\ p[2] = n
  BY Pair
<1>2. Joins(b, p, x)
  BY <1>1, <1>9, Joined
<1>3. b \in Bytes /\ Len(b) = Len(p) + Len(x) /\ From(b, Len(p) + 1) = x
  BY <1>2, Zenon DEF Joins
<1>4. Len(p) = 2 /\ Len(p) + Len(x) = 2 + n /\ Len(p) + 1 = 3
  BY <1>0, <1>1
<1>5. b \in Bytes /\ Len(b) = 2 + n /\ From(b, 3) = x
  BY <1>3, <1>4, Zenon
<1>6. \A k \in 1 .. 2 : b[k] = p[k]
  BY <1>2, <1>4, Zenon DEF Joins
<1>7. b[1] = u /\ b[2] = n
  BY <1>1, <1>6
<1>8. 1 + 1 = 2 /\ 1 + 2 = 3 /\ 1 + 1 + n = 2 + n
  OBVIOUS
<1>10. HoldsItem(b, 1, u, x, n)
  BY <1>5, <1>7, <1>8, Zenon DEF HoldsItem, From
<1>11. QED BY <1>0, <1>9, <1>5, <1>10, Zenon

(* The body of an indication of the monitor: two items of l and r bytes.     *)
IsPart(u, x, l) == u \in Int /\ x \in Bytes /\ l \in Nat /\ l >= 1 /\ l = Len(x)
IsRest(channel, number, raw, k) ==
  channel \in Int /\ number \in Int /\ raw \in Bytes /\ k \in Nat /\ k = Len(raw) /\ k >= 1

IsBody(b, u, x, l, v, y, r, channel, number, raw, k, size) ==
  /\ IsPart(u, x, l) /\ IsPart(v, y, r) /\ IsRest(channel, number, raw, k)
  /\ size \in Nat /\ size = l + r + 4
  /\ b = <<4, channel, number, 0, 43, size>> \o ((<<u, l>> \o x) \o (<<v, r>> \o y)) \o raw

(* The parts of an indication of the bus monitor.                          *)
LEMMA MonitorParts ==
  ASSUME NEW b, NEW u, NEW x, NEW l, NEW v, NEW y, NEW r,
         NEW channel, NEW number, NEW raw, NEW k, NEW size,
         IsBody(b, u, x, l, v, y, r, channel, number, raw, k, size)
  PROVE  /\ b \in Bytes /\ Len(b) = size + 6 + k /\ b[5] = 43 /\ b[6] = size
         /\ From(b, size + 7) = raw
         /\ HoldsItem(b, 7, u, x, l) /\ HoldsItem(b, l + 9, v, y, r)
<1> USE DEF IsPart, IsRest, IsBody
<1>1. PICK s : s = <<u, l>> \o x
  OBVIOUS
<1>2. PICK t : t = <<v, r>> \o y
  OBVIOUS
<1>3. PICK h : h = <<4, channel, number, 0, 43, size>>
  OBVIOUS
<1>4. PICK info : info = s \o t
  OBVIOUS
<1>5. PICK c : c = h \o info
  OBVIOUS
<1>6. b = c \o raw
  BY <1>1, <1>2, <1>3, <1>4, <1>5, Zenon
<1>7. s \in Bytes /\ Len(s) = 2 + l /\ HoldsItem(s, 1, u, x, l)
  <2>1. Len(x) >= 1
    OBVIOUS
  <2>2. QED BY <1>1, <2>1, ItemHeld, Zenon
<1>8. t \in Bytes /\ Len(t) = 2 + r /\ HoldsItem(t, 1, v, y, r)
  <2>1. Len(y) >= 1
    OBVIOUS
  <2>2. QED BY <1>2, <2>1, ItemHeld, Zenon
<1>9. h \in Bytes /\ Len(h) = 6 /\ h[5] = 43 /\ h[6] = size
  <2>1. size \in Int
    OBVIOUS
  <2>2. QED BY ONLY <1>3, <2>1, channel \in Int, number \in Int DEF Bytes
<1>10. Joins(info, s, t)
  BY <1>4, <1>7, <1>8, Joined, Zenon
<1>11. info \in Bytes /\ Len(info) = size
  <2>1. info \in Bytes /\ Len(info) = Len(s) + Len(t)
    BY <1>10, Zenon DEF Joins
  <2>2. QED BY ONLY <2>1, <1>7, <1>8, size = l + r + 4, l \in Nat, r \in Nat
<1>12. Joins(c, h, info)
  BY <1>5, <1>9, <1>11, Joined, Zenon
<1>13. c \in Bytes /\ Len(c) = size + 6
  <2>1. c \in Bytes /\ Len(c) = Len(h) + Len(info)
    BY <1>12, Zenon DEF Joins
  <2>2. QED BY ONLY <2>1, <1>9, <1>11, size \in Nat
<1>14. Joins(b, c, raw)
  BY <1>6, <1>13, Joined, Zenon
<1>15. b \in Bytes /\ Len(b) = size + 6 + k /\ From(b, size + 7) = raw
  <2>1. b \in Bytes /\ Len(b) = Len(c) + Len(raw) /\ From(b, Len(c) + 1) = raw
    BY <1>14, Zenon DEF Joins
  <2>2. Len(c) + 1 = size + 7 /\ Len(c) + Len(raw) = size + 6 + k
    BY ONLY <1>13, size \in Nat, k \in Nat, k = Len(raw)
  <2>3. QED BY <2>1, <2>2, Zenon
<1>16. b[5] = 43 /\ b[6] = size
  <2>1. /\ \A i \in 1 .. Len(h) : c[i] = h[i]
        /\ \A i \in 1 .. Len(c) : b[i] = c[i]
    BY <1>12, <1>14, Zenon DEF Joins
  <2>2. 5 \in 1 .. Len(h) /\ 6 \in 1 .. Len(h) /\ 5 \in 1 .. Len(c) /\ 6 \in 1 .. Len(c)
    BY ONLY <1>9, <1>13, size \in Nat
  <2>3. QED BY <2>1, <2>2, <1>9, Zenon
<1>17. HoldsItem(b, 7, u, x, l)
  <2>2. HoldsItem(info, 1, u, x, l)
    <3>1. 1 + 1 + l <= Len(s) /\ 1 >= 1 /\ 1 \in Nat
      BY <1>7
    <3>2. QED BY <1>7, <1>8, <1>10, <3>1, ItemKeptBefore
  <2>3. HoldsItem(c, 6 + 1, u, x, l)
    <3>1. 1 + 1 + l <= Len(info) /\ 1 >= 1 /\ 1 \in Nat
      BY <1>11
    <3>2. HoldsItem(c, Len(h) + 1, u, x, l)
      BY ONLY <1>9, <1>11, <1>12, <2>2, <3>1, ItemKept, l \in Nat, l >= 1
    <3>3. QED BY <1>9, <3>2, Zenon
  <2>4. HoldsItem(c, 7, u, x, l)
    BY <2>3
  <2>5. 7 + 1 + l <= Len(c) /\ 7 >= 1 /\ 7 \in Nat
    BY <1>13
  <2>6. QED BY ONLY <1>13, <1>14, <2>4, <2>5, ItemKeptBefore, l \in Nat, l >= 1, raw \in Bytes
<1>18. HoldsItem(b, l + 9, v, y, r)
  <2>1. PICK q \in Nat : q = l + 3
    BY ONLY l \in Nat
  <2>2. HoldsItem(info, Len(s) + 1, v, y, r)
    <3>1. 1 + 1 + r <= Len(t) /\ 1 >= 1 /\ 1 \in Nat
      BY <1>8
    <3>2. QED BY ONLY <1>7, <1>8, <1>10, <3>1, ItemKept, r \in Nat, r >= 1
  <2>3. Len(s) + 1 = q
    BY ONLY <1>7, <2>1, l \in Nat
  <2>4. HoldsItem(info, q, v, y, r)
    BY <2>2, <2>3, Zenon
  <2>5. HoldsItem(c, 6 + q, v, y, r)
    <3>1. q + 1 + r <= Len(info) /\ q >= 1
      BY ONLY <1>11, <2>1, l \in Nat, r \in Nat, size = l + r + 4
    <3>2. HoldsItem(c, Len(h) + q, v, y, r)
      BY ONLY <1>9, <1>11, <1>12, <2>4, <3>1, ItemKept, q \in Nat, r \in Nat, r >= 1
    <3>3. QED BY <1>9, <3>2, Zenon
  <2>6. PICK o \in Nat : o = l + 9
    BY ONLY l \in Nat
  <2>7. o + 1 + r <= Len(c) /\ o >= 1 /\ 6 + q = o
    BY ONLY <1>13, <2>1, <2>6, l \in Nat, r \in Nat, size = l + r + 4
  <2>8. HoldsItem(c, o, v, y, r)
    BY <2>5, <2>7, Zenon
  <2>9. HoldsItem(b, o, v, y, r)
    BY ONLY <1>13, <1>14, <2>8, <2>7, ItemKeptBefore, o \in Nat, r \in Nat, r >= 1, raw \in Bytes
  <2>10. QED BY <2>6, <2>9, Zenon
<1>19. QED BY <1>15, <1>16, <1>17, <1>18, Zenon

(* The loop over two items stands at the first, at the second, and then at   *)
(* their end.                                                                *)
Passes(f, b, n) ==
  IF n = 0 THEN 7
  ELSE LET i == f[n - 1] IN IF i < MonitorEnd(b) THEN i + 2 + b[i + 1] ELSE i
PlaceAfter(n, l, r) == IF n = 0 THEN 7 ELSE IF n = 1 THEN l + 9 ELSE l + r + 11

(* The loop over the items passes the second after the first, and then the *)
(* end.                                                                    *)
LEMMA PlacePassed ==
  ASSUME NEW b, NEW l \in Nat, NEW r \in Nat, b[6] = l + r + 4, b[8] = l, b[l + 10] = r,
         NEW f, NEW n \in Nat, n > 0 => f[n - 1] = PlaceAfter(n - 1, l, r)
  PROVE  Passes(f, b, n) = PlaceAfter(n, l, r)
<1>1. PICK e \in Nat : e = l + r + 11
  BY ONLY l \in Nat, r \in Nat
<1>2. MonitorEnd(b) = e
  <2>1. MonitorEnd(b) = 7 + (l + r + 4)
    BY Zenon DEF MonitorEnd
  <2>2. QED BY ONLY <2>1, <1>1, l \in Nat, r \in Nat
<1>3. CASE n = 0
  BY <1>3, Zenon DEF Passes, PlaceAfter
<1>4. CASE n = 1
  <2>1. f[n - 1] = 7
    <3>1. n - 1 = 0 /\ n > 0
      BY ONLY <1>4
    <3>2. QED BY <3>1, Zenon DEF PlaceAfter
  <2>2. 7 < e /\ 7 + 1 = 8 /\ 7 + 2 + l = l + 9 /\ n # 0
    BY ONLY <1>1, <1>4, l \in Nat, r \in Nat
  <2>3. Passes(f, b, n) = 7 + 2 + b[8]
    BY <1>2, <2>1, <2>2, Zenon DEF Passes
  <2>4. PlaceAfter(n, l, r) = l + 9
    BY <1>4, <2>2, Zenon DEF PlaceAfter
  <2>5. QED BY <2>2, <2>3, <2>4, Zenon
<1>5. CASE n = 2
  <2>1. f[n - 1] = l + 9
    <3>1. n - 1 = 1 /\ n > 0 /\ 1 # 0
      BY ONLY <1>5
    <3>2. QED BY <3>1, Zenon DEF PlaceAfter
  <2>2. /\ l + 9 < e /\ l + 9 + 1 = l + 10 /\ l + 9 + 2 + r = l + r + 11 /\ n # 0 /\ n # 1
    BY ONLY <1>1, <1>5, l \in Nat, r \in Nat
  <2>3. Passes(f, b, n) = l + 9 + 2 + b[l + 10]
    BY <1>2, <2>1, <2>2, Zenon DEF Passes
  <2>4. PlaceAfter(n, l, r) = l + r + 11
    BY <2>2, Zenon DEF PlaceAfter
  <2>5. QED BY <2>2, <2>3, <2>4, Zenon
<1>6. CASE n > 2
  <2>1. n - 1 # 0 /\ n - 1 # 1 /\ n > 0 /\ n # 0 /\ n # 1 /\ ~(e < e)
    BY ONLY <1>1, <1>6, n \in Nat
  <2>2. f[n - 1] = e
    BY <1>1, <2>1, Zenon DEF PlaceAfter
  <2>3. Passes(f, b, n) = e
    BY <1>2, <2>1, <2>2, Zenon DEF Passes
  <2>4. PlaceAfter(n, l, r) = e
    BY <1>1, <2>1, Zenon DEF PlaceAfter
  <2>5. QED BY <2>3, <2>4, Zenon
<1>7. n = 0 \/ n = 1 \/ n = 2 \/ n > 2
  BY ONLY n \in Nat
<1>8. QED BY <1>3, <1>4, <1>5, <1>6, <1>7, Zenon

TwoLengths(b, l, r) == Len(b) \in Nat /\ b[6] = l + r + 4 /\ b[8] = l /\ b[l + 10] = r

Turn(b, l, r, f, n) ==
  /\ l \in Nat /\ r \in Nat /\ n \in Nat /\ TwoLengths(b, l, r)
  /\ n > 0 => f[n - 1] = PlaceAfter(n - 1, l, r)
Turned(b, l, r, f, n) == Passes(f, b, n) = PlaceAfter(n, l, r)

LEMMA TurnPassed ==
  ASSUME NEW b, NEW l, NEW r, NEW f, NEW n, Turn(b, l, r, f, n)
  PROVE  Turned(b, l, r, f, n)
<1>1. l \in Nat /\ r \in Nat /\ n \in Nat /\ (n > 0 => f[n - 1] = PlaceAfter(n - 1, l, r))
  BY Zenon DEF Turn
<1>2. b[6] = l + r + 4 /\ b[8] = l /\ b[l + 10] = r
  BY Zenon DEF Turn, TwoLengths
<1>3. Passes(f, b, n) = PlaceAfter(n, l, r)
  BY <1>1, <1>2, PlacePassed
<1>4. QED BY <1>3, Zenon DEF Turned

LEMMA PlacesPassed ==
  ASSUME NEW b, NEW l \in Nat, NEW r \in Nat, TwoLengths(b, l, r)
  PROVE  \A n \in 0 .. Len(b) : AfterItems(b)[n] = PlaceAfter(n, l, r)
<1>10. Len(b) \in Nat /\ b[6] = l + r + 4 /\ b[8] = l /\ b[l + 10] = r
  BY Zenon DEF TwoLengths
<1>0. PICK k \in Nat : k = Len(b)
  BY <1>10
<1> DEFINE Loop(f) == f = [n \in 0 .. k |-> Passes(f, b, n)]
<1>1. AfterItems(b) = CHOOSE f : Loop(f)
  BY <1>0, Zenon DEF AfterItems, Passes
<1>2. \E f : Loop(f)
  <2>1. PICK f : f = [n \in 0 .. k |-> PlaceAfter(n, l, r)]
    OBVIOUS
  <2>2. ASSUME NEW n \in 0 .. k PROVE Passes(f, b, n) = PlaceAfter(n, l, r)
    <3>1. n \in Nat /\ (n > 0 => n - 1 \in 0 .. k)
      BY ONLY <2>2, k \in Nat
    <3>2. n > 0 => f[n - 1] = PlaceAfter(n - 1, l, r)
      BY <2>1, <3>1, Zenon
    <3>3. n \in Nat
      BY <3>1
    <3>4. Turn(b, l, r, f, n)
      BY <3>2, <3>3, Zenon DEF Turn
    <3>5. Turned(b, l, r, f, n)
      BY ONLY <3>4, TurnPassed, Zenon
    <3>6. QED BY <3>5, Zenon DEF Turned
  <2>3. Loop(f)
    BY <2>1, <2>2, Zenon
  <2>4. QED BY <2>3, Zenon
<1>3. PICK f : f = AfterItems(b)
  OBVIOUS
<1>4. Loop(f)
  BY <1>1, <1>2, <1>3, Zenon
<1>5. \A n \in 0 .. k : f[n] = Passes(f, b, n)
  BY <1>4, Zenon
<1> HIDE DEF Loop
<1> DEFINE Bad == {n \in 0 .. k : f[n] # PlaceAfter(n, l, r)}
<1>6. Bad = {}
  <2> SUFFICES ASSUME Bad # {} PROVE FALSE
    OBVIOUS
  <2>1. PICK n \in Bad : \A m \in Bad : n <= m
    <3>1. Bad \subseteq Nat
      BY ONLY k \in Nat
    <3> HIDE DEF Bad
    <3>2. QED BY <3>1, LeastNumber, Zenon
  <2>2. n \in 0 .. k /\ f[n] # PlaceAfter(n, l, r)
    BY Zenon
  <2>3. n \in Nat /\ (n > 0 => n - 1 \in 0 .. k /\ ~(n <= n - 1))
    BY ONLY <2>2, k \in Nat
  <2>4. n > 0 => f[n - 1] = PlaceAfter(n - 1, l, r)
    BY <2>1, <2>3, Zenon
  <2>5. Passes(f, b, n) = PlaceAfter(n, l, r)
    <3>1. Turn(b, l, r, f, n)
      BY <2>3, <2>4, Zenon DEF Turn
    <3>2. Turned(b, l, r, f, n)
      BY ONLY <3>1, TurnPassed, Zenon
    <3>3. QED BY <3>2, Zenon DEF Turned
  <2>6. QED BY <1>5, <2>2, <2>5, Zenon
<1>7. QED BY <1>0, <1>3, <1>6, Zenon

(* So the first item of the types is the one there is of them.              *)
Found(b, types) ==
  {i \in {AfterItems(b)[n] : n \in 0 .. Len(b)} : i < MonitorEnd(b) /\ b[i] \in types}

(* Of two items, one has a type that is looked for.                        *)
LEMMA OneFound ==
  ASSUME NEW b, NEW types, NEW p \in Nat, Found(b, types) = {p},
         NEW w, NEW z, NEW n, HoldsItem(b, p, w, z, n)
  PROVE  FirstOf(b, types) = z
<1> DEFINE first == CHOOSE i \in Found(b, types) : \A j \in Found(b, types) : i <= j
<1>1. first = p
  <2>1. p <= p
    OBVIOUS
  <2>2. \E i \in Found(b, types) : \A j \in Found(b, types) : i <= j
    BY <2>1, Zenon
  <2>3. first \in Found(b, types)
    BY <2>2, Zenon
  <2>4. QED BY <2>3, Zenon
<1>2. Found(b, types) # {}
  BY Zenon
<1>3. FirstOf(b, types) = SubSeq(b, first + 2, first + 1 + b[first + 1])
  BY <1>2, Zenon DEF FirstOf, Found
<1> HIDE DEF first
<1>4. QED BY <1>1, <1>3, Zenon DEF HoldsItem

TwoItems(b, u, x, l, v, y, r) ==
  /\ Len(b) \in Nat /\ Len(b) >= 2 /\ l \in Nat /\ r \in Nat /\ l >= 1 /\ r >= 1
  /\ b[6] = l + r + 4 /\ HoldsItem(b, 7, u, x, l) /\ HoldsItem(b, l + 9, v, y, r)

LEMMA ItemFound ==
  ASSUME NEW b, NEW u, NEW x, NEW l, NEW v, NEW y, NEW r, TwoItems(b, u, x, l, v, y, r), NEW types
  PROVE  /\ u \in types /\ v \notin types => FirstOf(b, types) = x
         /\ v \in types /\ u \notin types => FirstOf(b, types) = y
<1> USE DEF TwoItems
<1>12. PICK k \in Nat : k = Len(b) /\ k >= 2
  OBVIOUS
<1>1. PICK p, e \in Nat : p = l + 9 /\ e = l + r + 11
  <2>1. l + 9 \in Nat /\ l + r + 11 \in Nat
    BY ONLY l \in Nat, r \in Nat
  <2>2. QED BY <2>1, Zenon
<1>2. MonitorEnd(b) = e
  <2>1. MonitorEnd(b) = 7 + (l + r + 4)
    BY Zenon DEF MonitorEnd
  <2>2. QED BY ONLY <2>1, <1>1, l \in Nat, r \in Nat
<1>3. b[7] = u /\ b[8] = l
  <2>1. 7 + 1 = 8
    OBVIOUS
  <2>2. QED BY <2>1, Zenon DEF HoldsItem
<1>4. b[p] = v /\ b[l + 10] = r
  <2>1. l + 9 + 1 = l + 10
    BY ONLY l \in Nat
  <2>2. QED BY <1>1, <2>1, Zenon DEF HoldsItem
<1>5. \A n \in 0 .. k : AfterItems(b)[n] = PlaceAfter(n, l, r)
  <2>1. \A n \in 0 .. Len(b) : AfterItems(b)[n] = PlaceAfter(n, l, r)
    <3>1. Len(b) \in Nat /\ b[8] = l /\ b[l + 10] = r /\ b[6] = l + r + 4
      BY <1>3, <1>4, <1>12, Zenon
    <3>2. TwoLengths(b, l, r)
      BY <3>1, Zenon DEF TwoLengths
    <3>3. QED BY <3>2, PlacesPassed, Zenon
  <2>2. QED BY <1>12, <2>1, Zenon
<1>6. {AfterItems(b)[n] : n \in 0 .. Len(b)} = {7, p, e}
  <2>1. \A n \in 0 .. k : AfterItems(b)[n] \in {7, p, e}
    BY <1>1, <1>5, Zenon DEF PlaceAfter
  <2>2. AfterItems(b)[0] = 7 /\ AfterItems(b)[1] = p /\ AfterItems(b)[2] = e
    <3>1. 0 \in 0 .. k /\ 1 \in 0 .. k /\ 2 \in 0 .. k /\ 1 # 0 /\ 2 # 0 /\ 2 # 1
      BY ONLY <1>12
    <3>2. QED BY <1>1, <1>5, <3>1, Zenon DEF PlaceAfter
  <2>3. 0 \in 0 .. k /\ 1 \in 0 .. k /\ 2 \in 0 .. k
    BY ONLY <1>12
  <2>4. QED BY <1>12, <2>1, <2>2, <2>3, Zenon
<1>7. 7 < e /\ p < e /\ ~(e < e) /\ 7 # p
  BY ONLY <1>1, l \in Nat, r \in Nat, l >= 1, r >= 1
<1>8. Found(b, types) = {i \in {7, p, e} : i < e /\ b[i] \in types}
  BY <1>2, <1>6, Zenon DEF Found
<1>9. ASSUME u \in types, v \notin types PROVE FirstOf(b, types) = x
  <2>1. Found(b, types) = {7}
    BY <1>3, <1>4, <1>7, <1>8, <1>9, Zenon
  <2>2. 7 \in Nat
    OBVIOUS
  <2>3. QED BY <2>1, <2>2, OneFound, Zenon
<1>10. ASSUME v \in types, u \notin types PROVE FirstOf(b, types) = y
  <2>1. Found(b, types) = {p}
    BY <1>3, <1>4, <1>7, <1>8, <1>10, Zenon
  <2>2. QED BY <1>1, <2>1, OneFound, Zenon
<1>11. QED BY <1>9, <1>10, Zenon

(* An indication has a status of one byte and a time stamp of two or four,   *)
(* in either order.                                                          *)
StatusItem(i) == i.type = 3 /\ i.data \in Bytes /\ Len(i.data) = 1
StampItem(i) == i.type \in {4, 6} /\ i.data \in Bytes /\ Len(i.data) \in {2, 4}
EitherWay(info, s, t) ==
  \/ info[1] = s /\ info[2] = t
  \/ info[1] = t /\ info[2] = s
Indicates(m, s, t) ==
  /\ m.kind = "monitor_indication" /\ m.channel \in Int /\ m.number \in Int
  /\ m.raw \in Bytes /\ Len(m.raw) >= 1 /\ Len(m.raw) < 900
  /\ StatusItem(s) /\ StampItem(t)
  /\ EitherWay(m.info, s, t)

LEMMA DataPicked ==
  ASSUME NEW info, NEW p, NEW q, EitherWay(info, p, q), NEW types, p.type \in types, q.type \notin types
  PROVE  DataOf(info, types) = p.data
<1>1. (CHOOSE item \in {info[1], info[2]} : item.type \in types) = p
  <2>1. p \in {info[1], info[2]}
    BY Zenon DEF EitherWay
  <2>2. \A item \in {info[1], info[2]} : item.type \in types => item = p
    BY Zenon DEF EitherWay
  <2>3. QED BY <2>1, <2>2, Zenon
<1>2. QED BY <1>1, Zenon DEF DataOf

LEMMA IndicationKept ==
  ASSUME NEW m, NEW s, NEW t, Indicates(m, s, t)
  PROVE  Kept(m) = [kind |-> m.kind, status |-> s.data, time |-> BigEndian(t.data), raw |-> m.raw]
<1>1. m.kind = "monitor_indication" /\ s.type = 3 /\ t.type \in {4, 6} /\ EitherWay(m.info, s, t)
  BY Zenon DEF Indicates, StatusItem, StampItem
<1>2. s.type \in {3} /\ t.type \notin {3} /\ t.type \in {4, 6} /\ s.type \notin {4, 6}
  BY <1>1

<1>8. PICK three, others : three = {3} /\ others = {4, 6}
  OBVIOUS
<1>9. s.type \in three /\ t.type \notin three /\ t.type \in others /\ s.type \notin others
  BY <1>2, <1>8, Zenon
<1>4. DataOf(m.info, {3}) = s.data
  <2>1. DataOf(m.info, three) = s.data
    BY <1>1, <1>9, DataPicked, Zenon
  <2>2. QED BY <1>8, <2>1, Zenon
<1>5. DataOf(m.info, {4, 6}) = t.data
  <2>1. EitherWay(m.info, t, s)
    BY <1>1, Zenon DEF EitherWay
  <2>2. DataOf(m.info, others) = t.data
    BY <1>9, <2>1, DataPicked, Zenon
  <2>3. QED BY <1>8, <2>2, Zenon
<1>6. Kept(m) = [kind |-> m.kind, status |-> DataOf(m.info, {3}),
                 time |-> BigEndian(DataOf(m.info, {4, 6})), raw |-> m.raw]
  <2>1. m.kind # "connect_request"
    BY <1>1
  <2>2. QED BY <1>1, <2>1 DEF Kept
<1>7. QED BY <1>4, <1>5, <1>6, Zenon

(* What is found of a body of the parts u, x and v, y.                       *)
IsIndication(b, u, x, v, y, channel, number, raw, status, time) ==
  /\ x \in Bytes /\ y \in Bytes /\ u \in Int /\ v \in Int
  /\ raw \in Bytes /\ Len(raw) >= 1 /\ channel \in Int /\ number \in Int
  /\ b = <<4, channel, number, 0, 43, Len((<<u, Len(x)>> \o x) \o (<<v, Len(y)>> \o y))>>
           \o ((<<u, Len(x)>> \o x) \o (<<v, Len(y)>> \o y)) \o raw
  /\ Len(x) >= 1 /\ Len(y) >= 1 /\ Len(x) + Len(y) \in {3, 5}
  /\ Len(status) \in {0, 1} /\ Len(time) \in {0, 2, 4}
  /\ \/ u \in {3} /\ v \in {4, 6} /\ status = x /\ time = y
     \/ u \in {4, 6} /\ v \in {3} /\ status = y /\ time = x

(* The status, the time and the raw frame of an indication are read as they*)
(* were sent.                                                              *)
LEMMA IndicationRead ==
  ASSUME NEW b, NEW u, NEW x, NEW v, NEW y, NEW channel, NEW number, NEW raw, NEW status, NEW time,
         IsIndication(b, u, x, v, y, channel, number, raw, status, time)
  PROVE  /\ b \in Bytes /\ Len(b) <= 15 + Len(raw)
         /\ MonitorOf(b) = [kind |-> "monitor_indication", status |-> status,
                            time |-> BigEndian(time), raw |-> raw]
<1> USE DEF IsIndication
<1>1. PICK l \in Nat : l = Len(x)
  BY LenProperties DEF Bytes
<1>2. PICK r \in Nat : r = Len(y)
  BY LenProperties DEF Bytes
<1>3. PICK k \in Nat : k = Len(raw)
  BY LenProperties DEF Bytes
<1>4. PICK size \in Nat : size = l + r + 4
  BY ONLY l \in Nat, r \in Nat
<1>5. PICK s, t, info : s = <<u, l>> \o x /\ t = <<v, r>> \o y /\ info = s \o t
  OBVIOUS
<1>6. l >= 1 /\ r >= 1 /\ l + r \in {3, 5} /\ k >= 1
  BY <1>1, <1>2, <1>3, Zenon
<1>7. Len(info) = size
  <2>1. s \in Bytes /\ Len(s) = 2 + l
    BY <1>1, <1>5, <1>6, ItemHeld, Zenon
  <2>2. t \in Bytes /\ Len(t) = 2 + r
    BY <1>2, <1>5, <1>6, ItemHeld, Zenon
  <2>3. Joins(info, s, t)
    BY <1>5, <2>1, <2>2, Joined, Zenon
  <2>4. Len(info) = Len(s) + Len(t)
    BY <2>3, Zenon DEF Joins
  <2>5. QED BY ONLY <1>4, <2>1, <2>2, <2>4, l \in Nat, r \in Nat
<1>8. b = <<4, channel, number, 0, 43, size>> \o ((<<u, l>> \o x) \o (<<v, r>> \o y)) \o raw
  BY <1>1, <1>2, <1>5, <1>7, Zenon
<1>9. /\ b \in Bytes /\ Len(b) = size + 6 + k /\ b[5] = 43 /\ b[6] = size
      /\ From(b, size + 7) = raw
      /\ HoldsItem(b, 7, u, x, l) /\ HoldsItem(b, l + 9, v, y, r)
  <2>1. IsPart(u, x, l) /\ IsPart(v, y, r)
    BY <1>1, <1>2, <1>6, Zenon DEF IsPart
  <2>2. IsRest(channel, number, raw, k)
    BY <1>3, <1>6, Zenon DEF IsRest
  <2>3. IsBody(b, u, x, l, v, y, r, channel, number, raw, k, size)
    BY ONLY <1>4, <1>8, <2>1, <2>2, size \in Nat, Zenon DEF IsBody
  <2>4. QED BY ONLY <2>3, MonitorParts, Zenon
<1>10. PICK n \in Nat : n = Len(b) /\ n >= 14
  <2>1. size + 6 + k \in Nat /\ size + 6 + k >= 14
    BY ONLY <1>4, <1>6, l \in Nat, r \in Nat, k \in Nat
  <2>2. QED BY <1>9, <2>1, Zenon
<1>11. \A types : /\ u \in types /\ v \notin types => FirstOf(b, types) = x
                  /\ v \in types /\ u \notin types => FirstOf(b, types) = y
  <2>1. n >= 2
    BY ONLY <1>10
  <2>2. TwoItems(b, u, x, l, v, y, r)
    BY <1>4, <1>6, <1>9, <1>10, <2>1, Zenon DEF TwoItems
  <2>3. QED BY ONLY <2>2, ItemFound, Zenon
<1>12. FirstOf(b, {3}) = status /\ FirstOf(b, {4, 6}) = time
  <2>1. \A w : w \in {4, 6} => w \notin {3}
    OBVIOUS
  <2>2. QED BY <1>11, <2>1, Zenon
<1>13. MonitorParses(b)
  <2>1. Len(b) >= 14
    BY <1>10, Zenon
  <2>2. size >= 7
    BY ONLY <1>4, <1>6, l \in Nat, r \in Nat
  <2>3. QED BY <1>9, <1>12, <2>1, <2>2, Zenon DEF MonitorParses
<1>14. From(b, MonitorEnd(b)) = raw
  <2>1. MonitorEnd(b) = 7 + size
    BY <1>9, Zenon DEF MonitorEnd
  <2>2. 7 + size = size + 7
    BY ONLY size \in Nat
  <2>3. QED BY <1>9, <2>1, <2>2, Zenon
<1>15. Len(b) <= 15 + Len(raw)
  <2>1. size + 6 + k <= 15 + k
    BY ONLY <1>4, <1>6, l \in Nat, r \in Nat, k \in Nat
  <2>2. QED BY <1>3, <1>9, <2>1, Zenon
<1>16. QED BY <1>9, <1>12, <1>13, <1>14, <1>15, Zenon DEF MonitorOf, ReadStatus, ReadTimestamp

LEMMA IndicationUnderstood ==
  ASSUME NEW m, NEW s, NEW t, Indicates(m, s, t)
  PROVE  Read(Filled(m), TRUE) = Kept(m)
<1>1. /\ m.kind = "monitor_indication" /\ m.channel \in Int /\ m.number \in Int
      /\ m.raw \in Bytes /\ Len(m.raw) >= 1 /\ Len(m.raw) < 900
      /\ s.type = 3 /\ s.data \in Bytes /\ Len(s.data) = 1
      /\ t.type \in {4, 6} /\ t.data \in Bytes /\ Len(t.data) \in {2, 4}
      /\ EitherWay(m.info, s, t)
  BY Zenon DEF Indicates, StatusItem, StampItem
<1>2. PICK i, j : i = m.info[1] /\ j = m.info[2]
  OBVIOUS
<1>3. PICK u, x : u = i.type /\ x = i.data
  OBVIOUS
<1>4. PICK v, y : v = j.type /\ y = j.data
  OBVIOUS
<1>5. PICK status, time : status = s.data /\ time = t.data
  OBVIOUS
<1>6. PICK b : b = Body(m)
  OBVIOUS
<1>7. Body(m) = MonitorBytes(m)
  BY <1>1 DEF Body
<1>8. b = <<4, m.channel, m.number, 0, 43, Len((<<u, Len(x)>> \o x) \o (<<v, Len(y)>> \o y))>>
            \o ((<<u, Len(x)>> \o x) \o (<<v, Len(y)>> \o y)) \o m.raw
  BY <1>2, <1>3, <1>4, <1>6, <1>7, Zenon DEF MonitorBytes, Item
<1>9. \/ u = 3 /\ x = status /\ v = t.type /\ y = time
      \/ v = 3 /\ y = status /\ u = t.type /\ x = time
  BY <1>1, <1>2, <1>3, <1>4, <1>5, Zenon DEF EitherWay
<1>10. PICK w \in Int : w = t.type
  BY <1>1
<1>11. PICK ls, lt : ls = Len(status) /\ lt = Len(time)
  OBVIOUS
<1>12. ls = 1 /\ lt \in {2, 4} /\ w \in {4, 6} /\ status \in Bytes /\ time \in Bytes
  BY <1>1, <1>5, <1>10, <1>11, Zenon
<1>13. /\ ls >= 1 /\ lt >= 1 /\ ls + lt \in {3, 5} /\ lt + ls \in {3, 5} /\ ls \in {0, 1}
       /\ lt \in {0, 2, 4} /\ 3 \in Int /\ 3 \in {3}
  BY ONLY <1>12
<1>14. x \in Bytes /\ y \in Bytes /\ u \in Int /\ v \in Int
  BY <1>9, <1>10, <1>12, <1>13, Zenon
<1>15. Len(x) >= 1 /\ Len(y) >= 1 /\ Len(x) + Len(y) \in {3, 5}
  BY <1>9, <1>11, <1>13, Zenon
<1>16. \/ u \in {3} /\ v \in {4, 6} /\ status = x /\ time = y
       \/ u \in {4, 6} /\ v \in {3} /\ status = y /\ time = x
  BY <1>9, <1>10, <1>12, <1>13, Zenon
<1>17. Len(status) \in {0, 1} /\ Len(time) \in {0, 2, 4}
  BY <1>11, <1>13, Zenon
<1>18. PICK raw, channel, number : raw = m.raw /\ channel = m.channel /\ number = m.number
  OBVIOUS
<1>19. raw \in Bytes /\ Len(raw) >= 1 /\ Len(raw) < 900 /\ channel \in Int /\ number \in Int
  BY <1>1, <1>18, Zenon
<1>20. b = <<4, channel, number, 0, 43, Len((<<u, Len(x)>> \o x) \o (<<v, Len(y)>> \o y))>>
            \o ((<<u, Len(x)>> \o x) \o (<<v, Len(y)>> \o y)) \o raw
  BY <1>8, <1>18, Zenon
<1>21. /\ b \in Bytes /\ Len(b) <= 15 + Len(raw)
       /\ MonitorOf(b) = [kind |-> "monitor_indication", status |-> status,
                          time |-> BigEndian(time), raw |-> raw]
  <2>1. IsIndication(b, u, x, v, y, channel, number, raw, status, time)
    BY <1>14, <1>15, <1>16, <1>17, <1>19, <1>20, Zenon DEF IsIndication
  <2>2. QED BY ONLY <2>1, IndicationRead, Zenon
<1>22. MonitorOf(b) = Kept(m)
  <2>1. Kept(m) = [kind |-> m.kind, status |-> s.data, time |-> BigEndian(t.data), raw |-> m.raw]
    BY IndicationKept, Zenon
  <2>2. QED BY <1>1, <1>5, <1>18, <1>21, <2>1, Zenon
<1>23. 6 + Len(b) \in Word
  <2>1. Len(b) \in Nat /\ Len(raw) \in Nat
    BY ONLY <1>19, <1>21, LenProperties DEF Bytes
  <2>2. QED BY ONLY <1>19, <1>21, <2>1, Numerals
<1>24. Filled(m) = Header("tunnelling_request", Len(b)) \o b
  BY <1>1, <1>6, Zenon DEF Filled
<1>25. "tunnelling_request" \in DOMAIN Services
  BY DEF Services
<1>26. QED BY <1>21, <1>22, <1>23, <1>24, <1>25, MessageRead, Zenon

-----------------------------------------------------------------------------
(* The groups and addresses of telegrams.                                   *)

TwoLevelTexts == [sep : {"/"}, parts : Below(32) \X Below(2048)]
Texts ==
  [sep : {"/"}, parts : Below(32) \X Below(8) \X Octet]
    \cup TwoLevelTexts
    \cup [sep : {"."}, parts : Below(16) \X Below(16) \X Octet]

LEMMA SeparatorsDiffer == "/" # "."
OBVIOUS

(* An address of the bytes high and low, as a reader of its word finds it.   *)
Address(high, low, group, levels) ==
  [high |-> high, low |-> low, group |-> group, levels |-> levels]

(* The two bytes of an address in text, and the text of two bytes.         *)
LEMMA BytesOfAddress ==
  ASSUME NEW high \in Octet, NEW low \in Octet, NEW group, NEW levels
  PROVE  /\ ToByteArray(Address(high, low, group, levels)) \in Word
         /\ AddressSet(ToByteArray(Address(high, low, group, levels)), group)
              = Address(high, low, group, 3)
<1>1. high \in Nat /\ high < 256 /\ low \in Nat /\ low < 256
  BY Numerals
<1>2. PICK a : a = Address(high, low, group, levels)
  OBVIOUS
<1>3. a.high = high /\ a.low = low
  BY <1>2 DEF Address
<1>4. PICK w \in Nat : w = 256 * high + low
  BY ONLY <1>1
<1>5. ToByteArray(a) = w
  <2>1. ToByteArray(a) = (high % 256) * 256 + (low % 256)
    BY <1>3, Zenon DEF ToByteArray
  <2>2. (high % 256) * 256 + (low % 256) = w
    BY ONLY <1>1, <1>4
  <2>3. QED BY <2>1, <2>2, Zenon
<1>6. w \div 256 = high /\ w % 256 = low
  BY ONLY <1>1, <1>4
<1>7. w \in Word
  BY ONLY <1>1, <1>4, Numerals
<1>8. AddressSet(w, group) = Address(high, low, group, 3)
  <2>1. AddressSet(w, group) = [high |-> w \div 256, low |-> w % 256, group |-> group, levels |-> 3]
    BY ONLY DEF AddressSet
  <2>2. PICK q, r : q = w \div 256 /\ r = w % 256
    OBVIOUS
  <2>3. AddressSet(w, group) = [high |-> q, low |-> r, group |-> group, levels |-> 3]
    BY <2>1, <2>2
  <2>4. q = high /\ r = low
    BY <1>6, <2>2, Zenon
  <2>5. QED BY <2>3, <2>4 DEF Address
<1>9. QED BY <1>2, <1>5, <1>7, <1>8, Zenon

LEMMA GroupText ==
  ASSUME NEW a \in Below(32), NEW b \in Below(8), NEW c \in Octet
  PROVE  /\ a * 8 + b \in Octet
         /\ ToText(Address(a * 8 + b, c, TRUE, 3)) = [sep |-> "/", parts |-> <<a, b, c>>]
<1>1. a \in Nat /\ a < 32 /\ b \in Nat /\ b < 8 /\ c \in Nat /\ c < 256
  BY Numerals DEF Below
<1>2. PICK high : high = a * 8 + b
  OBVIOUS
<1>3. /\ high \in Nat /\ high < 256 /\ (high \div 8) % 256 = a /\ high % 8 = b /\ c % 256 = c
  BY ONLY <1>1, <1>2
<1>4. high \in Octet
  BY ONLY <1>3, Numerals
<1>5. PICK e : e = Address(high, c, TRUE, 3)
  OBVIOUS
<1>6. e.high = high /\ e.low = c /\ e.group = TRUE /\ e.levels = 3
  BY <1>5 DEF Address
<1>7. e.group /\ e.levels # 2
  BY <1>6
<1>8. PICK x, y, z : x = (high \div 8) % 256 /\ y = high % 8 /\ z = c % 256
  OBVIOUS
<1>9. ToText(e) = [sep |-> "/", parts |-> <<x, y, z>>]
  BY <1>6, <1>7, <1>8, Zenon DEF ToText
<1>10. QED BY <1>2, <1>3, <1>4, <1>5, <1>8, <1>9, Zenon

LEMMA DeviceText ==
  ASSUME NEW a \in Below(16), NEW b \in Below(16), NEW c \in Octet
  PROVE  /\ a * 16 + b \in Octet
         /\ ToText(Address(a * 16 + b, c, FALSE, 3)) = [sep |-> ".", parts |-> <<a, b, c>>]
<1>1. a \in Nat /\ a < 16 /\ b \in Nat /\ b < 16 /\ c \in Nat /\ c < 256
  BY Numerals DEF Below
<1>2. PICK high : high = a * 16 + b
  OBVIOUS
<1>3. /\ high \in Nat /\ high < 256 /\ (high \div 16) % 16 = a /\ high % 16 = b /\ c % 256 = c
  BY ONLY <1>1, <1>2
<1>4. high \in Octet
  BY ONLY <1>3, Numerals
<1>5. PICK e : e = Address(high, c, FALSE, 3)
  OBVIOUS
<1>6. e.high = high /\ e.low = c /\ e.group = FALSE
  BY <1>5 DEF Address
<1>7. PICK x, y, z : x = (high \div 16) % 16 /\ y = high % 16 /\ z = c % 256
  OBVIOUS
<1>8. ToText(e) = [sep |-> ".", parts |-> <<x, y, z>>]
  BY <1>6, <1>7, Zenon DEF ToText
<1>9. QED BY <1>2, <1>3, <1>4, <1>5, <1>7, <1>8, Zenon

(* A text is kept, if it is read as the address of its bytes.                *)
IsKept(t, high, low, group, text) ==
  /\ high \in Octet /\ low \in Octet /\ group = (t.sep = "/")
  /\ \E levels : AddressOf(t) = Address(high, low, group, levels)
  /\ ToText(Address(high, low, group, 3)) = text /\ InLevels(t) = text

LEMMA ThreeLevels ==
  ASSUME NEW t \in [sep : {"/"}, parts : Below(32) \X Below(8) \X Octet]
  PROVE  \E high, low, text : IsKept(t, high, low, TRUE, text)
<1>1. PICK a \in Below(32), b \in Below(8), c \in Octet : t.sep = "/" /\ t.parts = <<a, b, c>>
  OBVIOUS
<1>2. PICK p : p = <<a, b, c>>
  OBVIOUS
<1>3. Len(p) = 3 /\ p[1] = a /\ p[2] = b /\ p[3] = c
  BY ONLY <1>2
<1>4. t = [sep |-> "/", parts |-> p]
  BY <1>1, <1>2
<1>5. b % 8 = b
  BY DEF Below
<1>6. 3 # 2
  OBVIOUS
<1>7. AddressOf(t) = Address(a * 8 + b, c, TRUE, 3)
  <2>1. t.sep = "/" /\ t.parts = p /\ t.sep # "."
    BY <1>1, <1>2, SeparatorsDiffer
  <2>2. (t.sep = "/") = TRUE
    BY <2>1
  <2>3. QED BY <1>3, <1>5, <1>6, <2>1, <2>2, Zenon DEF AddressOf, Address
<1>8. InLevels(t) = t
  BY <1>1, <1>2, <1>3, <1>6, Zenon DEF InLevels
<1>9. PICK high : high = a * 8 + b
  OBVIOUS
<1>10. high \in Octet /\ ToText(Address(high, c, TRUE, 3)) = t
  BY <1>2, <1>4, <1>9, GroupText, Zenon
<1>11. TRUE = (t.sep = "/")
  BY <1>1
<1>12. IsKept(t, high, c, TRUE, t)
  BY <1>7, <1>8, <1>9, <1>10, <1>11, Zenon DEF IsKept
<1>13. QED BY <1>12, Zenon

LEMMA TwoLevels ==
  ASSUME NEW t \in TwoLevelTexts
  PROVE  \E high, low, text : IsKept(t, high, low, TRUE, text)
<1>1. PICK a \in Below(32), q \in Nat : /\ t = [sep |-> "/", parts |-> <<a, q>>]
                                        /\ q \div 256 \in Below(8) /\ q % 256 \in Octet
  <2>1. PICK a \in Below(32), q \in Below(2048) : t.sep = "/" /\ t.parts = <<a, q>>
    BY DEF TwoLevelTexts
  <2>2. t = [sep |-> "/", parts |-> <<a, q>>]
    BY <2>1 DEF TwoLevelTexts
  <2>3. q \in Nat /\ q < 2048
    BY DEF Below
  <2>4. q \div 256 \in Nat /\ q \div 256 < 8 /\ q % 256 \in Nat /\ q % 256 < 256
    BY ONLY <2>3
  <2>5. q \div 256 \in Below(8) /\ q % 256 \in Octet
    BY <2>4 DEF Below, Octet
  <2>6. q \in Nat
    BY <2>3
  <2>7. QED BY <2>2, <2>5, <2>6
<1>3. PICK b, c : b = q \div 256 /\ c = q % 256
  OBVIOUS
<1>5. b \in Below(8) /\ c \in Octet
  BY <1>1, <1>3, Zenon
<1>6. PICK p : p = <<a, q>>
  BY Zenon
<1>7. Len(p) = 2 /\ p[1] = a /\ p[2] = q
  BY ONLY <1>6
<1>8. t = [sep |-> "/", parts |-> p] /\ t.sep = "/" /\ t.parts = p
  BY <1>1, <1>6
<1>9. 2 # 3
  OBVIOUS
<1>10. AddressOf(t) = Address(a * 8 + b, c, TRUE, 2)
  <2>1. t.sep = "/" /\ t.parts = p /\ t.sep # "."
    BY <1>8, SeparatorsDiffer
  <2>2. (t.sep = "/") = TRUE
    BY <2>1
  <2>3. Len(p) # 3
    BY <1>7, <1>9, Zenon
  <2>4. PICK x, y : x = t.sep /\ y = t.parts
    OBVIOUS
  <2>5. x = "/" /\ x # "." /\ (x = "/") = TRUE /\ y = p
    BY <2>1, <2>2, <2>4, Zenon
  <2>6. PICK high : high = p[1] * 8 + p[2] \div 256
    OBVIOUS
  <2>7. (CASE x = "." -> p[1] * 16 + (p[2] % 16)
           [] x = "/" /\ Len(p) = 3 -> p[1] * 8 + (p[2] % 8)
           [] x = "/" /\ Len(p) = 2 -> p[1] * 8 + p[2] \div 256) = high
    BY <1>7, <2>3, <2>5, <2>6, Zenon
  <2>8. AddressOf(t) = [high |-> high, low |-> p[2] % 256, group |-> x = "/", levels |-> 2]
    <3>1. PICK h : h = CASE x = "." -> y[1] * 16 + (y[2] % 16)
                         [] x = "/" /\ Len(y) = 3 -> y[1] * 8 + (y[2] % 8)
                         [] x = "/" /\ Len(y) = 2 -> y[1] * 8 + y[2] \div 256
      OBVIOUS
    <3>2. AddressOf(t) = [high |-> h, low |-> IF Len(y) = 2 THEN y[2] % 256 ELSE y[3],
                          group |-> x = "/", levels |-> Len(y)]
      BY <2>4, <3>1, Zenon DEF AddressOf
    <3>3. h = high
      BY <2>5, <2>7, <3>1, Zenon
    <3>4. (IF Len(y) = 2 THEN y[2] % 256 ELSE y[3]) = p[2] % 256
      BY <1>7, <2>5, Zenon
    <3>5. QED BY <1>7, <2>5, <3>2, <3>3, <3>4, Zenon
  <2>9. high = a * 8 + b /\ p[2] % 256 = c
    BY <1>3, <1>7, <2>6, Zenon
  <2>10. QED BY <2>5, <2>8, <2>9, Zenon DEF Address
<1>11. InLevels(t) = [sep |-> "/", parts |-> <<a, b, c>>]
  <2>1. PICK s : s = <<a, b, c>>
    BY Zenon
  <2>2. [t EXCEPT !.parts = s] = [sep |-> "/", parts |-> s]
    BY <1>8
  <2>3. t.parts = p /\ Len(t.parts) = 2
    BY <1>7, <1>8
  <2>4. s = <<t.parts[1], t.parts[2] \div 256, t.parts[2] % 256>>
    BY <1>3, <1>7, <2>1, <2>3, Zenon
  <2>5. InLevels(t) = [t EXCEPT !.parts = s]
    BY <2>3, <2>4 DEF InLevels
  <2>6. QED BY <2>1, <2>2, <2>5, Zenon
<1>12. PICK high : high = a * 8 + b
  OBVIOUS
<1>13. high \in Octet /\ ToText(Address(high, c, TRUE, 3)) = InLevels(t)
  BY <1>5, <1>11, <1>12, GroupText, Zenon
<1>14. TRUE = (t.sep = "/")
  BY <1>8
<1>15. IsKept(t, high, c, TRUE, InLevels(t))
  BY <1>5, <1>10, <1>12, <1>13, <1>14, Zenon DEF IsKept
<1>16. QED BY <1>15, Zenon

LEMMA DeviceLevels ==
  ASSUME NEW t \in [sep : {"."}, parts : Below(16) \X Below(16) \X Octet]
  PROVE  \E high, low, text : IsKept(t, high, low, FALSE, text)
<1>1. PICK a \in Below(16), b \in Below(16), c \in Octet : t.sep = "." /\ t.parts = <<a, b, c>>
  OBVIOUS
<1>2. PICK p : p = <<a, b, c>>
  OBVIOUS
<1>3. Len(p) = 3 /\ p[1] = a /\ p[2] = b /\ p[3] = c
  BY ONLY <1>2
<1>4. t = [sep |-> ".", parts |-> p]
  BY <1>1, <1>2
<1>5. b % 16 = b
  BY DEF Below
<1>6. 3 # 2
  OBVIOUS
<1>7. (t.sep = "/") = FALSE
  BY <1>1, SeparatorsDiffer
<1>8. AddressOf(t) = Address(a * 16 + b, c, FALSE, 3)
  <2>1. t.sep = "." /\ t.parts = p
    BY <1>1, <1>2
  <2>2. QED BY <1>3, <1>5, <1>6, <1>7, <2>1, Zenon DEF AddressOf, Address
<1>9. InLevels(t) = t
  BY <1>1, <1>2, <1>3, <1>6, Zenon DEF InLevels
<1>10. PICK high : high = a * 16 + b
  OBVIOUS
<1>11. high \in Octet /\ ToText(Address(high, c, FALSE, 3)) = t
  <2>1. /\ a * 16 + b \in Octet
        /\ ToText(Address(a * 16 + b, c, FALSE, 3)) = [sep |-> ".", parts |-> <<a, b, c>>]
    BY DeviceText
  <2>2. QED BY <1>2, <1>4, <1>10, <2>1, Zenon
<1>12. FALSE = (t.sep = "/")
  BY <1>7
<1>13. IsKept(t, high, c, FALSE, t)
  BY <1>8, <1>9, <1>10, <1>11, <1>12, Zenon DEF IsKept
<1>14. QED BY <1>13, Zenon

(* A group or device in text is the same after its way as a word.          *)
LEMMA TextKept ==
  ASSUME NEW t \in Texts
  PROVE  /\ ToByteArray(AddressOf(t)) \in Word
         /\ AddressOf(t).group \in BOOLEAN
         /\ AddressOf(t).group = (t.sep = "/")
         /\ ToText(AddressSet(ToByteArray(AddressOf(t)), AddressOf(t).group)) = InLevels(t)
<1>1. PICK high, low, group, text : IsKept(t, high, low, group, text) /\ group \in BOOLEAN
  <2>1. CASE t \in [sep : {"/"}, parts : Below(32) \X Below(8) \X Octet]
    BY <2>1, ThreeLevels, Zenon
  <2>2. CASE t \in TwoLevelTexts
    BY <2>2, TwoLevels, Zenon
  <2>3. CASE t \in [sep : {"."}, parts : Below(16) \X Below(16) \X Octet]
    BY <2>3, DeviceLevels, Zenon
  <2>4. QED BY <2>1, <2>2, <2>3, Zenon DEF Texts
<1>2. PICK levels : AddressOf(t) = Address(high, low, group, levels)
  BY <1>1, Zenon DEF IsKept
<1>3. AddressOf(t).group = group
  BY <1>2 DEF Address
<1>4. /\ high \in Octet /\ low \in Octet /\ group = (t.sep = "/")
      /\ ToText(Address(high, low, group, 3)) = InLevels(t)
  BY <1>1, Zenon DEF IsKept
<1>5. /\ ToByteArray(AddressOf(t)) \in Word
      /\ AddressSet(ToByteArray(AddressOf(t)), group) = Address(high, low, group, 3)
  <2>1. /\ ToByteArray(Address(high, low, group, levels)) \in Word
        /\ AddressSet(ToByteArray(Address(high, low, group, levels)), group) = Address(high, low, group, 3)
    BY <1>4, BytesOfAddress
  <2>2. QED BY <1>2, <2>1, Zenon
<1>6. QED BY <1>1, <1>3, <1>4, <1>5, Zenon

-----------------------------------------------------------------------------
(* The frames that the programs build.                                      *)

Loaded == {v \in Values : Len(v) >= 1}

LEMMA FrameParts ==
  ASSUME NEW f \in Frames
  PROVE  /\ f.mc \in Int /\ f.addil = 0 /\ f.ctrl1 \in Int /\ f.ctrl2 \in Int
         /\ f.saddr \in Word /\ f.daddr \in Word /\ f.tpci \in Int /\ f.value \in Values
BY DEF Frames

(* What the setters of a frame leave alone.                                *)
LEMMA PriorityTurned ==
  ASSUME NEW f \in Frames
  PROVE  /\ WithPriority(f, PriorityNormal) \in Frames
         /\ WithPriority(f, PriorityNormal).value = f.value
<1>1. PICK x \in Int : x = f.ctrl1 - 4 * ((f.ctrl1 \div 4) % 4) + 4
  <2>1. f.ctrl1 \in Int
    BY FrameParts
  <2>2. PICK c \in Int : c = f.ctrl1
    BY <2>1
  <2>3. c - 4 * ((c \div 4) % 4) + 4 \in Int
    OBVIOUS
  <2>4. QED BY <2>2, <2>3, Zenon
<1>2. WithPriority(f, PriorityNormal) = [f EXCEPT !.ctrl1 = x]
  BY <1>1, Zenon DEF WithPriority, PriorityNormal
<1>3. QED BY ONLY <1>2, f \in Frames, x \in Int DEF Frames

LEMMA FormatTurned ==
  ASSUME NEW f \in Frames
  PROVE  WithStandardFormat(f) \in Frames /\ WithStandardFormat(f).value = f.value
<1>1. f.ctrl1 \in Int /\ f.ctrl2 \in Int
  BY FrameParts
<1>2. PICK c \in Int : c = f.ctrl1
  BY <1>1
<1>3. PICK d \in Int : d = f.ctrl2
  BY <1>1
<1>4. PICK x \in Int : x = 128 + (c % 128)
  OBVIOUS
<1>5. PICK y \in Int : y = d - (d % 16)
  OBVIOUS
<1>6. WithStandardFormat(f) = [f EXCEPT !.ctrl1 = x, !.ctrl2 = y]
  BY <1>2, <1>3, <1>4, <1>5, Zenon DEF WithStandardFormat
<1>7. QED BY ONLY <1>6, f \in Frames, x \in Int, y \in Int DEF Frames

LEMMA SourceTurned ==
  ASSUME NEW f \in Frames, NEW a, ToByteArray(a) \in Word
  PROVE  /\ WithSource(f, a) \in Frames /\ WithSource(f, a).value = f.value
         /\ WithSource(f, a).daddr = f.daddr /\ WithSource(f, a).ctrl2 = f.ctrl2
<1>1. PICK x \in Word : x = ToByteArray(a)
  OBVIOUS
<1>2. WithSource(f, a) = [f EXCEPT !.saddr = x]
  BY <1>1, Zenon DEF WithSource
<1>3. QED BY ONLY <1>2, f \in Frames, x \in Word DEF Frames

(* The highest bit of the second control byte says that it is a group.       *)
LEMMA DestTurned ==
  ASSUME NEW f \in Frames, NEW a, ToByteArray(a) \in Word, a.group \in BOOLEAN
  PROVE  /\ WithDest(f, a) \in Frames /\ WithDest(f, a).value = f.value
         /\ WithDest(f, a).daddr = ToByteArray(a)
         /\ (Bit(WithDest(f, a).ctrl2, 128) = 1) = a.group
<1>1. PICK x \in Word : x = ToByteArray(a)
  OBVIOUS
<1>2. f.ctrl2 \in Int
  BY FrameParts
<1>3. PICK c \in Int : c = f.ctrl2
  BY <1>2
<1>4. PICK y \in Int : y = IF a.group THEN 128 + (c % 128) ELSE c % 128
  <2>1. 128 + (c % 128) \in Int /\ c % 128 \in Int
    OBVIOUS
  <2>2. QED BY <2>1
<1>5. WithDest(f, a) = [f EXCEPT !.daddr = x, !.ctrl2 = y]
  BY <1>1, <1>3, <1>4, Zenon DEF WithDest
<1>6. (Bit(y, 128) = 1) = a.group
  <2>1. CASE a.group = TRUE
    <3>1. y = 128 + (c % 128)
      BY <1>4, <2>1
    <3>2. (y \div 128) % 2 = 1
      BY ONLY <3>1, c \in Int
    <3>3. QED BY <2>1, <3>2, Zenon DEF Bit
  <2>2. CASE a.group = FALSE
    <3>1. y = c % 128
      BY <1>4, <2>2
    <3>2. (y \div 128) % 2 # 1
      BY ONLY <3>1, c \in Int
    <3>3. QED BY <2>2, <3>2, Zenon DEF Bit
  <2>3. QED BY <2>1, <2>2
<1>7. /\ WithDest(f, a) \in Frames /\ WithDest(f, a).value = f.value
      /\ WithDest(f, a).daddr = x /\ WithDest(f, a).ctrl2 = y
  BY ONLY <1>5, f \in Frames, x \in Word, y \in Int DEF Frames
<1>8. QED BY <1>1, <1>6, <1>7, Zenon

(* Of a frame to w, what the receiver takes for its address.                 *)
Towards(f, w, group, value) ==
  f \in Frames /\ f.value = value /\ f.daddr = w /\ DestOf(f) = AddressSet(w, group)

LEMMA Towards1 ==
  ASSUME NEW f \in Frames, NEW a, ToByteArray(a) \in Word, a.group \in BOOLEAN, NEW value,
         f.daddr = ToByteArray(a), (Bit(f.ctrl2, 128) = 1) = a.group, f.value = value
  PROVE  Towards(f, ToByteArray(a), a.group, value)
BY Zenon DEF Towards, DestOf

LEMMA NoSource == ToByteArray(NoAddress) \in Word
<1>1. 0 \in Word
  BY Numerals
<1>2. QED BY <1>1, AddressKept, Zenon DEF NoAddress

(* The frame of a command goes to its group with its value, whatever the   *)
(* object was before.                                                      *)
LEMMA CommandBuilt ==
  ASSUME NEW object \in Frames, NEW a, ToByteArray(a) \in Word, a.group \in BOOLEAN,
         NEW value \in Values
  PROVE  Towards(CommandFrame(object, a, value), ToByteArray(a), a.group, value)
<1>1. PICK c : c = [object EXCEPT !.mc = LDataReq, !.addil = 0, !.ctrl1 = 0, !.ctrl2 = 6]
  OBVIOUS
<1>2. c \in Frames
  <2>1. PICK mc \in Int : mc = LDataReq
    BY DEF LDataReq
  <2>2. c = [object EXCEPT !.mc = mc, !.addil = 0, !.ctrl1 = 0, !.ctrl2 = 6]
    BY <1>1, <2>1, Zenon
  <2>3. PICK d : d = [object EXCEPT !.mc = mc, !.addil = 0]
    OBVIOUS
  <2>4. d \in Frames
    BY ONLY <2>3, object \in Frames, mc \in Int DEF Frames
  <2>5. PICK x \in Int, y \in Int : x = 0 /\ y = 6
    OBVIOUS
  <2>9. PICK e : e = [d EXCEPT !.ctrl1 = x, !.ctrl2 = y]
    OBVIOUS
  <2>6. e \in Frames
    BY ONLY <2>4, <2>9, x \in Int, y \in Int DEF Frames
  <2>7. c = e
    BY ONLY <2>2, <2>3, <2>5, <2>9, object \in Frames DEF Frames
  <2>8. QED BY <2>6, <2>7
<1>3. PICK s \in Frames : s = WithStandardFormat(WithPriority(c, PriorityNormal))
  BY <1>2, PriorityTurned, FormatTurned, Zenon
<1>4. PICK d \in Frames : d = WithSource(s, NoAddress)
  BY NoSource, SourceTurned, Zenon
<1>5. PICK e \in Frames : /\ e = WithDest(d, a)
                          /\ e.daddr = ToByteArray(a) /\ (Bit(e.ctrl2, 128) = 1) = a.group
  BY DestTurned, Zenon
<1>6. PICK g : g = [e EXCEPT !.value = value]
  OBVIOUS
<1>7. g = CommandFrame(object, a, value)
  BY <1>1, <1>3, <1>4, <1>5, <1>6, Zenon DEF CommandFrame
<1>8. g \in Frames /\ g.value = value /\ g.daddr = e.daddr /\ g.ctrl2 = e.ctrl2
  BY ONLY <1>6, e \in Frames, value \in Values DEF Frames
<1>9. QED BY <1>5, <1>7, <1>8, Towards1, Zenon

(* So does a frame that the constructor makes.                             *)
LEMMA NewFrameBuilt ==
  ASSUME NEW mc \in Int, NEW src, NEW dst, ToByteArray(src) \in Word, ToByteArray(dst) \in Word,
         dst.group \in BOOLEAN, NEW value \in Values
  PROVE  Towards(NewFrame(mc, src, dst, value), ToByteArray(dst), dst.group, value)
<1>1. PICK c : c = [EmptyFrame EXCEPT !.mc = mc, !.ctrl2 = 96, !.value = value]
  OBVIOUS
<1>2. c = [mc |-> mc, addil |-> 0, ctrl1 |-> 0, ctrl2 |-> 96, saddr |-> 0, daddr |-> 0,
           tpci |-> 0, value |-> value]
  <2>1. PICK none : none = <<>>
    OBVIOUS
  <2>2. EmptyFrame = [mc |-> 0, addil |-> 0, ctrl1 |-> 0, ctrl2 |-> 0, saddr |-> 0, daddr |-> 0,
                      tpci |-> 0, value |-> none]
    BY <2>1, Zenon DEF EmptyFrame
  <2>3. QED BY ONLY <1>1, <2>2
<1>3. c \in Frames /\ c.value = value
  <2>1. 0 \in Word
    BY Numerals
  <2>2. QED BY <1>2, <2>1 DEF Frames
<1>4. PICK s \in Frames : s = WithStandardFormat(WithPriority(c, PriorityNormal)) /\ s.value = value
  <2>1. PICK p \in Frames : p = WithPriority(c, PriorityNormal) /\ p.value = value
    BY <1>3, PriorityTurned, Zenon
  <2>2. QED BY <2>1, FormatTurned, Zenon
<1>5. PICK e \in Frames : /\ e = WithDest(s, dst) /\ e.value = value
                          /\ e.daddr = ToByteArray(dst) /\ (Bit(e.ctrl2, 128) = 1) = dst.group
  BY <1>4, DestTurned, Zenon
<1>6. PICK g \in Frames : /\ g = WithSource(e, src) /\ g.value = value
                          /\ g.daddr = e.daddr /\ g.ctrl2 = e.ctrl2
  BY <1>5, SourceTurned, Zenon
<1>7. g = NewFrame(mc, src, dst, value)
  BY <1>1, <1>4, <1>5, <1>6, Zenon DEF NewFrame
<1>8. Towards(g, ToByteArray(dst), dst.group, value)
  <2>1. g.daddr = ToByteArray(dst) /\ (Bit(g.ctrl2, 128) = 1) = dst.group /\ g.value = value
    BY <1>5, <1>6, Zenon
  <2>2. QED BY <2>1, Towards1, Zenon
<1>9. QED BY <1>7, <1>8, Zenon

-----------------------------------------------------------------------------
(* The values of the constants.                                             *)

LEMMA OctetsAreInts == Octet \subseteq Int /\ Octet \ {0} \subseteq Int
BY Numerals

(* The constants, in terms of the lemmas above.                            *)
LEMMA TextsTyped ==
  ASSUME NEW t \in KnxTexts
  PROVE  t \in Texts
BY KnxAssumption DEF Texts, TwoLevelTexts

LEMMA OctetsAreBytes ==
  ASSUME NEW S, S \subseteq Int, NEW v \in Seq(S)
  PROVE  v \in Bytes
BY SeqMonotonic DEF Bytes

LEMMA ValuesTyped ==
  ASSUME NEW v \in KnxValues
  PROVE  v \in Loaded
<1>1. v \in Seq(Octet) /\ Len(v) \in Octet \ {0}
  BY KnxAssumption
<1>2. v \in Bytes
  BY <1>1, OctetsAreInts, OctetsAreBytes
<1>3. Len(v) < 256 /\ Len(v) >= 1
  <2>1. PICK n : n = Len(v)
    OBVIOUS
  <2>2. n \in Octet /\ n # 0
    BY <1>1, <2>1
  <2>3. n \in Int /\ 0 <= n /\ n <= 255
    BY <2>2, Numerals
  <2>4. n < 256 /\ n >= 1
    BY ONLY <2>2, <2>3
  <2>5. QED BY <2>1, <2>4, Zenon
<1>4. QED BY <1>2, <1>3 DEF Loaded, Values

LEMMA EndpointsTyped ==
  ASSUME NEW e \in KnxEndpoints
  PROVE  e \in Endpoints
<1>1. e \in [ip : Seq(Octet), port : Word] /\ Len(e.ip) = 4
  BY KnxAssumption
<1>2. e.ip \in Seq(Octet) /\ e.port \in Word /\ e = [ip |-> e.ip, port |-> e.port]
  BY <1>1
<1>3. e.ip \in Bytes
  BY <1>2, OctetsAreInts, OctetsAreBytes
<1>4. QED BY <1>1, <1>2, <1>3 DEF Endpoints

LEMMA NamesTyped ==
  ASSUME NEW name \in KnxNames
  PROVE  name \in Names
<1>1. name \in Seq(Octet \ {0}) /\ Len(name) < 30
  BY KnxAssumption
<1>2. name \in Bytes
  BY <1>1, OctetsAreInts, OctetsAreBytes
<1>3. \A i \in 1 .. Len(name) : name[i] # 0
  <2>1. \A i \in 1 .. Len(name) : name[i] \in Octet \ {0}
    BY <1>1, ElementOfSeq
  <2>2. QED BY <2>1
<1>4. QED BY <1>1, <1>2, <1>3 DEF Names

LEMMA DevicesTyped ==
  ASSUME NEW d \in KnxDevices
  PROVE  d \in Devices
<1>1. PICK serial : serial = <<0, 1, 2, 3, 4, 255>>
  BY Zenon
<1>2. PICK group : group = <<224, 0, 23, 12>>
  BY Zenon
<1>3. PICK mac : mac = <<0, 0, 0, 0, 0, 1>>
  BY Zenon
<1>4. serial \in Bytes /\ Len(serial) = 6
  BY ONLY <1>1 DEF Bytes
<1>5. group \in Bytes /\ Len(group) = 4
  BY ONLY <1>2 DEF Bytes
<1>6. mac \in Bytes /\ Len(mac) = 6
  BY ONLY <1>3 DEF Bytes
<1>7. PICK w \in Word : w = DeviceWord
  BY Numerals DEF DeviceWord
<1>8. d \in [address : {AddressSet(w, FALSE)}, serial : {serial}, group : {group}, mac : {mac},
             name : KnxNames, services : KnxServices]
  BY <1>1, <1>2, <1>3, <1>7, Zenon DEF KnxDevices
<1>9. d.name \in Names /\ d.services \in Below(16)
  <2>1. d.name \in KnxNames /\ d.services \in KnxServices
    BY <1>8
  <2>2. KnxServices \subseteq Below(16)
    BY KnxAssumption, Zenon
  <2>3. QED BY <2>1, <2>2, NamesTyped
<1>10. /\ d = [address |-> d.address, serial |-> d.serial, group |-> d.group, mac |-> d.mac,
               name |-> d.name, services |-> d.services]
       /\ d.address = AddressSet(w, FALSE) /\ d.serial = serial /\ d.group = group /\ d.mac = mac
  BY <1>8
<1>11. QED BY <1>4, <1>5, <1>6, <1>9, <1>10 DEF Devices

-----------------------------------------------------------------------------
(* Every message of the model is read as it was meant.                      *)

(* The messages around the telegrams.                                      *)
LEMMA MessageMeant ==
  ASSUME NEW m \in KnxMessages
  PROVE  Read(Filled(m), FALSE) = Kept(m)
<1> DEFINE Good == Understood(m) /\ m.kind # "monitor_indication"
<1>1. CASE m \in [kind : {"search_request", "description_request"}, at : KnxEndpoints]
  <2>1. /\ m = [kind |-> m.kind, at |-> m.at] /\ m.at \in KnxEndpoints
        /\ m.kind \in {"search_request", "description_request"} /\ m.kind # "monitor_indication"
    BY <1>1
  <2>2. QED BY <2>1, EndpointsTyped, RequestUnderstood, UnderstoodIsRead
<1>2. CASE m \in [kind : {"search_response"}, at : KnxEndpoints, device : KnxDevices]
  <2>1. /\ m = [kind |-> "search_response", at |-> m.at, device |-> m.device] /\ m.at \in KnxEndpoints
        /\ m.device \in KnxDevices /\ m.kind # "monitor_indication"
    BY <1>2
  <2>2. QED BY <2>1, EndpointsTyped, DevicesTyped, SearchResponseUnderstood, UnderstoodIsRead
<1>3. CASE m \in [kind : {"connect_request"}, at : KnxEndpoints, option : {2, 128}]
  <2>1. /\ m = [kind |-> "connect_request", at |-> m.at, option |-> m.option] /\ m.at \in KnxEndpoints
        /\ m.option \in Int /\ m.kind # "monitor_indication"
    BY <1>3
  <2>2. QED BY <2>1, EndpointsTyped, ConnectRequestUnderstood, UnderstoodIsRead
<1>4. CASE m \in [kind : {"connect_response", "state_request", "disconnect_request"},
                  channel : Numbers, at : KnxEndpoints]
  <2>1. /\ m = [kind |-> m.kind, channel |-> m.channel, at |-> m.at] /\ m.at \in KnxEndpoints
        /\ m.channel \in Int /\ m.kind # "monitor_indication"
        /\ m.kind = "connect_response" \/ m.kind \in {"state_request", "disconnect_request"}
    BY <1>4 DEF Numbers
  <2>2. QED BY <2>1, EndpointsTyped, ConnectResponseUnderstood, ChannelRequestUnderstood, UnderstoodIsRead
<1>5. CASE m \in [kind : {"state_response", "disconnect_response"}, channel : Numbers, status : {0, 33}]
  <2>1. /\ m = [kind |-> m.kind, channel |-> m.channel, status |-> m.status]
        /\ m.channel \in Int /\ m.status \in Int /\ m.kind # "monitor_indication"
        /\ m.kind \in {"state_response", "disconnect_response"}
    BY <1>5 DEF Numbers
  <2>2. QED BY <2>1, ResponseUnderstood, UnderstoodIsRead
<1>6. CASE m \in [kind : {"tunnelling_ack"}, channel : Numbers, number : Numbers, status : {0, 33}]
  <2>1. /\ m = [kind |-> "tunnelling_ack", channel |-> m.channel, number |-> m.number, status |-> m.status]
        /\ m.channel \in Int /\ m.number \in Int /\ m.status \in Int /\ m.kind # "monitor_indication"
    BY <1>6 DEF Numbers
  <2>2. QED BY <2>1, AckUnderstood, UnderstoodIsRead
<1>7. QED BY <1>1, <1>2, <1>3, <1>4, <1>5, <1>6, Zenon DEF KnxMessages

(* The indications of the bus monitor.                                     *)
LEMMA MonitoredMeant ==
  ASSUME NEW m \in KnxMonitored
  PROVE  Read(Filled(m), TRUE) = Kept(m)
<1>1. PICK one, two : one = <<161>> /\ two = <<1, 2>>
  BY Zenon
<1>2. PICK four, last : four = <<0, 1, 2, 3>> /\ last = <<7>>
  BY Zenon
<1>3. PICK short, long : short = <<188>> /\ long = <<188, 17>>
  BY Zenon
<1>4. /\ one \in Bytes /\ Len(one) = 1 /\ two \in Bytes /\ Len(two) = 2
  BY ONLY <1>1 DEF Bytes
<1>5. /\ four \in Bytes /\ Len(four) = 4 /\ last \in Bytes /\ Len(last) = 1
  BY ONLY <1>2 DEF Bytes
<1>6. /\ short \in Bytes /\ Len(short) = 1 /\ long \in Bytes /\ Len(long) = 2
  BY ONLY <1>3 DEF Bytes
<1>7. PICK s1, t1 : s1 = [type |-> 3, data |-> one] /\ t1 = [type |-> 4, data |-> two]
  BY Zenon
<1>8. PICK s2, t2 : s2 = [type |-> 3, data |-> last] /\ t2 = [type |-> 6, data |-> four]
  BY Zenon
<1>9. StatusItem(s1) /\ StampItem(t1)
  BY ONLY <1>4, <1>7 DEF StatusItem, StampItem
<1>10. StatusItem(s2) /\ StampItem(t2)
  BY ONLY <1>5, <1>8 DEF StatusItem, StampItem
<1>11. PICK i1, i2 : i1 = <<s1, t1>> /\ i2 = <<t2, s2>>
  BY Zenon
<1>12. EitherWay(i1, s1, t1) /\ EitherWay(i2, s2, t2)
  <2>1. i1[1] = s1 /\ i1[2] = t1 /\ i2[1] = t2 /\ i2[2] = s2
    BY ONLY <1>11
  <2>2. QED BY <2>1, Zenon DEF EitherWay
<1>13. m \in [kind : {"monitor_indication"}, channel : {255}, number : {0}, raw : {short, long},
              info : {i1, i2}]
  BY <1>1, <1>2, <1>3, <1>7, <1>8, <1>11, Zenon DEF KnxMonitored
<1>14. /\ m.kind = "monitor_indication" /\ m.channel \in Int /\ m.number \in Int
       /\ m.raw \in {short, long} /\ m.info \in {i1, i2}
  BY <1>13
<1>15. m.raw \in Bytes /\ Len(m.raw) >= 1 /\ Len(m.raw) < 900
  <2>1. PICK n \in Int : n \in {1, 2} /\ Len(m.raw) = n /\ m.raw \in Bytes
    <3>1. 1 \in Int /\ 2 \in Int /\ 1 \in {1, 2} /\ 2 \in {1, 2}
      OBVIOUS
    <3>2. QED BY <1>6, <1>14, <3>1, Zenon
  <2>2. n >= 1 /\ n < 900
    BY <2>1
  <2>3. QED BY <2>1, <2>2, Zenon
<1>16. \E s, t : Indicates(m, s, t)
  BY <1>9, <1>10, <1>12, <1>14, <1>15, Zenon DEF Indicates
<1>17. QED BY <1>16, IndicationUnderstood, Zenon

-----------------------------------------------------------------------------
(* What is under way, and what its sender meant by it.                      *)

Cargo == {f \in Frames : f.value \in Loaded}
Delivered(channel, number, f) ==
  Filled([kind |-> "tunnelling_request", channel |-> channel, number |-> number, frame |-> f])
Deliveries ==
  {Delivered(d.channel, d.number, d.frame) : d \in [channel : Int, number : Int, frame : Cargo]}

MessageWire(w) ==
  \E bytes :
    \/ w = [kind |-> "message", bytes |-> bytes, meant |-> Read(bytes, FALSE)]
    \/ w = [kind |-> "monitored", bytes |-> bytes, meant |-> Read(bytes, TRUE)]
CommandWire(w) ==
  \E to \in Word, group \in BOOLEAN, value \in Loaded :
    w = [kind |-> "command", logical |-> group, function |-> to, value |-> value,
         meant |-> Telegram(ToText(AddressSet(to, group)), value)]
RelayedWire(w) ==
  \E f \in Cargo : w = [kind |-> "relayed", bytes |-> FrameBytes(f), meant |-> f]
DeviceWire(w) ==
  \E bytes, f :
    /\ f \in Cargo /\ Read(bytes, FALSE).frame = f
    /\ \/ w = [kind |-> "to_device", from |-> "command", bytes |-> bytes, meant |-> TelegramOf(f)]
       \/ w = [kind |-> "to_device", from |-> "relayed", bytes |-> bytes, meant |-> f]
ServerWire(w) ==
  \E queue \in Seq(Deliveries) : queue # <<>> /\ w = [kind |-> "to_server", queue |-> queue]
StatusWire(w) ==
  \E f \in Cargo, queue \in Seq(Deliveries) :
    w = [kind |-> "status", logical |-> DestOf(f).group, function |-> Htons(ToByteArray(DestOf(f))),
         value |-> f.value, queue |-> queue, meant |-> TelegramOf(f)]
RawWire(w) ==
  \E f \in Cargo, queue \in Seq(Deliveries) :
    w = [kind |-> "raw_status", bytes |-> FrameBytes(f), queue |-> queue, meant |-> f]

WireMeans(w) ==
  \/ w = Nothing \/ MessageWire(w) \/ CommandWire(w) \/ RelayedWire(w) \/ DeviceWire(w)
  \/ ServerWire(w) \/ StatusWire(w) \/ RawWire(w)

Groups == {ToByteArray(a) : a \in KnxGroups}
Entries == [value : Loaded, phy : Word]
KnxInv ==
  /\ knxMsg \in Frames /\ knxDb \in [Groups -> Entries]
  /\ knxTrip.read = knxTrip.meant /\ WireMeans(knxWire)

(* The kind of a message says what is known of it.                         *)
LEMMA WireKinds ==
  ASSUME NEW w
  PROVE  /\ w = Nothing => w.kind = "nothing"
         /\ MessageWire(w) => w.kind \in {"message", "monitored"}
         /\ CommandWire(w) => w.kind = "command"
         /\ RelayedWire(w) => w.kind = "relayed"
         /\ DeviceWire(w) => w.kind = "to_device"
         /\ ServerWire(w) => w.kind = "to_server"
         /\ StatusWire(w) => w.kind = "status"
         /\ RawWire(w) => w.kind = "raw_status"
<1>1. w = Nothing => w.kind = "nothing"
  BY DEF Nothing
<1>2. MessageWire(w) => w.kind \in {"message", "monitored"}
  <2> SUFFICES ASSUME MessageWire(w) PROVE w.kind \in {"message", "monitored"}
    OBVIOUS
  <2>1. PICK bytes, x, y :
          \/ w = [kind |-> "message", bytes |-> bytes, meant |-> x]
          \/ w = [kind |-> "monitored", bytes |-> bytes, meant |-> y]
    BY Zenon DEF MessageWire
  <2>2. QED BY <2>1
<1>3. CommandWire(w) => w.kind = "command"
  BY DEF CommandWire
<1>4. RelayedWire(w) => w.kind = "relayed"
  BY DEF RelayedWire
<1>5. DeviceWire(w) => w.kind = "to_device"
  BY DEF DeviceWire
<1>6. ServerWire(w) => w.kind = "to_server"
  BY DEF ServerWire
<1>7. StatusWire(w) => w.kind = "status"
  BY DEF StatusWire
<1>8. RawWire(w) => w.kind = "raw_status"
  BY DEF RawWire
<1>9. QED BY <1>1, <1>2, <1>3, <1>4, <1>5, <1>6, <1>7, <1>8, Zenon

LEMMA WireOfKind ==
  ASSUME NEW w, WireMeans(w)
  PROVE  /\ w.kind \in {"message", "monitored"} => MessageWire(w)
         /\ w.kind = "command" => CommandWire(w)
         /\ w.kind = "relayed" => RelayedWire(w)
         /\ w.kind = "to_device" => DeviceWire(w)
         /\ w.kind = "to_server" => ServerWire(w)
         /\ w.kind = "status" => StatusWire(w)
         /\ w.kind = "raw_status" => RawWire(w)
<1>1. PICK k : k = w.kind
  OBVIOUS
<1>2. /\ w = Nothing => k = "nothing"
      /\ MessageWire(w) => k = "message" \/ k = "monitored"
      /\ CommandWire(w) => k = "command"
      /\ RelayedWire(w) => k = "relayed"
      /\ DeviceWire(w) => k = "to_device"
      /\ ServerWire(w) => k = "to_server"
      /\ StatusWire(w) => k = "status"
      /\ RawWire(w) => k = "raw_status"
  BY <1>1, WireKinds, Zenon
<1>3. \/ w = Nothing \/ MessageWire(w) \/ CommandWire(w) \/ RelayedWire(w) \/ DeviceWire(w)
      \/ ServerWire(w) \/ StatusWire(w) \/ RawWire(w)
  BY Zenon DEF WireMeans
<1>4. (k = "message" \/ k = "monitored") => MessageWire(w)
  BY <1>2, <1>3
<1>5. k = "command" => CommandWire(w)
  BY <1>2, <1>3
<1>6. k = "relayed" => RelayedWire(w)
  BY <1>2, <1>3
<1>7. k = "to_device" => DeviceWire(w)
  BY <1>2, <1>3
<1>8. k = "to_server" => ServerWire(w)
  BY <1>2, <1>3
<1>9. k = "status" => StatusWire(w)
  BY <1>2, <1>3
<1>10. k = "raw_status" => RawWire(w)
  BY <1>2, <1>3
<1>11. QED BY <1>1, <1>4, <1>5, <1>6, <1>7, <1>8, <1>9, <1>10, Zenon

(* The parts of a frame that is under way.                                 *)
LEMMA CargoParts ==
  ASSUME NEW f \in Cargo
  PROVE  f \in Frames /\ f.value \in Loaded /\ f.value \in Values /\ f.daddr \in Word
         /\ ToByteArray(DestOf(f)) = f.daddr /\ DestOf(f).group \in BOOLEAN
         /\ DestOf(f) = AddressSet(f.daddr, DestOf(f).group)
<1>1. f \in Frames /\ f.value \in Loaded /\ f.value \in Values /\ f.daddr \in Word
  BY FrameParts DEF Cargo, Loaded
<1>2. PICK g \in BOOLEAN : g = (Bit(f.ctrl2, 128) = 1)
  BY Zenon
<1>3. DestOf(f) = AddressSet(f.daddr, g)
  BY <1>2, Zenon DEF DestOf
<1>4. AddressSet(f.daddr, g).group = g
  BY DEF AddressSet
<1>5. DestOf(f).group = g
  BY <1>3, <1>4, Zenon
<1>6. QED BY <1>1, <1>3, <1>5, AddressKept, Zenon

(* A frame within a tunnelling request, and within a routing indication.     *)
LEMMA FrameDelivered ==
  ASSUME NEW channel \in Int, NEW number \in Int, NEW f \in Cargo
  PROVE  Read(Delivered(channel, number, f), FALSE).frame = f
<1>1. PICK m : m = [kind |-> "tunnelling_request", channel |-> channel, number |-> number, frame |-> f]
  OBVIOUS
<1>2. f \in Frames
  BY DEF Cargo
<1>3. Understood(m)
  BY <1>1, <1>2, TunnelRequestUnderstood
<1>4. m.kind = "tunnelling_request" /\ m.frame = f
  BY <1>1
<1>5. Kept(m) = m /\ m.kind # "monitor_indication"
  BY <1>4 DEF Kept
<1>6. QED BY <1>1, <1>3, <1>4, <1>5, UnderstoodIsRead, Zenon DEF Delivered

(* And a frame within a routing indication.                                *)
LEMMA FrameIndicated ==
  ASSUME NEW f \in Cargo
  PROVE  Read(Filled([kind |-> "routing_indication", frame |-> f]), FALSE).frame = f
<1>1. PICK m : m = [kind |-> "routing_indication", frame |-> f]
  OBVIOUS
<1>2. f \in Frames
  BY DEF Cargo
<1>3. Understood(m)
  BY <1>1, <1>2, RoutingUnderstood
<1>4. m.kind = "routing_indication" /\ m.frame = f
  BY <1>1
<1>5. Kept(m) = m /\ m.kind # "monitor_indication"
  BY <1>4 DEF Kept
<1>6. QED BY <1>1, <1>3, <1>4, <1>5, UnderstoodIsRead, Zenon

-----------------------------------------------------------------------------
(* The invariant holds at first.                                            *)

LEMMA FirstEntry == <<128>> \in Loaded /\ 4353 \in Word
<1>1. PICK v : v = <<128>>
  BY Zenon
<1>2. v \in Bytes /\ Len(v) = 1
  BY ONLY <1>1 DEF Bytes
<1>3. 4353 \in Word
  BY Numerals
<1>4. v \in Loaded
  BY <1>2 DEF Loaded, Values
<1>5. QED BY <1>1, <1>3, <1>4

LEMMA EmptyFrameTyped == EmptyFrame \in Frames
<1>1. PICK none : none = <<>>
  OBVIOUS
<1>2. EmptyFrame = [mc |-> 0, addil |-> 0, ctrl1 |-> 0, ctrl2 |-> 0, saddr |-> 0, daddr |-> 0,
                    tpci |-> 0, value |-> none]
  BY <1>1, Zenon DEF EmptyFrame
<1>3. none \in Values
  <2>1. none \in Bytes /\ Len(none) = 0
    BY <1>1, EmptySeq DEF Bytes
  <2>2. QED BY <2>1 DEF Values
<1>4. 0 \in Word
  BY Numerals
<1>5. QED BY <1>2, <1>3, <1>4 DEF Frames

LEMMA KnxInvInit == KnxInit => KnxInv
<1> SUFFICES ASSUME KnxInit PROVE KnxInv
  OBVIOUS
<1>1. knxMsg \in Frames
  BY EmptyFrameTyped, Zenon DEF KnxInit
<1>2. knxDb \in [Groups -> Entries]
  <2>1. PICK v : v = <<128>>
    BY Zenon
  <2>6. PICK p \in Word : p = 4353
    BY FirstEntry
  <2>2. v \in Loaded /\ p \in Word
    BY <2>1, FirstEntry
  <2>3. PICK e : e = [value |-> v, phy |-> p]
    OBVIOUS
  <2>4. e \in Entries
    BY <2>2, <2>3 DEF Entries
  <2>5. knxDb = [w \in Groups |-> e]
    BY <2>1, <2>3, <2>6 DEF KnxInit, Groups
  <2>7. QED BY <2>4, <2>5
<1>3. knxTrip.read = knxTrip.meant
  BY DEF KnxInit
<1>4. WireMeans(knxWire)
  BY Zenon DEF KnxInit, WireMeans
<1>5. QED BY <1>1, <1>2, <1>3, <1>4 DEF KnxInv

-----------------------------------------------------------------------------
(* One lemma for each action.                                               *)

(* To send something that means what it should keeps the invariant.        *)
LEMMA KeptBySending ==
  ASSUME KnxInv, NEW wire, KnxSends(wire), WireMeans(wire), UNCHANGED <<knxMsg, knxDb, knxTrip>>
  PROVE  KnxInv'
BY DEF KnxInv, KnxSends

LEMMA KnxSendsMessageKeeps ==
  ASSUME KnxInv, KnxSendsMessage
  PROVE  KnxInv'
<1>1. PICK m \in KnxMessages \cup KnxMonitored :
        KnxSends([kind |-> IF m \in KnxMonitored THEN "monitored" ELSE "message",
                  bytes |-> Filled(m), meant |-> Kept(m)])
  BY DEF KnxSendsMessage
<1>2. PICK wire : wire = [kind |-> IF m \in KnxMonitored THEN "monitored" ELSE "message",
                          bytes |-> Filled(m), meant |-> Kept(m)]
  OBVIOUS
<1>3. MessageWire(wire)
  <2>1. CASE m \in KnxMonitored
    <3>1. wire = [kind |-> "monitored", bytes |-> Filled(m), meant |-> Kept(m)]
      BY <1>2, <2>1, Zenon
    <3>2. Read(Filled(m), TRUE) = Kept(m)
      BY <2>1, MonitoredMeant, Zenon
    <3>3. QED BY <3>1, <3>2, Zenon DEF MessageWire
  <2>2. CASE m \notin KnxMonitored
    <3>1. wire = [kind |-> "message", bytes |-> Filled(m), meant |-> Kept(m)]
      BY <1>2, <2>2, Zenon
    <3>2. Read(Filled(m), FALSE) = Kept(m)
      BY <1>1, <2>2, MessageMeant, Zenon
    <3>3. QED BY <3>1, <3>2, Zenon DEF MessageWire
  <2>3. QED BY <2>1, <2>2
<1>4. WireMeans(wire)
  BY <1>3, Zenon DEF WireMeans
<1>5. KnxSends(wire) /\ UNCHANGED <<knxMsg, knxDb, knxTrip>>
  BY <1>1, <1>2, Zenon DEF KnxSendsMessage
<1>6. QED BY <1>4, <1>5, KeptBySending, Zenon

LEMMA KnxReadsMessageKeeps ==
  ASSUME KnxInv, KnxReadsMessage
  PROVE  KnxInv'
<1>1. /\ knxWire.kind \in {"message", "monitored"}
      /\ Arrives(Read(knxWire.bytes, knxWire.kind = "monitored"))
      /\ knxWire' = Nothing /\ UNCHANGED <<knxMsg, knxDb, knxSent>>
  BY DEF KnxReadsMessage
<1>2. MessageWire(knxWire)
  BY <1>1, WireOfKind, Zenon DEF KnxInv
<1>3. Read(knxWire.bytes, knxWire.kind = "monitored") = knxWire.meant
  <2>1. PICK bytes, x, y :
          /\ x = Read(bytes, FALSE) /\ y = Read(bytes, TRUE)
          /\ \/ knxWire = [kind |-> "message", bytes |-> bytes, meant |-> x]
             \/ knxWire = [kind |-> "monitored", bytes |-> bytes, meant |-> y]
    BY <1>2, Zenon DEF MessageWire
  <2>2. CASE knxWire = [kind |-> "message", bytes |-> bytes, meant |-> x]
    <3>1. knxWire.kind # "monitored" /\ knxWire.bytes = bytes /\ knxWire.meant = x
      BY <2>2
    <3>2. (knxWire.kind = "monitored") = FALSE
      BY <3>1
    <3>3. QED BY <2>1, <3>1, <3>2, Zenon
  <2>3. CASE knxWire = [kind |-> "monitored", bytes |-> bytes, meant |-> y]
    <3>1. knxWire.kind = "monitored" /\ knxWire.bytes = bytes /\ knxWire.meant = y
      BY <2>3
    <3>2. (knxWire.kind = "monitored") = TRUE
      BY <3>1
    <3>3. QED BY <2>1, <3>1, <3>2, Zenon
  <2>4. QED BY <2>1, <2>2, <2>3
<1>4. knxTrip'.read = knxTrip'.meant
  <2>1. knxTrip' = [meant |-> knxWire.meant, read |-> knxWire.meant]
    BY <1>1, <1>3, Zenon DEF Arrives
  <2>2. QED BY <2>1
<1>5. WireMeans(knxWire')
  BY <1>1, Zenon DEF WireMeans
<1>6. QED BY <1>1, <1>4, <1>5 DEF KnxInv

LEMMA KnxProgramCommandsKeeps ==
  ASSUME KnxInv, KnxProgramCommands
  PROVE  KnxInv'
<1>1. PICK t \in KnxTexts, v \in KnxValues :
        KnxSends([kind |-> "command", logical |-> AddressOf(t).group,
                  function |-> ToByteArray(AddressOf(t)), value |-> v, meant |-> Telegram(InLevels(t), v)])
  BY Zenon DEF KnxProgramCommands
<1>2. PICK to, group : to = ToByteArray(AddressOf(t)) /\ group = AddressOf(t).group
  BY Zenon
<1>3. PICK wire : wire = [kind |-> "command", logical |-> group, function |-> to, value |-> v,
                          meant |-> Telegram(InLevels(t), v)]
  BY Zenon
<1>4. to \in Word /\ group \in BOOLEAN /\ ToText(AddressSet(to, group)) = InLevels(t)
  BY <1>2, TextsTyped, TextKept, Zenon
<1>5. CommandWire(wire)
  BY <1>3, <1>4, ValuesTyped, Zenon DEF CommandWire
<1>6. WireMeans(wire)
  BY <1>5, Zenon DEF WireMeans
<1>7. KnxSends(wire) /\ UNCHANGED <<knxMsg, knxDb, knxTrip>>
  BY <1>1, <1>2, <1>3, Zenon DEF KnxProgramCommands
<1>8. QED BY <1>6, <1>7, KeptBySending, Zenon

(* The frames that others build.                                           *)
LEMMA ForeignTyped ==
  ASSUME NEW mc \in Int, NEW f \in KnxForeignFrames(mc)
  PROVE  f \in Cargo
<1>1. PICK t \in KnxTexts, v \in KnxValues, p \in KnxTpcis :
        f = [NewFrame(mc, NoAddress, AddressOf(t), v) EXCEPT !.tpci = p]
  BY DEF KnxForeignFrames
<1>2. PICK g : g = NewFrame(mc, NoAddress, AddressOf(t), v)
  OBVIOUS
<1>3. v \in Loaded /\ v \in Values
  BY ValuesTyped DEF Loaded
<1>4. g \in Frames /\ g.value = v
  <2>1. ToByteArray(AddressOf(t)) \in Word /\ AddressOf(t).group \in BOOLEAN
    BY TextsTyped, TextKept, Zenon
  <2>2. Towards(NewFrame(mc, NoAddress, AddressOf(t), v), ToByteArray(AddressOf(t)), AddressOf(t).group, v)
    BY <1>3, <2>1, NoSource, NewFrameBuilt, Zenon
  <2>3. QED BY <1>2, <2>2, Zenon DEF Towards
<1>5. p \in Int
  BY KnxAssumption, OctetsAreInts
<1>6. f = [g EXCEPT !.tpci = p]
  BY <1>1, <1>2, Zenon
<1>7. f \in Frames /\ f.value = g.value
  BY ONLY <1>4, <1>5, <1>6 DEF Frames
<1>8. QED BY <1>3, <1>4, <1>7 DEF Cargo

LEMMA KnxRelayCommandsKeeps ==
  ASSUME KnxInv, KnxRelayCommands
  PROVE  KnxInv'
<1>1. PICK f \in KnxForeignFrames(LDataReq) :
        KnxSends([kind |-> "relayed", bytes |-> FrameBytes(f), meant |-> f])
  BY DEF KnxRelayCommands
<1>2. f \in Cargo
  <2>1. LDataReq \in Int
    BY DEF LDataReq
  <2>2. QED BY <2>1, ForeignTyped
<1>3. PICK wire : wire = [kind |-> "relayed", bytes |-> FrameBytes(f), meant |-> f]
  OBVIOUS
<1>4. WireMeans(wire)
  BY <1>2, <1>3, Zenon DEF WireMeans, RelayedWire
<1>5. KnxSends(wire) /\ UNCHANGED <<knxMsg, knxDb, knxTrip>>
  BY <1>1, <1>3, Zenon DEF KnxRelayCommands
<1>6. QED BY <1>4, <1>5, KeptBySending, Zenon

(* What the server forwards is the frame f, meant as the program meant it.   *)
LEMMA ServerTakes ==
  ASSUME KnxInv, NEW f \in Cargo, KnxServerTakes(f), UNCHANGED <<knxDb, knxTrip>>,
         \/ knxWire.kind = "command" /\ knxWire.meant = TelegramOf(f)
         \/ knxWire.kind = "relayed" /\ knxWire.meant = f
  PROVE  KnxInv'
<1>1. PICK m \in {[kind |-> "tunnelling_request", channel |-> 1, number |-> 0, frame |-> f],
                  [kind |-> "routing_indication", frame |-> f]} :
        knxWire' = [kind |-> "to_device", from |-> knxWire.kind, bytes |-> Filled(m),
                    meant |-> knxWire.meant]
  BY DEF KnxServerTakes
<1>2. PICK bytes : bytes = Filled(m)
  OBVIOUS
<1>3. Read(bytes, FALSE).frame = f
  <2>1. 0 \in Int /\ 1 \in Int
    OBVIOUS
  <2>2. Read(Delivered(1, 0, f), FALSE).frame = f
    BY <2>1, FrameDelivered, Zenon
  <2>3. QED BY <1>1, <1>2, <2>2, FrameIndicated, Zenon DEF Delivered
<1>4. DeviceWire(knxWire')
  <2>1. CASE knxWire.kind = "command" /\ knxWire.meant = TelegramOf(f)
    <3>1. knxWire' = [kind |-> "to_device", from |-> "command", bytes |-> bytes, meant |-> TelegramOf(f)]
      BY <1>1, <1>2, <2>1, Zenon
    <3>2. QED BY <1>3, <3>1, Zenon DEF DeviceWire
  <2>2. CASE knxWire.kind = "relayed" /\ knxWire.meant = f
    <3>1. knxWire' = [kind |-> "to_device", from |-> "relayed", bytes |-> bytes, meant |-> f]
      BY <1>1, <1>2, <2>2, Zenon
    <3>2. QED BY <1>3, <3>1, Zenon DEF DeviceWire
  <2>3. QED BY <2>1, <2>2
<1>5. WireMeans(knxWire')
  BY <1>4, Zenon DEF WireMeans
<1>6. knxMsg' \in Frames
  BY CargoParts, Zenon DEF KnxServerTakes
<1>7. QED BY <1>5, <1>6, Zenon DEF KnxInv

LEMMA KnxServerForwardsKeeps ==
  ASSUME KnxInv, KnxServerForwards
  PROVE  KnxInv'
<1>0. UNCHANGED <<knxDb, knxTrip>>
  BY DEF KnxServerForwards
<1>1. CASE /\ knxWire.kind = "command"
           /\ KnxServerTakes(CommandFrame(knxMsg, AddressSet(knxWire.function, knxWire.logical),
                                          knxWire.value))
  <2>1. CommandWire(knxWire) /\ knxMsg \in Frames
    BY <1>1, WireOfKind, Zenon DEF KnxInv
  <2>2. PICK to \in Word, group \in BOOLEAN, value \in Loaded :
          knxWire = [kind |-> "command", logical |-> group, function |-> to, value |-> value,
                     meant |-> Telegram(ToText(AddressSet(to, group)), value)]
    BY <2>1, Zenon DEF CommandWire
  <2>3. PICK a, telegram : a = AddressSet(to, group) /\ telegram = Telegram(ToText(a), value)
    BY Zenon
  <2>4. knxWire = [kind |-> "command", logical |-> group, function |-> to, value |-> value,
                   meant |-> telegram]
    BY <2>2, <2>3, Zenon
  <2>5. /\ knxWire.logical = group /\ knxWire.function = to /\ knxWire.value = value
        /\ knxWire.meant = telegram
    BY ONLY <2>4
  <2>6. PICK f : f = CommandFrame(knxMsg, a, value)
    BY Zenon
  <2>7. Towards(f, to, group, value)
    <3>1. ToByteArray(a) = to
      BY <2>3, AddressKept, Zenon
    <3>2. a.group = group
      BY <2>3 DEF AddressSet
    <3>3. value \in Values
      BY DEF Loaded
    <3>4. Towards(CommandFrame(knxMsg, a, value), ToByteArray(a), a.group, value)
      BY <2>1, <3>1, <3>2, <3>3, CommandBuilt, Zenon
    <3>5. QED BY <2>6, <3>1, <3>2, <3>4, Zenon
  <2>8. f \in Cargo /\ TelegramOf(f) = telegram
    BY <2>3, <2>7, Zenon DEF Towards, Cargo, TelegramOf
  <2>9. KnxServerTakes(f)
    BY <1>1, <2>3, <2>5, <2>6, Zenon
  <2>10. QED BY <1>0, <1>1, <2>5, <2>8, <2>9, ServerTakes, Zenon
<1>2. CASE knxWire.kind = "relayed" /\ KnxServerTakes(FrameOf(knxWire.bytes))
  <2>1. RelayedWire(knxWire)
    BY <1>2, WireOfKind, Zenon DEF KnxInv
  <2>2. PICK f \in Cargo : knxWire = [kind |-> "relayed", bytes |-> FrameBytes(f), meant |-> f]
    BY <2>1, Zenon DEF RelayedWire
  <2>3. PICK bytes : bytes = FrameBytes(f)
    BY Zenon
  <2>4. knxWire.bytes = bytes /\ knxWire.meant = f
    BY <2>2, <2>3
  <2>5. FrameOf(bytes) = f
    BY <2>3, CargoParts, FrameRead, Zenon
  <2>6. KnxServerTakes(f)
    BY <1>2, <2>4, <2>5, Zenon
  <2>7. QED BY <1>0, <1>2, <2>4, <2>6, ServerTakes, Zenon
<1>3. QED BY <1>1, <1>2 DEF KnxServerForwards

LEMMA FunctionIsSeq ==
  ASSUME NEW S, NEW n \in Nat, NEW s \in [1 .. n -> S]
  PROVE  s \in Seq(S) /\ Len(s) = n
<1>1. s \in Seq(S)
  OBVIOUS
<1>2. Len(s) = n
  OBVIOUS
<1>3. QED BY <1>1, <1>2

LEMMA IsDelivery ==
  ASSUME NEW channel \in Int, NEW number \in Int, NEW f \in Cargo
  PROVE  Delivered(channel, number, f) \in Deliveries
<1>1. PICK d : d = [channel |-> channel, number |-> number, frame |-> f]
  OBVIOUS
<1>2. /\ d \in [channel : Int, number : Int, frame : Cargo]
      /\ d.channel = channel /\ d.number = number /\ d.frame = f
  BY <1>1
<1>3. QED BY <1>2, Zenon DEF Deliveries

(* The emulator's queue is of frames that the server can read.              *)
LEMMA AnswersQueued ==
  ASSUME NEW n \in Nat, n >= 1, NEW answers, \A i \in 1 .. n : answers[i] \in Cargo,
         NEW queue, queue = [i \in 1 .. n |-> Delivered(1, i, answers[i])]
  PROVE  queue \in Seq(Deliveries) /\ queue # <<>>
<1>1. \A i \in 1 .. n : Delivered(1, i, answers[i]) \in Deliveries
  <2>1. 1 \in Int /\ \A i \in 1 .. n : i \in Int
    OBVIOUS
  <2>2. QED BY <2>1, IsDelivery, Zenon
<1>2. queue \in [1 .. n -> Deliveries]
  BY <1>1
<1>3. queue \in Seq(Deliveries) /\ Len(queue) = n
  BY <1>2, FunctionIsSeq
<1>4. queue # <<>>
  BY <1>3, EmptySeq
<1>5. QED BY <1>3, <1>4

LEMMA DeliveryRead ==
  ASSUME NEW b \in Deliveries
  PROVE  Read(b, FALSE).frame \in Cargo
<1>1. PICK d \in [channel : Int, number : Int, frame : Cargo] :
        b = Delivered(d.channel, d.number, d.frame)
  BY Zenon DEF Deliveries
<1>2. d.channel \in Int /\ d.number \in Int /\ d.frame \in Cargo
  OBVIOUS
<1>3. QED BY <1>1, <1>2, FrameDelivered, Zenon

LEMMA LoadedParts ==
  ASSUME NEW v \in Loaded
  PROVE  v \in Bytes /\ Len(v) \in Nat /\ Len(v) >= 1 /\ Len(v) < 256 /\ v[1] \in Int /\ v # <<>>
<1>1. v \in Bytes /\ Len(v) >= 1 /\ Len(v) < 256
  BY DEF Loaded, Values
<1>2. Len(v) \in Nat
  BY <1>1, LenProperties DEF Bytes
<1>3. v[1] \in Int
  <2>1. 1 \in 1 .. Len(v)
    BY <1>1, <1>2
  <2>2. QED BY <1>1, <2>1, ElementOfSeq DEF Bytes
<1>4. v # <<>>
  BY <1>1, EmptySeq
<1>5. QED BY <1>1, <1>2, <1>3, <1>4

(* What the emulator stores has the length of what it was given.           *)
LEMMA ValueStored ==
  ASSUME NEW v \in Loaded
  PROVE  Stored(v) \in Loaded
<1>1. v \in Bytes /\ Len(v) \in Nat /\ Len(v) >= 1 /\ Len(v) < 256 /\ v[1] \in Int /\ v # <<>>
  BY LoadedParts
<1>2. PICK n \in Nat : n = Len(v) /\ n >= 1 /\ n < 256
  BY <1>1
<1>3. PICK x \in Int : x = v[1]
  BY <1>1
<1>4. PICK h : h = <<x>>
  BY Zenon
<1>5. h \in Bytes /\ Len(h) = 1
  BY ONLY <1>4, x \in Int DEF Bytes
<1>6. PICK z : z = Zeros(7)
  BY Zenon
<1>7. z \in Bytes /\ Len(z) = 7
  BY <1>6 DEF Zeros, Bytes
<1>8. PICK t : t = Tail(v)
  BY Zenon
<1>9. t \in Bytes /\ Len(t) = n - 1
  BY <1>1, <1>2, <1>8, HeadTailProperties DEF Bytes
<1>10. PICK c, s : c = h \o z /\ s = c \o t
  BY Zenon
<1>11. c \in Bytes /\ Len(c) = 8
  <2>1. c \in Bytes /\ Len(c) = Len(h) + Len(z)
    BY <1>5, <1>7, <1>10, ConcatProperties, Zenon DEF Bytes
  <2>2. QED BY <1>5, <1>7, <2>1
<1>12. s \in Bytes /\ Len(s) = n + 7
  <2>1. s \in Bytes /\ Len(s) = Len(c) + Len(t)
    BY <1>9, <1>10, <1>11, ConcatProperties, Zenon DEF Bytes
  <2>2. QED BY <1>9, <1>11, <2>1
<1>13. PICK r : r = SubSeq(s, 1, n)
  BY Zenon
<1>14. r \in Bytes /\ Len(r) = n
  <2>1. \A i \in 1 .. n : s[i] \in Int
    <3>1. \A i \in 1 .. n : i \in 1 .. Len(s)
      BY <1>12
    <3>2. QED BY <1>12, <3>1, ElementOfSeq DEF Bytes
  <2>2. QED BY <1>2, <1>13, <2>1, SubSeqProperties DEF Bytes
<1>15. Stored(v) = v \/ Stored(v) = r
  BY <1>2, <1>3, <1>4, <1>6, <1>8, <1>10, <1>13, Zenon DEF Stored
<1>16. r \in Loaded
  BY <1>2, <1>14 DEF Loaded, Values
<1>17. QED BY <1>15, <1>16

(* The two answers of the emulator are frames that can be read.            *)
LEMMA ResponseBuilt ==
  ASSUME knxDb \in [Groups -> Entries], NEW f \in Cargo, f.daddr \in DOMAIN knxDb
  PROVE  Response(f) \in Cargo
<1>1. PICK e : e = knxDb[f.daddr]
  OBVIOUS
<1>2. e \in Entries
  BY <1>1
<1>3. e.value \in Loaded /\ e.phy \in Word
  BY <1>2 DEF Entries
<1>4. PICK v \in Loaded : v = e.value
  BY <1>3
<1>5. v \in Bytes /\ Len(v) \in Nat /\ Len(v) >= 1 /\ Len(v) < 256 /\ v[1] \in Int
  BY LoadedParts
<1>6. PICK x \in Int : x = IF Bit(v[1], 64) = 1 THEN v[1] ELSE v[1] + 64
  <2>1. v[1] + 64 \in Int
    BY <1>5
  <2>2. QED BY <1>5, <2>1
<1>7. PICK r : r = [v EXCEPT ![1] = x]
  BY Zenon
<1>8. r \in Loaded
  <2>1. 1 \in 1 .. Len(v)
    BY <1>5
  <2>2. r \in Bytes /\ Len(r) = Len(v)
    BY <1>5, <1>7, <2>1, ExceptSeq DEF Bytes
  <2>3. QED BY <1>5, <2>2 DEF Loaded, Values
<1>9. PICK src : src = AddressSet(e.phy, FALSE)
  BY Zenon
<1>10. ToByteArray(src) \in Word
  BY <1>3, <1>9, AddressKept, Zenon
<1>11. PICK mc \in Int : mc = LDataInd
  BY DEF LDataInd
<1>12. Response(f) = NewFrame(mc, src, DestOf(f), r)
  BY <1>1, <1>4, <1>6, <1>7, <1>9, <1>11, Zenon DEF Response
<1>13. ToByteArray(DestOf(f)) \in Word /\ DestOf(f).group \in BOOLEAN
  BY CargoParts, Zenon
<1>14. r \in Values
  BY <1>8 DEF Loaded
<1>15. Towards(NewFrame(mc, src, DestOf(f), r), ToByteArray(DestOf(f)), DestOf(f).group, r)
  BY <1>10, <1>13, <1>14, NewFrameBuilt, Zenon
<1>16. QED BY <1>8, <1>12, <1>15, Zenon DEF Towards, Cargo

LEMMA ConfirmationBuilt ==
  ASSUME NEW f \in Cargo, NEW source, ToByteArray(source) \in Word
  PROVE  WithSource(WithDest([f EXCEPT !.mc = LDataCon], DestOf(f)), source) \in Cargo
<1>1. /\ f \in Frames /\ f.value \in Loaded
      /\ ToByteArray(DestOf(f)) \in Word /\ DestOf(f).group \in BOOLEAN
  BY CargoParts, Zenon
<1>2. PICK mc \in Int : mc = LDataCon
  BY DEF LDataCon
<1>3. PICK g : g = [f EXCEPT !.mc = mc]
  BY Zenon
<1>4. g \in Frames /\ g.value = f.value
  BY ONLY <1>1, <1>3, mc \in Int DEF Frames
<1>5. PICK h \in Frames : h = WithDest(g, DestOf(f)) /\ h.value = f.value
  <2>1. WithDest(g, DestOf(f)) \in Frames /\ WithDest(g, DestOf(f)).value = g.value
    BY <1>1, <1>4, DestTurned, Zenon
  <2>2. QED BY <1>4, <2>1, Zenon
<1>6. PICK k \in Frames : k = WithSource(h, source) /\ k.value = f.value
  BY <1>5, SourceTurned, Zenon
<1>7. k \in Cargo
  BY <1>1, <1>6, Zenon DEF Cargo
<1>8. QED BY <1>2, <1>3, <1>5, <1>6, <1>7, Zenon

LEMMA KnxDeviceTakesKeeps ==
  ASSUME KnxInv, KnxDeviceTakes
  PROVE  KnxInv'
<1>1. knxDb \in [Groups -> Entries] /\ DeviceWire(knxWire)
  BY WireOfKind, Zenon DEF KnxInv, KnxDeviceTakes
<1>2. PICK bytes, f :
        /\ f \in Cargo /\ Read(bytes, FALSE).frame = f
        /\ \/ knxWire = [kind |-> "to_device", from |-> "command", bytes |-> bytes, meant |-> TelegramOf(f)]
           \/ knxWire = [kind |-> "to_device", from |-> "relayed", bytes |-> bytes, meant |-> f]
  BY <1>1, Zenon DEF DeviceWire
<1>3. /\ knxWire.bytes = bytes
      /\ knxWire.meant = IF knxWire.from = "command" THEN TelegramOf(f) ELSE f
  <2>1. PICK telegram : telegram = TelegramOf(f)
    OBVIOUS
  <2>2. \/ knxWire = [kind |-> "to_device", from |-> "command", bytes |-> bytes, meant |-> telegram]
        \/ knxWire = [kind |-> "to_device", from |-> "relayed", bytes |-> bytes, meant |-> f]
    BY <1>2, <2>1, Zenon
  <2>3. knxWire.bytes = bytes /\ knxWire.meant = IF knxWire.from = "command" THEN telegram ELSE f
    BY ONLY <2>2
  <2>4. QED BY <2>1, <2>3, Zenon
<1>4. Read(knxWire.bytes, FALSE).frame = f
  BY <1>2, <1>3, Zenon
<1>5. PICK source : source = IF f.daddr \in DOMAIN knxDb THEN AddressSet(knxDb[f.daddr].phy, FALSE)
                             ELSE NoAddress
  BY Zenon
<1>6. ToByteArray(source) \in Word
  <2>1. CASE f.daddr \in DOMAIN knxDb
    <3>1. knxDb[f.daddr].phy \in Word
      BY <1>1, <2>1 DEF Entries
    <3>2. source = AddressSet(knxDb[f.daddr].phy, FALSE)
      BY <1>5, <2>1, Zenon
    <3>3. QED BY <3>1, <3>2, AddressKept, Zenon
  <2>2. CASE f.daddr \notin DOMAIN knxDb
    BY <1>5, <2>2, NoSource, Zenon
  <2>3. QED BY <2>1, <2>2
<1>7. PICK c : c = WithSource(WithDest([f EXCEPT !.mc = LDataCon], DestOf(f)), source)
  BY Zenon
<1>8. c \in Cargo
  BY <1>2, <1>6, <1>7, ConfirmationBuilt, Zenon
<1>9. PICK answers : answers = IF ~(KnxIsRead(f) /\ f.daddr \in DOMAIN knxDb) THEN <<c>>
                               ELSE IF Fits(knxDb[f.daddr].value) THEN <<c, Response(f)>> ELSE <<>>
  BY Zenon
<1>10. PICK n \in Nat : /\ n = Len(answers) /\ \A i \in 1 .. n : answers[i] \in Cargo
                        /\ answers # <<>> => n >= 1
  <2>1. CASE KnxIsRead(f) /\ f.daddr \in DOMAIN knxDb /\ Fits(knxDb[f.daddr].value)
    <3>1. PICK r \in Cargo : r = Response(f)
      BY <1>1, <1>2, <2>1, ResponseBuilt, Zenon
    <3>2. answers = <<c, r>>
      BY <1>9, <2>1, <3>1, Zenon
    <3>3. QED BY ONLY <1>8, <3>2, r \in Cargo
  <2>2. CASE ~(KnxIsRead(f) /\ f.daddr \in DOMAIN knxDb)
    <3>1. answers = <<c>>
      BY <1>9, <2>2, Zenon
    <3>2. QED BY ONLY <1>8, <3>1
  <2>3. CASE KnxIsRead(f) /\ f.daddr \in DOMAIN knxDb /\ ~Fits(knxDb[f.daddr].value)
    <3>1. answers = <<>>
      BY <1>9, <2>3, Zenon
    <3>2. QED BY ONLY <3>1, EmptySeq
  <2>4. QED BY <2>1, <2>2, <2>3
<1>11. /\ Arrives(IF knxWire.from = "command" THEN TelegramOf(f) ELSE f)
       /\ knxDb' = IF KnxIsRead(f) \/ ~(f.daddr \in DOMAIN knxDb) THEN knxDb
                   ELSE [knxDb EXCEPT ![f.daddr].value = Stored(f.value)]
       /\ knxWire' = IF answers = <<>> THEN Nothing
                     ELSE [kind |-> "to_server",
                           queue |-> [i \in 1 .. Len(answers) |->
                             Filled([kind |-> "tunnelling_request", channel |-> 1, number |-> i,
                                     frame |-> answers[i]])]]
       /\ UNCHANGED knxMsg
  BY <1>4, <1>5, <1>7, <1>9, Zenon DEF KnxDeviceTakes
<1>12. knxTrip'.read = knxTrip'.meant
  <2>1. knxTrip' = [meant |-> knxWire.meant, read |-> knxWire.meant]
    BY <1>3, <1>11, Zenon DEF Arrives
  <2>2. QED BY <2>1
<1>13. knxDb' \in [Groups -> Entries]
  <2>1. CASE KnxIsRead(f) \/ ~(f.daddr \in DOMAIN knxDb)
    BY <1>1, <1>11, <2>1, Zenon
  <2>2. CASE ~(KnxIsRead(f) \/ ~(f.daddr \in DOMAIN knxDb))
    <3>1. f.value \in Loaded
      BY <1>2, CargoParts, Zenon
    <3>2. PICK v \in Loaded : v = Stored(f.value)
      BY <3>1, ValueStored, Zenon
    <3>3. PICK g \in Groups : g = f.daddr
      BY <1>1, <2>2
    <3>4. knxDb' = [knxDb EXCEPT ![g].value = v]
      BY <1>11, <2>2, <3>2, <3>3, Zenon
    <3>5. QED BY ONLY <1>1, <3>4, v \in Loaded, g \in Groups DEF Entries
  <2>3. QED BY <2>1, <2>2
<1>14. WireMeans(knxWire')
  <2>1. PICK queue : queue = [i \in 1 .. n |-> Delivered(1, i, answers[i])]
    OBVIOUS
  <2>2. CASE answers = <<>>
    BY <1>11, <2>2, Zenon DEF WireMeans
  <2>3. CASE answers # <<>>
    <3>1. queue \in Seq(Deliveries) /\ queue # <<>>
      BY <1>10, <2>1, <2>3, AnswersQueued
    <3>2. knxWire' = [kind |-> "to_server", queue |-> queue]
      BY <1>10, <1>11, <2>1, <2>3, Zenon DEF Delivered
    <3>3. QED BY <3>1, <3>2, Zenon DEF WireMeans, ServerWire
  <2>4. QED BY <2>2, <2>3
<1>15. QED BY <1>11, <1>12, <1>13, <1>14, Zenon DEF KnxInv

LEMMA KnxBusBringsKeeps ==
  ASSUME KnxInv, KnxBusBrings
  PROVE  KnxInv'
<1>1. PICK f \in KnxForeignFrames(LDataInd) :
        KnxSends([kind |-> "to_server", queue |-> <<Delivered(1, 0, f)>>])
  BY Zenon DEF KnxBusBrings, Delivered
<1>2. f \in Cargo
  <2>1. LDataInd \in Int
    BY DEF LDataInd
  <2>2. QED BY <2>1, ForeignTyped
<1>3. PICK b \in Deliveries : b = Delivered(1, 0, f)
  <2>1. 0 \in Int /\ 1 \in Int
    OBVIOUS
  <2>2. QED BY <1>2, <2>1, IsDelivery, Zenon
<1>4. PICK queue : queue = <<b>>
  BY Zenon
<1>5. queue \in Seq(Deliveries) /\ queue # <<>>
  BY ONLY b \in Deliveries, <1>4
<1>6. PICK wire : wire = [kind |-> "to_server", queue |-> queue]
  BY Zenon
<1>7. WireMeans(wire)
  BY <1>5, <1>6, Zenon DEF WireMeans, ServerWire
<1>8. KnxSends(wire) /\ UNCHANGED <<knxMsg, knxDb, knxTrip>>
  BY <1>1, <1>3, <1>4, <1>6, Zenon DEF KnxBusBrings
<1>9. QED BY <1>7, <1>8, KeptBySending, Zenon

(* What is left in the emulator's queue when the server has its first.       *)
LEMMA QueueShortened ==
  ASSUME NEW queue \in Seq(Deliveries), queue # <<>>
  PROVE  Head(queue) \in Deliveries /\ Tail(queue) \in Seq(Deliveries)
BY HeadTailProperties

LEMMA KnxServerReadsKeeps ==
  ASSUME KnxInv, KnxServerReads
  PROVE  KnxInv'
<1>1. ServerWire(knxWire)
  BY WireOfKind, Zenon DEF KnxInv, KnxServerReads
<1>2. PICK queue \in Seq(Deliveries) : queue # <<>> /\ knxWire = [kind |-> "to_server", queue |-> queue]
  BY <1>1, Zenon DEF ServerWire
<1>3. knxWire.queue = queue
  BY <1>2
<1>4. PICK rest \in Seq(Deliveries) : rest = Tail(queue)
  BY <1>2, QueueShortened, Zenon
<1>5. PICK f \in Cargo : f = Read(Head(queue), FALSE).frame
  BY <1>2, QueueShortened, DeliveryRead, Zenon
<1>6. PICK dropped : dropped = IF rest = <<>> THEN Nothing ELSE [knxWire EXCEPT !.queue = rest]
  BY Zenon
<1>7. /\ \/ knxWire' = dropped /\ UNCHANGED knxMsg
         \/ /\ knxWire' = [kind |-> "status", logical |-> DestOf(f).group,
                           function |-> Htons(ToByteArray(DestOf(f))), value |-> f.value,
                           queue |-> rest, meant |-> TelegramOf(f)]
            /\ knxMsg' = f
         \/ /\ knxWire' = [kind |-> "raw_status", bytes |-> FrameBytes(f), queue |-> rest, meant |-> f]
            /\ knxMsg' = f
      /\ UNCHANGED <<knxDb, knxTrip>>
  BY <1>3, <1>4, <1>5, <1>6, Zenon DEF KnxServerReads
<1>8. f \in Frames
  BY CargoParts, Zenon
<1>9. WireMeans(dropped)
  <2>1. CASE rest = <<>>
    BY <1>6, <2>1, Zenon DEF WireMeans
  <2>2. CASE rest # <<>>
    <3>1. dropped = [knxWire EXCEPT !.queue = rest]
      BY <1>6, <2>2, Zenon
    <3>2. dropped = [kind |-> "to_server", queue |-> rest]
      BY ONLY <1>2, <3>1
    <3>3. QED BY <2>2, <3>2, Zenon DEF WireMeans, ServerWire
  <2>3. QED BY <2>1, <2>2
<1>10. WireMeans(knxWire') /\ knxMsg' \in Frames
  <2>1. knxMsg \in Frames
    BY DEF KnxInv
  <2>2. CASE knxWire' = dropped /\ UNCHANGED knxMsg
    BY <1>9, <2>1, <2>2, Zenon
  <2>3. CASE /\ knxWire' = [kind |-> "status", logical |-> DestOf(f).group,
                           function |-> Htons(ToByteArray(DestOf(f))), value |-> f.value,
                           queue |-> rest, meant |-> TelegramOf(f)]
             /\ knxMsg' = f
    BY <1>8, <2>3, Zenon DEF WireMeans, StatusWire
  <2>4. CASE /\ knxWire' = [kind |-> "raw_status", bytes |-> FrameBytes(f), queue |-> rest, meant |-> f]
             /\ knxMsg' = f
    BY <1>8, <2>4, Zenon DEF WireMeans, RawWire
  <2>5. QED BY <1>7, <2>2, <2>3, <2>4, Zenon
<1>11. QED BY <1>7, <1>10, Zenon DEF KnxInv

(* The word of an address: turned round by the server, laid in memory, and   *)
(* read by the program as two bytes.                                        *)
LEMMA WordLaid ==
  ASSUME NEW w \in Word, NEW group, NEW b, b = Memory(Htons(w))
  PROVE  [high |-> b[1], low |-> b[2], group |-> group, levels |-> 3] = AddressSet(w, group)
<1>1. b[1] = w \div 256 /\ b[2] = w % 256
  BY WordRead, Zenon
<1>2. QED BY <1>1, Zenon DEF AddressSet

LEMMA KnxClientReadsKeeps ==
  ASSUME KnxInv, KnxClientReads
  PROVE  KnxInv'
<1>1. PICK next : next = IF knxWire.queue = <<>> THEN Nothing
                         ELSE [kind |-> "to_server", queue |-> knxWire.queue]
  BY Zenon
<1>2. knxWire' = next /\ UNCHANGED <<knxMsg, knxDb>>
  BY <1>1, Zenon DEF KnxClientReads
<1>3. ASSUME knxWire.queue \in Seq(Deliveries) PROVE WireMeans(next)
  <2>1. CASE knxWire.queue = <<>>
    BY <1>1, <2>1, Zenon DEF WireMeans
  <2>2. CASE knxWire.queue # <<>>
    BY <1>1, <1>3, <2>2, Zenon DEF WireMeans, ServerWire
  <2>3. QED BY <2>1, <2>2
<1>4. knxWire.queue \in Seq(Deliveries) /\ knxTrip'.read = knxTrip'.meant
  <2>1. CASE /\ knxWire.kind = "status"
             /\ LET b == Memory(knxWire.function)
                    address == [high |-> b[1], low |-> b[2], group |-> knxWire.logical, levels |-> 3]
                IN Arrives(Telegram(ToText(address), knxWire.value))
    <3>1. StatusWire(knxWire)
      BY <2>1, WireOfKind, Zenon DEF KnxInv
    <3>2. PICK f \in Cargo, queue \in Seq(Deliveries) :
            knxWire = [kind |-> "status", logical |-> DestOf(f).group,
                       function |-> Htons(ToByteArray(DestOf(f))), value |-> f.value, queue |-> queue,
                       meant |-> TelegramOf(f)]
      BY <3>1, Zenon DEF StatusWire
    <3>3. PICK group, w, value, telegram :
            /\ group = DestOf(f).group /\ w = Htons(ToByteArray(DestOf(f))) /\ value = f.value
            /\ telegram = TelegramOf(f)
      BY Zenon
    <3>4. knxWire = [kind |-> "status", logical |-> group, function |-> w, value |-> value,
                     queue |-> queue, meant |-> telegram]
      BY <3>2, <3>3, Zenon
    <3>5. /\ knxWire.logical = group /\ knxWire.function = w /\ knxWire.value = value
          /\ knxWire.queue = queue /\ knxWire.meant = telegram
      BY ONLY <3>4
    <3>6. PICK b : b = Memory(w)
      BY Zenon
    <3>7. f.daddr \in Word /\ w = Htons(f.daddr) /\ DestOf(f) = AddressSet(f.daddr, group)
      BY <3>3, CargoParts, Zenon
    <3>8. [high |-> b[1], low |-> b[2], group |-> group, levels |-> 3] = AddressSet(f.daddr, group)
      BY <3>6, <3>7, WordLaid, Zenon
    <3>9. Arrives(telegram)
      BY <2>1, <3>3, <3>5, <3>6, <3>7, <3>8, Zenon DEF TelegramOf
    <3>10. knxTrip' = [meant |-> telegram, read |-> telegram]
      BY <3>5, <3>9, Zenon DEF Arrives
    <3>11. QED BY <3>5, <3>10
  <2>2. CASE knxWire.kind = "raw_status" /\ Arrives(FrameOf(knxWire.bytes))
    <3>1. RawWire(knxWire)
      BY <2>2, WireOfKind, Zenon DEF KnxInv
    <3>2. PICK f \in Cargo, queue \in Seq(Deliveries) :
            knxWire = [kind |-> "raw_status", bytes |-> FrameBytes(f), queue |-> queue, meant |-> f]
      BY <3>1, Zenon DEF RawWire
    <3>3. PICK bytes : bytes = FrameBytes(f)
      BY Zenon
    <3>4. knxWire.bytes = bytes /\ knxWire.queue = queue /\ knxWire.meant = f
      BY <3>2, <3>3
    <3>5. FrameOf(bytes) = f
      BY <3>3, CargoParts, FrameRead, Zenon
    <3>6. knxTrip' = [meant |-> f, read |-> f]
      BY <2>2, <3>4, <3>5, Zenon DEF Arrives
    <3>7. QED BY <3>4, <3>6
  <2>3. QED BY <2>1, <2>2, Zenon DEF KnxClientReads
<1>5. QED BY <1>2, <1>3, <1>4, Zenon DEF KnxInv

(* Every step of the frames keeps their invariant.                         *)
LEMMA KnxInvKept == KnxInv /\ [KnxNext]_knxVars => KnxInv'
<1> SUFFICES ASSUME KnxInv, [KnxNext]_knxVars PROVE KnxInv'
  OBVIOUS
<1>1. CASE KnxSendsMessage
  BY <1>1, KnxSendsMessageKeeps
<1>2. CASE KnxReadsMessage
  BY <1>2, KnxReadsMessageKeeps
<1>3. CASE KnxProgramCommands
  BY <1>3, KnxProgramCommandsKeeps
<1>4. CASE KnxRelayCommands
  BY <1>4, KnxRelayCommandsKeeps
<1>5. CASE KnxServerForwards
  BY <1>5, KnxServerForwardsKeeps
<1>6. CASE KnxDeviceTakes
  BY <1>6, KnxDeviceTakesKeeps
<1>7. CASE KnxBusBrings
  BY <1>7, KnxBusBringsKeeps
<1>8. CASE KnxServerReads
  BY <1>8, KnxServerReadsKeeps
<1>9. CASE KnxClientReads
  BY <1>9, KnxClientReadsKeeps
<1>10. CASE UNCHANGED knxVars
  BY <1>10 DEF knxVars, KnxInv
<1>11. QED
  BY <1>1, <1>2, <1>3, <1>4, <1>5, <1>6, <1>7, <1>8, <1>9, <1>10, Zenon DEF KnxNext

(* Whoever reads a message reads what its sender meant, whatever the         *)
(* addresses, values, sockets and names are: the classes that fill a buffer   *)
(* and those that parse it turn the words round equally often on every leg.  *)
THEOREM KnxAlwaysReadAsMeant == KnxSpec => []KnxReadAsMeant
<1>1. KnxInit => KnxInv
  BY KnxInvInit
<1>2. KnxInv /\ [KnxNext]_knxVars => KnxInv'
  BY KnxInvKept
<1>3. KnxInv => KnxReadAsMeant
  BY DEF KnxInv, KnxReadAsMeant
<1>4. QED BY <1>1, <1>2, <1>3, PTL DEF KnxSpec
=============================================================================
