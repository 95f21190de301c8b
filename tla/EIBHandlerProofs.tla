-------------------------- MODULE EIBHandlerProofs --------------------------
(***************************************************************************)
(* Theorems about the handlers, for every set of clients and web requests, *)
(* every capacity of the queue, and calls that overlap or do not.          *)
(*                                                                         *)
(* A frame moves from the queue to the hand of the output handler and on to*)
(* what was sent.  The inductive invariant orders these three (Flow), and  *)
(* ties a frame that waits for a confirmation to the client that is blocked*)
(* on it and to one key (Owned).                                           *)
(***************************************************************************)
EXTENDS EIBHandler, ModularArithmetic, SequenceTheorems

(***************************************************************************)
(* Type correctness.                                                       *)
(***************************************************************************)
HandlerLabels == {"off", "top", "io", "wait", "paused", "waking", "dead"}
HandlersOK ==
  /\ handler \in [Handlers -> HandlerLabels]
  /\ stop \in [Handlers -> BOOLEAN] /\ pause \in [Handlers -> BOOLEAN]
  /\ link \in Links /\ recv \in 0 .. SeqMod - 1
ThreadsOK ==
  /\ thread \in [Threads -> [call : Calls \cup {"Shutdown", "none"}, pc : Nat]]
  /\ calls \in Nat
ClientsOK ==
  client \in [Clients -> [pc : {"idle", "write", "queued", "waiting", "left"}, n : Nat,
                          mode : AllModes]]
Registered == [Keys -> Elements \cup {None}]
FramesOK ==
  /\ queue \in Seq(Elements) /\ Len(queue) <= QueueSize
  /\ hand \in Elements \cup {None}
  /\ handler["output"] = "io" => hand \in Elements
  /\ handler["output"] # "io" => hand = None
  /\ registered \in Registered
  /\ sent \in Seq(Elements)
TypesOK == HandlersOK /\ ThreadsOK /\ ClientsOK /\ FramesOK

LEMMA TypeParts == TypesOK => TypeOK
BY DEF TypesOK, HandlersOK, HandlerLabels, ThreadsOK, ClientsOK, FramesOK, Registered, TypeOK

LEMMA InitTypes == Init => TypesOK
<1> SUFFICES ASSUME Init PROVE TypesOK
  OBVIOUS
<1> USE DEF Init
<1>1. HandlersOK
  BY SeqModAssumption DEF HandlersOK, HandlerLabels, Links, Tunnels
<1>2. ThreadsOK
  BY DEF ThreadsOK, Idle
<1>3. ClientsOK
  BY DEF ClientsOK, AllModes
<1>4. FramesOK
  BY QueueSizeAssumption DEF FramesOK, Registered, Handlers
<1>5. QED BY <1>1, <1>2, <1>3, <1>4 DEF TypesOK

(* A step that leaves the frames alone, and starts or ends no transfer.      *)
Still == /\ UNCHANGED <<queue, hand, sent>>
         /\ handler'["output"] = "io" <=> handler["output"] = "io"

(* Registrations are forgotten, and none is made.                           *)
Forgets ==
  registered' \in Registered /\ \A k \in Keys : registered'[k] \in {registered[k], None}

LEMMA StillFrames ==
  ASSUME FramesOK, Still, Forgets
  PROVE  FramesOK'
BY DEF FramesOK, Still, Forgets, Registered

LEMMA KeptRegistrations ==
  ASSUME FramesOK, UNCHANGED registered
  PROVE  Forgets
BY DEF FramesOK, Forgets, Registered

(* What Goto does.                                                          *)
LEMMA GotoTypes ==
  ASSUME handler \in [Handlers -> HandlerLabels],
         NEW h, NEW label \in HandlerLabels, Goto(h, label)
  PROVE  /\ handler' \in [Handlers -> HandlerLabels]
         /\ h = "output" => handler'["output"] = label
         /\ h # "output" => handler'["output"] = handler["output"]
BY DEF Goto, HandlerLabels, Handlers

LEMMA ProceedTypes ==
  ASSUME handler \in [Handlers -> HandlerLabels], NEW h \in Handlers,
         PauseOrProceed(h) \/ Proceeds(h)
  PROVE  /\ handler' \in [Handlers -> HandlerLabels]
         /\ h = "output" => handler'["output"] # "io"
         /\ h # "output" => handler'["output"] = handler["output"]
<1>1. PICK label \in HandlerLabels \ {"io"} : Goto(h, label)
  BY DEF PauseOrProceed, Proceeds, HandlerLabels
<1>2. QED BY <1>1, GotoTypes

(* After a transfer the output handler's hand is empty.                     *)
LEMMA ProceedEndsTransfer ==
  ASSUME handler \in [Handlers -> HandlerLabels], PauseOrProceed("output")
  PROVE  handler'["output"] # "io"
BY DEF PauseOrProceed, Proceeds, Goto, Handlers, HandlerLabels

LEMMA CommonTypes ==
  ASSUME TypesOK, NEW h \in Handlers, Common(h)
  PROVE  TypesOK' /\ Still /\ UNCHANGED <<registered, client>>
<1> USE DEF TypesOK, HandlersOK
<1>1. UNCHANGED <<stop, pause, queue, hand, link, recv, registered, client, thread,
                  calls, sent>>
  BY DEF Common, Begin, Leave, Wake
<1>2. /\ handler' \in [Handlers -> HandlerLabels]
      /\ handler'["output"] = "io" <=> handler["output"] = "io"
  <2>1. CASE Begin(h)
    BY <2>1, GotoTypes DEF Begin, HandlerLabels
  <2>2. CASE Leave(h)
    BY <2>2, GotoTypes DEF Leave, HandlerLabels
  <2>3. CASE Wake(h)
    BY <2>3, ProceedTypes DEF Wake
  <2>4. QED BY <2>1, <2>2, <2>3 DEF Common
<1>3. Still
  BY <1>1, <1>2 DEF Still
<1>4. FramesOK'
  BY <1>1, <1>3, KeptRegistrations, StillFrames
<1>5. QED BY <1>1, <1>2, <1>3, <1>4 DEF ThreadsOK, ClientsOK

(* Where a client is after Write.                                           *)
LEMMA TurnLabel == NextTurn \in {"idle", "left"}
BY DEF NextTurn

(* A client that goes from one place to another.                            *)
LEMMA ClientMoves ==
  ASSUME ClientsOK, NEW c, NEW label \in {"idle", "write", "queued", "waiting", "left"},
         client' = [client EXCEPT ![c].pc = label]
  PROVE  ClientsOK'
BY DEF ClientsOK

(* What a confirmation does: it finds nobody under its number, or releases   *)
(* whom it finds.                                                           *)
Finds(k) ==
  /\ k = recv' /\ registered[k] # None
  /\ registered' = [registered EXCEPT ![k] = None]
  /\ client' = IF client[registered[k].client].pc = "waiting"
               THEN [client EXCEPT ![registered[k].client].pc = NextTurn] ELSE client

LEMMA ConfirmsFinds ==
  ASSUME Confirms
  PROVE  UNCHANGED <<registered, client>> \/ \E k \in Keys : Finds(k)
<1>1. PICK e : e = IF recv' \in Keys THEN registered[recv'] ELSE None
  OBVIOUS
<1>2. /\ registered' = IF e # None THEN [registered EXCEPT ![recv'] = None] ELSE registered
      /\ client' = IF e # None /\ client[e.client].pc = "waiting"
                   THEN [client EXCEPT ![e.client].pc = NextTurn] ELSE client
  BY <1>1 DEF Confirms
<1>3. CASE e = None
  BY <1>2, <1>3
<1>4. CASE e # None
  <2>1. recv' \in Keys /\ e = registered[recv']
    BY <1>1, <1>4
  <2>2. Finds(recv')
    BY <1>2, <1>4, <2>1 DEF Finds
  <2>3. QED BY <2>1, <2>2
<1>5. QED BY <1>3, <1>4

LEMMA NextRecvType ==
  ASSUME recv \in 0 .. SeqMod - 1
  PROVE  NextRecv \in 0 .. SeqMod - 1
<1>1. SeqMod \in Nat \ {0} /\ recv + 1 \in Nat
  BY SeqModAssumption
<1>2. QED BY <1>1, Division DEF NextRecv

(* The reader touches at most the connection, and the client it releases.   *)
LEMMA ReaderTypes ==
  ASSUME TypesOK, ReaderTop \/ ReaderRead \/ ReaderThrows \/ ReaderConfirms
  PROVE  /\ TypesOK' /\ Still /\ Forgets
         /\ UNCHANGED <<registered, client>> \/ (Confirms /\ \E k \in Keys : Finds(k))
<1> USE DEF TypesOK, HandlersOK
<1>1. UNCHANGED <<stop, pause, queue, hand, thread, calls, sent>>
  BY DEF ReaderTop, ReaderRead, ReaderThrows, ReaderConfirms
<1>2. UNCHANGED <<link, recv, registered, client>> \/ Receives \/ Confirms
  BY DEF ReaderTop, ReaderRead, ReaderThrows, ReaderConfirms
<1>3. link' \in Links /\ recv' \in 0 .. SeqMod - 1
  <2>1. 0 \in 0 .. SeqMod - 1
    BY SeqModAssumption
  <2>2. QED BY <1>2, <2>1, NextRecvType DEF Receives, Confirms, Links, Tunnels
<1>4. /\ handler' \in [Handlers -> HandlerLabels]
      /\ handler'["output"] = handler["output"]
  <2>1. CASE ReaderTop
    BY <2>1, GotoTypes DEF ReaderTop, HandlerLabels
  <2>2. CASE ReaderThrows
    BY <2>2, GotoTypes DEF ReaderThrows, HandlerLabels
  <2>3. CASE ReaderRead \/ ReaderConfirms
    BY <2>3, ProceedTypes DEF ReaderRead, ReaderConfirms, Handlers
  <2>4. QED BY <2>1, <2>2, <2>3
<1>5. Still
  BY <1>1, <1>4 DEF Still
<1>6. UNCHANGED <<registered, client>> \/ (Confirms /\ \E k \in Keys : Finds(k))
  BY <1>2, ConfirmsFinds DEF Receives
<1>7. Forgets
  <2>1. ASSUME NEW k \in Keys, Finds(k) PROVE Forgets
    BY <2>1 DEF Finds, Forgets, FramesOK, Registered
  <2>2. QED BY <1>6, <2>1, KeptRegistrations
<1>8. ClientsOK'
  <2>1. CASE UNCHANGED client
    BY <2>1 DEF ClientsOK
  <2>2. ASSUME NEW k \in Keys, Finds(k) PROVE ClientsOK'
    BY <2>1, <2>2, ClientMoves, TurnLabel DEF Finds
  <2>3. QED BY <1>6, <2>1, <2>2
<1>9. FramesOK'
  BY <1>5, <1>7, StillFrames
<1>10. QED BY <1>1, <1>3, <1>4, <1>5, <1>6, <1>7, <1>8, <1>9 DEF ThreadsOK

LEMMA QueueTypes ==
  ASSUME FramesOK, queue # <<>>
  PROVE  Head(queue) \in Elements /\ Tail(queue) \in Seq(Elements)
         /\ Len(Tail(queue)) <= QueueSize
<1>1. queue \in Seq(Elements) /\ Len(queue) \in Nat /\ Len(queue) <= QueueSize
  BY LenProperties DEF FramesOK
<1>2. Len(queue) # 0
  BY <1>1, EmptySeq
<1>3. Head(queue) = queue[1] /\ queue[1] \in Elements
  BY <1>1, <1>2, ElementOfSeq, HeadTailProperties
<1>4. Tail(queue) \in Seq(Elements) /\ Len(Tail(queue)) = Len(queue) - 1
  BY <1>1, HeadTailProperties
<1>5. QED BY <1>1, <1>3, <1>4, QueueSizeAssumption

(* What a registration changes.                                            *)
LEMMA RegistrationIs ==
  ASSUME TypesOK, hand \in Elements
  PROVE  /\ Registration \in Registered
         /\ \/ Registration = registered
            \/ /\ hand.mode = "WAIT_FOR_CONFRM"
               /\ \E k \in Keys : /\ registered[k] = None
                                  /\ Registration = [registered EXCEPT ![k] = hand]
<1>1. recv + 1 \in Keys /\ registered \in Registered
  BY SeqModAssumption DEF TypesOK, HandlersOK, FramesOK, Keys
<1>2. QED BY <1>1 DEF Registration, Registered

LEMMA WriterTypes ==
  ASSUME TypesOK,
         \/ WriterTakes \/ WriterFindsNothing \/ WriterSends \/ WriterThrows \/ WriterFails
         \/ WriterDrops \/ WriterContinues
  PROVE  TypesOK'
<1> USE DEF TypesOK, HandlersOK
<1>1. UNCHANGED <<stop, pause, link, recv, client, thread, calls>>
  BY DEF WriterTakes, WriterFindsNothing, WriterSends, WriterThrows, WriterFails, WriterDrops,
         WriterContinues
<1>2. ThreadsOK' /\ ClientsOK'
  BY <1>1 DEF ThreadsOK, ClientsOK
<1>3. SUFFICES handler' \in [Handlers -> HandlerLabels] /\ FramesOK'
  BY <1>1, <1>2
<1>4. CASE WriterTakes
  <2>1. handler' \in [Handlers -> HandlerLabels] /\ handler'["output"] = "io"
    BY <1>4, GotoTypes DEF WriterTakes, HandlerLabels
  <2>2. QED BY <1>4, <2>1, QueueTypes DEF WriterTakes, FramesOK
<1>5. CASE WriterFindsNothing
  <2>1. Still /\ UNCHANGED registered /\ handler' \in [Handlers -> HandlerLabels]
    BY <1>5, ProceedTypes DEF WriterFindsNothing, Still, Handlers
  <2>2. QED BY <2>1, KeptRegistrations, StillFrames
<1>6. CASE WriterSends \/ WriterThrows \/ WriterFails \/ WriterDrops
  <2>1. handler' \in [Handlers -> HandlerLabels] /\ handler'["output"] # "io"
    <3>1. CASE WriterSends \/ WriterDrops
      BY <3>1, ProceedTypes DEF WriterSends, WriterDrops, Handlers
    <3>2. CASE WriterThrows \/ WriterFails
      BY <3>2, GotoTypes DEF WriterThrows, WriterFails, HandlerLabels
    <3>3. QED BY <1>6, <3>1, <3>2
  <2>2. hand \in Elements /\ sent \in Seq(Elements) /\ registered \in Registered
    BY <1>6 DEF WriterSends, WriterThrows, WriterFails, WriterDrops, FramesOK
  <2>3. sent' \in Seq(Elements) /\ registered' \in Registered
    <3>1. sent' = sent \/ sent' = Append(sent, hand)
      BY <1>6 DEF WriterSends, WriterThrows, WriterFails, WriterDrops
    <3>2. registered' \in {registered, Registration}
      BY <1>6 DEF WriterSends, WriterThrows, WriterFails, WriterDrops
    <3>3. Append(sent, hand) \in Seq(Elements)
      BY <2>2, AppendProperties
    <3>4. Registration \in Registered
      BY <2>2, RegistrationIs
    <3>5. QED BY <2>2, <3>1, <3>2, <3>3, <3>4
  <2>4. hand' = None /\ UNCHANGED queue
    BY <1>6 DEF WriterSends, WriterThrows, WriterFails, WriterDrops
  <2>5. QED BY <2>1, <2>3, <2>4 DEF FramesOK
<1>7. CASE WriterContinues
  <2>1. Still /\ UNCHANGED registered /\ handler' \in [Handlers -> HandlerLabels]
    BY <1>7, GotoTypes DEF WriterContinues, Still, HandlerLabels
  <2>2. QED BY <2>1, KeptRegistrations, StillFrames
<1>8. QED BY <1>4, <1>5, <1>6, <1>7

(* The element that client c puts into the queue.                           *)
Element(c) == [client |-> c, n |-> client[c].n, mode |-> client[c].mode]

LEMMA ElementType ==
  ASSUME ClientsOK, NEW c \in Clients
  PROVE  Element(c) \in Elements
BY DEF ClientsOK, Element, Elements

LEMMA ClientTypes ==
  ASSUME TypesOK, NEW c \in Clients, Client(c)
  PROVE  TypesOK'
<1> USE DEF TypesOK, HandlersOK
<1>1. UNCHANGED <<handler, stop, pause, hand, link, recv, registered, thread, calls, sent>>
  BY DEF Client, ClientCalls, ClientQueues, ClientWaits
<1>2. SUFFICES ClientsOK' /\ queue' \in Seq(Elements) /\ Len(queue') <= QueueSize
  BY <1>1 DEF ThreadsOK, FramesOK
<1>3. ASSUME NEW mode \in Modes, ClientCalls(c, mode)
      PROVE  ClientsOK' /\ queue' \in Seq(Elements) /\ Len(queue') <= QueueSize
  <2>1. client[c].n + 1 \in Nat /\ mode \in AllModes
    BY <1>3, ModesAssumption DEF ClientsOK, AllModes, Blocking
  <2>2. client' = [client EXCEPT ![c] = [pc |-> "write", n |-> client[c].n + 1,
                                         mode |-> mode]]
    BY <1>3 DEF ClientCalls, ClientsOK
  <2>3. QED BY <1>3, <2>1, <2>2 DEF ClientCalls, ClientsOK, FramesOK
<1>4. CASE ClientQueues(c)
  <2>1. ClientsOK'
    BY <1>4, ClientMoves, TurnLabel DEF ClientQueues
  <2>2. queue' = IF Len(queue) < QueueSize THEN Append(queue, Element(c)) ELSE queue
    BY <1>4 DEF ClientQueues, Element
  <2>3. queue \in Seq(Elements) /\ Len(queue) \in Nat /\ Len(queue) <= QueueSize
    BY LenProperties DEF FramesOK
  <2>4. Append(queue, Element(c)) \in Seq(Elements)
        /\ Len(Append(queue, Element(c))) = Len(queue) + 1
    BY <2>3, ElementType, AppendProperties
  <2>5. QED BY <2>1, <2>2, <2>3, <2>4, QueueSizeAssumption
<1>5. CASE ClientWaits(c)
  BY <1>5, ClientMoves DEF ClientWaits, FramesOK
<1>6. QED BY <1>3, <1>4, <1>5 DEF Client

(***************************************************************************)
(* The steps of the other threads leave frames and clients alone, but for  *)
(* Init, which forgets the registrations.                                  *)
(***************************************************************************)
LEMMA StepsTypes ==
  ASSUME TypesOK, NEW t \in Threads, Step(t)
  PROVE  TypesOK' /\ Still /\ Forgets /\ UNCHANGED client
<1> USE DEF TypesOK, HandlersOK
<1>1. UNCHANGED <<queue, hand, client, calls, sent>>
  BY DEF Step
<1>2. /\ handler' \in [Handlers -> HandlerLabels]
      /\ handler'["output"] = "io" <=> handler["output"] = "io"
  <2>1. CASE UNCHANGED handler
    BY <2>1
  <2>2. CASE Goto(At(t).on, "waking") /\ handler[At(t).on] = "paused"
    BY <2>2, GotoTypes DEF HandlerLabels
  <2>3. QED
    BY <2>1, <2>2 DEF Step, SetFlag, LockWaitMon, DisConnect, InitInterface, Join
<1>3. stop' \in [Handlers -> BOOLEAN] /\ pause' \in [Handlers -> BOOLEAN]
  <2>1. CASE SetFlag(t)
    BY <2>1 DEF SetFlag
  <2>2. CASE ~SetFlag(t)
    BY <2>2 DEF Step, LockWaitMon, DisConnect, InitInterface, Join
  <2>3. QED BY <2>1, <2>2
<1>4. link' \in Links /\ recv' \in 0 .. SeqMod - 1 /\ Forgets
  <2>1. CASE UNCHANGED <<link, recv, registered>>
    BY <2>1, KeptRegistrations
  <2>2. CASE DisConnect(t)
    BY <2>2, KeptRegistrations DEF DisConnect, Links, Tunnels
  <2>3. CASE InitInterface(t)
    BY <2>3, KeptRegistrations, SeqModAssumption
    DEF InitInterface, Links, Tunnels, Forgets, Registered, FramesOK
  <2>4. QED
    BY <2>1, <2>2, <2>3 DEF Step, SetFlag, LockWaitMon, Join
<1>5. ThreadsOK'
  <2>1. thread[t].pc + 1 \in Nat
    BY DEF ThreadsOK
  <2>2. thread' = [thread EXCEPT ![t].pc = thread[t].pc + 1]
    BY DEF Step, StepsTo, ThreadsOK
  <2>3. QED BY <1>1, <2>1, <2>2 DEF ThreadsOK
<1>6. Still
  BY <1>1, <1>2 DEF Still
<1>7. FramesOK'
  BY <1>4, <1>6, StillFrames
<1>8. QED BY <1>1, <1>2, <1>3, <1>4, <1>5, <1>6, <1>7 DEF ClientsOK

LEMMA CallTypes ==
  ASSUME TypesOK,
         \/ \E t \in Threads : EndCall(t)
         \/ \E t \in Admins, call \in Calls : BeginCall(t, call)
         \/ BeginShutdown
         \/ ConnectionLost
         \/ UNCHANGED vars
  PROVE  TypesOK' /\ Still /\ UNCHANGED <<registered, client>>
<1> USE DEF TypesOK, HandlersOK
<1>1. UNCHANGED <<handler, stop, pause, queue, hand, recv, registered, client, sent>>
  BY DEF EndCall, BeginCall, BeginShutdown, ConnectionLost, vars
<1>2. link' \in Links
  BY DEF EndCall, BeginCall, BeginShutdown, ConnectionLost, vars, Links, Tunnels
<1>3. ThreadsOK'
  <2>1. CASE UNCHANGED <<thread, calls>>
    BY <2>1 DEF ThreadsOK
  <2>2. ASSUME NEW t \in Threads, EndCall(t) PROVE ThreadsOK'
    BY <2>2 DEF EndCall, Idle, ThreadsOK
  <2>3. ASSUME NEW t \in Admins, NEW call \in Calls, BeginCall(t, call)
        PROVE  ThreadsOK'
    BY <2>3 DEF BeginCall, ThreadsOK, Threads
  <2>4. CASE BeginShutdown
    BY <2>4 DEF BeginShutdown, ThreadsOK, Threads
  <2>5. QED BY <2>1, <2>2, <2>3, <2>4 DEF ConnectionLost, vars
<1>4. Still
  BY <1>1 DEF Still
<1>5. QED BY <1>1, <1>2, <1>3, <1>4 DEF ClientsOK, FramesOK

(* The steps of the specification, grouped as the lemmas above treat them.  *)
Transfers == \/ WriterTakes \/ WriterFindsNothing \/ WriterSends \/ WriterThrows
             \/ WriterFails \/ WriterDrops \/ WriterContinues
Reads == ReaderTop \/ ReaderRead \/ ReaderThrows \/ ReaderConfirms
CallSteps == \/ \E t \in Threads : EndCall(t)
             \/ \E t \in Admins, call \in Calls : BeginCall(t, call)
             \/ BeginShutdown \/ ConnectionLost \/ UNCHANGED vars

LEMMA NextSteps ==
  ASSUME [Next]_vars
  PROVE  \/ \E h \in Handlers : Common(h)
         \/ Reads \/ Transfers
         \/ \E c \in Clients : Client(c)
         \/ \E t \in Threads : Step(t)
         \/ CallSteps
BY DEF Next, Reader, Writer, Thread, Finished, Reads, Transfers, CallSteps, Handlers

LEMMA StepTypes == TypesOK /\ [Next]_vars => TypesOK'
BY NextSteps, CommonTypes, ReaderTypes, WriterTypes, ClientTypes, StepsTypes, CallTypes
   DEF Reads, Transfers, CallSteps

LEMMA AlwaysTypes == Spec => []TypesOK
BY InitTypes, StepTypes, PTL DEF Spec

(* Every variable keeps its type, and the queue of the output handler its   *)
(* bound, whatever the clients and the administrators do.                   *)
THEOREM TypeCorrect == Spec => []TypeOK
BY AlwaysTypes, TypeParts, PTL

-----------------------------------------------------------------------------
(***************************************************************************)
(* Order.  The frames of a client are numbered by its calls.               *)
(***************************************************************************)
Precedes(x, y)  == x.client = y.client => x.n < y.n
Before(A, B)    == \A x \in A, y \in B : Precedes(x, y)
Members(s)      == {s[i] : i \in 1 .. Len(s)}
InOrder(s)      == \A i, j \in 1 .. Len(s) : i < j => Precedes(s[i], s[j])
Holding         == IF handler["output"] = "io" THEN {hand} ELSE {}

LEMMA AppendInOrder ==
  ASSUME NEW S, NEW s \in Seq(S), NEW e \in S, InOrder(s), Before(Members(s), {e})
  PROVE  InOrder(Append(s, e)) /\ Members(Append(s, e)) = Members(s) \cup {e}
<1> DEFINE t == Append(s, e)
<1>1. Len(s) \in Nat /\ Len(t) = Len(s) + 1 /\ t[Len(s) + 1] = e
      /\ \A i \in 1 .. Len(s) : t[i] = s[i]
  BY AppendProperties, LenProperties
<1> HIDE DEF t
<1>2. InOrder(t)
  <2>1. SUFFICES ASSUME NEW i \in 1 .. Len(t), NEW j \in 1 .. Len(t), i < j
                 PROVE  Precedes(t[i], t[j])
    BY DEF InOrder
  <2>2. i \in 1 .. Len(s) /\ (j \in 1 .. Len(s) \/ j = Len(s) + 1)
    BY <1>1, <2>1
  <2>3. CASE j \in 1 .. Len(s)
    BY <1>1, <2>1, <2>2, <2>3 DEF InOrder
  <2>4. CASE j = Len(s) + 1
    BY <1>1, <2>2, <2>4 DEF Before, Members
  <2>5. QED BY <2>2, <2>3, <2>4
<1>3. Members(t) = Members(s) \cup {e}
  <2>1. 1 .. Len(t) = (1 .. Len(s)) \cup {Len(s) + 1}
    BY <1>1
  <2>2. QED BY <1>1, <2>1 DEF Members
<1>4. QED BY <1>2, <1>3 DEF t

LEMMA TailInOrder ==
  ASSUME NEW S, NEW s \in Seq(S), s # <<>>, InOrder(s)
  PROVE  /\ InOrder(Tail(s)) /\ Members(Tail(s)) \subseteq Members(s)
         /\ Head(s) \in Members(s) /\ Before({Head(s)}, Members(Tail(s)))
<1> DEFINE t == Tail(s)
<1>1. /\ Len(s) \in Nat \ {0} /\ Len(t) = Len(s) - 1 /\ Head(s) = s[1]
      /\ \A i \in 1 .. Len(t) : t[i] = s[i + 1]
  <2>1. Len(s) \in Nat /\ Len(s) # 0
    BY LenProperties, EmptySeq
  <2>2. QED BY <2>1, HeadTailProperties
<1> HIDE DEF t
<1>2. \A i \in 1 .. Len(t) : i + 1 \in 1 .. Len(s) /\ 1 < i + 1
  BY <1>1
<1>3. InOrder(t)
  BY <1>1, <1>2 DEF InOrder
<1>4. Members(t) \subseteq Members(s)
  BY <1>1, <1>2 DEF Members
<1>5. 1 \in 1 .. Len(s) /\ Head(s) \in Members(s)
  BY <1>1 DEF Members
<1>6. Before({Head(s)}, Members(t))
  BY <1>1, <1>2, <1>5 DEF Before, Members, InOrder
<1>7. QED BY <1>3, <1>4, <1>5, <1>6 DEF t

(* Every frame on its way was numbered by a call of its client, and none by *)
(* a call that has yet to queue its frame.                                  *)
Numbered(e) ==
  /\ e.n <= client[e.client].n
  /\ client[e.client].pc = "write" => e.n < client[e.client].n
Frames == Members(sent) \cup Holding \cup Members(queue)

Flow ==
  /\ InOrder(sent) /\ InOrder(queue)
  /\ Before(Members(sent), Holding)
  /\ Before(Members(sent) \cup Holding, Members(queue))
  /\ \A e \in Frames : Numbered(e)

(* The frame of a blocking call is that of the call its client is in, and it *)
(* is registered under one key at most, once it is on its way no more.       *)
Waits(e) == /\ client[e.client].pc \in {"queued", "waiting"}
            /\ e = Element(e.client)
OnItsWay == Holding \cup Members(queue)
Owned ==
  /\ \A e \in OnItsWay : e.mode = "WAIT_FOR_CONFRM" => Waits(e)
  /\ \A k \in Keys : registered[k] # None =>
       /\ Waits(registered[k]) /\ registered[k] \notin OnItsWay
       /\ \A l \in Keys : registered[k] = registered[l] => k = l

IInv == TypesOK /\ Flow /\ Owned

LEMMA InitFlow == Init => Flow /\ Owned
<1> SUFFICES ASSUME Init PROVE Flow /\ Owned
  OBVIOUS
<1>1. Members(sent) = {} /\ Members(queue) = {} /\ Holding = {}
  BY DEF Init, Members, Holding, Handlers
<1>2. \A k \in Keys : registered[k] = None
  BY DEF Init
<1>3. InOrder(sent) /\ InOrder(queue)
  BY DEF Init, InOrder
<1>4. QED BY <1>1, <1>2, <1>3 DEF Flow, Owned, OnItsWay, Frames, Before

LEMMA StillFlow ==
  ASSUME Flow, Owned, Still, Forgets, UNCHANGED client
  PROVE  Flow' /\ Owned'
<1>1. Holding' = Holding /\ UNCHANGED <<queue, sent, client>>
  BY DEF Still, Holding
<1>2. Members(sent)' = Members(sent) /\ Members(queue)' = Members(queue)
      /\ InOrder(sent)' = InOrder(sent) /\ InOrder(queue)' = InOrder(queue)
  BY <1>1 DEF Members, InOrder
<1>3. Flow'
  BY <1>1, <1>2 DEF Flow, Before, Frames, Numbered
<1>4. OnItsWay' = OnItsWay
  BY <1>1, <1>2 DEF OnItsWay
<1>5. \A e : Waits(e)' = Waits(e)
  BY DEF Waits, Element
<1>6. Owned'
  BY <1>4, <1>5 DEF Owned, Forgets
<1>7. QED BY <1>3, <1>6

LEMMA NotHolding ==
  ASSUME handler["output"] # "io"
  PROVE  Holding = {}
BY DEF Holding

LEMMA TakesFlow ==
  ASSUME TypesOK, Flow, Owned, WriterTakes
  PROVE  Flow' /\ Owned'
<1>1. /\ handler["output"] = "top" /\ handler'["output"] = "io"
      /\ queue # <<>> /\ queue \in Seq(Elements)
      /\ hand' = Head(queue) /\ queue' = Tail(queue)
      /\ UNCHANGED <<registered, client, sent>>
  BY DEF WriterTakes, Goto, TypesOK, HandlersOK, FramesOK, Handlers
<1>2. Holding = {} /\ Holding' = {Head(queue)}
  BY <1>1 DEF Holding
<1>3. /\ InOrder(queue') /\ Members(queue') \subseteq Members(queue)
      /\ Head(queue) \in Members(queue) /\ Before({Head(queue)}, Members(queue'))
  BY <1>1, TailInOrder DEF Flow
<1>4. Members(sent)' = Members(sent) /\ Members(queue)' = Members(queue')
      /\ InOrder(sent)' = InOrder(sent) /\ InOrder(queue)' = InOrder(queue')
  BY <1>1 DEF Members, InOrder
<1>5. Flow'
  BY <1>1, <1>2, <1>3, <1>4 DEF Flow, Before, Frames, Numbered
<1>6. OnItsWay' \subseteq OnItsWay
  BY <1>2, <1>3, <1>4 DEF OnItsWay
<1>7. \A e : Waits(e)' = Waits(e)
  BY <1>1 DEF Waits, Element
<1>8. Owned'
  BY <1>1, <1>6, <1>7 DEF Owned
<1>9. QED BY <1>5, <1>8

(* A frame leaves the hand of the output handler for the bus, or for nothing,*)
(* and is registered or not.                                                *)
LEMMA EndsFlow ==
  ASSUME TypesOK, Flow, Owned, WriterSends \/ WriterThrows \/ WriterFails \/ WriterDrops
  PROVE  Flow' /\ Owned'
<1>1. /\ handler["output"] = "io" /\ hand \in Elements /\ sent \in Seq(Elements)
      /\ sent' \in {sent, Append(sent, hand)}
      /\ registered' \in {registered, Registration}
      /\ UNCHANGED <<queue, client>>
  BY DEF WriterSends, WriterThrows, WriterFails, WriterDrops, TypesOK, FramesOK
<1>2. Holding = {hand} /\ Holding' = {}
  <2>1. handler'["output"] # "io"
    <3>1. handler \in [Handlers -> HandlerLabels]
      BY DEF TypesOK, HandlersOK
    <3>2. CASE WriterSends \/ WriterDrops
      BY <3>1, <3>2, ProceedTypes DEF WriterSends, WriterDrops, Handlers
    <3>3. CASE WriterThrows \/ WriterFails
      BY <3>1, <3>3, GotoTypes DEF WriterThrows, WriterFails, HandlerLabels
    <3>4. QED BY <3>2, <3>3
  <2>2. QED BY <1>1, <2>1 DEF Holding
<1>3. InOrder(sent') /\ Members(sent') \subseteq Members(sent) \cup {hand}
  <2>1. CASE sent' = sent
    BY <2>1 DEF Flow, InOrder, Members
  <2>2. CASE sent' = Append(sent, hand)
    BY <1>1, <1>2, <2>2, AppendInOrder DEF Flow
  <2>3. QED BY <1>1, <2>1, <2>2
<1>4. Members(sent)' = Members(sent') /\ Members(queue)' = Members(queue)
      /\ InOrder(sent)' = InOrder(sent') /\ InOrder(queue)' = InOrder(queue)
  BY <1>1 DEF Members, InOrder
<1>5. Flow'
  BY <1>1, <1>2, <1>3, <1>4 DEF Flow, Before, Frames, Numbered
<1>6. OnItsWay' \subseteq OnItsWay /\ hand \notin OnItsWay'
  <2>1. hand \notin Members(queue)
    <3>1. hand.n \in Nat
      BY <1>1 DEF Elements
    <3>2. \A x \in Members(queue) : Precedes(hand, x)
      BY <1>2 DEF Flow, Before
    <3>3. QED BY <3>1, <3>2 DEF Precedes
  <2>2. QED BY <1>2, <1>4, <2>1 DEF OnItsWay
<1>7. \A e : Waits(e)' = Waits(e)
  BY <1>1 DEF Waits, Element
<1>8. hand \in OnItsWay
  BY <1>2 DEF OnItsWay
<1>9. Owned'
  <2>1. CASE registered' = registered
    BY <1>6, <1>7, <2>1 DEF Owned
  <2>2. ASSUME hand.mode = "WAIT_FOR_CONFRM",
               NEW k \in Keys, registered[k] = None,
               registered' = [registered EXCEPT ![k] = hand]
        PROVE  Owned'
    <3>1. registered'[k] = hand /\ \A l \in Keys \ {k} : registered'[l] = registered[l]
      BY <2>2 DEF TypesOK, FramesOK, Registered
    <3>2. Waits(hand) /\ \A l \in Keys : registered[l] # None => registered[l] # hand
      BY <1>8, <2>2 DEF Owned
    <3>3. hand # None
      <4>1. PICK e \in Elements : e = hand
        BY <1>1
      <4>2. DOMAIN e = {"client", "n", "mode"} /\ DOMAIN None = {"n"}
        BY <4>1 DEF Elements, None
      <4>3. QED BY <4>1, <4>2
    <3>4. ASSUME NEW l \in Keys, registered'[l] # None
          PROVE  /\ Waits(registered'[l]) /\ registered'[l] \notin OnItsWay'
                 /\ \A j \in Keys : registered'[l] = registered'[j] => l = j
      <4>1. CASE l = k
        BY <1>6, <3>1, <3>2, <3>3, <4>1
      <4>2. CASE l # k
        BY <1>6, <3>1, <3>2, <3>4, <4>2 DEF Owned
      <4>3. QED BY <4>1, <4>2
    <3>5. QED BY <1>6, <1>7, <3>4 DEF Owned
  <2>3. QED BY <1>1, <2>1, <2>2, RegistrationIs
<1>10. QED BY <1>5, <1>9

LEMMA TransfersFlow ==
  ASSUME TypesOK, Flow, Owned, Transfers
  PROVE  Flow' /\ Owned'
<1>1. CASE WriterFindsNothing
  <2>1. Still /\ UNCHANGED <<registered, client>>
    BY <1>1, ProceedTypes DEF WriterFindsNothing, Still, Handlers, TypesOK, HandlersOK
  <2>2. QED BY <2>1, KeptRegistrations, StillFlow DEF TypesOK
<1>2. CASE WriterContinues
  <2>1. Still /\ UNCHANGED <<registered, client>>
    BY <1>2, GotoTypes
    DEF WriterContinues, Still, HandlerLabels, TypesOK, HandlersOK
  <2>2. QED BY <2>1, KeptRegistrations, StillFlow DEF TypesOK
<1>3. QED BY <1>1, <1>2, TakesFlow, EndsFlow DEF Transfers

-----------------------------------------------------------------------------
LEMMA FramesTypes ==
  ASSUME TypesOK
  PROVE  /\ \A e \in Frames : e \in Elements
         /\ \A k \in Keys : registered[k] # None => registered[k] \in Elements
<1>1. Members(sent) \subseteq Elements /\ Members(queue) \subseteq Elements
  BY ElementOfSeq DEF TypesOK, FramesOK, Members
<1>2. QED BY <1>1 DEF TypesOK, FramesOK, Registered, Frames, Holding

(* Owned looks at the clients only for the frames that wait: a step of a     *)
(* client that has none of them there keeps it.                             *)
LEMMA OwnedStays ==
  ASSUME Owned, UNCHANGED registered, OnItsWay' \subseteq OnItsWay,
         \A e : Waits(e) => Waits(e)'
  PROVE  Owned'
BY DEF Owned

(* The frames of client c, while it neither is queueing nor has queued one. *)
LEMMA CallsFlow ==
  ASSUME TypesOK, Flow, Owned, NEW c \in Clients, NEW mode \in Modes,
         ClientCalls(c, mode)
  PROVE  Flow' /\ Owned'
<1>1. /\ client[c].pc = "idle" /\ client[c].n \in Nat
      /\ client' = [client EXCEPT ![c] = [pc |-> "write", n |-> client[c].n + 1,
                                          mode |-> mode]]
      /\ UNCHANGED <<handler, queue, hand, registered, sent>>
  BY DEF ClientCalls, TypesOK, ClientsOK
<1>2. /\ Members(sent)' = Members(sent) /\ Members(queue)' = Members(queue)
      /\ InOrder(sent)' = InOrder(sent) /\ InOrder(queue)' = InOrder(queue)
      /\ Holding' = Holding
  BY <1>1 DEF Members, InOrder, Holding
<1>3. /\ client'[c].n = client[c].n + 1 /\ client'[c].pc = "write"
      /\ \A d : d # c => client'[d] = client[d]
  BY <1>1 DEF TypesOK, ClientsOK
<1>4. \A e \in Frames : Numbered(e)'
  <2>1. TAKE e \in Frames
  <2>2. e.n \in Nat /\ e.client \in Clients /\ Numbered(e)
    BY FramesTypes DEF Elements, Flow
  <2>3. CASE e.client = c
    BY <1>1, <1>3, <2>2, <2>3 DEF Numbered
  <2>4. CASE e.client # c
    BY <1>3, <2>2, <2>4 DEF Numbered
  <2>5. QED BY <2>3, <2>4
<1>5. Flow'
  BY <1>2, <1>4 DEF Flow, Frames, Before
<1>6. \A e : Waits(e) => Waits(e)'
  BY <1>1, <1>3 DEF Waits, Element
<1>7. Owned'
  BY <1>1, <1>2, <1>6, OwnedStays DEF OnItsWay
<1>8. QED BY <1>5, <1>7

(* A client that only moves on within a blocking call changes nothing.      *)
LEMMA MovesFlow ==
  ASSUME TypesOK, Flow, Owned, NEW c \in Clients, client[c].pc = "queued",
         client' = [client EXCEPT ![c].pc = "waiting"],
         UNCHANGED <<handler, queue, hand, registered, sent>>
  PROVE  Flow' /\ Owned'
<1>1. /\ Members(sent)' = Members(sent) /\ Members(queue)' = Members(queue)
      /\ InOrder(sent)' = InOrder(sent) /\ InOrder(queue)' = InOrder(queue)
      /\ Holding' = Holding
  BY DEF Members, InOrder, Holding
<1>2. \A d :
        /\ client'[d].n = client[d].n /\ Element(d)' = Element(d)
        /\ client'[d].pc = "write" => client[d].pc = "write"
        /\ client[d].pc \in {"queued", "waiting"} =>
             client'[d].pc \in {"queued", "waiting"}
  BY DEF TypesOK, ClientsOK, Element
<1>3. \A e : Waits(e) => Waits(e)'
  BY <1>2 DEF Waits
<1>4. \A e \in Frames : Numbered(e)'
  BY <1>2, <1>3 DEF Flow, Numbered
<1>5. Flow'
  BY <1>1, <1>4 DEF Flow, Frames, Before
<1>6. Owned'
  BY <1>1, <1>3, OwnedStays DEF OnItsWay
<1>7. QED BY <1>5, <1>6

LEMMA QueuesFlow ==
  ASSUME TypesOK, Flow, Owned, NEW c \in Clients, ClientQueues(c)
  PROVE  Flow' /\ Owned'
<1> DEFINE label == IF client[c].mode \in Blocking THEN "queued" ELSE NextTurn
<1>0. PICK e : e = Element(c)
  OBVIOUS
<1>1. /\ client[c].pc = "write" /\ client' = [client EXCEPT ![c].pc = label]
      /\ queue' = IF Len(queue) < QueueSize THEN Append(queue, e) ELSE queue
      /\ UNCHANGED <<handler, hand, registered, sent>>
  BY <1>0 DEF ClientQueues, Element
<1>2. /\ queue \in Seq(Elements) /\ e \in Elements
      /\ e.client = c /\ e.n = client[c].n /\ e.mode = client[c].mode
      /\ client[c].n \in Nat
  BY <1>0, ElementType DEF TypesOK, FramesOK, ClientsOK, Element
<1>3. /\ client'[c].pc = label /\ label # "write"
      /\ \A d : /\ client'[d].n = client[d].n /\ Element(d)' = Element(d)
                /\ d # c => client'[d] = client[d]
  BY <1>1, TurnLabel DEF TypesOK, ClientsOK, Element
<1>4. \A x \in Frames : x.client \in Clients /\ x.n \in Nat
  BY FramesTypes DEF Elements
<1>5. \A x \in Frames : x.client = c => x.n < e.n
  BY <1>1, <1>2 DEF Flow, Numbered
<1>6. Before(Frames, {e})
  BY <1>2, <1>5 DEF Before, Precedes
<1>7. /\ InOrder(queue') /\ Members(queue') \subseteq Members(queue) \cup {e}
      /\ InOrder(queue)' = InOrder(queue') /\ Members(queue)' = Members(queue')
  <2>1. Before(Members(queue), {e})
    BY <1>6 DEF Before, Frames
  <2>2. QED BY <1>1, <1>2, <2>1, AppendInOrder DEF Flow, InOrder, Members
<1>8. /\ Members(sent)' = Members(sent) /\ Holding' = Holding
      /\ InOrder(sent)' = InOrder(sent)
  BY <1>1 DEF Members, InOrder, Holding
<1> HIDE DEF label
<1>9. \A x \in Frames \cup {e} : Numbered(x)'
  BY <1>2, <1>3, <1>4 DEF Flow, Numbered
<1>10. Before(Members(sent) \cup Holding, Members(queue) \cup {e})
  BY <1>6 DEF Flow, Before, Frames
<1>11. Flow'
  BY <1>7, <1>8, <1>9, <1>10 DEF Flow, Frames, Before
<1>12. \A x : Waits(x) => Waits(x)' /\ x # e
  BY <1>1, <1>2, <1>3 DEF Waits
<1>13. OnItsWay' \subseteq OnItsWay \cup {e}
  BY <1>7, <1>8 DEF OnItsWay
<1>14. e.mode = "WAIT_FOR_CONFRM" => Waits(e)'
  BY <1>0, <1>2, <1>3 DEF Waits, label, Blocking
<1>15. Owned'
  <2>1. \A x \in OnItsWay' : x.mode = "WAIT_FOR_CONFRM" => Waits(x)'
    BY <1>12, <1>13, <1>14 DEF Owned
  <2>2. ASSUME NEW k \in Keys, NEW x, x = registered[k], x # None
        PROVE  /\ Waits(x)' /\ x \notin OnItsWay'
               /\ \A l \in Keys : x = registered[l] => k = l
    BY <1>12, <1>13, <2>2 DEF Owned
  <2>3. QED BY <1>1, <2>1, <2>2 DEF Owned
<1>16. QED BY <1>11, <1>15

(* The confirmed element is no longer on its way, and its client owns no     *)
(* other.                                                                   *)
LEMMA ConfirmsFlow ==
  ASSUME TypesOK, Flow, Owned, Still, NEW k \in Keys, Finds(k)
  PROVE  Flow' /\ Owned'
<1>1. PICK e : e = registered[k]
  OBVIOUS
<1>2. /\ e \in Elements /\ e # None /\ Waits(e) /\ e \notin OnItsWay
      /\ \A l \in Keys : registered[l] = e => l = k
  BY <1>1, FramesTypes DEF Finds, Owned
<1>3. registered'[k] = None /\ \A l \in Keys \ {k} : registered'[l] = registered[l]
  BY DEF Finds, TypesOK, FramesOK, Registered
<1>4. Holding' = Holding /\ UNCHANGED <<queue, sent>>
  BY DEF Still, Holding
<1>5. /\ Members(sent)' = Members(sent) /\ Members(queue)' = Members(queue)
      /\ InOrder(sent)' = InOrder(sent) /\ InOrder(queue)' = InOrder(queue)
  BY <1>4 DEF Members, InOrder
<1>6. \A d : /\ client'[d].n = client[d].n /\ Element(d)' = Element(d)
             /\ client'[d].pc = "write" => client[d].pc = "write"
             /\ d # e.client => client'[d] = client[d]
  BY <1>1, TurnLabel DEF Finds, TypesOK, ClientsOK, Element
<1>7. Flow'
  <2>1. \A x \in Frames : Numbered(x)'
    BY <1>6 DEF Flow, Numbered
  <2>2. QED BY <1>4, <1>5, <2>1 DEF Flow, Frames, Before
<1>8. \A x : Waits(x) /\ x # e => Waits(x)'
  BY <1>2, <1>6 DEF Waits
<1>9. OnItsWay' = OnItsWay
  BY <1>4, <1>5 DEF OnItsWay
<1>10. Owned'
  <2>1. \A x \in OnItsWay' : x.mode = "WAIT_FOR_CONFRM" => Waits(x)'
    BY <1>2, <1>8, <1>9 DEF Owned
  <2>2. ASSUME NEW l \in Keys, NEW x, x = registered'[l], x # None
        PROVE  /\ Waits(x)' /\ x \notin OnItsWay'
               /\ \A j \in Keys : x = registered'[j] => l = j
    <3>1. l # k /\ registered[l] = x /\ x # e
      BY <1>2, <1>3, <2>2
    <3>2. Waits(x) /\ x \notin OnItsWay /\ \A j \in Keys : x = registered[j] => l = j
      BY <2>2, <3>1 DEF Owned
    <3>3. QED BY <1>2, <1>3, <1>8, <1>9, <2>2, <3>1, <3>2
  <2>3. QED BY <2>1, <2>2 DEF Owned
<1>11. QED BY <1>7, <1>10

LEMMA StepFlow == IInv /\ [Next]_vars => IInv'
<1> SUFFICES ASSUME TypesOK, Flow, Owned, [Next]_vars PROVE Flow' /\ Owned'
  BY StepTypes DEF IInv
<1>1. ASSUME NEW h \in Handlers, Common(h) PROVE Flow' /\ Owned'
  BY <1>1, CommonTypes, KeptRegistrations, StillFlow DEF TypesOK
<1>2. CASE Reads
  <2>1. Still /\ Forgets /\ (UNCHANGED client \/ \E k \in Keys : Finds(k))
    BY <1>2, ReaderTypes DEF Reads
  <2>2. QED BY <2>1, StillFlow, ConfirmsFlow
<1>3. ASSUME NEW c \in Clients, Client(c) PROVE Flow' /\ Owned'
  <2>1. CASE ClientWaits(c)
    BY <2>1, MovesFlow DEF ClientWaits
  <2>2. QED BY <1>3, <2>1, CallsFlow, QueuesFlow DEF Client
<1>4. ASSUME NEW t \in Threads, Step(t) PROVE Flow' /\ Owned'
  BY <1>4, StepsTypes, StillFlow
<1>5. CASE CallSteps
  BY <1>5, CallTypes, KeptRegistrations, StillFlow DEF CallSteps, TypesOK
<1>6. QED BY <1>1, <1>2, <1>3, <1>4, <1>5, NextSteps, TransfersFlow

LEMMA AlwaysIInv == Spec => []IInv
<1>1. Init => IInv
  BY InitTypes, InitFlow DEF IInv
<1>2. QED BY <1>1, StepFlow, PTL DEF Spec

(* The frames of a client leave in the order of its calls, each at most     *)
(* once, whatever queue, connection and administrators do.                  *)
THEOREM FramesSentInOrder == Spec => []SentInOrder
<1>1. IInv => SentInOrder
  BY DEF IInv, Flow, InOrder, Precedes, SentInOrder
<1>2. QED BY <1>1, AlwaysIInv, PTL

(* A blocked client is let go by the confirmation that the tunnel accepts    *)
(* under the number of its very call, once its frame has left the queue and  *)
(* the output handler, and by nothing else, whatever numbers wrap, are reset *)
(* or collide.                                                              *)
THEOREM ReleaseNeedsConfirmation == Spec => BlockedUntilConfirmed
<1> DEFINE Release(c) ==
      LET e == [client |-> c, n |-> client[c].n, mode |-> client[c].mode] IN
      /\ recv' = NextRecv /\ recv' \in Keys
      /\ registered[recv'] = e /\ registered'[recv'] = None
      /\ hand # e /\ \A i \in 1 .. Len(queue) : queue[i] # e
<1>1. ASSUME IInv, [Next]_vars, NEW c \in Clients,
             client[c].pc = "waiting", client'[c].pc # "waiting"
      PROVE  Release(c)
  <2> USE DEF IInv
  <2>1. client' # client
    BY <1>1
  <2>2. ASSUME NEW k \in Keys, Finds(k), Confirms PROVE Release(c)
    <3>1. PICK e : e = registered[k]
      OBVIOUS
    <3>2. e \in Elements /\ e # None /\ Waits(e) /\ e \notin OnItsWay
      BY <1>1, <2>2, <3>1, FramesTypes DEF Finds, Owned
    <3>3. c = e.client
      <4>1. client' = client \/ client' = [client EXCEPT ![e.client].pc = NextTurn]
        BY <2>2, <3>1 DEF Finds
      <4>2. SUFFICES ASSUME c # e.client PROVE FALSE
        OBVIOUS
      <4>3. client'[c] = client[c]
        BY <1>1, <4>1, <4>2 DEF TypesOK, ClientsOK
      <4>4. QED BY <1>1, <4>3
    <3>4. e = Element(c)
      BY <3>2, <3>3 DEF Waits
    <3>5. recv' = NextRecv /\ recv' = k
      BY <2>2 DEF Confirms, Finds
    <3>6. registered'[k] = None
      BY <1>1, <2>2 DEF Finds, TypesOK, FramesOK, Registered
    <3>7. hand # e /\ \A i \in 1 .. Len(queue) : queue[i] # e
      BY <1>1, <3>2 DEF OnItsWay, Holding, Members, TypesOK, FramesOK
    <3>8. QED BY <3>1, <3>4, <3>5, <3>6, <3>7 DEF Element
  <2>3. ASSUME NEW d \in Clients, Client(d) PROVE FALSE
    <3>1. client[d].pc \in {"idle", "write", "queued"}
          /\ (client'[d].pc # client[d].pc => d # c)
      BY <1>1, <2>3 DEF Client, ClientCalls, ClientQueues, ClientWaits
    <3>2. d # c
      BY <1>1, <3>1
    <3>3. client'[c] = client[c]
      BY <1>1, <2>3, <3>2
      DEF Client, ClientCalls, ClientQueues, ClientWaits, TypesOK, ClientsOK
    <3>4. QED BY <1>1, <3>3
  <2>4. Transfers => client' = client
    BY DEF Transfers, WriterTakes, WriterFindsNothing, WriterSends, WriterThrows, WriterFails,
           WriterDrops, WriterContinues
  <2>5. QED
    BY <1>1, <2>1, <2>2, <2>3, <2>4, NextSteps, CommonTypes, ReaderTypes, StepsTypes,
       CallTypes DEF Reads, CallSteps
<1>2. IInv /\ [Next]_vars =>
        [\A c \in Clients : client[c].pc = "waiting" /\ client'[c].pc # "waiting" =>
           Release(c)]_vars
  BY <1>1
<1> HIDE DEF Release
<1>3. Spec => [][\A c \in Clients :
                  client[c].pc = "waiting" /\ client'[c].pc # "waiting" => Release(c)]_vars
  BY <1>2, AlwaysIInv, PTL DEF Spec
<1>4. QED BY <1>3 DEF BlockedUntilConfirmed, Release

-----------------------------------------------------------------------------
(***************************************************************************)
(* Suspension, when the calls do not overlap.                              *)
(*                                                                         *)
(* The scripts, as far as the proof looks at them: where each suspends a   *)
(* handler, stops it and resumes it.                                       *)
(***************************************************************************)
AcquireAt(h) == IF h = "input" THEN 2 ELSE 4
StopAt(h)    == IF h = "input" THEN 6 ELSE 9
UnpauseAt(call, h) ==
  IF call = "StartInterface" THEN IF h = "input" THEN 6 ELSE 8
                             ELSE IF h = "input" THEN 12 ELSE 14

(* StopInterface, StartInterface and the shutdown, written out.             *)
LEMMA StopScript ==
  /\ Len(StopInterface) = 15
  /\ StopInterface[1] = Do("pause", "input")   /\ StopInterface[2] = Do("acquire", "input")
  /\ StopInterface[3] = Do("pause", "output")  /\ StopInterface[4] = Do("acquire", "output")
  /\ StopInterface[5] = Do("disconnect", "input")
  /\ StopInterface[6] = Do("stop", "input")    /\ StopInterface[7] = Do("notify", "input")
  /\ StopInterface[8] = Do("join", "input")
  /\ StopInterface[9] = Do("stop", "output")   /\ StopInterface[10] = Do("notify", "output")
  /\ StopInterface[11] = Do("join", "output")
  /\ StopInterface[12] = Do("unpause", "input")  /\ StopInterface[13] = Do("notify", "input")
  /\ StopInterface[14] = Do("unpause", "output") /\ StopInterface[15] = Do("notify", "output")
BY DEF StopInterface, CloseInterface, CloseHandler, Suspend, Resume

LEMMA StartScript ==
  /\ Len(StartInterface) = 9
  /\ StartInterface[1] = Do("pause", "input")   /\ StartInterface[2] = Do("acquire", "input")
  /\ StartInterface[3] = Do("pause", "output")  /\ StartInterface[4] = Do("acquire", "output")
  /\ StartInterface[5] = Do("init", "input")
  /\ StartInterface[6] = Do("unpause", "input")  /\ StartInterface[7] = Do("notify", "input")
  /\ StartInterface[8] = Do("unpause", "output") /\ StartInterface[9] = Do("notify", "output")
BY DEF StartInterface, Suspend, Resume

LEMMA ShutdownScript ==
  /\ Len(Shutdown) = 9
  /\ Shutdown[1] = Do("join_requests", "input") /\ Shutdown[2] = Do("logout", "input")
  /\ Shutdown[3] = Do("disconnect", "input")
  /\ Shutdown[4] = Do("stop", "input")  /\ Shutdown[5] = Do("notify", "input")
  /\ Shutdown[6] = Do("join", "input")
  /\ Shutdown[7] = Do("stop", "output") /\ Shutdown[8] = Do("notify", "output")
  /\ Shutdown[9] = Do("join", "output")
BY DEF Shutdown, CloseInterface, CloseHandler

LEMMA ScriptLengths ==
  /\ Len(Script("StopInterface")) = 15 /\ Len(Script("StartInterface")) = 9
  /\ Len(Script("Shutdown")) = 9
<1>1. Script("StopInterface") = StopInterface /\ Script("StartInterface") = StartInterface
      /\ Script("Shutdown") = Shutdown
  BY DEF Script
<1> QED
  BY <1>1, StopScript, StartScript, ShutdownScript, Zenon

LEMMA Instructions ==
  ASSUME NEW call \in Calls, NEW h \in Handlers, NEW i \in 1 .. Len(Script(call))
  PROVE  /\ Script(call)[i].on \in Handlers
         /\ Script(call)[i] = Do(Script(call)[i].op, Script(call)[i].on)
         /\ i = AcquireAt(h) <=> Script(call)[i] = Do("acquire", h)
         /\ i = UnpauseAt(call, h) <=> Script(call)[i] = Do("unpause", h)
         /\ call = "StopInterface" /\ i = StopAt(h) => Script(call)[i] = Do("stop", h)
         /\ Script(call)[i] = Do("notify", h) =>
              \/ i > UnpauseAt(call, h)
              \/ call = "StopInterface" /\ i > StopAt(h)
<1> USE DEF Do, Handlers, AcquireAt, StopAt, UnpauseAt
<1>1. CASE call = "StopInterface"
  <2>1. Script(call) = StopInterface
    BY <1>1 DEF Script
  <2>2. i \in 1 .. 15
    BY <2>1, StopScript
  <2> QED
    BY <1>1, <2>1, <2>2, StopScript
<1>2. CASE call = "StartInterface"
  <2>1. Script(call) = StartInterface
    BY <1>2 DEF Script
  <2>2. i \in 1 .. 9
    BY <2>1, StartScript
  <2> QED
    BY <1>2, <2>1, <2>2, StartScript
<1> QED
  BY <1>1, <1>2 DEF Calls

(* One call at a time, and none beside the shutdown after its first         *)
(* instruction.                                                             *)
Within(t, calling) == /\ thread[t].call \in calling
                      /\ thread[t].pc \in 1 .. Len(Script(thread[t].call)) + 1
OneCall ==
  /\ \A t \in Admins : thread[t] = Idle \/ Within(t, Calls)
  /\ thread[Main] = Idle \/ Within(Main, {"Shutdown"})
  /\ \A t, u \in Busy : t = u
  /\ thread[Main].pc > 1 => Busy = {}

(* A handler that is out of the connection and stays there.                 *)
Kept(h) == \/ handler[h] \in {"paused", "dead"}
           \/ handler[h] \in {"waking", "top", "wait"} /\ stop[h] = TRUE

LEMMA KeptIsQuiet ==
  /\ HandlersOK => \A h \in Handlers : Kept(h) <=> Quiet(h)
  /\ HandlersOK' => \A h \in Handlers : Kept(h)' <=> Quiet(h)'
BY DEF HandlersOK, Kept, Quiet

(* StopInterface has told the handler to stop before it wakes it.           *)
Stops(t, h) ==
  thread[t].call = "StopInterface" /\ thread[t].pc > StopAt(h) => stop[h] = TRUE

QuietInv == OneCall /\ \A t \in Busy, h \in Handlers : Stops(t, h)

LEMMA SuspendedPhase ==
  ASSUME OneCall, NEW t \in Threads, NEW h \in Handlers, Suspended(t, h)
  PROVE  t \in Busy /\ AcquireAt(h) < thread[t].pc
         /\ thread[t].pc <= UnpauseAt(thread[t].call, h)
<1> DEFINE call == thread[t].call
           pc == thread[t].pc
           len == Len(Script(call))
<1>1. PICK i \in 1 .. pc - 1 : Script(call)[i] = Do("acquire", h)
  BY DEF Suspended
<1>2. thread[t] # Idle
  BY <1>1 DEF Idle
<1>3. t # Main
  <2> SUFFICES ASSUME t = Main PROVE FALSE
    OBVIOUS
  <2>1. call = "Shutdown" /\ pc \in 1 .. len + 1 /\ Script(call) = Shutdown
    <3>1. Within(t, {"Shutdown"})
      BY <1>2 DEF OneCall
    <3>2. call = "Shutdown" /\ pc \in 1 .. len + 1
      BY <3>1 DEF Within
    <3> QED
      BY <3>2 DEF Script
  <2>2. i \in 1 .. 9
    <3>1. len = 9
      BY <2>1, ScriptLengths, Zenon
    <3> HIDE DEF len, pc
    <3> QED
      BY <1>1, <2>1, <3>1
  <2> QED
    BY <1>1, <2>1, <2>2, ShutdownScript DEF Do
<1>4. t \in Busy /\ call \in Calls /\ pc \in 1 .. len + 1
  <2>1. t \in Busy /\ Within(t, Calls)
    BY <1>2, <1>3 DEF OneCall, Busy, Threads
  <2> QED
    BY <2>1 DEF Within
<1>5. len \in Nat /\ UnpauseAt(call, h) \in 1 .. len
  <2>1. CASE call = "StopInterface"
    <3>1. len = 15
      BY <2>1, ScriptLengths, Zenon
    <3> HIDE DEF len
    <3> QED
      BY <2>1, <3>1 DEF UnpauseAt
  <2>2. CASE call = "StartInterface"
    <3>1. len = 9
      BY <2>2, ScriptLengths, Zenon
    <3> HIDE DEF len
    <3> QED
      BY <2>2, <3>1 DEF UnpauseAt
  <2> QED
    BY <1>4, <2>1, <2>2 DEF Calls
<1>6. i \in 1 .. len
  BY <1>1, <1>4, <1>5
<1>7. i = AcquireAt(h)
  BY <1>1, <1>4, <1>6, Instructions
<1>8. Script(call)[UnpauseAt(call, h)] = Do("unpause", h)
  BY <1>4, <1>5, Instructions
<1>9. ~ (UnpauseAt(call, h) \in 1 .. pc - 1)
  BY <1>8 DEF Suspended
<1> QED
  BY <1>1, <1>4, <1>5, <1>7, <1>9

LEMMA InitQuiet == Init => QuietInv
BY ThreadsAssumption DEF Init, QuietInv, OneCall, Busy, Threads, Idle

(***************************************************************************)
(* What the handlers do by themselves does not disturb a suspension.       *)
(***************************************************************************)
Calm(h) ==
  /\ Kept(h) => Kept(h)'
  /\ stop[h] = TRUE => stop'[h] = TRUE

(* One handler moves on by itself.                                          *)
Turns ==
  \E g \in Handlers, label \in HandlerLabels \ {"off", "waking"} :
    /\ Goto(g, label)
    /\ \/ handler[g] \in {"off", "io"}
       \/ handler[g] = "top" /\ stop[g] = TRUE /\ label = "dead"
       \/ handler[g] = "top" /\ stop[g] = FALSE
       \/ handler[g] = "waking" /\ label \in {"top", "wait"}
       \/ handler[g] = "wait" /\ label = "top"

LEMMA HandlersTurn ==
  ASSUME HandlersOK, (\E h \in Handlers : Common(h)) \/ Reads \/ Transfers
  PROVE  Turns
<1>1. /\ "input" \in Handlers /\ "output" \in Handlers
      /\ {"top", "io", "wait", "paused", "dead"} \subseteq HandlerLabels \ {"off", "waking"}
      /\ \A h \in Handlers : stop[h] \in BOOLEAN
  BY DEF Handlers, HandlerLabels, HandlersOK
<1>2. ASSUME NEW h \in Handlers, PauseOrProceed(h) \/ Proceeds(h)
      PROVE  \E label \in {"top", "wait", "paused"} : Goto(h, label)
  BY <1>2 DEF PauseOrProceed, Proceeds
<1>3. ASSUME NEW h \in Handlers, Common(h) PROVE Turns
  <2>1. CASE Begin(h)
    BY <1>1, <2>1 DEF Begin, Turns
  <2>2. CASE Leave(h)
    BY <1>1, <2>2 DEF Leave, Turns
  <2>3. CASE Wake(h)
    <3>1. \E label \in {"top", "wait"} : Goto(h, label)
      BY <2>3 DEF Wake, Proceeds
    <3> QED
      BY <1>1, <2>3, <3>1 DEF Wake, Turns
  <2> QED
    BY <1>3, <2>1, <2>2, <2>3 DEF Common
<1>4. CASE Reads
  <2>1. PICK label \in {"top", "io", "wait", "paused"} : Goto("input", label)
    BY <1>1, <1>2, <1>4 DEF Reads, ReaderTop, ReaderRead, ReaderThrows, ReaderConfirms
  <2>2. handler["input"] = "io" \/ (handler["input"] = "top" /\ stop["input"] = FALSE)
    BY <1>1, <1>4 DEF Reads, ReaderTop, ReaderRead, ReaderThrows, ReaderConfirms
  <2>3. label \in HandlerLabels \ {"off", "waking"}
    BY <1>1
  <2> QED
    BY <1>1, <2>1, <2>2, <2>3 DEF Turns
<1>5. CASE Transfers
  <2>1. CASE WriterContinues
    BY <1>1, <2>1 DEF WriterContinues, Turns
  <2>2. CASE WriterTakes \/ WriterFindsNothing \/ WriterSends \/ WriterThrows
            \/ WriterFails \/ WriterDrops
    <3>1. PICK label \in {"top", "io", "wait", "paused"} : Goto("output", label)
      BY <1>1, <1>2, <2>2
      DEF WriterTakes, WriterFindsNothing, WriterSends, WriterThrows, WriterFails, WriterDrops
    <3>2. handler["output"] = "io" \/ (handler["output"] = "top" /\ stop["output"] = FALSE)
      BY <1>1, <2>2
      DEF WriterTakes, WriterFindsNothing, WriterSends, WriterThrows, WriterFails, WriterDrops
    <3>3. label \in HandlerLabels \ {"off", "waking"}
      BY <1>1
    <3> QED
      BY <1>1, <3>1, <3>2, <3>3 DEF Turns
  <2> QED
    BY <1>5, <2>1, <2>2 DEF Transfers
<1> QED
  BY <1>3, <1>4, <1>5

LEMMA HandlersCalm ==
  ASSUME HandlersOK, (\E h \in Handlers : Common(h)) \/ Reads \/ Transfers
  PROVE  UNCHANGED thread /\ \A h \in Handlers : Calm(h)
<1>1. UNCHANGED <<thread, stop>>
  BY DEF Common, Begin, Leave, Wake, Reads, ReaderTop, ReaderRead, ReaderThrows,
     ReaderConfirms, Transfers, WriterTakes, WriterFindsNothing, WriterSends, WriterThrows,
     WriterFails, WriterDrops, WriterContinues
<1>2. Turns
  BY HandlersTurn
<1>3. ASSUME NEW h \in Handlers PROVE Calm(h)
  BY <1>1, <1>2 DEF Turns, HandlersOK, HandlerLabels, Goto, Calm, Kept
<1> QED
  BY <1>1, <1>3

LEMMA CalmQuiet ==
  ASSUME QuietInv, UNCHANGED thread, \A h \in Handlers : Calm(h)
  PROVE  QuietInv'
<1>1. OneCall' /\ Busy' = Busy
  BY DEF QuietInv, OneCall, Within, Busy
<1>2. ASSUME NEW t \in Busy, NEW h \in Handlers PROVE Stops(t, h)'
  BY DEF QuietInv, Stops, Calm
<1> QED
  BY <1>1, <1>2 DEF QuietInv

(***************************************************************************)
(* The calls.                                                              *)
(***************************************************************************)
LEMMA CallsQuiet ==
  ASSUME ~Overlapping, TypesOK, QuietInv, CallSteps
  PROVE  QuietInv'
<1>1. UNCHANGED <<handler, stop>>
  BY DEF CallSteps, EndCall, BeginCall, BeginShutdown, ConnectionLost, vars
<1>2. \A h \in Handlers : Calm(h)
  BY <1>1 DEF Calm, Kept
<1>3. CASE UNCHANGED thread
  BY <1>2, <1>3, CalmQuiet
<1>4. ASSUME NEW t \in Threads, EndCall(t) PROVE QuietInv'
  <2>1. t \in Admins /\ thread' = [thread EXCEPT ![t] = Idle] /\ thread'[t] = Idle
    BY <1>4 DEF EndCall, Threads, TypesOK, ThreadsOK
  <2>2. Busy' = Busy \ {t} /\ \A u \in Threads \ {t} : thread'[u] = thread[u]
    BY <2>1 DEF Busy, TypesOK, ThreadsOK, Threads
  <2>3. OneCall'
    BY <2>1, <2>2, ThreadsAssumption DEF QuietInv, OneCall, Within, Threads
  <2>4. ASSUME NEW u \in Busy', NEW h \in Handlers PROVE Stops(u, h)'
    <3>1. u \in Busy /\ thread'[u] = thread[u]
      BY <2>2 DEF Busy, Threads
    <3> QED
      BY <1>1, <3>1 DEF QuietInv, Stops
  <2> QED
    BY <2>3, <2>4 DEF QuietInv
<1>5. ASSUME NEW t \in Admins, NEW call \in Calls, BeginCall(t, call) PROVE QuietInv'
  <2>1. /\ Busy = {} /\ thread[Main] = Idle
        /\ thread' = [thread EXCEPT ![t] = [call |-> call, pc |-> 1]]
    BY <1>5 DEF BeginCall
  <2>2. /\ t # Main /\ t \in Threads /\ Main \in Threads
        /\ thread'[t] = [call |-> call, pc |-> 1]
        /\ \A u \in Threads \ {t} : thread'[u] = thread[u]
    BY <2>1, ThreadsAssumption DEF Threads, TypesOK, ThreadsOK
  <2>3. thread'[t].call = call /\ thread'[t].pc = 1 /\ thread'[t] # Idle
    BY <2>2 DEF Calls, Idle
  <2>4. Busy' = {t}
    BY <2>1, <2>2, <2>3 DEF Busy, Threads
  <2>5. OneCall'
    <3>1. Within(t, Calls)'
      <4>1. 1 \in 1 .. Len(Script(call)) + 1
        <5> DEFINE len == Len(Script(call))
        <5>1. call = "StopInterface" => len = 15
          BY ScriptLengths, Zenon
        <5>2. call = "StartInterface" => len = 9
          BY ScriptLengths, Zenon
        <5> HIDE DEF len
        <5>3. 1 \in 1 .. len + 1
          BY <5>1, <5>2 DEF Calls
        <5> QED
          BY <5>3 DEF len
      <4> QED
        BY <2>3, <4>1 DEF Within
    <3>2. \A u \in Admins \ {t} : thread'[u] = Idle
      BY <2>1, <2>2 DEF Busy, Threads
    <3>3. thread'[Main] = Idle /\ ~ (Idle.pc > 1)
      BY <2>1, <2>2 DEF Idle
    <3> QED
      BY <2>4, <3>1, <3>2, <3>3 DEF OneCall
  <2>6. \A h \in Handlers : Stops(t, h)'
    BY <2>3 DEF Stops, StopAt
  <2> QED
    BY <2>4, <2>5, <2>6 DEF QuietInv
<1>6. CASE BeginShutdown
  <2>1. /\ thread' = [thread EXCEPT ![Main] = [call |-> "Shutdown", pc |-> 1]]
        /\ Main \in Threads /\ Main \notin Admins
    BY <1>6, ThreadsAssumption DEF BeginShutdown, Threads
  <2>2. /\ thread'[Main].call = "Shutdown" /\ thread'[Main].pc = 1
        /\ \A u \in Admins : thread'[u] = thread[u]
    BY <2>1 DEF TypesOK, ThreadsOK, Threads
  <2>3. Busy' = Busy
    BY <2>2 DEF Busy
  <2>4. OneCall'
    <3>1. Within(Main, {"Shutdown"})'
      <4>1. Len(Script("Shutdown")) = 9
        BY ScriptLengths
      <4>2. Len(Script(thread'[Main].call)) = 9
        BY <2>2, <4>1, Zenon
      <4>3. thread'[Main].pc \in 1 .. Len(Script(thread'[Main].call)) + 1
        <5> DEFINE len == Len(Script(thread'[Main].call))
        <5> HIDE DEF len
        <5> QED
          BY <2>2, <4>2 DEF len
      <4> QED
        BY <2>2, <4>3 DEF Within
    <3> QED
      BY <2>2, <2>3, <3>1 DEF QuietInv, OneCall, Within
  <2>5. ASSUME NEW u \in Busy, NEW h \in Handlers PROVE Stops(u, h)'
    BY <1>1, <2>2 DEF QuietInv, Stops, Busy
  <2> QED
    BY <2>3, <2>4, <2>5 DEF QuietInv
<1> QED
  BY <1>3, <1>4, <1>5, <1>6 DEF CallSteps, ConnectionLost, vars

(* The shutdown goes on only when no call of an administrator is left.      *)
LEMMA MainSteps ==
  ASSUME TypesOK, QuietInv, Step(Main)
  PROVE  /\ Within(Main, {"Shutdown"}) /\ Busy = {}
         /\ thread[Main].pc \in 1 .. 9
<1> DEFINE call == thread[Main].call
           pc == thread[Main].pc
           len == Len(Script(call))
<1>1. /\ thread[Main] # Idle /\ pc <= len
      /\ SetFlag(Main) \/ LockWaitMon(Main) \/ DisConnect(Main) \/ InitInterface(Main)
         \/ Join(Main)
  BY DEF Step, Running, Idle
<1>2. Within(Main, {"Shutdown"}) /\ call = "Shutdown"
  BY <1>1 DEF QuietInv, OneCall, Within
<1>3. len = 9 /\ At(Main) = Shutdown[pc]
  BY <1>2, ScriptLengths, Zenon DEF At, Script
<1>4. pc \in 1 .. 9
  <2>1. pc \in 1 .. len + 1
    BY <1>2 DEF Within
  <2> HIDE DEF len, pc
  <2> QED
    BY <1>1, <1>3, <2>1
<1>5. CASE pc = 1
  <2>1. At(Main) = Do("join_requests", "input")
    BY <1>3, <1>5, ShutdownScript
  <2>2. Busy = {}
    BY <1>1, <2>1 DEF Do, SetFlag, LockWaitMon, DisConnect, InitInterface, Join
  <2> QED
    BY <1>2, <1>4, <2>2
<1>6. CASE pc > 1
  BY <1>2, <1>4, <1>6 DEF QuietInv, OneCall
<1> QED
  BY <1>4, <1>5, <1>6

(* A call of an administrator is the only one.                              *)
LEMMA AdminSteps ==
  ASSUME TypesOK, QuietInv, NEW t \in Admins, Step(t)
  PROVE  /\ Busy = {t} /\ t # Main /\ Within(t, Calls)
         /\ Len(Script(thread[t].call)) \in {9, 15}
         /\ thread[t].pc \in 1 .. Len(Script(thread[t].call))
<1> DEFINE call == thread[t].call
           pc == thread[t].pc
           len == Len(Script(call))
<1>1. thread[t] # Idle /\ pc <= len
  BY DEF Step, Running, Idle
<1>2. t \in Busy /\ Within(t, Calls) /\ call \in Calls /\ t # Main
  BY <1>1, ThreadsAssumption DEF QuietInv, OneCall, Busy, Within
<1>3. len \in {9, 15}
  BY <1>2, ScriptLengths, Zenon DEF Calls
<1>4. pc \in 1 .. len
  <2>1. pc \in 1 .. len + 1
    BY <1>2 DEF Within
  <2> HIDE DEF len, pc
  <2> QED
    BY <1>1, <1>3, <2>1
<1>5. Busy = {t}
  BY <1>2 DEF QuietInv, OneCall
<1> QED
  BY <1>2, <1>3, <1>4, <1>5

(* What an instruction of a call may be, by its number.                     *)
LEMMA AtInstruction ==
  ASSUME NEW t \in Threads, NEW h \in Handlers, thread[t].call \in Calls,
         thread[t].pc \in 1 .. Len(Script(thread[t].call))
  PROVE  /\ thread[t].call = "StopInterface" /\ thread[t].pc = StopAt(h) =>
              At(t).op = "stop" /\ At(t).on = h
         /\ At(t).op = "notify" /\ At(t).on = h =>
              \/ thread[t].pc > UnpauseAt(thread[t].call, h)
              \/ thread[t].call = "StopInterface" /\ thread[t].pc > StopAt(h)
<1> DEFINE call == thread[t].call
           pc == thread[t].pc
<1>1. At(t) = Script(call)[pc]
  BY DEF At
<1>2. /\ At(t) = Do(At(t).op, At(t).on)
      /\ call = "StopInterface" /\ pc = StopAt(h) => At(t) = Do("stop", h)
      /\ At(t) = Do("notify", h) =>
           \/ pc > UnpauseAt(call, h)
           \/ call = "StopInterface" /\ pc > StopAt(h)
  BY <1>1, Instructions
<1>3. \A x : At(t) = Do(x, h) <=> At(t).op = x /\ At(t).on = h
  BY <1>2 DEF Do
<1> HIDE DEF call, pc
<1>4. /\ call = "StopInterface" /\ pc = StopAt(h) => At(t).op = "stop" /\ At(t).on = h
      /\ At(t).op = "notify" /\ At(t).on = h =>
           \/ pc > UnpauseAt(call, h)
           \/ call = "StopInterface" /\ pc > StopAt(h)
  BY <1>2, <1>3, Zenon
<1> QED
  BY <1>4 DEF call, pc

(* What a step of a call does to a handler.                                 *)
LEMMA StepDoes ==
  ASSUME TypesOK, NEW t \in Threads, NEW h \in Handlers, Step(t)
  PROVE  /\ stop[h] = TRUE => stop'[h] = TRUE
         /\ At(t).op = "stop" /\ At(t).on = h => stop'[h] = TRUE
         /\ \/ handler'[h] = handler[h]
            \/ /\ At(t).op = "notify" /\ At(t).on = h
               /\ handler[h] = "paused" /\ handler'[h] = "waking"
<1>1. SetFlag(t) \/ LockWaitMon(t) \/ DisConnect(t) \/ InitInterface(t) \/ Join(t)
  BY DEF Step
<1>2. CASE SetFlag(t)
  BY <1>2 DEF SetFlag, TypesOK, HandlersOK
<1>3. CASE LockWaitMon(t)
  <2>1. At(t).op # "stop" /\ stop' = stop
    BY <1>3 DEF LockWaitMon
  <2>2. \/ handler' = handler
        \/ /\ At(t).op = "notify" /\ handler[At(t).on] = "paused"
           /\ handler' = [handler EXCEPT ![At(t).on] = "waking"]
    BY <1>3 DEF LockWaitMon, Goto
  <2> QED
    BY <2>1, <2>2 DEF TypesOK, HandlersOK
<1>4. CASE DisConnect(t) \/ InitInterface(t) \/ Join(t)
  BY <1>4 DEF DisConnect, InitInterface, Join
<1> QED
  BY <1>1, <1>2, <1>3, <1>4

LEMMA StepsQuiet ==
  ASSUME TypesOK, QuietInv, NEW t \in Threads, Step(t)
  PROVE  QuietInv'
<1> DEFINE call == thread[t].call
           pc == thread[t].pc
           len == Len(Script(call))
<1>1. thread' = [thread EXCEPT ![t].pc = pc + 1] /\ thread[t] # Idle
  BY DEF Step, StepsTo, Running, Idle
<1>2. /\ pc \in Nat /\ thread'[t].call = call /\ thread'[t].pc = pc + 1
      /\ \A u \in Threads \ {t} : thread'[u] = thread[u]
  BY <1>1 DEF TypesOK, ThreadsOK
<1>3. len = Len(Script(thread'[t].call))
  BY <1>2, Zenon
<1>4. CASE t = Main
  <2>1. Within(Main, {"Shutdown"}) /\ Busy = {} /\ pc \in 1 .. 9 /\ call = "Shutdown"
    BY <1>4, MainSteps DEF Within
  <2>2. len = 9
    BY <2>1, ScriptLengths, Zenon
  <2>3. Busy' = {}
    BY <1>2, <1>4, <2>1, ThreadsAssumption DEF Busy, Threads
  <2>4. Within(Main, {"Shutdown"})'
    <3> HIDE DEF len
    <3>1. pc + 1 \in 1 .. len + 1
      BY <2>1, <2>2
    <3> QED
      BY <1>2, <1>3, <1>4, <2>1, <3>1 DEF Within
  <2>5. \A u \in Admins : thread'[u] = Idle
    BY <2>3 DEF Busy
  <2>6. OneCall'
    BY <2>3, <2>4, <2>5 DEF OneCall
  <2> QED
    BY <2>3, <2>6 DEF QuietInv
<1>5. CASE t \in Admins
  <2>1. /\ Busy = {t} /\ t # Main /\ Within(t, Calls) /\ call \in Calls
        /\ len \in {9, 15} /\ pc \in 1 .. len
    BY <1>5, AdminSteps DEF Within
  <2>2. thread'[t] # Idle
    BY <1>2, <2>1 DEF Idle, Calls
  <2>3. Busy' = {t}
    BY <1>2, <2>1, <2>2 DEF Busy, Threads
  <2>4. OneCall'
    <3>1. Within(t, Calls)'
      <4> HIDE DEF len
      <4>1. pc + 1 \in 1 .. len + 1
        BY <2>1
      <4> QED
        BY <1>2, <1>3, <2>1, <4>1 DEF Within
    <3>2. \A u \in Admins \ {t} : thread'[u] = Idle
      BY <2>3 DEF Busy
    <3>3. Main \in Threads /\ thread'[Main] = thread[Main]
      BY <1>2, <2>1 DEF Threads
    <3>4. thread[Main] = Idle \/ Within(Main, {"Shutdown"})'
      BY <3>3 DEF QuietInv, OneCall, Within
    <3>5. ~ (thread[Main].pc > 1)
      BY <2>1 DEF QuietInv, OneCall
    <3> QED
      BY <2>3, <3>1, <3>2, <3>3, <3>4, <3>5 DEF OneCall
  <2>5. ASSUME NEW h \in Handlers PROVE Stops(t, h)'
    <3>1. Stops(t, h)
      BY <2>1 DEF QuietInv
    <3>2. call = "StopInterface" /\ pc = StopAt(h) => stop'[h] = TRUE
      BY <2>1, AtInstruction, StepDoes
    <3>3. stop[h] = TRUE => stop'[h] = TRUE
      BY StepDoes
    <3>4. StopAt(h) \in Nat
      BY DEF StopAt
    <3> QED
      BY <1>2, <3>1, <3>2, <3>3, <3>4 DEF Stops
  <2> QED
    BY <2>3, <2>4, <2>5 DEF QuietInv
<1> QED
  BY <1>4, <1>5 DEF Threads

LEMMA StepQuiet ==
  ASSUME ~Overlapping, TypesOK, QuietInv, [Next]_vars
  PROVE  QuietInv'
<1>1. CASE (\E h \in Handlers : Common(h)) \/ Reads \/ Transfers
  BY <1>1, HandlersCalm, CalmQuiet DEF TypesOK
<1>2. ASSUME NEW c \in Clients, Client(c) PROVE QuietInv'
  <2>1. UNCHANGED <<handler, stop, thread>>
    BY <1>2 DEF Client, ClientCalls, ClientQueues, ClientWaits
  <2>2. \A h \in Handlers : Calm(h)
    BY <2>1 DEF Calm, Kept
  <2> QED
    BY <2>1, <2>2, CalmQuiet
<1>3. ASSUME NEW t \in Threads, Step(t) PROVE QuietInv'
  BY <1>3, StepsQuiet
<1>4. CASE CallSteps
  BY <1>4, CallsQuiet
<1> QED
  BY <1>1, <1>2, <1>3, <1>4, NextSteps

(* What keeps a suspended handler out of the connection: the handler itself *)
(* stays paused, or runs to its end, and the call wakes it only when it has *)
(* told it to stop.                                                         *)
LEMMA StepKeeps ==
  ASSUME ~Overlapping, TypesOK, QuietInv, [Next]_vars,
         NEW t \in Threads, NEW h \in Handlers, Suspended(t, h), Kept(h)
  PROVE  Kept(h)'
<1>1. t \in Busy /\ thread[t].pc <= UnpauseAt(thread[t].call, h)
  BY SuspendedPhase DEF QuietInv
<1>2. CASE (\E g \in Handlers : Common(g)) \/ Reads \/ Transfers
  BY <1>2, HandlersCalm DEF TypesOK, Calm
<1>3. CASE UNCHANGED <<handler, stop>>
  BY <1>3 DEF Kept
<1>4. ASSUME NEW c \in Clients, Client(c) PROVE UNCHANGED <<handler, stop>>
  BY <1>4 DEF Client, ClientCalls, ClientQueues, ClientWaits
<1>5. ASSUME CallSteps PROVE UNCHANGED <<handler, stop>>
  BY <1>5 DEF CallSteps, EndCall, BeginCall, BeginShutdown, ConnectionLost, vars
<1>6. ASSUME NEW u \in Threads, Step(u) PROVE Kept(h)'
  <2>1. u # Main
    BY <1>1, <1>6, MainSteps
  <2>2. u \in Admins
    BY <2>1 DEF Threads
  <2>3. /\ u = t /\ thread[t].call \in Calls
        /\ thread[t].pc \in 1 .. Len(Script(thread[t].call))
    BY <1>1, <1>6, <2>2, AdminSteps DEF Within
  <2>4. thread[t].pc \in Nat /\ UnpauseAt(thread[t].call, h) \in Nat
    BY DEF TypesOK, ThreadsOK, UnpauseAt
  <2>5. At(t).op = "notify" /\ At(t).on = h => stop[h] = TRUE
    <3>1. At(t).op = "notify" /\ At(t).on = h =>
            \/ thread[t].pc > UnpauseAt(thread[t].call, h)
            \/ thread[t].call = "StopInterface" /\ thread[t].pc > StopAt(h)
      BY <2>3, AtInstruction
    <3>2. ~ (thread[t].pc > UnpauseAt(thread[t].call, h))
      BY <1>1, <2>4
    <3> QED
      BY <1>1, <3>1, <3>2 DEF QuietInv, Stops
  <2>6. /\ stop[h] = TRUE => stop'[h] = TRUE
        /\ \/ handler'[h] = handler[h]
           \/ /\ At(t).op = "notify" /\ At(t).on = h
              /\ handler[h] = "paused" /\ handler'[h] = "waking"
    BY <1>6, <2>3, StepDoes
  <2> QED
    BY <2>5, <2>6 DEF Kept
<1> QED
  BY <1>2, <1>3, <1>4, <1>5, <1>6, NextSteps

(* While the calls of the administrators follow one another, no call and no *)
(* handler brings a handler back into the connection before the call resumes*)
(* it, once it is out of it: StopInterface closes, and StartInterface       *)
(* deletes, no connection under a handler that was paused.  (A handler that *)
(* is still starting or waking when Suspend returns may go on instead:      *)
(* SuspendedIsQuiet does not hold, and nor does this if calls overlap.)     *)
THEOREM SuspensionIsQuiet == ~Overlapping => (Spec => QuietUntilResume)
<1> DEFINE Keeps == \A t \in Threads, h \in Handlers :
                      Suspended(t, h) /\ Quiet(h) => (Quiet(h) \/ ~Suspended(t, h))'
<1> SUFFICES ASSUME ~Overlapping PROVE Spec => QuietUntilResume
  OBVIOUS
<1>1. Init => TypesOK /\ QuietInv
  BY InitTypes, InitQuiet
<1>2. TypesOK /\ QuietInv /\ [Next]_vars => (TypesOK /\ QuietInv)'
  BY StepTypes, StepQuiet
<1>3. TypesOK /\ QuietInv /\ [Next]_vars => [Keeps]_vars
  <2> SUFFICES ASSUME TypesOK, QuietInv, [Next]_vars,
                      NEW t \in Threads, NEW h \in Handlers, Suspended(t, h), Quiet(h)
               PROVE  Quiet(h)'
    OBVIOUS
  <2>1. HandlersOK /\ HandlersOK'
    BY StepTypes DEF TypesOK
  <2>2. Kept(h)
    BY <2>1, KeptIsQuiet
  <2>3. Kept(h)'
    BY <2>2, StepKeeps
  <2> QED
    BY <2>1, <2>3, KeptIsQuiet
<1> HIDE DEF Keeps
<1>4. Spec => [][Keeps]_vars
  BY <1>1, <1>2, <1>3, PTL DEF Spec
<1> QED
  BY <1>4 DEF QuietUntilResume, Keeps
=============================================================================
