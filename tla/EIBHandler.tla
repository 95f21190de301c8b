----------------------------- MODULE EIBHandler -----------------------------
(***************************************************************************)
(* The two handlers of the EIB server (EIBServer/src/EIBHandler.cpp), the  *)
(* clients that write through the output handler, and the threads that     *)
(* stop, start and shut down the interface they serve                      *)
(* (conf/EIBInterfaceConf.cpp, EIBInterface.cpp, EIBServer.cpp).           *)
(*                                                                         *)
(* Each handler holds its _wait_mon whenever it is not waiting on it, and  *)
(* the output handler holds its own monitor ("this", the lock of the queue)*)
(* whenever it is not in this->wait(100) - also while it is paused.        *)
(*                                                                         *)
(* The connection is reduced to what the handlers see of it: its state, the*)
(* number of the frame it expects next, and the clients registered for a   *)
(* confirmation under such numbers.  It is modelled in TunnelConnection.   *)
(***************************************************************************)
EXTENDS Integers, Sequences, FiniteSets

CONSTANTS
  Clients,    (* client sessions, each with one thread and one monitor       *)
  Admins,     (* web requests that may be handled at the same time           *)
  Main,       (* the thread that shuts the server down                       *)
  QueueSize,  (* capacity of the queue: 100 in the code                      *)
  Modes,      (* the blocking modes the clients ask for                      *)
  SeqMod,     (* _recv_sequence counts modulo this: 256 in the code          *)
  MaxWrites,  (* bound: calls of Write by all clients                        *)
  MaxCalls,   (* bound: calls of StopInterface and StartInterface            *)
  Overlapping (* whether these calls overlap                                 *)

ASSUME SeqModAssumption == SeqMod \in Nat \ {0, 1}
ASSUME QueueSizeAssumption == QueueSize \in Nat \ {0}
ASSUME ModesAssumption ==
  Modes \subseteq {"NON_BLOCKING", "WAIT_FOR_ACK", "WAIT_FOR_CONFRM"}
ASSUME ThreadsAssumption == Main \notin Admins
ASSUME HandlerBoundsAssumption ==
  MaxWrites \in Nat /\ MaxCalls \in Nat /\ Overlapping \in BOOLEAN

VARIABLES
  handler,    (* where each handler thread is                                *)
  stop,       (* _stop of each handler                                       *)
  pause,      (* _pause of each handler                                      *)
  queue,      (* _buffer of the output handler                               *)
  hand,       (* the element the output handler took from it                 *)
  link,       (* what the interface has: see Links                           *)
  recv,       (* _recv_sequence of the connection                            *)
  registered, (* _waiting_for_confirms: whose monitor waits under which key  *)
  client,     (* where each client thread is: [pc, n, mode]                  *)
  thread,     (* where each admin thread and the main thread is: [call, pc]  *)
  calls,      (* history: calls of StopInterface and StartInterface so far   *)
  sent        (* history: the elements sent                                  *)

vars == <<handler, stop, pause, queue, hand, link, recv, registered, client,
          thread, calls, sent>>

Handlers == {"input", "output"}
Threads  == Admins \cup {Main}
Blocking == {"WAIT_FOR_ACK", "WAIT_FOR_CONFRM"}
AllModes == Blocking \cup {"NON_BLOCKING"}
Elements == [client : Clients, n : Nat, mode : AllModes]
None     == [n |-> 0]

(* A tunnel that is connected or not, a routing connection, which is always  *)
(* connected and registers nobody, or an interface in the mode of the bus    *)
(* monitor, or without a connection, which sends nothing.                   *)
Tunnels == {"up", "down"}
Links   == Tunnels \cup {"routing", "mute"}

(* The keys are ints, the number is an octet: nothing ever arrives under the *)
(* last key.                                                               *)
Keys     == 1 .. SeqMod
NextRecv == (recv + 1) % SeqMod

(* Who holds the monitors, from where the handlers are.                     *)
WaitMonFree(h)  == handler[h] \in {"off", "paused", "waking", "dead"}
QueueLockFree   == handler["output"] \in {"off", "wait", "dead"}

-----------------------------------------------------------------------------
(***************************************************************************)
(* The calls of the admin and main threads, instruction by instruction.    *)
(***************************************************************************)
Do(op, h) == [op |-> op, on |-> h]

Suspend(h) == <<Do("pause", h), Do("acquire", h)>>

Resume(h) == <<Do("unpause", h), Do("notify", h)>>

(* Mutant: the handler is woken before it is told to stop.                  *)
CloseNotifiesFirst(h) == <<Do("notify", h), Do("stop", h), Do("join", h)>>

CloseHandler(h) == <<Do("stop", h), Do("notify", h), Do("join", h)>>

CloseInterface ==
  <<Do("disconnect", "input")>> \o CloseHandler("input") \o CloseHandler("output")

StopInterface ==
  Suspend("input") \o Suspend("output") \o CloseInterface
    \o Resume("input") \o Resume("output")

StartInterface ==
  Suspend("input") \o Suspend("output") \o <<Do("init", "input")>>
    \o Resume("input") \o Resume("output")

(* CEIBServer::Close waits for the web requests that are being handled and  *)
(* ends the client sessions - it joins their heartbeats, not the clients -  *)
(* before it closes the interface.                                          *)
Shutdown ==
  <<Do("join_requests", "input"), Do("logout", "input")>> \o CloseInterface

Calls == {"StopInterface", "StartInterface"}
Script(call) == CASE call = "StopInterface"  -> StopInterface
                  [] call = "StartInterface" -> StartInterface
                  [] call = "Shutdown"       -> Shutdown
                  [] OTHER                   -> <<>>

Idle == [call |-> "none", pc |-> 0]
At(t) == Script(thread[t].call)[thread[t].pc]
Running(t) == thread[t].call # "none" /\ thread[t].pc <= Len(Script(thread[t].call))
Busy == {t \in Admins : thread[t] # Idle}

(* Whether the sessions are still there: "logout" is the second instruction *)
(* of the shutdown.                                                         *)
LoggedIn == thread[Main].pc <= 2

-----------------------------------------------------------------------------
Init ==
  /\ handler = [h \in Handlers |-> "off"]
  /\ stop = [h \in Handlers |-> FALSE]
  /\ pause = [h \in Handlers |-> FALSE]
  /\ queue = <<>>
  /\ hand = None
  /\ link = "up"
  /\ recv = 0
  /\ registered = [k \in Keys |-> None]
  /\ client = [c \in Clients |-> [pc |-> "idle", n |-> 0, mode |-> "NON_BLOCKING"]]
  /\ thread = [t \in Threads |-> Idle]
  /\ calls = 0
  /\ sent = <<>>

Goto(h, label) == handler' = [handler EXCEPT ![h] = label]

(* A client that returns from Write goes on while its session lasts.        *)
NextTurn == IF LoggedIn THEN "idle" ELSE "left"

(* Where a handler goes on, and what it does at the end of a turn.          *)
Proceeds(h) == Goto(h, IF h = "input" THEN "top" ELSE "wait")
PauseOrProceed(h) == IF pause[h] THEN Goto(h, "paused") ELSE Proceeds(h)

(***************************************************************************)
(* Both handlers: starting, the test of _stop, and waking up.              *)
(***************************************************************************)
Begin(h) ==
  /\ handler[h] = "off"
  /\ Goto(h, "top")
  /\ UNCHANGED <<stop, pause, queue, hand, link, recv, registered, client, thread,
                 calls, sent>>

Leave(h) ==
  /\ handler[h] = "top" /\ stop[h]
  /\ Goto(h, "dead")
  /\ UNCHANGED <<stop, pause, queue, hand, link, recv, registered, client, thread,
                 calls, sent>>

(* _wait_mon.wait() returns once it has the monitor again.  The loop does   *)
(* not look at _pause again.                                                *)
Wake(h) ==
  /\ handler[h] = "waking"
  /\ Proceeds(h)
  /\ UNCHANGED <<stop, pause, queue, hand, link, recv, registered, client, thread,
                 calls, sent>>

(***************************************************************************)
(* RunEIBReader.                                                           *)
(***************************************************************************)
ReaderTop ==
  /\ handler["input"] = "top" /\ ~stop["input"]
  /\ Goto("input", "io")
  /\ UNCHANGED <<stop, pause, queue, hand, link, recv, registered, client, thread,
                 calls, sent>>

(* Read returns nothing or accepts a frame; a datagram may also end the      *)
(* tunnel, which resets its numbers, or have it connected again.            *)
Receives ==
  /\ \/ /\ link' \in IF link \in Tunnels THEN Tunnels ELSE {link}
        /\ recv' \in {recv, 0}
     \/ link' = link /\ recv' = NextRecv
  /\ UNCHANGED <<registered, client>>

(* Mutant: the registration stays.                                         *)
ConfirmsAndKeeps ==
  /\ link # "routing" /\ sent # <<>>
  /\ recv' = NextRecv
  /\ LET e == IF recv' \in Keys THEN registered[recv'] ELSE None
     IN /\ registered' = registered
        /\ client' = IF e # None /\ client[e.client].pc = "waiting"
                     THEN [client EXCEPT ![e.client].pc = NextTurn]
                     ELSE client
  /\ link' = link

(* The confirmation of a frame that was sent, of whatever client, notifies   *)
(* whom it finds under its number: who does not wait yet is not woken.       *)
Confirms ==
  /\ link # "routing" /\ sent # <<>>
  /\ recv' = NextRecv
  /\ LET e == IF recv' \in Keys THEN registered[recv'] ELSE None
     IN /\ registered' = IF e # None THEN [registered EXCEPT ![recv'] = None] ELSE registered
        /\ client' = IF e # None /\ client[e.client].pc = "waiting"
                     THEN [client EXCEPT ![e.client].pc = NextTurn]
                     ELSE client
  /\ link' = link

ReaderRead ==
  /\ handler["input"] = "io"
  /\ PauseOrProceed("input")
  /\ Receives
  /\ UNCHANGED <<stop, pause, queue, hand, thread, calls, sent>>

ReaderConfirms ==
  /\ handler["input"] = "io"
  /\ PauseOrProceed("input")
  /\ Confirms
  /\ UNCHANGED <<stop, pause, queue, hand, thread, calls, sent>>

(* Read throws, for a malformed datagram say, or the record of the frame or  *)
(* the sessions do, which skips the pause.                                  *)
ReaderThrows ==
  /\ handler["input"] = "io"
  /\ Goto("input", "top")
  /\ Receives \/ Confirms
  /\ UNCHANGED <<stop, pause, queue, hand, thread, calls, sent>>

(***************************************************************************)
(* RunEIBWriter.                                                           *)
(***************************************************************************)
WriterTakes ==
  /\ handler["output"] = "top" /\ ~stop["output"]
  /\ queue # <<>>
  /\ hand' = Head(queue)
  /\ queue' = Tail(queue)
  /\ Goto("output", "io")
  /\ UNCHANGED <<stop, pause, link, recv, registered, client, thread, calls, sent>>

WriterFindsNothing ==
  /\ handler["output"] = "top" /\ ~stop["output"]
  /\ queue = <<>>
  /\ PauseOrProceed("output")
  /\ UNCHANGED <<stop, pause, queue, hand, link, recv, registered, client, thread,
                 calls, sent>>

(* A tunnel registers the element, in the step that sends it, under the      *)
(* number after the one it expects, unless the key is taken: an element that *)
(* waits for a confirmation.  One that waits for an ack is registered in a   *)
(* map whose waiters nobody wakes (TunnelConnection, HandleTunnelingAck), so *)
(* that map is left out.                                                   *)
Registration ==
  IF link = "up" /\ hand.mode = "WAIT_FOR_CONFRM" /\ registered[recv + 1] = None
  THEN [registered EXCEPT ![recv + 1] = hand]
  ELSE registered

(* Mutant: the frame is repeated.                                          *)
WriterSendsAgain ==
  /\ handler["output"] = "io"
  /\ link \in {"up", "routing"}
  /\ sent' = sent \o <<hand, hand>>
  /\ registered' = Registration
  /\ hand' = None
  /\ PauseOrProceed("output")
  /\ UNCHANGED <<stop, pause, queue, link, recv, client, thread, calls>>

WriterSends ==
  /\ handler["output"] = "io"
  /\ link \in {"up", "routing"}
  /\ sent' = Append(sent, hand)
  /\ registered' = Registration
  /\ hand' = None
  /\ PauseOrProceed("output")
  /\ UNCHANGED <<stop, pause, queue, link, recv, client, thread, calls>>

(* A frame that is refused, or whose SendTo throws once it is registered,    *)
(* skips the pause and the wait.                                            *)
WriterThrows ==
  /\ handler["output"] = "io"
  /\ link \in {"up", "routing"}
  /\ registered' \in {registered, Registration}
  /\ hand' = None
  /\ Goto("output", "top")
  /\ UNCHANGED <<stop, pause, queue, link, recv, client, thread, calls, sent>>

(* Without a tunnel the element is dropped, with an exception.              *)
WriterFails ==
  /\ handler["output"] = "io"
  /\ link = "down"
  /\ hand' = None
  /\ Goto("output", "top")
  /\ UNCHANGED <<stop, pause, queue, link, recv, registered, client, thread, calls,
                 sent>>

(* The bus monitor, and an interface without a connection, drop it silently. *)
WriterDrops ==
  /\ handler["output"] = "io"
  /\ link = "mute"
  /\ hand' = None
  /\ PauseOrProceed("output")
  /\ UNCHANGED <<stop, pause, queue, link, recv, registered, client, thread, calls,
                 sent>>

(* this->wait(100) returns, on a notification or after a tenth of a second. *)
WriterContinues ==
  /\ handler["output"] = "wait"
  /\ Goto("output", "top")
  /\ UNCHANGED <<stop, pause, queue, hand, link, recv, registered, client, thread,
                 calls, sent>>

-----------------------------------------------------------------------------
(***************************************************************************)
(* Write, in the thread of client c: the call, the locked block that fills *)
(* the queue - a full queue refuses the element and nobody is told - and,  *)
(* in a blocking mode, the wait on the client's own monitor.  A client     *)
(* whose session has ended finishes its turn, with a call or without.      *)
(***************************************************************************)
Written == {w \in Clients \X (1 .. MaxWrites) : w[2] <= client[w[1]].n}

ClientCalls(c, mode) ==
  /\ client[c].pc = "idle" /\ Cardinality(Written) < MaxWrites
  /\ client' = [client EXCEPT ![c] = [pc |-> "write", n |-> @.n + 1, mode |-> mode]]
  /\ UNCHANGED <<handler, stop, pause, queue, hand, link, recv, registered, thread,
                 calls, sent>>

ClientQueues(c) ==
  /\ client[c].pc = "write"
  /\ QueueLockFree
  /\ queue' = IF Len(queue) < QueueSize
              THEN Append(queue, [client |-> c, n |-> client[c].n, mode |-> client[c].mode])
              ELSE queue
  /\ client' = [client EXCEPT ![c].pc =
                  IF client[c].mode \in Blocking THEN "queued" ELSE NextTurn]
  /\ UNCHANGED <<handler, stop, pause, hand, link, recv, registered, thread, calls, sent>>

ClientWaits(c) ==
  /\ client[c].pc = "queued"
  /\ client' = [client EXCEPT ![c].pc = "waiting"]
  /\ UNCHANGED <<handler, stop, pause, queue, hand, link, recv, registered, thread,
                 calls, sent>>

-----------------------------------------------------------------------------
(***************************************************************************)
(* The admin threads and the main thread.                                  *)
(***************************************************************************)
BeginCall(t, call) ==
  /\ thread[t] = Idle
  /\ thread[Main] = Idle
  /\ calls < MaxCalls
  /\ Overlapping \/ Busy = {}
  /\ calls' = calls + 1
  /\ thread' = [thread EXCEPT ![t] = [call |-> call, pc |-> 1]]
  /\ UNCHANGED <<handler, stop, pause, queue, hand, link, recv, registered, client, sent>>

BeginShutdown ==
  /\ thread[Main] = Idle
  /\ thread' = [thread EXCEPT ![Main] = [call |-> "Shutdown", pc |-> 1]]
  /\ UNCHANGED <<handler, stop, pause, queue, hand, link, recv, registered, client,
                 calls, sent>>

EndCall(t) ==
  /\ t # Main /\ thread[t] # Idle /\ ~Running(t)
  /\ thread' = [thread EXCEPT ![t] = Idle]
  /\ UNCHANGED <<handler, stop, pause, queue, hand, link, recv, registered, client,
                 calls, sent>>

StepsTo(t) == thread' = [thread EXCEPT ![t].pc = @ + 1]

(* Mutant: Close wakes the handler and does not tell it to stop.            *)
SetFlagButStop(t) ==
  /\ At(t).op \in {"pause", "unpause", "stop"}
  /\ pause' = IF At(t).op = "stop" THEN pause
              ELSE [pause EXCEPT ![At(t).on] = (At(t).op = "pause")]
  /\ UNCHANGED <<handler, stop, link, recv, registered>>

SetFlag(t) ==
  /\ At(t).op \in {"pause", "unpause", "stop"}
  /\ pause' = IF At(t).op = "stop" THEN pause
              ELSE [pause EXCEPT ![At(t).on] = (At(t).op = "pause")]
  /\ stop' = IF At(t).op = "stop" THEN [stop EXCEPT ![At(t).on] = TRUE] ELSE stop
  /\ UNCHANGED <<handler, link, recv, registered>>

(* Locking _wait_mon and unlocking it, with or without a notify() between.  *)
LockWaitMon(t) ==
  /\ At(t).op \in {"acquire", "notify"}
  /\ WaitMonFree(At(t).on)
  /\ IF At(t).op = "notify" /\ handler[At(t).on] = "paused"
     THEN Goto(At(t).on, "waking")
     ELSE UNCHANGED handler
  /\ UNCHANGED <<stop, pause, link, recv, registered>>

(* DisConnect: the tunnel is closed, the waiting monitors are left alone.    *)
DisConnect(t) ==
  /\ At(t).op = "disconnect"
  /\ link' = IF link = "up" THEN "down" ELSE link
  /\ UNCHANGED <<handler, stop, pause, recv, registered>>

(* CEIBInterface::Init: without a local address it throws once it has set the*)
(* mode; otherwise the connection is deleted, with its registrations, and a  *)
(* new one is connected or not.  StartInterface catches the exceptions.      *)
InitInterface(t) ==
  /\ At(t).op = "init"
  /\ \/ /\ link' \in IF link = "mute" THEN Links ELSE {link, "mute"}
        /\ UNCHANGED <<recv, registered>>
     \/ /\ link' \in Links
        /\ recv' = 0
        /\ registered' = [k \in Keys |-> None]
  /\ UNCHANGED <<handler, stop, pause>>

Join(t) ==
  /\ \/ At(t).op = "join_requests" /\ Busy = {}
     \/ At(t).op = "join" /\ handler[At(t).on] = "dead"
     \/ At(t).op = "logout"
  /\ UNCHANGED <<handler, stop, pause, link, recv, registered>>

Step(t) ==
  /\ Running(t)
  /\ SetFlag(t) \/ LockWaitMon(t) \/ DisConnect(t) \/ InitInterface(t) \/ Join(t)
  /\ StepsTo(t)
  /\ UNCHANGED <<queue, hand, client, calls, sent>>

(* The heartbeat of the connection gives the device up.                     *)
ConnectionLost ==
  /\ link = "up"
  /\ link' = "down"
  /\ UNCHANGED <<handler, stop, pause, queue, hand, recv, registered, client, thread,
                 calls, sent>>

-----------------------------------------------------------------------------
Common(h) == Begin(h) \/ Leave(h) \/ Wake(h)
Reader == Common("input") \/ ReaderTop \/ ReaderRead \/ ReaderThrows
          \/ ReaderConfirms
Writer == \/ Common("output")
          \/ WriterTakes \/ WriterFindsNothing \/ WriterSends \/ WriterThrows
          \/ WriterFails \/ WriterDrops \/ WriterContinues
Client(c) == (\E mode \in Modes : ClientCalls(c, mode)) \/ ClientQueues(c) \/ ClientWaits(c)
Thread(t) == EndCall(t) \/ Step(t)

(* The server has been shut down.                                           *)
Finished == thread[Main] # Idle /\ ~Running(Main) /\ UNCHANGED vars

Next ==
  \/ Reader
  \/ Writer
  \/ \E c \in Clients : Client(c)
  \/ \E t \in Threads : Thread(t)
  \/ \E t \in Admins, call \in Calls : BeginCall(t, call)
  \/ BeginShutdown
  \/ ConnectionLost
  \/ Finished

Spec == Init /\ [][Next]_vars

(***************************************************************************)
(* Fairness: every thread is scheduled.  A monitor that is free again and  *)
(* again is acquired (SF): the output handler leaves its lock for a tenth  *)
(* of a second in every turn.  Read does not throw at every call (SF).     *)
(* Nothing forces a call, or a shutdown.                                   *)
(***************************************************************************)
Fairness ==
  /\ WF_vars(Reader) /\ SF_vars(ReaderRead \/ ReaderConfirms)
  /\ WF_vars(Writer)
  /\ \A c \in Clients : SF_vars(ClientQueues(c)) /\ WF_vars(ClientWaits(c))
  /\ \A t \in Threads : SF_vars(Thread(t))

FairSpec == Spec /\ Fairness

-----------------------------------------------------------------------------
(* The types of the variables; the queue never holds more than its capacity.*)
TypeOK ==
  /\ handler \in [Handlers -> {"off", "top", "io", "wait", "paused", "waking", "dead"}]
  /\ stop \in [Handlers -> BOOLEAN] /\ pause \in [Handlers -> BOOLEAN]
  /\ queue \in Seq(Elements) /\ Len(queue) <= QueueSize
  /\ hand \in Elements \cup {None}
  /\ link \in Links /\ recv \in 0 .. SeqMod - 1
  /\ registered \in [Keys -> Elements \cup {None}]
  /\ client \in [Clients -> [pc : {"idle", "write", "queued", "waiting", "left"}, n : Nat,
                             mode : AllModes]]
  /\ thread \in [Threads -> [call : Calls \cup {"Shutdown", "none"}, pc : Nat]]
  /\ calls \in Nat
  /\ sent \in Seq(Elements)

(* Between the return of Suspend and the call of Resume.                    *)
Suspended(t, h) ==
  LET done == {Script(thread[t].call)[i] : i \in 1 .. thread[t].pc - 1} IN
  Do("acquire", h) \in done /\ Do("unpause", h) \notin done

(* Out of the connection, and going to stay so.  A handler that was told to *)
(* stop runs to the end of its loop.                                        *)
Quiet(h) == \/ handler[h] \in {"paused", "dead"}
            \/ handler[h] \in {"waking", "top", "wait"} /\ stop[h]

(* A handler that is out of the connection while a call has it suspended    *)
(* stays out until the call resumes it, whether the call closes the         *)
(* interface, which wakes the handler, or opens it: StartInterface deletes   *)
(* the connection of no handler that Suspend found paused, or that paused    *)
(* since.  This holds for calls that do not overlap.                        *)
QuietUntilResume ==
  [][\A t \in Threads, h \in Handlers :
       Suspended(t, h) /\ Quiet(h) => (Quiet(h) \/ ~Suspended(t, h))']_vars

(* A client in a blocking Write is let go by the confirmation that the       *)
(* tunnel accepts under the number of that very call, and it has left the    *)
(* queue and the hand of the output handler by then: by no indication, no    *)
(* suspension, no restart, and by nothing that was registered for an earlier *)
(* call.                                                                   *)
BlockedUntilConfirmed ==
  [][\A c \in Clients :
       client[c].pc = "waiting" /\ client'[c].pc # "waiting" =>
         LET e == [client |-> c, n |-> client[c].n, mode |-> client[c].mode] IN
         /\ recv' = NextRecv /\ recv' \in Keys
         /\ registered[recv'] = e /\ registered'[recv'] = None
         /\ hand # e /\ \A i \in 1 .. Len(queue) : queue[i] # e]_vars

(* The frames of a client are sent in the order of its calls and none is    *)
(* sent twice, across full queues, lost connections and suspensions.        *)
SentInOrder ==
  \A i, j \in 1 .. Len(sent) :
    i < j /\ sent[i].client = sent[j].client => sent[i].n < sent[j].n

(* A call that resumes a handler which never paused waits for a monitor that *)
(* the handler does not give up.                                            *)
ResumeMissed ==
  \E t \in Admins, h \in Handlers :
    /\ Running(t) /\ At(t) = Do("notify", h)
    /\ handler[h] \in {"top", "io", "wait"} /\ ~pause[h] /\ ~stop[h]

(* StopInterface, StartInterface and the shutdown return, as long as they do*)
(* not overlap and none misses a handler that was still starting or resuming*)
(* when it was suspended: the threads that wait for each other's monitors   *)
(* and ends wait in no other circle, whatever clients are left blocked.  And *)
(* a client gets hold of the queue in the end, although the output handler   *)
(* keeps it locked while it is suspended and while it sends, unless the call *)
(* that suspended it is one of those.                                       *)
CallsAndWritesReturn ==
  /\ \A t \in Threads : Running(t) ~> ~Running(t) \/ ResumeMissed
  /\ \A c \in Clients : client[c].pc = "write" ~> client[c].pc # "write" \/ ResumeMissed

-----------------------------------------------------------------------------
(***************************************************************************)
(* Claims of the source that the source does not keep.                     *)
(***************************************************************************)
(* "this monitor will be first aquired and released when ack/confirmation is*)
(* received" (EIBHandler.h:63-64): a client that a confirmation is for has  *)
(* its monitor and waits on it when the confirmation is handled.            *)
ConfirmationFindsWaiter ==
  [][\A k \in Keys :
       Confirms /\ registered[k] # None /\ registered'[k] = None =>
         client[registered[k].client].pc = "waiting"]_vars

(* The same lines: the confirmation that lets a client go is for its frame,  *)
(* which was sent.  (The key is the number of the next frame that arrives,   *)
(* and the frame is registered before it is sent.)                          *)
ReleasedWasSent ==
  [][\A c \in Clients :
       client[c].pc = "waiting" /\ client'[c].pc # "waiting" =>
         \E i \in 1 .. Len(sent) : sent[i].client = c /\ sent[i].n = client[c].n]_vars

(* What StartInterface relies on when it has the connection deleted          *)
(* (EIBInterfaceConf.cpp:90-94): when Suspend returns, the handler is out of *)
(* the connection.  (One that is still starting, or that has been notified   *)
(* and has yet to go on, enters it.)                                        *)
SuspendedIsQuiet ==
  \A t \in Threads, h \in Handlers : Suspended(t, h) => Quiet(h) \/ handler[h] = "waking"

(* And that Resume returns.                                                 *)
ResumeReturns == \A t \in Admins : Running(t) ~> ~Running(t)

(* "make sure that any waiting thread is released now..."                   *)
(* (TunnelConnection.cpp:144): DisConnect leaves no client waiting.         *)
DisConnectReleases ==
  [][\A t \in Threads :
       Running(t) /\ At(t).op = "disconnect" /\ Step(t) =>
         \A c \in Clients : client'[c].pc # "waiting"]_vars

(* "Device started." (www/js/pages/interface.js:153): when StartInterface   *)
(* returns with a connection, which the page shows as "Running", the two    *)
(* handlers that serve the connection are there.                            *)
StartedInterfaceRuns ==
  [][\A t \in Admins :
       EndCall(t) /\ thread[t].call = "StartInterface" /\ link = "up" =>
         \A h \in Handlers : handler[h] # "dead"]_vars
=============================================================================
