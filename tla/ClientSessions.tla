--------------------------- MODULE ClientSessions ---------------------------
(***************************************************************************)
(* The sessions of the EIB server (EIBServer/src/ClientsMgr.cpp, Client.cpp)*)
(* and the threads that share them: the clients manager, which accepts     *)
(* clients; for each session a client thread and a heartbeat thread; the   *)
(* input handler, which broadcasts frames to the sessions; and the main    *)
(* thread, which closes them all when the server stops.                    *)
(*                                                                         *)
(* The monitor of the manager guards the map of sessions.  Every use of it *)
(* is one step, except that Close keeps it while it waits for the heartbeat*)
(* threads, one after the other.                                           *)
(*                                                                         *)
(* The program at the other end of a session is reduced to what the server *)
(* notices of it, and the handshake to its outcomes.                       *)
(***************************************************************************)
EXTENDS Integers, FiniteSets

CONSTANTS
  Sessions,    (* the CClient objects                                        *)
  Ids,         (* the session ids that rand() may return                     *)
  None,        (* no CClient, or no id                                      *)
  MaxClients,  (* MAX_CONCURRENT_CLIENTS: 10 by default                      *)
  Timeout,     (* HEART_BEAT_TIMEOUT in silent receptions of a second: 20    *)
  Lossy,       (* whether a disconnect message may be lost                   *)
  Stray,       (* whether a read through an uninitialised pointer may do     *)
               (* anything but end the process                               *)
  WritesBlock  (* whether a client may write in a blocking mode, in which    *)
               (* its thread waits for the bus                               *)

ASSUME SessionsAssumption ==
  /\ None \notin Sessions \cup Ids
  /\ MaxClients \in Nat \ {0} /\ Timeout \in Nat \ {0}
  /\ {Lossy, Stray, WritesBlock} \subseteq BOOLEAN

VARIABLES
  session, (* the objects, their two threads and the remote program          *)
  clients, (* _clients: the session registered under each id                 *)
  lock,    (* whether CClientsMgr::Close holds the monitor of the manager    *)
  mgr,     (* where the manager thread is                                    *)
  stop,    (* _stop of the manager                                           *)
  main,    (* where the main thread is, the sessions left to close and the   *)
           (* one it is joining                                              *)
  reader   (* where the input handler is                                     *)

vars == <<session, clients, lock, mgr, stop, main, reader>>

ClientLabels == {"unused", "keys", "auth", "parent", "start", "loop", "turn", "write",
                 "close", "join", "leave", "dead", "thrown", "lost"}
BeatLabels   == {"new", "begun", "loop", "out", "dead", "lost"}

(* policy is _policy._read; before the login it is uninitialised memory.    *)
(* silence counts the seconds gone of time_out; remote says that the program*)
(* at the other end is up; pending that _buffer holds a frame for it.  A    *)
(* thread that an exception of a socket has ended is "lost": the library     *)
(* catches it outside of run, so that nothing is done after it.              *)
Session ==
  [pc : ClientLabels, id : Ids \cup {None}, loggedIn : BOOLEAN,
   policy : {"uninitialised", "read", "none"}, hb : BeatLabels, run : BOOLEAN,
   silence : 0 .. Timeout - 1, remote : BOOLEAN, pending : BOOLEAN]

Registered == {s \in Sessions : \E i \in Ids : clients[i] = s}
NumConnectedClients == Cardinality({i \in Ids : clients[i] # None})
LockFree == ~lock

NewSession ==
  [pc |-> "unused", id |-> None, loggedIn |-> FALSE, policy |-> "uninitialised",
   hb |-> "new", run |-> TRUE, silence |-> 0, remote |-> FALSE, pending |-> FALSE]

Init ==
  /\ session = [s \in Sessions |-> NewSession]
  /\ clients = [i \in Ids |-> None]
  /\ lock = FALSE
  /\ mgr = "listen"
  /\ stop = FALSE
  /\ main = [pc |-> "serving", todo |-> {}, at |-> None]
  /\ reader = "idle"

Still == UNCHANGED <<clients, lock, mgr, stop, main, reader>>
Set(s, label) == session' = [session EXCEPT ![s].pc = label]

-----------------------------------------------------------------------------
(***************************************************************************)
(* The manager: run and InitClient.                                        *)
(***************************************************************************)
(* The loop condition and the reception that follows.                       *)
MgrTurn ==
  /\ mgr = "listen"
  /\ mgr' = IF stop THEN "dead" ELSE "count"
  /\ UNCHANGED <<session, clients, lock, stop, main, reader>>

(* Mutant: the comparison comes one client late.                            *)
MgrCountsLate ==
  /\ mgr = "count" /\ LockFree
  /\ mgr' = IF NumConnectedClients > MaxClients THEN "listen" ELSE "init"
  /\ UNCHANGED <<session, clients, lock, stop, main, reader>>

MgrCounts ==
  /\ mgr = "count" /\ LockFree
  /\ mgr' = IF NumConnectedClients = MaxClients THEN "listen" ELSE "init"
  /\ UNCHANGED <<session, clients, lock, stop, main, reader>>

(* Mutant: nobody looks whether the id is taken.                            *)
MgrInitsAnyId(s, i) ==
  /\ mgr = "init" /\ LockFree
  /\ session[s].pc = "unused"
  /\ clients' = IF clients[i] = None THEN [clients EXCEPT ![i] = s] ELSE clients
  /\ session' = [session EXCEPT ![s].pc = "keys", ![s].id = i]
  /\ mgr' = "listen"
  /\ UNCHANGED <<lock, stop, main, reader>>

(* GetSessionID draws until it finds an id that is free.                    *)
MgrInits(s, i) ==
  /\ mgr = "init" /\ LockFree
  /\ session[s].pc = "unused"
  /\ clients[i] = None
  /\ clients' = [clients EXCEPT ![i] = s]
  /\ session' = [session EXCEPT ![s].pc = "keys", ![s].id = i]
  /\ mgr' = "listen"
  /\ UNCHANGED <<lock, stop, main, reader>>

(* The datagram does not ask for a connection.                              *)
MgrIgnores ==
  /\ mgr = "init"
  /\ mgr' = "listen"
  /\ UNCHANGED <<session, clients, lock, stop, main, reader>>

(* A socket exception leaves the loop.                                      *)
MgrFails ==
  /\ mgr = "listen"
  /\ mgr' = "dead"
  /\ UNCHANGED <<session, clients, lock, stop, main, reader>>

Manager == \/ MgrTurn \/ MgrCounts \/ MgrIgnores
           \/ \E s \in Sessions, i \in Ids : MgrInits(s, i)

-----------------------------------------------------------------------------
(***************************************************************************)
(* The client thread: run.                                                 *)
(***************************************************************************)
(* ExchangeKeys waits five seconds for an answer; a wrong one or none ends  *)
(* the session.                                                             *)
ExchangeKeys(s) ==
  /\ session[s].pc = "keys"
  /\ Set(s, "auth") \/ Set(s, "leave")
  /\ Still

(* Authenticate, with the right credentials: the user may be allowed to read*)
(* or not, and the program learns of its login or not.                      *)
Authenticates(s) ==
  /\ session[s].pc = "auth"
  /\ \E policy \in {"read", "none"}, up \in IF Lossy THEN BOOLEAN ELSE {TRUE} :
       session' = [session EXCEPT ![s].pc = "parent", ![s].loggedIn = TRUE,
                                  ![s].policy = policy, ![s].remote = up]
  /\ Still

(* Wrong credentials, or a datagram that is no authentication.              *)
AuthenticateFails(s) ==
  /\ session[s].pc = "auth"
  /\ Set(s, "leave")
  /\ Still

(* A socket throws where nobody catches it: in ExchangeKeys before the try   *)
(* begins, or in Authenticate, whose reply comes after the login.  The       *)
(* thread ends and the session stays in the map.                             *)
ExchangeThrows(s) ==
  /\ session[s].pc = "keys"
  /\ Set(s, "lost")
  /\ Still

AuthenticateThrows(s) ==
  /\ session[s].pc = "auth"
  /\ \/ Set(s, "lost")
     \/ \E policy \in {"read", "none"} :
          session' = [session EXCEPT ![s].pc = "lost", ![s].loggedIn = TRUE, ![s].policy = policy]
  /\ Still

(* The heartbeat learns of its parent, and is started.                      *)
SetParent(s) ==
  /\ session[s].pc = "parent"
  /\ Set(s, "start")
  /\ Still

StartHeartbeat(s) ==
  /\ session[s].pc = "start"
  /\ session' = [session EXCEPT ![s].pc = "loop", ![s].hb = "begun"]
  /\ Still

LoopCondition(s) ==
  /\ session[s].pc = "loop"
  /\ Set(s, IF session[s].loggedIn THEN "turn" ELSE "leave")
  /\ Still

(* A frame from the bus is taken from the buffer, if there is one; then a   *)
(* message of the client is handled: none or a command that does not block, *)
(* a command that blocks, or a disconnect request, after which the program  *)
(* is gone.                                                                 *)
Turn(s) ==
  /\ session[s].pc = "turn"
  /\ \E more \in {FALSE, session[s].pending}, next \in {"loop", "write", "close"} :
       /\ next = "write" => WritesBlock
       /\ next = "close" => session[s].remote
       /\ session' = [session EXCEPT ![s].pc = next, ![s].pending = more,
                                     ![s].remote = @ /\ next # "close"]
  /\ Still

(* The acknowledgement or confirmation has come.                            *)
WriteReturns(s) ==
  /\ session[s].pc = "write"
  /\ Set(s, "loop")
  /\ Still

(* Close of the client's own disconnect: it waits for the heartbeat thread, *)
(* if that has been started, and leaves the loop.                           *)
BeatAlive(s) == session[s].hb \in {"begun", "loop", "out"}

Closes(s) ==
  /\ session[s].pc = "close"
  /\ session' = [session EXCEPT ![s].pc = "join", ![s].run = FALSE]
  /\ Still

Joins(s) ==
  /\ session[s].pc = "join" /\ ~BeatAlive(s)
  /\ session' = [session EXCEPT ![s].pc = "loop", ![s].loggedIn = FALSE]
  /\ Still

(* UnregisterClient; Disconnect throws if the id is not in the map.  With   *)
(* the handle in the map the object goes, too.                              *)
Leaves(s) ==
  /\ session[s].pc = "leave" /\ LockFree
  /\ IF clients[session[s].id] = None
     THEN Set(s, "thrown") /\ UNCHANGED clients
     ELSE /\ session' = [session EXCEPT ![s] = [NewSession EXCEPT !.pc = "dead"]]
          /\ clients' = [clients EXCEPT ![session[s].id] = None]
  /\ UNCHANGED <<lock, mgr, stop, main, reader>>

Client(s) == \/ ExchangeKeys(s) \/ SetParent(s) \/ StartHeartbeat(s)
             \/ LoopCondition(s) \/ Turn(s) \/ Closes(s) \/ Joins(s) \/ Leaves(s)

-----------------------------------------------------------------------------
(***************************************************************************)
(* The heartbeat thread: CListenerThread::run.                             *)
(***************************************************************************)
(* _run = true, whatever Close has done before.                             *)
BeatBegins(s) ==
  /\ session[s].hb = "begun"
  /\ session' = [session EXCEPT ![s].hb = "loop", ![s].run = TRUE]
  /\ Still

BeatStops(s) ==
  /\ session[s].hb = "loop" /\ ~session[s].run
  /\ session' = [session EXCEPT ![s].hb = "out"]
  /\ Still

BeatHears(s) ==
  /\ session[s].hb = "loop" /\ session[s].run /\ session[s].remote
  /\ session' = [session EXCEPT ![s].silence = 0]
  /\ Still

(* The answer to a heartbeat cannot be sent.  The exception ends the thread: *)
(* the socket stays open, and the client logged in.                          *)
BeatThrows(s) ==
  /\ session[s].hb = "loop" /\ session[s].run /\ session[s].remote
  /\ session' = [session EXCEPT ![s].hb = "lost"]
  /\ Still

(* A message with a wrong session id, client type or message type; or a      *)
(* reception that throws, which leaves the length of the one before it and   *)
(* the bytes of the answer in place of a message.                           *)
BeatRejects(s) ==
  /\ session[s].hb = "loop" /\ session[s].run
  /\ session[s].remote \/ session[s].silence = 0
  /\ session' = [session EXCEPT ![s].hb = "out", ![s].run = FALSE]
  /\ Still

BeatSilent(s) ==
  /\ session[s].hb = "loop" /\ session[s].run
  /\ session' = IF session[s].silence + 1 < Timeout
                THEN [session EXCEPT ![s].silence = @ + 1]
                ELSE [session EXCEPT ![s].hb = "out", ![s].run = FALSE]
  /\ Still

(* Mutant: the client is left logged in.                                    *)
BeatEndsQuietly(s) ==
  /\ session[s].hb = "out"
  /\ session' = [session EXCEPT ![s].hb = "dead"]
  /\ Still

(* The socket is closed, the client is logged out, and the thread ends.     *)
BeatEnds(s) ==
  /\ session[s].hb = "out"
  /\ session' = [session EXCEPT ![s].hb = "dead", ![s].loggedIn = FALSE]
  /\ Still

(* The program at the other end goes down.                                  *)
RemoteStops(s) ==
  /\ session[s].remote
  /\ session' = [session EXCEPT ![s].remote = FALSE]
  /\ Still

Heartbeat(s) == \/ BeatBegins(s) \/ BeatStops(s) \/ BeatHears(s) \/ BeatRejects(s)
                \/ BeatSilent(s) \/ BeatEnds(s)

-----------------------------------------------------------------------------
(***************************************************************************)
(* The input handler: Brodcast hands a frame to every client whose _policy *)
(* says that it can read.  Uninitialised memory says yes or no.            *)
(***************************************************************************)
ReaderHasFrame ==
  /\ reader = "idle"
  /\ reader' = "broadcast"
  /\ UNCHANGED <<session, clients, lock, mgr, stop, main>>

Brodcast ==
  /\ reader = "broadcast" /\ LockFree
  /\ \E lucky \in SUBSET {s \in Registered : session[s].policy = "uninitialised"} :
       session' = [s \in Sessions |->
         IF s \in Registered /\ (session[s].policy = "read" \/ s \in lucky)
         THEN [session[s] EXCEPT !.pending = TRUE]
         ELSE session[s]]
  /\ reader' = "idle"
  /\ UNCHANGED <<clients, lock, mgr, stop, main>>

-----------------------------------------------------------------------------
(***************************************************************************)
(* The main thread: CClientsMgr::Close and the join of the manager.        *)
(***************************************************************************)
MainBegins ==
  /\ main.pc = "serving" /\ LockFree
  /\ main' = [main EXCEPT !.pc = "close", !.todo = Registered]
  /\ lock' = TRUE
  /\ UNCHANGED <<session, clients, mgr, stop, reader>>

(* CListenerThread::Close goes through _parent.  Before SetParent that is   *)
(* uninitialised memory: the process crashes, or a message goes astray.     *)
(* Otherwise the program is told to disconnect, unless the message is lost. *)
ParentKnown(s) == session[s].hb # "new" \/ session[s].pc = "start"

MainCrashes(s) ==
  /\ main.pc = "close" /\ s \in main.todo
  /\ ~ParentKnown(s)
  /\ main' = [main EXCEPT !.pc = "crashed"]
  /\ UNCHANGED <<session, clients, lock, mgr, stop, reader>>

MainCloses(s) ==
  /\ main.pc = "close" /\ s \in main.todo
  /\ \E told \in BOOLEAN :
       /\ ParentKnown(s) \/ (Stray /\ ~told)
       /\ told \/ Lossy \/ ~ParentKnown(s)
       /\ session' = [session EXCEPT ![s].run = FALSE, ![s].remote = @ /\ ~told]
  /\ main' = [pc |-> "join", todo |-> main.todo \ {s}, at |-> s]
  /\ UNCHANGED <<clients, lock, mgr, stop, reader>>

(* Mutant: Close waits for the client thread, too.                          *)
MainJoinsClient ==
  /\ main.pc = "join" /\ ~BeatAlive(main.at) /\ session[main.at].pc = "dead"
  /\ main' = [main EXCEPT !.pc = "close"]
  /\ UNCHANGED <<session, clients, lock, mgr, stop, reader>>

MainJoins ==
  /\ main.pc = "join" /\ ~BeatAlive(main.at)
  /\ main' = [main EXCEPT !.pc = "close"]
  /\ UNCHANGED <<session, clients, lock, mgr, stop, reader>>

MainStops ==
  /\ main.pc = "close" /\ main.todo = {}
  /\ stop' = TRUE
  /\ lock' = FALSE
  /\ main' = [main EXCEPT !.pc = "stopped"]
  /\ UNCHANGED <<session, clients, mgr, reader>>

MainJoinsManager ==
  /\ main.pc = "stopped" /\ mgr = "dead"
  /\ main' = [main EXCEPT !.pc = "closed"]
  /\ UNCHANGED <<session, clients, lock, mgr, stop, reader>>

MainCloseAny == \E s \in Sessions : MainCloses(s) \/ MainCrashes(s)
MainThread == MainCloseAny \/ MainJoins \/ MainStops \/ MainJoinsManager

Crashed == main.pc = "crashed"

Next ==
  /\ ~Crashed
  /\ \/ Manager \/ MgrFails
     \/ \E s \in Sessions : \/ Client(s) \/ Authenticates(s) \/ AuthenticateFails(s)
                            \/ ExchangeThrows(s) \/ AuthenticateThrows(s) \/ BeatThrows(s)
                            \/ WriteReturns(s) \/ Heartbeat(s) \/ RemoteStops(s)
     \/ ReaderHasFrame \/ Brodcast
     \/ MainBegins \/ MainThread

Spec == Init /\ [][Next]_vars

(* Every thread that is not waiting for somebody else goes on, and gets the *)
(* monitor of the manager in the end: apart from Close, which takes it once,*)
(* nobody keeps it.  Nothing is assumed of the programs at the other end and*)
(* of the bus: Authenticate waits for a datagram and Write for an answer.   *)
(* Nothing makes a socket throw.                                           *)
Fairness ==
  /\ WF_vars(Manager) /\ WF_vars(Brodcast) /\ WF_vars(MainThread)
  /\ \A s \in Sessions : WF_vars(Client(s)) /\ WF_vars(Heartbeat(s))

FairSpec == Spec /\ Fairness

-----------------------------------------------------------------------------
(***************************************************************************)
(* Properties.                                                             *)
(***************************************************************************)
(* Every variable has values of its kind; silence stays below the timeout.  *)
TypeOK ==
  /\ session \in [Sessions -> Session]
  /\ clients \in [Ids -> Sessions \cup {None}]
  /\ lock \in BOOLEAN /\ stop \in BOOLEAN
  /\ mgr \in {"listen", "count", "init", "dead"}
  /\ main \in [pc : {"serving", "close", "join", "stopped", "closed", "crashed"},
               todo : SUBSET Sessions, at : Sessions \cup {None}]
  /\ reader \in {"idle", "broadcast"}

(* The map never holds more than MaxClients sessions, although the manager  *)
(* counts under one lock and inserts under another (ClientsMgr::run).       *)
AtMostMaxClients == NumConnectedClients <= MaxClients

(* The map and the threads agree: from its start until its thread leaves, a *)
(* session is registered under its own id, and under no other, so that      *)
(* Disconnect finds it and does not throw in the client thread.  One whose   *)
(* thread a socket has ended never leaves: it keeps its id and its place.    *)
Live(s) == session[s].pc \notin {"unused", "dead"}
DisconnectFindsClient ==
  /\ \A s \in Sessions : session[s].pc # "thrown"
  /\ \A s \in Sessions, i \in Ids :
       clients[i] = s <=> (Live(s) /\ session[s].id = i)

(* A session whose heartbeat thread has come to its end, because the program *)
(* fell silent, sent something wrong or Close was called, ends, unless its   *)
(* thread waits for ever inside a blocking write (Client::run, the loop      *)
(* condition).  A heartbeat thread that its own answer has ended, with an    *)
(* exception, ends nothing: see SilenceEndsSession.                         *)
TimeoutEndsSession ==
  \A s \in Sessions :
    (session[s].hb = "dead") ~>
      (session[s].pc = "dead" \/ Crashed \/ [](session[s].pc = "write"))

(* Close of the manager and the join of its thread return: the heartbeat    *)
(* threads that it waits for, with the monitor held, end without it.  The    *)
(* exception is a program that the disconnect message has not reached and    *)
(* that goes on with its heartbeats, if its thread had not yet come to       *)
(* _run = true (Client.cpp, CListenerThread::run) when Close cleared it:     *)
(* that thread is joined for as long as the program lives.                   *)
ShutdownReturns ==
  (main.pc = "close") ~>
    \/ main.pc = "closed" \/ Crashed
    \/ [](main.pc = "join" /\ session[main.at].run /\ session[main.at].remote)

-----------------------------------------------------------------------------
(***************************************************************************)
(* What comments claim and the code does not keep.                         *)
(***************************************************************************)
(* "close heartbeat thread (the heart beat thread will trigger the closing  *)
(* of the client thread)" (Client.cpp, Close).                              *)
CloseEndsSession ==
  \A s \in Sessions : (main.pc = "join" /\ main.at = s) ~> (session[s].pc = "dead")

(* "Heartbeat timeout expired ... Disconnecting..." (Client.cpp, run): the   *)
(* session of a program that is gone ends, if no write blocks.               *)
SilenceEndsSession ==
  \A s \in Sessions :
    (session[s].hb = "lost" /\ ~session[s].remote) ~>
      (session[s].pc = "dead" \/ Crashed \/ [](session[s].pc = "write"))

(* "connection initialization failed. terminate connection & client"        *)
(* (Client.cpp, run): its place in the map is free.                         *)
FailedInitUnregisters == \A s \in Sessions : session[s].pc = "lost" => s \notin Registered

(* "Disconnects all clients and shuts down" (ClientsMgr.h, Close).          *)
CloseDisconnectsAll ==
  (main.pc = "closed") ~> (\A s \in Sessions : session[s].hb # "loop")

(* "Broadcasts a message to all clients that have reading privileges"       *)
(* (ClientsMgr.h, Brodcast): a session that got a frame has them.           *)
BroadcastToReaders ==
  \A s \in Sessions : session[s].pending => session[s].policy = "read"

(* "client not responding OR faked client - terminate session" (Client.cpp, *)
(* Authenticate).                                                           *)
AuthenticateGivesUp ==
  \A s \in Sessions : (session[s].pc = "auth") ~> (session[s].pc # "auth")
=============================================================================
