------------------------------ MODULE Handshake ------------------------------
(***************************************************************************)
(* A program that connects to the EIB server with the client library       *)
(* (EIBStdLib/src/GenericServer.cpp), and the server's half of it          *)
(* (EIBServer/src/ClientsMgr.cpp, Client.cpp): discovery, the exchange of   *)
(* keys, the login, heartbeats in both directions, and the ends of a       *)
(* session from either side.                                               *)
(*                                                                         *)
(* Sockets are queues; a datagram may be lost when it is sent.  Encryption *)
(* is what it is used for: a message names the session whose key opens it, *)
(* and nobody can read it with another key.  The unit of time is half a    *)
(* heartbeat interval.                                                     *)
(***************************************************************************)
EXTENDS Integers, Sequences, FiniteSets

CONSTANTS
  Sessions,   (* the sessions, 1 .. n: one for every hello that is accepted  *)
  None,       (* no session                                                  *)
  Interval,   (* _heartbeat_interval of the program: 10 s                    *)
  Timeout,    (* HEART_BEAT_TIMEOUT of the server: 20 s                      *)
  Lossy,      (* whether datagrams may be lost                               *)
  Prompt,     (* whether heartbeats and their answers take less than a unit  *)
  MayClose,   (* whether the two sides may close the session                 *)
  MaxFrames,  (* how many frames each side sends the other in a session      *)
  MaxReopens  (* how often the program calls OpenConnection again            *)

ASSUME HandshakeAssumption ==
  /\ IsFiniteSet(Sessions) /\ Sessions = 1 .. Cardinality(Sessions) /\ None \notin Sessions
  /\ {Interval, Timeout} \subseteq Nat \ {0}
  /\ {Lossy, Prompt, MayClose} \subseteq BOOLEAN
  /\ MaxFrames \in Nat /\ MaxReopens \in Nat

VARIABLES
  app,     (* the program: where it is in which call, tries left in num_tries*)
           (* of OpenConnection, the result of its last call, its reopens    *)
           (* and the commands it has sent                                   *)
  status,  (* _status                                                        *)
  session, (* _session_id, _eib_port and the shared key: whose they are      *)
  beat,    (* the heartbeat thread of the program, its _stop and its timer   *)
  inbox,   (* the data socket of the program                                 *)
  beatIn,  (* the heartbeat socket of the program                            *)
  probe,   (* how far the discovery is                                       *)
  hellos,  (* hellos on their way to the manager of the server, and how many *)
           (* there have been                                                *)
  srv,     (* the sessions of the server                                     *)
  lost     (* whether a datagram has been lost                               *)

vars == <<app, status, session, beat, inbox, beatIn, probe, hellos, srv, lost>>

-----------------------------------------------------------------------------
Msg(t, s) == [type |-> t, of |-> s]

(* A queue after a datagram has been sent to it: longer by one, unless the  *)
(* datagram is lost.                                                        *)
Sent(queue, m) == {Append(queue, m)} \cup IF Lossy THEN {queue} ELSE {}
Loses(old, new) == lost' = (lost \/ new = old)
ToProgram(m) == inbox' \in Sent(inbox, m) /\ Loses(inbox, inbox')
ToBeat(m) == beatIn' \in Sent(beatIn, m) /\ Loses(beatIn, beatIn')
ToServer(s, m) ==
  \E in \in Sent(srv[s].in, m) :
    srv' = [srv EXCEPT ![s].in = in] /\ Loses(srv[s].in, in)

NewSession == [pc |-> "none", silence |-> 0, in |-> <<>>, beats |-> <<>>, frames |-> 0]

Init ==
  /\ app = [pc |-> "start", tries |-> 1, result |-> "none", reopens |-> 0, sends |-> 0]
  /\ status = "disconnected"
  /\ session = None
  /\ beat = [pc |-> "new", stop |-> FALSE, timer |-> 0]
  /\ inbox = <<>> /\ beatIn = <<>>
  /\ probe = "none"
  /\ hellos = [sent |-> 0, in |-> <<>>]
  /\ srv = [s \in Sessions |-> NewSession]
  /\ lost = FALSE

InSession(s) == srv[s].pc = "loop"
Go(pc) == app' = [app EXCEPT !.pc = pc]

(* OpenConnection returns to the program.                                   *)
Returns(result) == app' = [app EXCEPT !.pc = "idle", !.result = result]

-----------------------------------------------------------------------------
(***************************************************************************)
(* The program: DiscoverEIBServer and OpenConnection.                      *)
(***************************************************************************)
(* A search request for the server's address; Connect of the programs goes  *)
(* on whatever comes back, or skips the search.                             *)
DiscoverEIBServer ==
  /\ app.pc = "start"
  /\ \/ Go("discover") /\ status' = "connecting" /\ probe' = "asked"
     \/ Go("open") /\ UNCHANGED <<status, probe>>
  /\ UNCHANGED <<session, beat, inbox, beatIn, hellos, srv, lost>>

DiscoverReturns ==
  /\ app.pc = "discover"
  /\ Go("open")
  /\ UNCHANGED <<status, session, beat, inbox, beatIn, probe, hellos, srv, lost>>

(* The reply of HandleServiceDiscovery, which the manager looks for when it *)
(* has no hello.                                                            *)
HandleServiceDiscovery ==
  /\ probe = "asked" /\ hellos.in = <<>>
  /\ \/ probe' = "answered" /\ lost' = lost
     \/ Lossy /\ probe' = "none" /\ lost' = TRUE
  /\ UNCHANGED <<app, status, session, beat, inbox, beatIn, hellos, srv>>

OpenConnection ==
  /\ app.pc = "open"
  /\ Go("hello")
  /\ status' = "connecting"
  /\ UNCHANGED <<session, beat, inbox, beatIn, probe, hellos, srv, lost>>

(* FirstPhaseConnection: a hello, and a reply within five seconds.          *)
FirstPhaseSends ==
  /\ app.pc = "hello"
  /\ hellos.sent < Cardinality(Sessions)
  /\ \E in \in Sent(hellos.in, hellos.sent + 1) :
       /\ hellos' = [sent |-> hellos.sent + 1, in |-> in]
       /\ Loses(hellos.in, in)
  /\ Go("public")
  /\ UNCHANGED <<status, session, beat, inbox, beatIn, probe, srv>>

FirstPhaseTimesOut ==
  /\ app.pc = "public" /\ inbox = <<>>
  /\ IF app.tries > 0
     THEN app' = [app EXCEPT !.pc = "hello", !.tries = @ - 1]
     ELSE Returns("no reply")
  /\ UNCHANGED <<status, session, beat, inbox, beatIn, probe, hellos, srv, lost>>

(* num_tries is 0 after one failure, whatever came of the repetition: the   *)
(* result of the repetition is returned, and the connection is not opened.  *)
FirstPhaseRepeated == app.tries = 0

(* The reply of the server.  Its port, session id and keys are taken over   *)
(* and the program's own key is sent back.                                  *)
FirstPhaseReturns ==
  /\ app.pc = "public" /\ inbox # <<>>
  /\ LET m == Head(inbox) IN
     \/ /\ FirstPhaseRepeated
        /\ Returns("ok")
        /\ UNCHANGED <<status, session, srv, lost>>
     \/ /\ ~FirstPhaseRepeated /\ m.type = "public"
        /\ session' = m.of
        /\ Go("keyed")
        /\ ToServer(m.of, "key")
        /\ UNCHANGED status
     \/ /\ ~FirstPhaseRepeated /\ m.type # "public"
        /\ status' = "disconnected"
        /\ Returns("internal error")
        /\ UNCHANGED <<session, srv, lost>>
  /\ inbox' = Tail(inbox)
  /\ UNCHANGED <<beat, beatIn, probe, hellos>>

(* A message that the key of the session opens, of the kind that is awaited.*)
Answers(m, t) == m = Msg(t, session)

(* The confirmation of the keys; there is no timeout.  Then Authenticate.   *)
KeysConfirmed ==
  /\ app.pc = "keyed" /\ inbox # <<>>
  /\ IF Answers(Head(inbox), "confirmed")
     THEN /\ \E login \in {"login", "bad login"} : ToServer(session, login)
          /\ Go("login")
          /\ UNCHANGED status
     ELSE /\ status' = "disconnected"
          /\ Returns("internal error")
          /\ UNCHANGED <<srv, lost>>
  /\ inbox' = Tail(inbox)
  /\ UNCHANGED <<session, beat, beatIn, probe, hellos>>

(* Two seconds without a reply, or a reply that is not the one to the login.*)
LoginFails ==
  /\ app.pc = "login"
  /\ \/ inbox = <<>> /\ UNCHANGED inbox
     \/ /\ inbox # <<>> /\ ~Answers(Head(inbox), "welcome")
        /\ inbox' = Tail(inbox)
  /\ status' = "disconnected"
  /\ Returns("incorrect credentials")
  /\ UNCHANGED <<session, beat, beatIn, probe, hellos, srv, lost>>

(* Mutant: the program believes in the session before it has the reply.     *)
LoginAtOnce ==
  /\ app.pc = "login"
  /\ status' = "connected"
  /\ Go("start beat")
  /\ UNCHANGED <<session, beat, inbox, beatIn, probe, hellos, srv, lost>>

LoginReturns ==
  /\ app.pc = "login" /\ inbox # <<>>
  /\ Answers(Head(inbox), "welcome")
  /\ inbox' = Tail(inbox)
  /\ status' = "connected"
  /\ Go("start beat")
  /\ UNCHANGED <<session, beat, beatIn, probe, hellos, srv, lost>>

StartHeartbeat ==
  /\ app.pc = "start beat"
  /\ beat' = [beat EXCEPT !.pc = "check"]
  /\ Returns("ok")
  /\ UNCHANGED <<status, session, inbox, beatIn, probe, hellos, srv, lost>>

(* OpenConnection on the same object again.  The data socket is bound       *)
(* already, so that bind throws, after the status has been set.             *)
OpenAgain ==
  /\ app.pc = "idle" /\ app.reopens < MaxReopens
  /\ IF status = "connected"
     THEN /\ app' = [app EXCEPT !.result = "already connected", !.reopens = @ + 1]
          /\ UNCHANGED status
     ELSE /\ app' = [app EXCEPT !.result = "thrown", !.reopens = @ + 1]
          /\ status' = "connecting"
  /\ UNCHANGED <<session, beat, inbox, beatIn, probe, hellos, srv, lost>>

(* ReceiveEIBNetwork: a datagram is taken, and is a frame or is ignored.    *)
ReceiveEIBNetwork ==
  /\ app.pc = "idle" /\ status = "connected" /\ inbox # <<>>
  /\ inbox' = Tail(inbox)
  /\ UNCHANGED <<app, status, session, beat, beatIn, probe, hellos, srv, lost>>

(* SendEIBNetwork: a command for the bus.  There is no answer to it.        *)
SendEIBNetwork ==
  /\ app.pc = "idle" /\ status = "connected" /\ app.sends < MaxFrames
  /\ app' = [app EXCEPT !.sends = @ + 1]
  /\ ToServer(session, "command")
  /\ UNCHANGED <<status, session, beat, inbox, beatIn, probe, hellos>>

(* Mutant: the thread that has ended already is not seen.                   *)
CloseStopsWaitingBeat ==
  /\ app.pc = "stop beat" /\ beat.pc = "wait"
  /\ beat' = [beat EXCEPT !.stop = TRUE, !.pc = "check"]
  /\ Go("join beat")
  /\ UNCHANGED <<status, session, inbox, beatIn, probe, hellos, srv, lost>>

(* Close: a disconnect message if connected, then the heartbeat is stopped. *)
BeatAlive == beat.pc \notin {"new", "dead"}

Close ==
  /\ MayClose /\ app.pc = "idle"
  /\ IF status = "connected"
     THEN ToServer(session, "leave")
     ELSE UNCHANGED <<srv, lost>>
  /\ Go(IF BeatAlive THEN "stop beat" ELSE "closed")
  /\ UNCHANGED <<status, session, beat, inbox, beatIn, probe, hellos>>

(* CHeartBeatThread::Close needs the monitor, which the thread leaves only  *)
(* while it waits for the next turn or when it has ended.                   *)
CloseStopsBeat ==
  /\ app.pc = "stop beat" /\ beat.pc \in {"wait", "dead"}
  /\ beat' = [beat EXCEPT !.stop = TRUE, !.pc = IF @ = "wait" THEN "check" ELSE @]
  /\ Go("join beat")
  /\ UNCHANGED <<status, session, inbox, beatIn, probe, hellos, srv, lost>>

CloseJoinsBeat ==
  /\ app.pc = "join beat" /\ ~BeatAlive
  /\ Go("closed")
  /\ UNCHANGED <<status, session, beat, inbox, beatIn, probe, hellos, srv, lost>>

Program ==
  \/ DiscoverEIBServer \/ DiscoverReturns \/ OpenConnection
  \/ FirstPhaseSends \/ FirstPhaseTimesOut \/ FirstPhaseReturns
  \/ KeysConfirmed \/ LoginFails \/ LoginReturns \/ StartHeartbeat
  \/ ReceiveEIBNetwork \/ CloseStopsBeat \/ CloseJoinsBeat

-----------------------------------------------------------------------------
(***************************************************************************)
(* The heartbeat thread of the program: CHeartBeatThread::run.             *)
(***************************************************************************)
BeatSends ==
  /\ beat.pc = "check"
  /\ IF beat.stop
     THEN beat' = [beat EXCEPT !.pc = "end"] /\ UNCHANGED <<srv, lost>>
     ELSE /\ beat' = [beat EXCEPT !.pc = "ack", !.timer = Interval]
          /\ \E in \in Sent(srv[session].beats, "beat") :
               /\ srv' = [srv EXCEPT ![session].beats = in]
               /\ Loses(srv[session].beats, in)
  /\ UNCHANGED <<app, status, session, inbox, beatIn, probe, hellos>>

(* An acknowledgement, after which the thread waits, or the server's        *)
(* disconnect.                                                              *)
BeatReceives ==
  /\ beat.pc = "ack" /\ beatIn # <<>>
  /\ beat' = IF Head(beatIn) = "ack"
             THEN [beat EXCEPT !.pc = "wait", !.timer = Interval]
             ELSE [beat EXCEPT !.pc = "end"]
  /\ beatIn' = Tail(beatIn)
  /\ UNCHANGED <<app, status, session, inbox, probe, hellos, srv, lost>>

(* No acknowledgement within the interval ends the thread at once.          *)
BeatUnanswered ==
  /\ beat.pc = "ack" /\ beatIn = <<>> /\ beat.timer = 0
  /\ beat' = [beat EXCEPT !.pc = "end"]
  /\ UNCHANGED <<app, status, session, inbox, beatIn, probe, hellos, srv, lost>>

BeatWaited ==
  /\ beat.pc = "wait" /\ beat.timer = 0
  /\ beat' = [beat EXCEPT !.pc = "check"]
  /\ UNCHANGED <<app, status, session, inbox, beatIn, probe, hellos, srv, lost>>

(* Mutant: the thread ends and tells nobody.                                *)
BeatEndsQuietly ==
  /\ beat.pc = "end"
  /\ beat' = [beat EXCEPT !.pc = "dead"]
  /\ UNCHANGED <<app, status, session, inbox, beatIn, probe, hellos, srv, lost>>

BeatEnds ==
  /\ beat.pc = "end"
  /\ beat' = [beat EXCEPT !.pc = "dead"]
  /\ status' = "disconnected"
  /\ UNCHANGED <<app, session, inbox, beatIn, probe, hellos, srv, lost>>

Heartbeat == BeatSends \/ BeatReceives \/ BeatUnanswered \/ BeatWaited \/ BeatEnds

-----------------------------------------------------------------------------
(***************************************************************************)
(* The server: the manager, the client thread and its heartbeat thread.    *)
(***************************************************************************)
(* run and InitClient: a hello becomes a session, whose thread begins with  *)
(* its public key, unless sessions of other programs fill the server.       *)
AcceptHello ==
  /\ hellos.in # <<>>
  /\ hellos' = [hellos EXCEPT !.in = Tail(@)]
  /\ LET s == Head(hellos.in) IN
     \/ UNCHANGED <<srv, inbox, lost>>
     \/ /\ srv' = [srv EXCEPT ![s].pc = "keys"]
        /\ ToProgram(Msg("public", s))
  /\ UNCHANGED <<app, status, session, beat, beatIn, probe>>

(* The program's key within five seconds, and its confirmation.             *)
ExchangeKeys(s) ==
  /\ srv[s].pc = "keys" /\ srv[s].in # <<>>
  /\ srv' = [srv EXCEPT ![s].pc = "auth", ![s].in = Tail(@)]
  /\ ToProgram(Msg("confirmed", s))
  /\ UNCHANGED <<app, status, session, beat, beatIn, probe, hellos>>

KeysTimeOut(s) ==
  /\ srv[s].pc = "keys" /\ srv[s].in = <<>>
  /\ srv' = [srv EXCEPT ![s].pc = "refused"]
  /\ UNCHANGED <<app, status, session, beat, inbox, beatIn, probe, hellos, lost>>

(* Authenticate has no timeout.  Wrong credentials are not answered.        *)
Authenticate(s) ==
  /\ srv[s].pc = "auth" /\ srv[s].in # <<>>
  /\ IF Head(srv[s].in) = "login"
     THEN /\ srv' = [srv EXCEPT ![s].pc = "loop", ![s].in = Tail(@)]
          /\ ToProgram(Msg("welcome", s))
     ELSE /\ srv' = [srv EXCEPT ![s].pc = "refused", ![s].in = <<>>]
          /\ UNCHANGED <<inbox, lost>>
  /\ UNCHANGED <<app, status, session, beat, beatIn, probe, hellos>>

(* HandleIncomingPktsFromBus: a frame for the program.                      *)
Forward(s) ==
  /\ InSession(s) /\ srv[s].frames < MaxFrames
  /\ srv' = [srv EXCEPT ![s].frames = @ + 1]
  /\ ToProgram(Msg("frame", s))
  /\ UNCHANGED <<app, status, session, beat, beatIn, probe, hellos>>

(* HandleIncomingPktsFromClient: a command goes to the handler of the bus,  *)
(* which is another module; wrong commands are dropped.                     *)
HandleCommand(s) ==
  /\ InSession(s) /\ srv[s].in # <<>> /\ Head(srv[s].in) = "command"
  /\ srv' = [srv EXCEPT ![s].in = Tail(@)]
  /\ UNCHANGED <<app, status, session, beat, inbox, beatIn, probe, hellos, lost>>

(* The program's disconnect: Close sends its own on the heartbeat socket.   *)
HandleDisconnect(s) ==
  /\ InSession(s) /\ srv[s].in # <<>> /\ Head(srv[s].in) = "leave"
  /\ srv' = [srv EXCEPT ![s].pc = "left", ![s].in = <<>>]
  /\ ToBeat("bye")
  /\ UNCHANGED <<app, status, session, beat, inbox, probe, hellos>>

(* CListenerThread::run.                                                    *)
ListenerHears(s) ==
  /\ InSession(s) /\ srv[s].beats # <<>>
  /\ srv' = [srv EXCEPT ![s].silence = 0, ![s].beats = Tail(@)]
  /\ ToBeat("ack")
  /\ UNCHANGED <<app, status, session, beat, inbox, probe, hellos>>

ListenerGivesUp(s) ==
  /\ InSession(s) /\ srv[s].beats = <<>> /\ srv[s].silence = Timeout
  /\ srv' = [srv EXCEPT ![s].pc = "silent", ![s].in = <<>>]
  /\ UNCHANGED <<app, status, session, beat, inbox, beatIn, probe, hellos, lost>>

(* The server closes a session when it shuts down.                          *)
ServerCloses(s) ==
  /\ MayClose /\ InSession(s)
  /\ srv' = [srv EXCEPT ![s].pc = "left", ![s].in = <<>>]
  /\ ToBeat("bye")
  /\ UNCHANGED <<app, status, session, beat, inbox, probe, hellos>>

Serves(s) ==
  \/ ExchangeKeys(s) \/ KeysTimeOut(s) \/ Authenticate(s) \/ HandleCommand(s)
  \/ HandleDisconnect(s) \/ ListenerHears(s) \/ ListenerGivesUp(s)

-----------------------------------------------------------------------------
(* Half an interval passes.  If everybody is prompt, no heartbeat and no    *)
(* answer to one is left lying until then, nor the reply to a login, which  *)
(* is awaited for two seconds.  The timeouts of the handshake need no clock:*)
(* an answer may always come too late.                                      *)
Down(t) == IF t > 0 THEN t - 1 ELSE 0
Up(t) == IF t < Timeout THEN t + 1 ELSE t

NothingToDo ==
  /\ beat.pc \notin {"check", "end"}
  /\ beat.pc \in {"ack", "wait"} => beat.timer > 0
  /\ beat.pc = "ack" => beatIn = <<>>
  /\ app.pc \notin {"login", "start beat"}
  /\ \A s \in Sessions : InSession(s) => srv[s].beats = <<>> /\ srv[s].in = <<>>

Tick ==
  /\ Prompt => NothingToDo
  /\ beat.pc \in {"ack", "wait"} \/ \E s \in Sessions : InSession(s) /\ srv[s].silence < Timeout
  /\ beat' = [beat EXCEPT !.timer = Down(@)]
  /\ srv' = [s \in Sessions |->
               IF InSession(s) THEN [srv[s] EXCEPT !.silence = Up(@)] ELSE srv[s]]
  /\ UNCHANGED <<app, status, session, inbox, beatIn, probe, hellos, lost>>

Next ==
  \/ Program \/ OpenAgain \/ SendEIBNetwork \/ Close \/ Heartbeat
  \/ HandleServiceDiscovery \/ AcceptHello
  \/ \E s \in Sessions : Serves(s) \/ Forward(s) \/ ServerCloses(s)
  \/ Tick

Spec == Init /\ [][Next]_vars

(* Every thread goes on when it can, and time passes.  The monitor of the   *)
(* heartbeat is free for ten seconds in each of its turns.                  *)
Fairness ==
  /\ SF_vars(CloseStopsBeat)
  /\ WF_vars(Program) /\ WF_vars(Heartbeat) /\ WF_vars(Tick)
  /\ WF_vars(HandleServiceDiscovery) /\ WF_vars(AcceptHello)
  /\ \A s \in Sessions : WF_vars(Serves(s))

FairSpec == Spec /\ Fairness
-----------------------------------------------------------------------------
(***************************************************************************)
(* Properties.                                                             *)
(***************************************************************************)
Kinds == {"public", "confirmed", "welcome", "frame"}

Believes(s) == status = "connected" /\ session = s
Ended(s) == srv[s].pc \in {"left", "silent"}

(* A session of the server, the one the program believes in, and those it   *)
(* has believed in, of which there is one at most.                          *)
HeldAt(pc) ==
  CASE pc \in {"none", "keys", "auth"} -> "before"
    [] pc = "loop"                     -> "in"
    [] pc = "refused"                  -> "refused"
    [] pc \in {"left", "silent"}       -> "out"
Held == [s \in Sessions |-> HeldAt(srv[s].pc)]
Joined == IF status = "connected" THEN session ELSE None
HasJoined == IF app.pc = "start beat" \/ beat.pc # "new" THEN {session} ELSE {}

(* The handshake is an agreement: over lost and late replies, repeated      *)
(* hellos and refused logins, the program never believes in a session that  *)
(* the server has not logged in, nor twice in the same.                     *)
Agreement == INSTANCE SessionAgreement WITH
  held <- Held, joined <- Joined, past <- HasJoined

ImplementsAgreement == Agreement!AgreementSpec

(* A program whose session has ended at the server notices, and the server  *)
(* notices that its program has gone or never learnt of its login: the two  *)
(* heartbeats, of different patience, leave neither end with half a session *)
(* (CHeartBeatThread::run and CListenerThread::run).                        *)
BothNotice ==
  \A s \in Sessions :
    /\ (Believes(s) /\ Ended(s)) ~> ~Believes(s)
    /\ (InSession(s) /\ ~Believes(s)) ~> (~InSession(s) \/ Believes(s))

CloseReturns == (app.pc = "stop beat") ~> (app.pc = "closed")

-----------------------------------------------------------------------------
(***************************************************************************)
(* What comments claim and the code does not keep.                         *)
(***************************************************************************)
(* "return true if connection to the eib server established. false else"    *)
(* (GenericServer.h, OpenConnection).                                       *)
OkMeansConnected == app.result = "ok" => beat.pc # "new"

(* "in any other case the method will return false" (GenericServer.h).      *)
OpenAlwaysReturns == (app.pc = "open") ~> (app.pc = "idle")
=============================================================================
