------------------------ MODULE ClientSessionsProofs ------------------------
(***************************************************************************)
(* Theorems about the sessions of the server, for every set of sessions and*)
(* ids, every limit of clients and every timeout: the map of sessions and  *)
(* their threads agree, and the map never holds more than MaxClients.      *)
(*                                                                         *)
(* Two actions change the map: the manager registers (MgrInits) and a      *)
(* client thread leaves (Leaves).  All others keep who is live under which *)
(* id (KeepsRegistration), so both invariants follow from these two.       *)
(***************************************************************************)
EXTENDS ClientSessions, FiniteSetTheorems, TLAPS

(***************************************************************************)
(* Type correctness.                                                       *)
(***************************************************************************)
LEMMA NewSessions ==
  /\ NewSession \in Session
  /\ [NewSession EXCEPT !.pc = "dead"] \in Session
  /\ [NewSession EXCEPT !.pc = "dead"].pc = "dead"
<1>1. 0 \in 0 .. Timeout - 1
  BY SessionsAssumption
<1>2. NewSession \in Session
  BY <1>1 DEF NewSession, Session, ClientLabels, BeatLabels
<1>3. "dead" \in ClientLabels
  BY DEF ClientLabels
<1> QED
  BY <1>2, <1>3 DEF Session

LEMMA InitTypes == Init => TypeOK
<1> SUFFICES ASSUME Init PROVE TypeOK
  OBVIOUS
<1>1. session \in [Sessions -> Session]
  BY NewSessions DEF Init
<1>2. clients \in [Ids -> Sessions \cup {None}]
  BY DEF Init
<1> QED
  BY <1>1, <1>2 DEF Init, TypeOK

(* A step that changes one session only, into a session.                    *)
LEMMA OneSession ==
  ASSUME TypeOK, NEW s \in Sessions, NEW r \in Session,
         session' = [session EXCEPT ![s] = r]
  PROVE  session' \in [Sessions -> Session]
BY DEF TypeOK

LEMMA ClientTypes ==
  ASSUME TypeOK, NEW s \in Sessions,
         \/ Client(s) \/ Authenticates(s) \/ AuthenticateFails(s)
         \/ ExchangeThrows(s) \/ AuthenticateThrows(s)
         \/ WriteReturns(s) \/ RemoteStops(s)
  PROVE  TypeOK'
<1>1. session[s] \in Session
  BY DEF TypeOK
<1> USE DEF Session, ClientLabels
<1>2. session' \in [Sessions -> Session]
  <2>1. CASE ExchangeKeys(s)
    BY <2>1, <1>1 DEF ExchangeKeys, Set, TypeOK
  <2>2. CASE SetParent(s)
    BY <2>2, <1>1 DEF SetParent, Set, TypeOK
  <2>3. CASE StartHeartbeat(s)
    BY <2>3, <1>1 DEF StartHeartbeat, BeatLabels, TypeOK
  <2>4. CASE LoopCondition(s)
    BY <2>4, <1>1 DEF LoopCondition, Set, TypeOK
  <2>5. CASE Turn(s)
    <3>1. PICK more \in {FALSE, session[s].pending}, next \in {"loop", "write", "close"} :
            session' = [session EXCEPT ![s].pc = next, ![s].pending = more,
                                       ![s].remote = @ /\ next # "close"]
      BY <2>5 DEF Turn
    <3>2. more \in BOOLEAN /\ (session[s].remote /\ next # "close") \in BOOLEAN
      BY <1>1
    <3> DEFINE on == session[s].remote /\ next # "close"
    <3>3. [session[s] EXCEPT !.pc = next, !.pending = more, !.remote = on] \in Session
      <4> HIDE DEF on
      <4> QED
        BY <1>1, <3>2 DEF on
    <3> QED
      BY <3>1, <3>3 DEF TypeOK
  <2>6. CASE Closes(s)
    BY <2>6, <1>1 DEF Closes, TypeOK
  <2>7. CASE Joins(s)
    BY <2>7, <1>1 DEF Joins, TypeOK
  <2>8. CASE Leaves(s)
    <3>1. [NewSession EXCEPT !.pc = "dead"] \in Session
      BY NewSessions
    <3>2. CASE clients[session[s].id] = None
      BY <2>8, <3>2, <1>1 DEF Leaves, Set, TypeOK
    <3>3. CASE clients[session[s].id] # None
      BY <2>8, <3>1, <3>3, OneSession DEF Leaves
    <3> QED
      BY <3>2, <3>3
  <2>9. CASE Authenticates(s)
    <3>1. PICK policy \in {"read", "none"}, up \in BOOLEAN :
            session' = [session EXCEPT ![s].pc = "parent", ![s].loggedIn = TRUE,
                                       ![s].policy = policy, ![s].remote = up]
      BY <2>9 DEF Authenticates
    <3> QED
      BY <3>1, <1>1 DEF TypeOK
  <2>10. CASE AuthenticateFails(s)
    BY <2>10, <1>1 DEF AuthenticateFails, Set, TypeOK
  <2>11. CASE WriteReturns(s)
    BY <2>11, <1>1 DEF WriteReturns, Set, TypeOK
  <2>12. CASE RemoteStops(s)
    BY <2>12, <1>1 DEF RemoteStops, TypeOK
  <2>13. CASE ExchangeThrows(s)
    BY <2>13, <1>1 DEF ExchangeThrows, Set, TypeOK
  <2>14. CASE AuthenticateThrows(s)
    BY <2>14, <1>1 DEF AuthenticateThrows, Set, TypeOK
  <2> QED
    BY <2>1, <2>2, <2>3, <2>4, <2>5, <2>6, <2>7, <2>8, <2>9, <2>10, <2>11, <2>12, <2>13, <2>14
    DEF Client
<1>3. UNCHANGED <<lock, mgr, stop, main, reader>> /\ clients' \in [Ids -> Sessions \cup {None}]
  BY DEF Client, ExchangeKeys, SetParent, StartHeartbeat, LoopCondition, Turn, Closes,
     Joins, Leaves, Authenticates, AuthenticateFails, ExchangeThrows, AuthenticateThrows,
     WriteReturns, RemoteStops, Still, TypeOK
<1> QED
  BY <1>2, <1>3 DEF TypeOK

LEMMA HeartbeatTypes ==
  ASSUME TypeOK, NEW s \in Sessions, Heartbeat(s) \/ BeatThrows(s)
  PROVE  TypeOK'
<1>1. session[s] \in Session
  BY DEF TypeOK
<1> USE DEF Session, BeatLabels
<1>2. session' \in [Sessions -> Session]
  <2>1. CASE BeatBegins(s)
    BY <2>1, <1>1 DEF BeatBegins, TypeOK
  <2>2. CASE BeatStops(s)
    BY <2>2, <1>1 DEF BeatStops, TypeOK
  <2>3. CASE BeatHears(s)
    BY <2>3, <1>1, SessionsAssumption DEF BeatHears, TypeOK
  <2>4. CASE BeatRejects(s)
    BY <2>4, <1>1 DEF BeatRejects, TypeOK
  <2>5. CASE BeatSilent(s)
    <3>1. CASE session[s].silence + 1 < Timeout
      <4>1. session[s].silence + 1 \in 0 .. Timeout - 1
        BY <1>1, <3>1, SessionsAssumption
      <4> QED
        BY <2>5, <3>1, <4>1, <1>1 DEF BeatSilent, TypeOK
    <3>2. CASE ~ (session[s].silence + 1 < Timeout)
      BY <2>5, <3>2, <1>1 DEF BeatSilent, TypeOK
    <3> QED
      BY <3>1, <3>2
  <2>6. CASE BeatEnds(s)
    BY <2>6, <1>1 DEF BeatEnds, TypeOK
  <2>7. CASE BeatThrows(s)
    BY <2>7, <1>1 DEF BeatThrows, TypeOK
  <2> QED
    BY <2>1, <2>2, <2>3, <2>4, <2>5, <2>6, <2>7 DEF Heartbeat
<1>3. Still
  BY DEF Heartbeat, BeatBegins, BeatStops, BeatHears, BeatRejects, BeatSilent, BeatEnds, BeatThrows
<1> QED
  BY <1>2, <1>3 DEF TypeOK, Still

LEMMA OtherTypes ==
  ASSUME TypeOK, Manager \/ MgrFails \/ ReaderHasFrame \/ Brodcast \/ MainBegins \/ MainThread
  PROVE  TypeOK'
<1>1. CASE Manager \/ MgrFails
  <2>1. CASE MgrTurn \/ MgrCounts \/ MgrIgnores \/ MgrFails
    BY <2>1 DEF MgrTurn, MgrCounts, MgrIgnores, MgrFails, TypeOK
  <2>2. ASSUME NEW s \in Sessions, NEW i \in Ids, MgrInits(s, i) PROVE TypeOK'
    <3>1. session[s] \in Session
      BY DEF TypeOK
    <3>2. session' \in [Sessions -> Session]
      BY <2>2, <3>1 DEF MgrInits, Session, ClientLabels, TypeOK
    <3> QED
      BY <2>2, <3>2 DEF MgrInits, TypeOK
  <2> QED
    BY <1>1, <2>1, <2>2 DEF Manager
<1>2. CASE ReaderHasFrame
  BY <1>2 DEF ReaderHasFrame, TypeOK
<1>3. CASE Brodcast
  <2>1. ASSUME NEW s \in Sessions PROVE [session[s] EXCEPT !.pending = TRUE] \in Session
    <3>1. session[s] \in Session
      BY <2>1 DEF TypeOK
    <3> QED
      BY <3>1 DEF Session
  <2>2. session' \in [Sessions -> Session]
    BY <1>3, <2>1 DEF Brodcast, TypeOK
  <2> QED
    BY <1>3, <2>2 DEF Brodcast, TypeOK
<1>4. CASE MainBegins \/ MainJoins \/ MainStops \/ MainJoinsManager
  BY <1>4 DEF MainBegins, MainJoins, MainStops, MainJoinsManager, Registered, TypeOK
<1>5. ASSUME NEW s \in Sessions, MainCrashes(s) PROVE TypeOK'
  BY <1>5 DEF MainCrashes, TypeOK
<1>6. ASSUME NEW s \in Sessions, MainCloses(s) PROVE TypeOK'
  <2>1. session[s] \in Session
    BY DEF TypeOK
  <2>2. session' \in [Sessions -> Session]
    <3>1. PICK told \in BOOLEAN :
            session' = [session EXCEPT ![s].run = FALSE, ![s].remote = @ /\ ~told]
      BY <1>6 DEF MainCloses
    <3> DEFINE up == session[s].remote /\ ~told
    <3>2. up \in BOOLEAN
      BY <2>1 DEF Session
    <3>3. [session[s] EXCEPT !.run = FALSE, !.remote = up] \in Session
      <4> HIDE DEF up
      <4> QED
        BY <2>1, <3>2 DEF Session
    <3> QED
      BY <3>1, <3>3 DEF TypeOK
  <2> QED
    BY <1>6, <2>2 DEF MainCloses, TypeOK
<1> QED
  BY <1>1, <1>2, <1>3, <1>4, <1>5, <1>6 DEF MainThread, MainCloseAny

LEMMA StepTypes == TypeOK /\ [Next]_vars => TypeOK'
<1> SUFFICES ASSUME TypeOK, [Next]_vars PROVE TypeOK'
  OBVIOUS
<1>1. CASE UNCHANGED vars
  BY <1>1 DEF vars, TypeOK
<1>2. CASE Next
  BY <1>2, ClientTypes, HeartbeatTypes, OtherTypes DEF Next
<1> QED
  BY <1>1, <1>2

(* Every variable has values of its kind, for all constants: in particular  *)
(* the seconds of silence stay below the timeout (CListenerThread::run).    *)
THEOREM AlwaysTypes == Spec => []TypeOK
BY InitTypes, StepTypes, PTL DEF Spec
-----------------------------------------------------------------------------
(***************************************************************************)
(* The map and the threads.                                                *)
(***************************************************************************)
(* A live session has an id, and the map has it there and nowhere else.     *)
Registry ==
  /\ DisconnectFindsClient
  /\ \A s \in Sessions : Live(s) => session[s].id # None

(* Who is live, and under which id, is what the map has to follow.          *)
SameRegistration ==
  /\ UNCHANGED clients
  /\ \A s \in Sessions : /\ session'[s].id = session[s].id
                         /\ Live(s)' <=> Live(s)
                         /\ session'[s].pc = "thrown" => session[s].pc = "thrown"

LEMMA ClientKeeps ==
  ASSUME TypeOK, NEW s \in Sessions,
         \/ ExchangeKeys(s) \/ SetParent(s) \/ StartHeartbeat(s) \/ LoopCondition(s)
         \/ Turn(s) \/ Closes(s) \/ Joins(s) \/ Authenticates(s) \/ AuthenticateFails(s)
         \/ ExchangeThrows(s) \/ AuthenticateThrows(s)
         \/ WriteReturns(s) \/ RemoteStops(s) \/ Heartbeat(s) \/ BeatThrows(s)
  PROVE  SameRegistration
<1> USE DEF SameRegistration, Live, TypeOK, Session, Still
<1>1. CASE ExchangeKeys(s)
  BY <1>1 DEF ExchangeKeys, Set
<1>2. CASE SetParent(s)
  BY <1>2 DEF SetParent, Set
<1>3. CASE StartHeartbeat(s)
  BY <1>3 DEF StartHeartbeat
<1>4. CASE LoopCondition(s)
  BY <1>4 DEF LoopCondition, Set
<1>5. CASE Turn(s)
  BY <1>5 DEF Turn
<1>6. CASE Closes(s)
  BY <1>6 DEF Closes
<1>7. CASE Joins(s)
  BY <1>7 DEF Joins
<1>8. CASE Authenticates(s)
  <2>1. PICK policy \in {"read", "none"}, up \in BOOLEAN :
          session' = [session EXCEPT ![s].pc = "parent", ![s].loggedIn = TRUE,
                                     ![s].policy = policy, ![s].remote = up]
    BY <1>8 DEF Authenticates
  <2>2. session[s].pc = "auth" /\ UNCHANGED clients
    BY <1>8 DEF Authenticates
  <2>3. session'[s].pc = "parent" /\ session'[s].id = session[s].id
        /\ \A t \in Sessions \ {s} : session'[t] = session[t]
    BY <2>1
  <2> QED
    BY <2>2, <2>3
<1>9. CASE AuthenticateFails(s)
  BY <1>9 DEF AuthenticateFails, Set
<1>10. CASE WriteReturns(s) \/ RemoteStops(s)
  BY <1>10 DEF WriteReturns, RemoteStops, Set
<1>11. CASE Heartbeat(s) \/ BeatThrows(s)
  BY <1>11 DEF Heartbeat, BeatBegins, BeatStops, BeatHears, BeatRejects, BeatSilent, BeatEnds, BeatThrows
<1>12. CASE ExchangeThrows(s)
  BY <1>12 DEF ExchangeThrows, Set
<1>13. CASE AuthenticateThrows(s)
  BY <1>13 DEF AuthenticateThrows, Set
<1> QED
  BY <1>1, <1>2, <1>3, <1>4, <1>5, <1>6, <1>7, <1>8, <1>9, <1>10, <1>11, <1>12, <1>13

LEMMA OthersKeep ==
  ASSUME TypeOK,
         \/ MgrTurn \/ MgrCounts \/ MgrIgnores \/ MgrFails
         \/ ReaderHasFrame \/ Brodcast \/ MainBegins \/ MainThread
  PROVE  SameRegistration
<1> USE DEF SameRegistration, Live, TypeOK, Session
<1>1. CASE Brodcast
  BY <1>1 DEF Brodcast
<1>2. CASE UNCHANGED <<session, clients>>
  BY <1>2
<1>3. ASSUME NEW s \in Sessions, MainCloses(s) PROVE SameRegistration
  BY <1>3 DEF MainCloses
<1> QED
  BY <1>1, <1>2, <1>3
  DEF MgrTurn, MgrCounts, MgrIgnores, MgrFails, ReaderHasFrame, MainBegins, MainThread,
      MainCloseAny, MainCrashes, MainJoins, MainStops, MainJoinsManager

(* Every step registers a session, unregisters one, or does neither.        *)
LEMMA KeepsRegistration ==
  ASSUME TypeOK, [Next]_vars
  PROVE  \/ \E s \in Sessions, i \in Ids : MgrInits(s, i)
         \/ \E s \in Sessions : Leaves(s)
         \/ SameRegistration
<1>1. CASE UNCHANGED vars
  BY <1>1 DEF vars, SameRegistration, Live
<1>2. CASE Next
  BY <1>2, ClientKeeps, OthersKeep DEF Next, Client, Manager
<1> QED
  BY <1>1, <1>2

LEMMA InitRegistry == Init => Registry
BY SessionsAssumption DEF Init, Registry, DisconnectFindsClient, Live, NewSession

LEMMA StepRegistry == TypeOK /\ Registry /\ [Next]_vars => Registry'
<1> SUFFICES ASSUME TypeOK, Registry, [Next]_vars PROVE Registry'
  OBVIOUS
<1> USE SessionsAssumption DEF Registry, DisconnectFindsClient, Live, TypeOK
<1>1. ASSUME NEW s \in Sessions, NEW i \in Ids, MgrInits(s, i) PROVE Registry'
  <2>1. session' = [session EXCEPT ![s].pc = "keys", ![s].id = i]
        /\ clients' = [clients EXCEPT ![i] = s]
        /\ session[s].pc = "unused" /\ clients[i] = None
    BY <1>1 DEF MgrInits
  <2>2. session'[s].pc = "keys" /\ session'[s].id = i
    BY <2>1 DEF Session
  <2>3. \A t \in Sessions \ {s} : session'[t] = session[t]
    BY <2>1
  <2> QED
    BY <2>1, <2>2, <2>3
<1>2. ASSUME NEW s \in Sessions, Leaves(s) PROVE Registry'
  <2>1. session[s].id \in Ids /\ clients[session[s].id] = s
    BY <1>2 DEF Leaves, Session
  <2>2. session' = [session EXCEPT ![s] = [NewSession EXCEPT !.pc = "dead"]]
        /\ clients' = [clients EXCEPT ![session[s].id] = None]
    BY <1>2, <2>1 DEF Leaves
  <2>3. session'[s].pc = "dead" /\ \A t \in Sessions \ {s} : session'[t] = session[t]
    BY <2>2, NewSessions
  <2> QED
    BY <2>1, <2>2, <2>3
<1>3. CASE SameRegistration
  BY <1>3 DEF SameRegistration
<1> QED
  BY <1>1, <1>2, <1>3, KeepsRegistration

LEMMA AlwaysRegistry == Spec => []Registry
BY InitRegistry, StepRegistry, AlwaysTypes, PTL DEF Spec

(* For all constants: a live session is in the map under its own id and no  *)
(* other, whatever exceptions end its threads, and Disconnect never throws   *)
(* in a client thread (ClientsMgr.cpp, UnregisterClient; Client.cpp, run).  *)
THEOREM DisconnectAlwaysFinds == Spec => []DisconnectFindsClient
<1>1. Registry => DisconnectFindsClient
  BY DEF Registry
<1> QED
  BY <1>1, AlwaysRegistry, PTL

-----------------------------------------------------------------------------
(***************************************************************************)
(* The limit of the map.                                                   *)
(***************************************************************************)
Taken == {i \in Ids : clients[i] # None}

(* The count under the first lock is still an upper bound under the second: *)
(* nobody but the manager adds a client.                                    *)
Room ==
  /\ IsFiniteSet(Taken) /\ Cardinality(Taken) <= MaxClients
  /\ mgr = "init" => Cardinality(Taken) < MaxClients

LEMMA InitRoom == Init => Room
<1> SUFFICES ASSUME Init PROVE Room
  OBVIOUS
<1>1. Taken = {}
  BY DEF Init, Taken
<1> QED
  BY <1>1, FS_EmptySet, SessionsAssumption DEF Init, Room

LEMMA StepRoom == TypeOK /\ Registry /\ Room /\ [Next]_vars => Room'
<1> SUFFICES ASSUME TypeOK, Registry, Room, [Next]_vars PROVE Room'
  OBVIOUS
<1>1. Cardinality(Taken) \in Nat /\ MaxClients \in Nat
  BY FS_CardinalityType, SessionsAssumption DEF Room
<1>2. ASSUME NEW s \in Sessions, NEW i \in Ids, MgrInits(s, i) PROVE Room'
  <2>1. Taken' = Taken \cup {i} /\ i \notin Taken
    BY <1>2, SessionsAssumption DEF MgrInits, Taken, TypeOK
  <2>2. IsFiniteSet(Taken') /\ Cardinality(Taken') = Cardinality(Taken) + 1
    BY <2>1, FS_AddElement DEF Room
  <2>3. mgr = "init" /\ mgr' = "listen"
    BY <1>2 DEF MgrInits
  <2> QED
    BY <1>1, <2>2, <2>3 DEF Room
<1>3. ASSUME NEW s \in Sessions, Leaves(s) PROVE Room'
  <2>1. Taken' \subseteq Taken
    BY <1>3 DEF Leaves, Taken, TypeOK
  <2>2. IsFiniteSet(Taken') /\ Cardinality(Taken') \in Nat
        /\ Cardinality(Taken') <= Cardinality(Taken)
    BY <2>1, FS_Subset, FS_CardinalityType DEF Room
  <2>3. mgr' = mgr
    BY <1>3 DEF Leaves
  <2> QED
    BY <1>1, <2>2, <2>3 DEF Room
<1>4. CASE SameRegistration
  <2>1. Taken' = Taken
    BY <1>4 DEF SameRegistration, Taken
  <2>2. CASE mgr' = "init" /\ mgr # "init"
    <3>1. MgrCounts
      BY <2>2 DEF Next, vars, Manager, MgrTurn, MgrIgnores, MgrInits, MgrFails, Client,
         ExchangeKeys, SetParent, StartHeartbeat, LoopCondition, Turn, Closes, Joins,
         Leaves, Authenticates, AuthenticateFails, ExchangeThrows, AuthenticateThrows,
         BeatThrows, WriteReturns, RemoteStops, Heartbeat,
         BeatBegins, BeatStops, BeatHears, BeatRejects, BeatSilent, BeatEnds, Still,
         ReaderHasFrame, Brodcast, MainBegins, MainThread, MainCloseAny, MainCloses,
         MainCrashes, MainJoins, MainStops, MainJoinsManager
    <3>2. Cardinality(Taken) # MaxClients
      BY <2>2, <3>1 DEF MgrCounts, NumConnectedClients, Taken
    <3> QED
      BY <1>1, <2>1, <3>2 DEF Room
  <2>3. CASE mgr' # "init" \/ mgr = "init"
    BY <2>1, <2>3 DEF Room
  <2> QED
    BY <2>2, <2>3
<1> QED
  BY <1>2, <1>3, <1>4, KeepsRegistration

LEMMA AlwaysRoom == Spec => []Room
BY InitRoom, StepRoom, AlwaysTypes, AlwaysRegistry, PTL DEF Spec

(* For every limit: the map never holds more than MAX_CONCURRENT_CLIENTS    *)
(* sessions, although the manager counts under one lock and inserts under   *)
(* another (ClientsMgr.cpp, run and InitClient).                            *)
THEOREM NeverTooManyClients == Spec => []AtMostMaxClients
<1>1. Room => AtMostMaxClients
  BY DEF Room, AtMostMaxClients, NumConnectedClients, Taken
<1> QED
  BY <1>1, AlwaysRoom, PTL
=============================================================================
