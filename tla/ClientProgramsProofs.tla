------------------------ MODULE ClientProgramsProofs ------------------------
(***************************************************************************)
(* Theorems about the programs that connect to the EIB server, for every    *)
(* number of sessions, every patience of the two heartbeats, and every      *)
(* number of frames and repetitions.                                       *)
(*                                                                         *)
(* The handshake refines SessionAgreement because of three facts: until the *)
(* program starts its heartbeat it does not believe in any session          *)
(* (Starting), a hello is on its way once and for a session that has not    *)
(* begun (Greeted), and a reply to a login comes from a session that has    *)
(* been logged in (Welcomed).                                               *)
(*                                                                         *)
(* The messages of a login agree because XpowYmodN, whose recursion halves  *)
(* the exponent, multiplies: so the powers commute, and both sides compute  *)
(* one key (KeysMeet); because what is put into a message is what is read   *)
(* from it (RequestRead, ReplyRead); and because at each place of the       *)
(* program the datagram on its way is one that the code's order allows      *)
(* (LoginInv).  A fact about every exponent is proved by its least          *)
(* counterexample (LeastNumber).                                            *)
(*                                                                         *)
(* The mappings of the SMS server are kept because a file Save writes from  *)
(* maps of storable texts is loaded as those maps, line by line             *)
(* (SavedLoads), and the file is always one Save wrote or the first.        *)
(***************************************************************************)
EXTENDS Handshake, LoginMessages, SmsMappings, ModularArithmetic, SequenceTheorems, FiniteSetTheorems, TLAPS

(***************************************************************************)
(* The inductive invariant.                                                *)
(***************************************************************************)
Opening == {"start", "discover", "open", "hello", "public", "keyed", "login"}
Results ==
  {"none", "ok", "no reply", "internal error", "incorrect credentials", "already connected",
   "thrown"}
Programs ==
  [pc : Opening \cup {"start beat", "idle", "stop beat", "join beat", "closed"},
   tries : Nat, result : Results, reopens : Nat, sends : Nat]
Beats == [pc : {"new", "check", "ack", "wait", "end", "dead"}, stop : BOOLEAN, timer : Nat]
ToSession == {"key", "login", "bad login", "command", "leave"}
ServerSessions ==
  [pc : {"none", "keys", "auth", "loop", "refused", "left", "silent"}, silence : Nat,
   in : Seq(ToSession), beats : Seq({"beat"}), frames : Nat]
Replies == [type : Kinds, of : Sessions]

HTypes ==
  /\ app \in Programs
  /\ status \in {"disconnected", "connecting", "connected"}
  /\ session \in Sessions \cup {None}
  /\ beat \in Beats
  /\ inbox \in Seq(Replies) /\ beatIn \in Seq({"ack", "bye"})
  /\ probe \in {"none", "asked", "answered"}
  /\ hellos \in [sent : 0 .. Cardinality(Sessions), in : Seq(Sessions)]
  /\ srv \in [Sessions -> ServerSessions]
  /\ lost \in BOOLEAN

Starting ==
  /\ app.pc \in Opening \cup {"start beat"} => beat.pc = "new"
  /\ app.pc \in Opening => status # "connected"
  /\ app.pc \in {"keyed", "login", "start beat"} => session \in Sessions
  /\ beat.pc # "new" \/ status = "connected" => session \in Sessions

Greeted ==
  /\ \A s \in Sessions : s > hellos.sent => srv[s].pc = "none"
  /\ \A k \in 1 .. Len(hellos.in) :
       hellos.in[k] <= hellos.sent /\ srv[hellos.in[k]].pc = "none"
  /\ \A k, l \in 1 .. Len(hellos.in) : k < l => hellos.in[k] < hellos.in[l]

Welcomed ==
  \A k \in 1 .. Len(inbox) :
    inbox[k].type = "welcome" => srv[inbox[k].of].pc \in {"loop", "left", "silent"}

HInv == HTypes /\ Starting /\ Greeted /\ Welcomed

LEMMA SessionNumbers ==
  Cardinality(Sessions) \in Nat /\ Sessions = 1 .. Cardinality(Sessions)
BY FS_CardinalityType, HandshakeAssumption

LEMMA HandshakeInit == Init => HInv
<1> SUFFICES ASSUME Init PROVE HInv
  OBVIOUS
<1>1. <<>> \in Seq(ToSession) /\ <<>> \in Seq({"beat"}) /\ <<>> \in Seq(Replies)
      /\ <<>> \in Seq({"ack", "bye"}) /\ <<>> \in Seq(Sessions) /\ Len(<<>>) = 0
  BY EmptySeq
<1>2. NewSession \in ServerSessions /\ NewSession.pc = "none"
  BY <1>1 DEF NewSession, ServerSessions
<1>3. HTypes
  <2>1. app \in Programs /\ beat \in Beats
    BY DEF Init, Programs, Opening, Results, Beats
  <2>2. inbox \in Seq(Replies) /\ beatIn \in Seq({"ack", "bye"})
    BY <1>1, Zenon DEF Init
  <2>3. hellos \in [sent : 0 .. Cardinality(Sessions), in : Seq(Sessions)]
    BY <1>1, SessionNumbers DEF Init
  <2>4. srv \in [Sessions -> ServerSessions]
    BY <1>2 DEF Init
  <2>5. lost \in BOOLEAN
    BY Zenon DEF Init
  <2> QED
    BY <2>1, <2>2, <2>3, <2>4, <2>5 DEF Init, HTypes
<1>4. Starting
  BY DEF Init, Starting, Opening
<1>5. Greeted
  BY <1>1, <1>2 DEF Init, Greeted
<1>6. Welcomed
  BY <1>1 DEF Init, Welcomed
<1> QED
  BY <1>3, <1>4, <1>5, <1>6 DEF HInv

(***************************************************************************)
(* What a step does to the queues.                                         *)
(***************************************************************************)
(* A datagram that is sent.                                                 *)
LEMMA SentQueue ==
  ASSUME NEW S, NEW q \in Seq(S), NEW m \in S, NEW r \in Sent(q, m)
  PROVE  /\ r \in Seq(S)
         /\ \A k \in 1 .. Len(r) : (k \in 1 .. Len(q) /\ r[k] = q[k]) \/ r[k] = m
<1>1. CASE r = Append(q, m)
  BY <1>1
<1>2. CASE r = q
  BY <1>2
<1> QED
  BY <1>1, <1>2 DEF Sent

(* A datagram that is taken.                                                *)
LEMMA TakenQueue ==
  ASSUME NEW S, NEW q \in Seq(S), q # <<>>
  PROVE  /\ Head(q) \in S /\ Head(q) = q[1] /\ 1 \in 1 .. Len(q)
         /\ Tail(q) \in Seq(S)
         /\ Len(Tail(q)) = Len(q) - 1
         /\ \A k \in 1 .. Len(Tail(q)) : k + 1 \in 1 .. Len(q) /\ Tail(q)[k] = q[k + 1]
BY HeadTailProperties, EmptySeq, LenProperties

LEMMA LosesType == ASSUME HTypes, NEW old, NEW new, Loses(old, new) PROVE lost' \in BOOLEAN
BY DEF HTypes, Loses

PcsKept == \A s \in Sessions : srv'[s].pc = srv[s].pc

LEMMA ToServerKeeps ==
  ASSUME HTypes, NEW s \in Sessions, NEW m \in ToSession, ToServer(s, m)
  PROVE  srv' \in [Sessions -> ServerSessions] /\ PcsKept /\ lost' \in BOOLEAN
<1>1. srv[s] \in ServerSessions /\ srv[s].in \in Seq(ToSession)
  BY DEF HTypes, ServerSessions
<1>2. PICK in \in Sent(srv[s].in, m) : srv' = [srv EXCEPT ![s].in = in] /\ Loses(srv[s].in, in)
  BY DEF ToServer
<1>3. in \in Seq(ToSession)
  BY <1>1, <1>2, SentQueue
<1>4. lost' \in BOOLEAN
  BY <1>2, LosesType
<1> QED
  BY <1>1, <1>2, <1>3, <1>4 DEF HTypes, ServerSessions, PcsKept

(***************************************************************************)
(* The steps of the program and of its heartbeat.                          *)
(***************************************************************************)
(* The program takes datagrams from its socket and puts none there.         *)
InboxKept == inbox' = inbox \/ (inbox # <<>> /\ inbox' = Tail(inbox))
OwnStep == HTypes' /\ Starting' /\ PcsKept /\ InboxKept

LEMMA InboxTaken ==
  ASSUME HTypes, inbox # <<>>, inbox' = Tail(inbox)
  PROVE  /\ Head(inbox) \in Replies /\ Head(inbox) = inbox[1] /\ 1 \in 1 .. Len(inbox)
         /\ inbox' \in Seq(Replies) /\ InboxKept
BY TakenQueue DEF HTypes, InboxKept

LEMMA AppCounters == HTypes => app.tries \in Nat /\ app.reopens \in Nat /\ app.sends \in Nat
BY DEF HTypes, Programs

LEMMA AppCounts ==
  ASSUME HTypes, NEW n \in Nat
  PROVE  /\ [app EXCEPT !.pc = "hello", !.tries = n] \in Programs
         /\ [app EXCEPT !.sends = n] \in Programs
         /\ \A r \in Results : [app EXCEPT !.result = r, !.reopens = n] \in Programs
<1>1. app \in Programs
  BY DEF HTypes
<1> QED
  BY <1>1 DEF Programs, Opening

(* What the program is told about itself.                                   *)
LEMMA AppTypes ==
  ASSUME HTypes, NEW pc \in Opening \cup {"start beat", "idle", "stop beat", "join beat", "closed"}
  PROVE  /\ Go(pc) => app' \in Programs /\ app'.pc = pc
         /\ \A r \in Results : Returns(r) => app' \in Programs /\ app'.pc = "idle"
BY DEF HTypes, Programs, Go, Returns, Opening

LEMMA InboxSame == inbox' = inbox => InboxKept
BY Zenon DEF InboxKept

LEMMA SrvSame == srv' = srv => PcsKept
BY DEF PcsKept

LEMMA DiscoveryStep ==
  ASSUME HInv, DiscoverEIBServer \/ DiscoverReturns \/ OpenConnection
  PROVE  OwnStep /\ UNCHANGED hellos
<1> USE DEF HInv, Opening
<1>1. app' \in Programs /\ app'.pc \in {"discover", "open", "hello"} /\ app.pc \in Opening
  BY AppTypes DEF DiscoverEIBServer, DiscoverReturns, OpenConnection
<1>2. /\ status' \in {status, "connecting"} /\ probe' \in {probe, "asked"}
      /\ UNCHANGED <<session, beat, inbox, beatIn, hellos, srv, lost>>
  BY DEF DiscoverEIBServer, DiscoverReturns, OpenConnection
<1>3. HTypes'
  BY <1>1, <1>2 DEF HTypes
<1>4. Starting'
  BY <1>1, <1>2 DEF Starting
<1> QED
  BY <1>2, <1>3, <1>4, InboxSame, SrvSame DEF OwnStep

LEMMA FirstPhaseStep ==
  ASSUME HInv, FirstPhaseTimesOut \/ FirstPhaseReturns
  PROVE  OwnStep /\ UNCHANGED hellos
<1> USE DEF HInv
<1>1. CASE FirstPhaseTimesOut
  <2>1. /\ app.pc = "public"
        /\ IF app.tries > 0 THEN app' = [app EXCEPT !.pc = "hello", !.tries = @ - 1]
                            ELSE Returns("no reply")
        /\ UNCHANGED <<status, session, beat, inbox, beatIn, probe, hellos, srv, lost>>
    BY <1>1, Zenon DEF FirstPhaseTimesOut
  <2>2. app' \in Programs /\ app'.pc \in {"hello", "idle"}
    <3>1. CASE app.tries > 0
      <4>1. PICK n : n = app.tries - 1 /\ n \in Nat
        <5>1. app.tries - 1 \in Nat
          BY <3>1, AppCounters
        <5> QED
          BY <5>1
      <4>2. app' = [app EXCEPT !.pc = "hello", !.tries = n]
        BY <2>1, <3>1, <4>1
      <4>3. app \in Programs /\ app' \in Programs
        BY <4>1, <4>2, AppCounts DEF HTypes
      <4> QED
        BY <4>2, <4>3 DEF Programs
    <3>2. CASE ~(app.tries > 0)
      BY <2>1, <3>2, AppTypes DEF Opening, Results
    <3> QED
      BY <3>1, <3>2
  <2>3. HTypes' /\ Starting'
    BY <2>1, <2>2 DEF HTypes, Starting, Opening
  <2> QED
    BY <2>1, <2>3, InboxSame, SrvSame DEF OwnStep
<1>2. CASE FirstPhaseReturns
  <2> DEFINE m == Head(inbox)
  <2>1. /\ app.pc = "public" /\ beat.pc = "new" /\ status # "connected"
        /\ inbox # <<>> /\ inbox' = Tail(inbox)
        /\ UNCHANGED <<beat, beatIn, probe, hellos>>
    BY <1>2 DEF FirstPhaseReturns, Starting, Opening
  <2>2. m \in Replies /\ inbox' \in Seq(Replies) /\ InboxKept
    BY <2>1, InboxTaken
  <2>3. CASE UNCHANGED <<session, srv, lost>> /\ status' \in {status, "disconnected"}
             /\ \E r \in Results : Returns(r)
    <3>1. app' \in Programs /\ app'.pc = "idle"
      BY <2>3, AppTypes DEF Opening
    <3>2. HTypes' /\ Starting'
      BY <2>1, <2>2, <2>3, <3>1 DEF HTypes, Starting, Opening
    <3> QED
      BY <2>1, <2>2, <2>3, <3>2, SrvSame DEF OwnStep
  <2>4. CASE session' = m.of /\ Go("keyed") /\ ToServer(m.of, "key") /\ UNCHANGED status
    <3>1. app' \in Programs /\ app'.pc = "keyed"
      BY <2>4, AppTypes DEF Opening
    <3>2. session' \in Sessions
      BY <2>2, <2>4 DEF Replies
    <3>3. srv' \in [Sessions -> ServerSessions] /\ PcsKept /\ lost' \in BOOLEAN
      BY <2>2, <2>4, ToServerKeeps DEF Replies, ToSession
    <3>4. HTypes' /\ Starting'
      BY <2>1, <2>2, <2>4, <3>1, <3>2, <3>3 DEF HTypes, Starting, Opening
    <3> QED
      BY <2>1, <2>2, <3>3, <3>4, SrvSame DEF OwnStep
  <2> QED
    BY <1>2, <2>1, <2>3, <2>4 DEF FirstPhaseReturns, Results
<1> QED
  BY <1>1, <1>2

LEMMA LoginStep ==
  ASSUME HInv, KeysConfirmed \/ LoginFails \/ LoginReturns \/ StartHeartbeat
  PROVE  OwnStep /\ UNCHANGED hellos
<1> USE DEF HInv
<1>1. CASE KeysConfirmed
  <2>1. /\ app.pc = "keyed" /\ beat.pc = "new" /\ status # "connected" /\ session \in Sessions
        /\ inbox # <<>> /\ inbox' = Tail(inbox)
        /\ UNCHANGED <<session, beat, beatIn, probe, hellos>>
    BY <1>1 DEF KeysConfirmed, Starting, Opening
  <2>2. inbox' \in Seq(Replies) /\ InboxKept
    BY <2>1, InboxTaken
  <2>3. CASE Answers(Head(inbox), "confirmed")
    <3>1. PICK login \in {"login", "bad login"} : ToServer(session, login)
      BY <1>1, <2>3 DEF KeysConfirmed
    <3>2. Go("login") /\ UNCHANGED status
      BY <1>1, <2>3 DEF KeysConfirmed
    <3>3. srv' \in [Sessions -> ServerSessions] /\ PcsKept /\ lost' \in BOOLEAN
      BY <2>1, <3>1, ToServerKeeps DEF ToSession
    <3>4. app' \in Programs /\ app'.pc = "login"
      BY <3>2, AppTypes DEF Opening
    <3>5. HTypes' /\ Starting'
      BY <2>1, <2>2, <3>2, <3>3, <3>4 DEF HTypes, Starting, Opening
    <3> QED
      BY <2>1, <2>2, <3>3, <3>5, SrvSame DEF OwnStep
  <2>4. CASE ~Answers(Head(inbox), "confirmed")
    <3>1. status' = "disconnected" /\ Returns("internal error") /\ UNCHANGED <<srv, lost>>
      BY <1>1, <2>4 DEF KeysConfirmed
    <3>2. app' \in Programs /\ app'.pc = "idle"
      BY <3>1, AppTypes DEF Opening, Results
    <3>3. HTypes' /\ Starting'
      BY <2>1, <2>2, <3>1, <3>2 DEF HTypes, Starting, Opening
    <3> QED
      BY <2>1, <2>2, <3>1, <3>3, SrvSame DEF OwnStep
  <2> QED
    BY <2>3, <2>4
<1>2. CASE LoginFails
  <2>1. /\ app.pc = "login" /\ beat.pc = "new"
        /\ inbox' = inbox \/ (inbox # <<>> /\ inbox' = Tail(inbox))
        /\ status' = "disconnected" /\ Returns("incorrect credentials")
        /\ UNCHANGED <<session, beat, beatIn, probe, hellos, srv, lost>>
    <3>1. app.pc = "login" => beat.pc = "new"
      BY DEF Starting, Opening
    <3> QED
      BY <1>2, <3>1 DEF LoginFails
  <2>2. inbox' \in Seq(Replies) /\ InboxKept
    BY <2>1, InboxTaken DEF HTypes, InboxKept
  <2>3. app' \in Programs /\ app'.pc = "idle"
    BY <2>1, AppTypes DEF Opening, Results
  <2>4. HTypes' /\ Starting'
    BY <2>1, <2>2, <2>3 DEF HTypes, Starting, Opening
  <2> QED
    BY <2>1, <2>2, <2>4, SrvSame DEF OwnStep
<1>3. CASE LoginReturns
  <2>1. /\ app.pc = "login" /\ beat.pc = "new" /\ session \in Sessions
        /\ inbox # <<>> /\ inbox' = Tail(inbox)
        /\ status' = "connected" /\ Go("start beat")
        /\ UNCHANGED <<session, beat, beatIn, probe, hellos, srv, lost>>
    BY <1>3 DEF LoginReturns, Starting, Opening
  <2>2. inbox' \in Seq(Replies) /\ InboxKept
    BY <2>1, InboxTaken
  <2>3. app' \in Programs /\ app'.pc = "start beat"
    BY <2>1, AppTypes
  <2>4. HTypes' /\ Starting'
    BY <2>1, <2>2, <2>3 DEF HTypes, Starting, Opening
  <2> QED
    BY <2>1, <2>2, <2>4, SrvSame DEF OwnStep
<1>4. CASE StartHeartbeat
  <2>1. /\ app.pc = "start beat" /\ session \in Sessions
        /\ beat' = [beat EXCEPT !.pc = "check"] /\ Returns("ok")
        /\ UNCHANGED <<status, session, inbox, beatIn, probe, hellos, srv, lost>>
    BY <1>4 DEF StartHeartbeat, Starting
  <2>2. app' \in Programs /\ app'.pc = "idle"
    BY <2>1, AppTypes DEF Opening, Results
  <2>3. HTypes' /\ Starting'
    BY <2>1, <2>2 DEF HTypes, Starting, Opening, Beats
  <2> QED
    BY <2>1, <2>3, InboxSame, SrvSame DEF OwnStep
<1> QED
  BY <1>1, <1>2, <1>3, <1>4

(* The program in a session, and out of it.                                 *)
LEMMA IdleStep ==
  ASSUME HInv,
         \/ OpenAgain \/ ReceiveEIBNetwork \/ SendEIBNetwork \/ Close
         \/ CloseStopsBeat \/ CloseJoinsBeat
  PROVE  OwnStep /\ UNCHANGED hellos
<1> USE DEF HInv
<1>1. CASE OpenAgain
  <2>1. /\ app' \in Programs /\ app'.pc = "idle" /\ app.pc = "idle"
        /\ status' = status \/ status' = "connecting"
        /\ UNCHANGED <<session, beat, inbox, beatIn, probe, hellos, srv, lost>>
    <3>1. PICK n : n = app.reopens + 1 /\ n \in Nat
      <4>1. app.reopens + 1 \in Nat
        BY AppCounters
      <4> QED
        BY <4>1
    <3>2. PICK r \in {"already connected", "thrown"} :
            app' = [app EXCEPT !.result = r, !.reopens = n]
      BY <1>1, <3>1 DEF OpenAgain
    <3>3. app \in Programs /\ app' \in Programs /\ app'.pc = app.pc
      <4>1. r \in Results
        BY DEF Results
      <4>2. app \in Programs /\ app' \in Programs
        BY <3>1, <3>2, <4>1, AppCounts DEF HTypes
      <4> QED
        BY <3>2, <4>2 DEF Programs
    <3> QED
      BY <1>1, <3>3 DEF OpenAgain
  <2>2. HTypes' /\ Starting'
    BY <2>1 DEF HTypes, Starting, Opening
  <2> QED
    BY <2>1, <2>2, InboxSame, SrvSame DEF OwnStep
<1>2. CASE ReceiveEIBNetwork
  <2>1. /\ inbox # <<>> /\ inbox' = Tail(inbox)
        /\ UNCHANGED <<app, status, session, beat, beatIn, probe, hellos, srv, lost>>
    BY <1>2 DEF ReceiveEIBNetwork
  <2>2. inbox' \in Seq(Replies) /\ InboxKept
    BY <2>1, InboxTaken
  <2>3. HTypes' /\ Starting'
    BY <2>1, <2>2 DEF HTypes, Starting
  <2> QED
    BY <2>1, <2>2, <2>3, SrvSame DEF OwnStep
<1>3. CASE SendEIBNetwork
  <2>1. /\ app.pc = "idle" /\ session \in Sessions /\ app' = [app EXCEPT !.sends = @ + 1]
        /\ ToServer(session, "command")
        /\ UNCHANGED <<status, session, beat, inbox, beatIn, probe, hellos>>
    BY <1>3 DEF SendEIBNetwork, Starting
  <2>2. app' \in Programs /\ app'.pc = "idle"
    <3>1. PICK n : n = app.sends + 1 /\ n \in Nat
      <4>1. app.sends + 1 \in Nat
        BY AppCounters
      <4> QED
        BY <4>1
    <3>2. app' = [app EXCEPT !.sends = n]
      BY <2>1, <3>1
    <3>3. app \in Programs /\ app' \in Programs
      BY <3>1, <3>2, AppCounts DEF HTypes
    <3> QED
      BY <2>1, <3>2, <3>3 DEF Programs
  <2>3. srv' \in [Sessions -> ServerSessions] /\ PcsKept /\ lost' \in BOOLEAN
    BY <2>1, ToServerKeeps DEF ToSession
  <2>4. HTypes' /\ Starting'
    BY <2>1, <2>2, <2>3 DEF HTypes, Starting, Opening
  <2> QED
    BY <2>1, <2>3, <2>4, InboxSame DEF OwnStep
<1>4. CASE Close
  <2>1. /\ app.pc = "idle"
        /\ UNCHANGED <<status, session, beat, inbox, beatIn, probe, hellos>>
    BY <1>4 DEF Close
  <2>2. app' \in Programs /\ app'.pc \in {"stop beat", "closed"}
    BY <1>4, AppTypes DEF Close
  <2>3. srv' \in [Sessions -> ServerSessions] /\ PcsKept /\ lost' \in BOOLEAN
    <3>1. CASE status = "connected"
      <4>1. session \in Sessions /\ ToServer(session, "leave")
        BY <1>4, <3>1 DEF Close, Starting
      <4> QED
        BY <4>1, ToServerKeeps DEF ToSession
    <3>2. CASE status # "connected"
      <4>1. UNCHANGED <<srv, lost>>
        BY <1>4, <3>2 DEF Close
      <4> QED
        BY <4>1, SrvSame DEF HTypes
    <3> QED
      BY <3>1, <3>2
  <2>4. HTypes' /\ Starting'
    BY <2>1, <2>2, <2>3 DEF HTypes, Starting, Opening
  <2> QED
    BY <2>1, <2>3, <2>4, InboxSame DEF OwnStep
<1>5. CASE CloseStopsBeat
  <2>1. /\ app.pc = "stop beat" /\ Go("join beat") /\ beat.pc \in {"wait", "dead"}
        /\ beat' = [beat EXCEPT !.stop = TRUE, !.pc = IF @ = "wait" THEN "check" ELSE @]
        /\ UNCHANGED <<status, session, inbox, beatIn, probe, hellos, srv, lost>>
    BY <1>5 DEF CloseStopsBeat
  <2>2. app' \in Programs /\ app'.pc = "join beat"
    BY <2>1, AppTypes
  <2>3. beat' \in Beats
    BY <2>1 DEF HTypes, Beats
  <2>4. HTypes' /\ Starting'
    BY <2>1, <2>2, <2>3 DEF HTypes, Starting, Opening
  <2> QED
    BY <2>1, <2>4, InboxSame, SrvSame DEF OwnStep
<1>6. CASE CloseJoinsBeat
  <2>1. /\ app.pc = "join beat" /\ Go("closed")
        /\ UNCHANGED <<status, session, beat, inbox, beatIn, probe, hellos, srv, lost>>
    BY <1>6 DEF CloseJoinsBeat
  <2>2. app' \in Programs /\ app'.pc = "closed"
    BY <2>1, AppTypes
  <2>3. HTypes' /\ Starting'
    BY <2>1, <2>2 DEF HTypes, Starting, Opening
  <2> QED
    BY <2>1, <2>3, InboxSame, SrvSame DEF OwnStep
<1> QED
  BY <1>1, <1>2, <1>3, <1>4, <1>5, <1>6

LEMMA HeartbeatStep ==
  ASSUME HInv, Heartbeat
  PROVE  OwnStep /\ UNCHANGED hellos
<1> USE DEF HInv
<1>1. beat \in Beats /\ Interval \in Nat
  BY HandshakeAssumption DEF HTypes
<1>2. CASE BeatSends
  <2>1. /\ beat.pc = "check" /\ session \in Sessions /\ srv[session] \in ServerSessions
        /\ UNCHANGED <<app, status, session, inbox, beatIn, probe, hellos>>
    BY <1>2 DEF BeatSends, Starting, HTypes
  <2>2. beat' \in Beats /\ beat'.pc # "new"
    BY <1>1, <1>2 DEF BeatSends, Beats
  <2>3. srv' \in [Sessions -> ServerSessions] /\ PcsKept /\ lost' \in BOOLEAN
    <3>1. CASE UNCHANGED <<srv, lost>>
      BY <3>1, SrvSame DEF HTypes
    <3>2. CASE \E in \in Sent(srv[session].beats, "beat") :
                 /\ srv' = [srv EXCEPT ![session].beats = in]
                 /\ Loses(srv[session].beats, in)
      <4>1. PICK in \in Sent(srv[session].beats, "beat") :
              srv' = [srv EXCEPT ![session].beats = in] /\ Loses(srv[session].beats, in)
        BY <3>2
      <4>2. srv[session].beats \in Seq({"beat"})
        BY <2>1 DEF ServerSessions
      <4>3. in \in Seq({"beat"})
        BY <4>1, <4>2, SentQueue
      <4>4. lost' \in BOOLEAN
        BY <4>1, LosesType
      <4> QED
        BY <2>1, <4>1, <4>3, <4>4 DEF HTypes, ServerSessions, PcsKept
    <3> QED
      BY <1>2, <3>1, <3>2 DEF BeatSends
  <2>4. HTypes' /\ Starting'
    BY <2>1, <2>2, <2>3 DEF HTypes, Starting
  <2> QED
    BY <2>1, <2>3, <2>4, InboxSame DEF OwnStep
<1>3. CASE BeatReceives
  <2>1. /\ beat.pc = "ack" /\ beatIn # <<>> /\ beatIn' = Tail(beatIn)
        /\ UNCHANGED <<app, status, session, inbox, probe, hellos, srv, lost>>
    BY <1>3 DEF BeatReceives
  <2>2. beatIn' \in Seq({"ack", "bye"})
    BY <2>1, TakenQueue DEF HTypes
  <2>3. beat' \in Beats /\ beat'.pc # "new"
    BY <1>1, <1>3 DEF BeatReceives, Beats
  <2>4. HTypes' /\ Starting'
    BY <2>1, <2>2, <2>3 DEF HTypes, Starting
  <2> QED
    BY <2>1, <2>4, InboxSame, SrvSame DEF OwnStep
<1>4. CASE BeatUnanswered \/ BeatWaited \/ BeatEnds
  <2>1. /\ beat.pc \in {"ack", "wait", "end"}
        /\ \E pc \in {"end", "check", "dead"} : beat' = [beat EXCEPT !.pc = pc]
        /\ status' = status \/ status' = "disconnected"
        /\ UNCHANGED <<app, session, inbox, beatIn, probe, hellos, srv, lost>>
    BY <1>4 DEF BeatUnanswered, BeatWaited, BeatEnds
  <2>2. beat' \in Beats /\ beat'.pc # "new"
    BY <1>1, <2>1 DEF Beats
  <2>3. HTypes' /\ Starting'
    BY <2>1, <2>2 DEF HTypes, Starting
  <2> QED
    BY <2>1, <2>3, InboxSame, SrvSame DEF OwnStep
<1> QED
  BY <1>2, <1>3, <1>4 DEF Heartbeat

(* A hello with the number of the next session.                             *)
LEMMA HelloStep ==
  ASSUME HInv, FirstPhaseSends
  PROVE  OwnStep /\ Greeted'
<1> USE DEF HInv
<1> DEFINE n == hellos.sent + 1
<1>1. /\ app.pc = "hello" /\ Go("public") /\ hellos.sent < Cardinality(Sessions)
      /\ UNCHANGED <<status, session, beat, inbox, beatIn, probe, srv>>
  BY DEF FirstPhaseSends
<1>2. PICK in \in Sent(hellos.in, n) :
        hellos' = [sent |-> n, in |-> in] /\ Loses(hellos.in, in)
  BY DEF FirstPhaseSends
<1>3. hellos.sent \in 0 .. Cardinality(Sessions) /\ hellos.in \in Seq(Sessions)
  BY DEF HTypes
<1>4. n \in Sessions /\ n \in 0 .. Cardinality(Sessions) /\ srv[n].pc = "none"
  <2>1. n \in 1 .. Cardinality(Sessions) /\ n > hellos.sent
    BY <1>1, <1>3, SessionNumbers
  <2>2. n \in Sessions
    BY <2>1, SessionNumbers
  <2> QED
    BY <2>1, <2>2 DEF Greeted
<1> HIDE DEF n
<1>5. in \in Seq(Sessions)
  BY <1>2, <1>3, <1>4, SentQueue
<1>6. app' \in Programs /\ app'.pc = "public"
  BY <1>1, AppTypes DEF Opening
<1>7. lost' \in BOOLEAN
  BY <1>2, LosesType
<1>8. HTypes' /\ Starting'
  BY <1>1, <1>2, <1>4, <1>5, <1>6, <1>7 DEF HTypes, Starting, Opening
<1>9. Greeted'
  <2>1. hellos'.sent = n /\ hellos'.in = in /\ srv' = srv /\ n = hellos.sent + 1
    BY <1>1, <1>2 DEF n
  <2>2. \A s \in Sessions : s \in Int
    BY SessionNumbers
  <2>3. CASE in = hellos.in
    BY <1>3, <2>1, <2>2, <2>3 DEF Greeted
  <2>4. CASE in = Append(hellos.in, n)
    <3>1. /\ Len(in) = Len(hellos.in) + 1 /\ in[Len(hellos.in) + 1] = n
          /\ \A k \in 1 .. Len(hellos.in) : in[k] = hellos.in[k]
      BY <1>3, <1>4, <2>4
    <3>2. Len(hellos.in) \in Nat
      BY <1>3
    <3>3. /\ \A k \in 1 .. Len(hellos.in) :
               /\ hellos.in[k] \in Int /\ hellos.in[k] <= hellos.sent
               /\ srv[hellos.in[k]].pc = "none"
          /\ \A k, l \in 1 .. Len(hellos.in) : k < l => hellos.in[k] < hellos.in[l]
      BY <1>3, <2>2, ElementOfSeq DEF Greeted
    <3>4. \A s \in Sessions : s > n => srv[s].pc = "none"
      BY <1>3, <1>4, <2>1, <2>2 DEF Greeted
    <3>5. \A k \in 1 .. Len(in) : in[k] <= n /\ srv[in[k]].pc = "none"
      <4> SUFFICES ASSUME NEW k \in 1 .. Len(in) PROVE in[k] <= n /\ srv[in[k]].pc = "none"
        OBVIOUS
      <4>1. CASE k = Len(hellos.in) + 1
        BY <1>4, <3>1, <4>1
      <4>2. CASE k \in 1 .. Len(hellos.in)
        <5>1. in[k] = hellos.in[k]
          BY ONLY <3>1, <4>2, Zenon
        <5>2. /\ hellos.in[k] \in Int /\ hellos.in[k] <= hellos.sent
              /\ srv[hellos.in[k]].pc = "none"
          BY ONLY <3>3, <4>2, Zenon
        <5>3. hellos.sent \in Int /\ n = hellos.sent + 1
          BY <1>3, <2>1
        <5>4. in[k] <= n
          BY ONLY <5>1, <5>2, <5>3
        <5>5. QED BY ONLY <5>1, <5>2, <5>4, Zenon
      <4>3. k = Len(hellos.in) + 1 \/ k \in 1 .. Len(hellos.in)
        <5>1. Len(in) = Len(hellos.in) + 1
          BY <3>1
        <5>2. QED BY ONLY <3>2, <5>1, k \in 1 .. Len(in)
      <4> QED
        BY ONLY <4>1, <4>2, <4>3, Zenon
    <3>6. \A k, l \in 1 .. Len(in) : k < l => in[k] < in[l]
      <4> SUFFICES ASSUME NEW k \in 1 .. Len(in), NEW l \in 1 .. Len(in), k < l
                   PROVE  in[k] < in[l]
        OBVIOUS
      <4>1. k \in 1 .. Len(hellos.in)
        BY <3>1, <3>2
      <4>2. CASE l = Len(hellos.in) + 1
        BY <1>3, <1>4, <2>1, <3>1, <3>3, <4>1, <4>2
      <4>3. CASE l \in 1 .. Len(hellos.in)
        BY <3>1, <3>3, <4>1, <4>3
      <4> QED
        BY <3>1, <3>2, <4>2, <4>3
    <3> QED
      BY <2>1, <3>4, <3>5, <3>6 DEF Greeted
  <2> QED
    BY <1>2, <2>3, <2>4 DEF Sent
<1> QED
  BY <1>1, <1>8, <1>9, InboxSame, SrvSame DEF OwnStep

(***************************************************************************)
(* The steps of the server.                                                *)
(***************************************************************************)
Moves(p, q) ==
  \/ q = p
  \/ p = "none" /\ q = "keys"
  \/ p = "keys" /\ q \in {"auth", "refused"}
  \/ p = "auth" /\ q \in {"loop", "refused"}
  \/ p = "loop" /\ q \in {"left", "silent"}

(* A session is the only one that moves, and says welcome only when logged  *)
(* in.                                                                      *)
SessionMoves(s) ==
  /\ \A t \in Sessions : t # s => srv'[t].pc = srv[t].pc
  /\ Moves(srv[s].pc, srv'[s].pc)
Speaks(s) ==
  \/ inbox' = inbox
  \/ \E type \in Kinds :
       /\ inbox' \in Sent(inbox, Msg(type, s))
       /\ type = "welcome" => srv'[s].pc = "loop"

ServerStep(s) == HTypes' /\ SessionMoves(s) /\ Speaks(s)

LEMMA SessionChanges ==
  ASSUME HTypes, NEW s \in Sessions, NEW r \in ServerSessions, srv' = [srv EXCEPT ![s] = r],
         Moves(srv[s].pc, r.pc)
  PROVE  srv' \in [Sessions -> ServerSessions] /\ srv'[s].pc = r.pc /\ SessionMoves(s)
BY DEF HTypes, SessionMoves

LEMMA ToProgramType ==
  ASSUME HTypes, NEW s \in Sessions, NEW type \in Kinds, ToProgram(Msg(type, s))
  PROVE  inbox' \in Seq(Replies) /\ inbox' \in Sent(inbox, Msg(type, s)) /\ lost' \in BOOLEAN
<1>1. Msg(type, s) \in Replies
  BY DEF Msg, Replies
<1>2. inbox' \in Sent(inbox, Msg(type, s)) /\ Loses(inbox, inbox')
  BY DEF ToProgram
<1> QED
  BY <1>1, <1>2, SentQueue, LosesType DEF HTypes

LEMMA ToBeatType ==
  ASSUME HTypes, NEW m \in {"ack", "bye"}, ToBeat(m)
  PROVE  beatIn' \in Seq({"ack", "bye"}) /\ lost' \in BOOLEAN
BY SentQueue, LosesType DEF HTypes, ToBeat

LEMMA LoggingIn ==
  ASSUME HTypes, NEW s \in Sessions, ExchangeKeys(s) \/ KeysTimeOut(s) \/ Authenticate(s)
  PROVE  ServerStep(s)
<1>1. srv[s] \in ServerSessions /\ srv[s].in \in Seq(ToSession) /\ <<>> \in Seq(ToSession)
  BY EmptySeq DEF HTypes, ServerSessions
<1>2. CASE ExchangeKeys(s)
  <2>1. Tail(srv[s].in) \in Seq(ToSession)
    BY <1>1, <1>2, TakenQueue DEF ExchangeKeys
  <2> DEFINE r == [srv[s] EXCEPT !.pc = "auth", !.in = Tail(@)]
  <2>2. r \in ServerSessions /\ r.pc = "auth" /\ srv' = [srv EXCEPT ![s] = r]
    BY <1>1, <1>2, <2>1 DEF ExchangeKeys, ServerSessions, HTypes
  <2> HIDE DEF r
  <2>3. /\ srv[s].pc = "keys" /\ ToProgram(Msg("confirmed", s))
        /\ UNCHANGED <<app, status, session, beat, beatIn, probe, hellos>>
    BY <1>2 DEF ExchangeKeys
  <2>4. Moves(srv[s].pc, r.pc)
    BY <2>2, <2>3 DEF Moves
  <2>5. srv' \in [Sessions -> ServerSessions] /\ SessionMoves(s)
    BY <2>2, <2>4, SessionChanges
  <2>6. "confirmed" \in Kinds
    BY DEF Kinds
  <2>7. inbox' \in Seq(Replies) /\ inbox' \in Sent(inbox, Msg("confirmed", s)) /\ lost' \in BOOLEAN
    BY <2>3, <2>6, ToProgramType
  <2>8. HTypes'
    BY <2>3, <2>5, <2>7 DEF HTypes
  <2> QED
    BY <2>5, <2>6, <2>7, <2>8 DEF ServerStep, Speaks
<1>3. CASE KeysTimeOut(s)
  <2> DEFINE r == [srv[s] EXCEPT !.pc = "refused"]
  <2>1. r \in ServerSessions /\ r.pc = "refused" /\ srv' = [srv EXCEPT ![s] = r]
    BY <1>1, <1>3 DEF KeysTimeOut, ServerSessions, HTypes
  <2> HIDE DEF r
  <2>2. /\ srv[s].pc = "keys"
        /\ UNCHANGED <<app, status, session, beat, inbox, beatIn, probe, hellos, lost>>
    BY <1>3 DEF KeysTimeOut
  <2>3. Moves(srv[s].pc, r.pc)
    BY <2>1, <2>2 DEF Moves
  <2>4. srv' \in [Sessions -> ServerSessions] /\ SessionMoves(s)
    BY <2>1, <2>3, SessionChanges
  <2>5. HTypes'
    BY <2>2, <2>4 DEF HTypes
  <2> QED
    BY <2>2, <2>4, <2>5 DEF ServerStep, Speaks
<1>4. CASE Authenticate(s)
  <2>1. /\ srv[s].pc = "auth" /\ srv[s].in # <<>>
        /\ UNCHANGED <<app, status, session, beat, beatIn, probe, hellos>>
    BY <1>4 DEF Authenticate
  <2>2. CASE Head(srv[s].in) = "login"
    <3>1. Tail(srv[s].in) \in Seq(ToSession)
      BY <1>1, <2>1, TakenQueue
    <3> DEFINE r == [srv[s] EXCEPT !.pc = "loop", !.in = Tail(@)]
    <3>2. r \in ServerSessions /\ r.pc = "loop" /\ srv' = [srv EXCEPT ![s] = r]
      BY <1>1, <1>4, <2>2, <3>1 DEF Authenticate, ServerSessions, HTypes
    <3> HIDE DEF r
    <3>3. ToProgram(Msg("welcome", s))
      BY <1>4, <2>2 DEF Authenticate
    <3>4. Moves(srv[s].pc, r.pc)
      BY <2>1, <3>2 DEF Moves
    <3>5. srv' \in [Sessions -> ServerSessions] /\ SessionMoves(s) /\ srv'[s].pc = "loop"
      BY <3>2, <3>4, SessionChanges
    <3>6. "welcome" \in Kinds
      BY DEF Kinds
    <3>7. inbox' \in Seq(Replies) /\ inbox' \in Sent(inbox, Msg("welcome", s)) /\ lost' \in BOOLEAN
      BY <3>3, <3>6, ToProgramType
    <3>8. HTypes'
      BY <2>1, <3>5, <3>7 DEF HTypes
    <3> QED
      BY <3>5, <3>6, <3>7, <3>8 DEF ServerStep, Speaks
  <2>3. CASE Head(srv[s].in) # "login"
    <3>0. PICK none : none = <<>>
      OBVIOUS
    <3> DEFINE r == [srv[s] EXCEPT !.pc = "refused", !.in = none]
    <3>1. srv' = [srv EXCEPT ![s].pc = "refused", ![s].in = none] /\ UNCHANGED <<inbox, lost>>
      BY <1>4, <2>3, <3>0 DEF Authenticate
    <3>a. none \in Seq(ToSession)
      BY <1>1, <3>0, Zenon
    <3>2. r \in ServerSessions /\ r.pc = "refused" /\ srv' = [srv EXCEPT ![s] = r]
      BY <1>1, <3>1, <3>a DEF ServerSessions, HTypes
    <3> HIDE DEF r
    <3>3. Moves(srv[s].pc, r.pc)
      BY <2>1, <3>2 DEF Moves
    <3>4. srv' \in [Sessions -> ServerSessions] /\ SessionMoves(s)
      BY <3>2, <3>3, SessionChanges
    <3>5. HTypes'
      BY <2>1, <3>1, <3>4 DEF HTypes
    <3> QED
      BY <3>1, <3>4, <3>5 DEF ServerStep, Speaks
  <2> QED
    BY <2>2, <2>3
<1> QED
  BY <1>2, <1>3, <1>4

LEMMA InSessionStep ==
  ASSUME HTypes, NEW s \in Sessions,
         \/ Forward(s) \/ HandleCommand(s) \/ HandleDisconnect(s) \/ ListenerHears(s)
         \/ ListenerGivesUp(s) \/ ServerCloses(s)
  PROVE  ServerStep(s)
<1>1. srv[s] \in ServerSessions /\ srv[s].in \in Seq(ToSession) /\ srv[s].beats \in Seq({"beat"})
      /\ srv[s].frames \in Nat
  BY DEF HTypes, ServerSessions
<1>2. srv[s].pc = "loop"
  BY DEF InSession, Forward, HandleCommand, HandleDisconnect, ListenerHears, ListenerGivesUp,
         ServerCloses
<1>3. PICK none : none = <<>>
  OBVIOUS
<1>4. none \in Seq(ToSession)
  BY <1>3, EmptySeq, Zenon
<1>5. CASE Forward(s)
  <2>1. /\ srv' = [srv EXCEPT ![s].frames = @ + 1] /\ ToProgram(Msg("frame", s))
        /\ UNCHANGED <<app, status, session, beat, beatIn, probe, hellos>>
    BY <1>5 DEF Forward
  <2>2. PICK n : n = srv[s].frames + 1 /\ n \in Nat
    BY <1>1
  <2> DEFINE r == [srv[s] EXCEPT !.frames = n]
  <2>3. srv' = [srv EXCEPT ![s].frames = n]
    BY <2>1, <2>2 DEF HTypes
  <2>4. r \in ServerSessions /\ r.pc = "loop" /\ srv' = [srv EXCEPT ![s] = r]
    BY <1>1, <1>2, <2>2, <2>3 DEF ServerSessions, HTypes
  <2> HIDE DEF r
  <2>5. Moves(srv[s].pc, r.pc)
    BY <1>2, <2>4 DEF Moves
  <2>6. srv' \in [Sessions -> ServerSessions] /\ SessionMoves(s)
    BY <2>4, <2>5, SessionChanges
  <2>7. "frame" \in Kinds
    BY DEF Kinds
  <2>8. inbox' \in Seq(Replies) /\ inbox' \in Sent(inbox, Msg("frame", s)) /\ lost' \in BOOLEAN
    BY <2>1, <2>7, ToProgramType
  <2>9. HTypes'
    BY <2>1, <2>6, <2>8 DEF HTypes
  <2> QED
    BY <2>6, <2>7, <2>8, <2>9 DEF ServerStep, Speaks
<1>6. CASE HandleCommand(s)
  <2>1. /\ srv' = [srv EXCEPT ![s].in = Tail(@)] /\ srv[s].in # <<>>
        /\ UNCHANGED <<app, status, session, beat, inbox, beatIn, probe, hellos, lost>>
    BY <1>6 DEF HandleCommand
  <2>2. Tail(srv[s].in) \in Seq(ToSession)
    BY <1>1, <2>1, TakenQueue
  <2> DEFINE r == [srv[s] EXCEPT !.in = Tail(@)]
  <2>3. r \in ServerSessions /\ r.pc = "loop" /\ srv' = [srv EXCEPT ![s] = r]
    BY <1>1, <1>2, <2>1, <2>2 DEF ServerSessions, HTypes
  <2> HIDE DEF r
  <2>4. Moves(srv[s].pc, r.pc)
    BY <1>2, <2>3 DEF Moves
  <2>5. srv' \in [Sessions -> ServerSessions] /\ SessionMoves(s)
    BY <2>3, <2>4, SessionChanges
  <2>6. HTypes'
    BY <2>1, <2>5 DEF HTypes
  <2> QED
    BY <2>1, <2>5, <2>6 DEF ServerStep, Speaks
<1>7. CASE HandleDisconnect(s) \/ ServerCloses(s)
  <2>1. /\ srv' = [srv EXCEPT ![s].pc = "left", ![s].in = none] /\ ToBeat("bye")
        /\ UNCHANGED <<app, status, session, beat, inbox, probe, hellos>>
    BY <1>3, <1>7 DEF HandleDisconnect, ServerCloses
  <2> DEFINE r == [srv[s] EXCEPT !.pc = "left", !.in = none]
  <2>2. r \in ServerSessions /\ r.pc = "left" /\ srv' = [srv EXCEPT ![s] = r]
    BY <1>1, <1>4, <2>1 DEF ServerSessions, HTypes
  <2> HIDE DEF r
  <2>3. Moves(srv[s].pc, r.pc)
    BY <1>2, <2>2 DEF Moves
  <2>4. srv' \in [Sessions -> ServerSessions] /\ SessionMoves(s)
    BY <2>2, <2>3, SessionChanges
  <2>5. beatIn' \in Seq({"ack", "bye"}) /\ lost' \in BOOLEAN
    BY <2>1, ToBeatType
  <2>6. HTypes'
    BY <2>1, <2>4, <2>5 DEF HTypes
  <2> QED
    BY <2>1, <2>4, <2>6 DEF ServerStep, Speaks
<1>8. CASE ListenerHears(s)
  <2>1. /\ srv' = [srv EXCEPT ![s].silence = 0, ![s].beats = Tail(@)] /\ srv[s].beats # <<>>
        /\ ToBeat("ack")
        /\ UNCHANGED <<app, status, session, beat, inbox, probe, hellos>>
    BY <1>8 DEF ListenerHears
  <2>2. Tail(srv[s].beats) \in Seq({"beat"})
    BY <1>1, <2>1, TakenQueue
  <2> DEFINE r == [srv[s] EXCEPT !.silence = 0, !.beats = Tail(@)]
  <2>3. r \in ServerSessions /\ r.pc = "loop" /\ srv' = [srv EXCEPT ![s] = r]
    BY <1>1, <1>2, <2>1, <2>2 DEF ServerSessions, HTypes
  <2> HIDE DEF r
  <2>4. Moves(srv[s].pc, r.pc)
    BY <1>2, <2>3 DEF Moves
  <2>5. srv' \in [Sessions -> ServerSessions] /\ SessionMoves(s)
    BY <2>3, <2>4, SessionChanges
  <2>6. beatIn' \in Seq({"ack", "bye"}) /\ lost' \in BOOLEAN
    BY <2>1, ToBeatType
  <2>7. HTypes'
    BY <2>1, <2>5, <2>6 DEF HTypes
  <2> QED
    BY <2>1, <2>5, <2>7 DEF ServerStep, Speaks
<1>9. CASE ListenerGivesUp(s)
  <2>1. /\ srv' = [srv EXCEPT ![s].pc = "silent", ![s].in = none]
        /\ UNCHANGED <<app, status, session, beat, inbox, beatIn, probe, hellos, lost>>
    BY <1>3, <1>9 DEF ListenerGivesUp
  <2> DEFINE r == [srv[s] EXCEPT !.pc = "silent", !.in = none]
  <2>2. r \in ServerSessions /\ r.pc = "silent" /\ srv' = [srv EXCEPT ![s] = r]
    BY <1>1, <1>4, <2>1 DEF ServerSessions, HTypes
  <2> HIDE DEF r
  <2>3. Moves(srv[s].pc, r.pc)
    BY <1>2, <2>2 DEF Moves
  <2>4. srv' \in [Sessions -> ServerSessions] /\ SessionMoves(s)
    BY <2>2, <2>3, SessionChanges
  <2>5. HTypes'
    BY <2>1, <2>4 DEF HTypes
  <2> QED
    BY <2>1, <2>4, <2>5 DEF ServerStep, Speaks
<1> QED
  BY <1>5, <1>6, <1>7, <1>8, <1>9

(* A hello becomes a session that has not been one.                         *)
LEMMA AcceptStep ==
  ASSUME HInv, AcceptHello
  PROVE  /\ Greeted' /\ UNCHANGED <<app, status, session, beat>>
         /\ \/ HTypes' /\ PcsKept /\ inbox' = inbox
            \/ \E s \in Sessions : srv[s].pc = "none" /\ srv'[s].pc = "keys" /\ ServerStep(s)
<1> USE DEF HInv
<1>1. /\ hellos.in # <<>> /\ hellos' = [hellos EXCEPT !.in = Tail(@)]
      /\ UNCHANGED <<app, status, session, beat, beatIn, probe>>
  BY DEF AcceptHello
<1>2. hellos.in \in Seq(Sessions) /\ hellos.sent \in 0 .. Cardinality(Sessions)
      /\ hellos'.in = Tail(hellos.in) /\ hellos'.sent = hellos.sent
  BY <1>1 DEF HTypes
<1> DEFINE s == Head(hellos.in)
<1>3. /\ s \in Sessions /\ s = hellos.in[1] /\ 1 \in 1 .. Len(hellos.in)
      /\ Tail(hellos.in) \in Seq(Sessions)
      /\ Len(Tail(hellos.in)) = Len(hellos.in) - 1
      /\ \A k \in 1 .. Len(Tail(hellos.in)) :
           k + 1 \in 1 .. Len(hellos.in) /\ Tail(hellos.in)[k] = hellos.in[k + 1]
  BY <1>1, <1>2, TakenQueue
<1>4. s <= hellos.sent /\ srv[s].pc = "none"
  BY <1>3 DEF Greeted
<1>5. \A k \in 1 .. Len(Tail(hellos.in)) : s < Tail(hellos.in)[k]
  BY <1>3 DEF Greeted
<1>6. hellos' \in [sent : 0 .. Cardinality(Sessions), in : Seq(Sessions)]
  BY <1>1, <1>2, <1>3 DEF HTypes
<1>7. \A t \in Sessions : t \in Int
  BY SessionNumbers
<1>8. \A k, l \in 1 .. Len(Tail(hellos.in)) : k < l => Tail(hellos.in)[k] < Tail(hellos.in)[l]
  <2> SUFFICES ASSUME NEW k \in 1 .. Len(Tail(hellos.in)),
                      NEW l \in 1 .. Len(Tail(hellos.in)), k < l
               PROVE  Tail(hellos.in)[k] < Tail(hellos.in)[l]
    OBVIOUS
  <2>1. k + 1 \in 1 .. Len(hellos.in) /\ l + 1 \in 1 .. Len(hellos.in) /\ k + 1 < l + 1
    BY <1>3
  <2> QED
    BY <1>3, <2>1 DEF Greeted
<1> HIDE DEF s
<1>9. ASSUME \A t \in Sessions : t # s => srv'[t].pc = srv[t].pc
      PROVE  Greeted'
  <2>1. \A t \in Sessions : t > hellos'.sent => srv'[t].pc = "none"
    BY <1>2, <1>3, <1>4, <1>7, <1>9 DEF Greeted
  <2>2. \A k \in 1 .. Len(hellos'.in) :
          hellos'.in[k] <= hellos'.sent /\ srv'[hellos'.in[k]].pc = "none"
    <3> SUFFICES ASSUME NEW k \in 1 .. Len(Tail(hellos.in))
                 PROVE  /\ Tail(hellos.in)[k] <= hellos.sent
                        /\ srv'[Tail(hellos.in)[k]].pc = "none"
      BY <1>2
    <3>1. Tail(hellos.in)[k] \in Sessions /\ s < Tail(hellos.in)[k]
      BY <1>3, <1>5, ElementOfSeq DEF s
    <3>2. Tail(hellos.in)[k] <= hellos.sent /\ srv[Tail(hellos.in)[k]].pc = "none"
      BY <1>3 DEF Greeted
    <3> QED
      BY <1>3, <1>7, <1>9, <3>1, <3>2
  <2> QED
    BY <1>2, <1>8, <2>1, <2>2 DEF Greeted
<1>10. CASE UNCHANGED <<srv, inbox, lost>>
  <2>1. HTypes'
    BY <1>1, <1>6, <1>10 DEF HTypes
  <2>2. Greeted'
    BY <1>9, <1>10
  <2> QED
    BY <1>1, <1>10, <2>1, <2>2, SrvSame
<1>11. CASE srv' = [srv EXCEPT ![s].pc = "keys"] /\ ToProgram(Msg("public", s))
  <2>1. srv[s] \in ServerSessions
    BY <1>3 DEF HTypes
  <2> DEFINE r == [srv[s] EXCEPT !.pc = "keys"]
  <2>2. r \in ServerSessions /\ r.pc = "keys" /\ srv' = [srv EXCEPT ![s] = r]
    BY <1>3, <1>11, <2>1 DEF ServerSessions, HTypes
  <2> HIDE DEF r
  <2>3. Moves(srv[s].pc, r.pc)
    BY <1>4, <2>2 DEF Moves
  <2>4. srv' \in [Sessions -> ServerSessions] /\ SessionMoves(s) /\ srv'[s].pc = "keys"
    BY <1>3, <2>2, <2>3, SessionChanges
  <2>5. "public" \in Kinds
    BY DEF Kinds
  <2>6. inbox' \in Seq(Replies) /\ inbox' \in Sent(inbox, Msg("public", s)) /\ lost' \in BOOLEAN
    BY <1>3, <1>11, <2>5, ToProgramType
  <2>7. HTypes'
    BY <1>1, <1>6, <2>4, <2>6 DEF HTypes
  <2>8. Greeted'
    BY <1>9, <2>4 DEF SessionMoves
  <2>9. ServerStep(s)
    BY <2>4, <2>5, <2>6, <2>7 DEF ServerStep, Speaks
  <2> QED
    BY <1>1, <1>3, <1>4, <2>4, <2>8, <2>9
<1> QED
  BY <1>10, <1>11 DEF AcceptHello, s

(* Half an interval passes.                                                 *)
LEMMA TickStep ==
  ASSUME HInv, Tick
  PROVE  OwnStep /\ UNCHANGED <<app, status, session, inbox, hellos>> /\ beat'.pc = beat.pc
<1> USE DEF HInv
<1>1. /\ beat' = [beat EXCEPT !.timer = Down(@)]
      /\ srv' = [s \in Sessions |->
                   IF InSession(s) THEN [srv[s] EXCEPT !.silence = Up(@)] ELSE srv[s]]
      /\ UNCHANGED <<app, status, session, inbox, beatIn, probe, hellos, lost>>
  BY DEF Tick
<1>2. beat' \in Beats /\ beat'.pc = beat.pc
  <2>1. beat \in Beats /\ beat.timer \in Nat
    BY DEF HTypes, Beats
  <2>2. Down(beat.timer) \in Nat
    BY <2>1 DEF Down
  <2>3. beat' = [beat EXCEPT !.timer = Down(beat.timer)]
    BY <1>1
  <2> QED
    BY <2>1, <2>2, <2>3 DEF Beats
<1>3. ASSUME NEW s \in Sessions PROVE srv'[s] \in ServerSessions /\ srv'[s].pc = srv[s].pc
  <2>1. srv[s] \in ServerSessions /\ srv[s].silence \in Nat
    BY <1>3 DEF HTypes, ServerSessions
  <2>2. Up(srv[s].silence) \in Nat
    BY <2>1 DEF Up
  <2>3. CASE InSession(s)
    <3>1. srv'[s] = [srv[s] EXCEPT !.silence = Up(srv[s].silence)]
      BY <1>1, <1>3, <2>3
    <3> QED
      BY <2>1, <2>2, <3>1 DEF ServerSessions
  <2>4. CASE ~InSession(s)
    BY <1>1, <1>3, <2>1, <2>4
  <2> QED
    BY <2>3, <2>4
<1>4. srv' \in [Sessions -> ServerSessions] /\ PcsKept
  BY <1>1, <1>3 DEF PcsKept
<1>5. HTypes' /\ Starting'
  BY <1>1, <1>2, <1>4 DEF HTypes, Starting
<1> QED
  BY <1>1, <1>2, <1>4, <1>5, InboxSame DEF OwnStep

(***************************************************************************)
(* Every step keeps the invariant.                                         *)
(***************************************************************************)
LEMMA RepliesName ==
  ASSUME HTypes, NEW k \in 1 .. Len(inbox)
  PROVE  inbox[k].of \in Sessions
<1>1. inbox \in Seq(Replies)
  BY DEF HTypes
<1>2. inbox[k] \in Replies
  BY <1>1, ElementOfSeq
<1> QED
  BY <1>2 DEF Replies

LEMMA OwnKeeps ==
  ASSUME HInv, OwnStep, Greeted' \/ UNCHANGED hellos
  PROVE  HInv'
<1> USE DEF HInv, OwnStep
<1>1. Greeted'
  <2>1. CASE UNCHANGED hellos
    <3>1. \A k \in 1 .. Len(hellos.in) : hellos.in[k] \in Sessions
      BY ElementOfSeq DEF HTypes
    <3> QED
      BY <2>1, <3>1 DEF Greeted, PcsKept
  <2> QED
    BY <2>1
<1>2. Welcomed'
  <2>1. ASSUME NEW k \in 1 .. Len(inbox) PROVE inbox[k].of \in Sessions
    BY <2>1, RepliesName
  <2>2. CASE inbox' = inbox
    BY <2>1, <2>2 DEF Welcomed, PcsKept
  <2>3. CASE inbox # <<>> /\ inbox' = Tail(inbox)
    <3> SUFFICES ASSUME NEW k \in 1 .. Len(inbox'), inbox'[k].type = "welcome"
                 PROVE  srv'[inbox'[k].of].pc \in {"loop", "left", "silent"}
      BY DEF Welcomed
    <3>1. k + 1 \in 1 .. Len(inbox) /\ inbox'[k] = inbox[k + 1]
      BY <2>3, TakenQueue DEF HTypes
    <3> QED
      BY <2>1, <3>1 DEF Welcomed, PcsKept
  <2> QED
    BY <2>2, <2>3 DEF InboxKept
<1> QED
  BY <1>1, <1>2

LEMMA ServerKeeps ==
  ASSUME HInv, NEW s \in Sessions, ServerStep(s), UNCHANGED <<app, status, session, beat>>,
         Greeted' \/ (UNCHANGED hellos /\ srv[s].pc # "none")
  PROVE  HInv'
<1> USE DEF HInv, ServerStep
<1>1. Starting'
  BY DEF Starting
<1>2. Greeted'
  <2>1. CASE UNCHANGED hellos /\ srv[s].pc # "none"
    <3>1. \A k \in 1 .. Len(hellos.in) : hellos.in[k] \in Sessions
      BY ElementOfSeq DEF HTypes
    <3> QED
      BY <2>1, <3>1 DEF Greeted, SessionMoves
  <2> QED
    BY <2>1
<1>3. Welcomed'
  <2>1. ASSUME NEW t \in Sessions, srv[t].pc \in {"loop", "left", "silent"}
        PROVE  srv'[t].pc \in {"loop", "left", "silent"}
    BY <2>1 DEF SessionMoves, Moves
  <2>2. ASSUME NEW k \in 1 .. Len(inbox), inbox[k].type = "welcome"
        PROVE  srv'[inbox[k].of].pc \in {"loop", "left", "silent"}
    <3>1. inbox[k].of \in Sessions
      BY <2>2, RepliesName
    <3> QED
      BY <2>1, <2>2, <3>1 DEF Welcomed
  <2>3. CASE inbox' = inbox
    BY <2>2, <2>3 DEF Welcomed
  <2>4. ASSUME NEW type \in Kinds, inbox' \in Sent(inbox, Msg(type, s)),
               type = "welcome" => srv'[s].pc = "loop"
        PROVE  Welcomed'
    <3> SUFFICES ASSUME NEW k \in 1 .. Len(inbox'), inbox'[k].type = "welcome"
                 PROVE  srv'[inbox'[k].of].pc \in {"loop", "left", "silent"}
      BY DEF Welcomed
    <3>1. Msg(type, s) \in Replies /\ Msg(type, s).type = type /\ Msg(type, s).of = s
      BY DEF Msg, Replies
    <3>2. (k \in 1 .. Len(inbox) /\ inbox'[k] = inbox[k]) \/ inbox'[k] = Msg(type, s)
      BY <2>4, <3>1, SentQueue DEF HTypes
    <3> QED
      BY <2>2, <2>4, <3>1, <3>2
  <2> QED
    BY <2>3, <2>4 DEF Speaks
<1> QED
  BY <1>1, <1>2, <1>3

LEMMA ServesBegun ==
  ASSUME NEW s \in Sessions, Serves(s) \/ Forward(s) \/ ServerCloses(s)
  PROVE  srv[s].pc # "none" /\ UNCHANGED <<app, status, session, beat, hellos>>
BY DEF Serves, ExchangeKeys, KeysTimeOut, Authenticate, HandleCommand, HandleDisconnect,
       ListenerHears, ListenerGivesUp, Forward, ServerCloses, InSession

LEMMA ProbeStep ==
  ASSUME HInv, HandleServiceDiscovery
  PROVE  OwnStep /\ UNCHANGED <<app, status, session, beat, inbox, hellos, srv>>
<1> USE DEF HInv
<1>1. probe' \in {"none", "answered"} /\ lost' \in BOOLEAN
      /\ UNCHANGED <<app, status, session, beat, inbox, beatIn, hellos, srv>>
  BY DEF HandleServiceDiscovery, HTypes
<1>2. HTypes' /\ Starting'
  BY <1>1 DEF HTypes, Starting
<1> QED
  BY <1>1, <1>2, InboxSame, SrvSame DEF OwnStep

LEMMA HandshakeStep == HInv /\ [Next]_vars => HInv'
<1> SUFFICES ASSUME HInv, [Next]_vars PROVE HInv'
  OBVIOUS
<1>1. CASE Program \/ OpenAgain \/ SendEIBNetwork \/ Close \/ Heartbeat
  <2>1. OwnStep /\ (Greeted' \/ UNCHANGED hellos)
    BY <1>1, DiscoveryStep, HelloStep, FirstPhaseStep, LoginStep, IdleStep, HeartbeatStep
       DEF Program
  <2> QED
    BY <2>1, OwnKeeps
<1>2. CASE HandleServiceDiscovery
  BY <1>2, ProbeStep, OwnKeeps
<1>3. CASE AcceptHello
  <2>1. CASE HTypes' /\ PcsKept /\ inbox' = inbox
    <3>1. Greeted' /\ UNCHANGED <<app, status, session, beat>>
      BY <1>3, AcceptStep
    <3>2. Starting'
      BY <3>1 DEF HInv, Starting
    <3>3. OwnStep
      BY <2>1, <3>2, InboxSame DEF OwnStep
    <3> QED
      BY <3>1, <3>3, OwnKeeps
  <2> QED
    BY <1>3, <2>1, AcceptStep, ServerKeeps
<1>4. ASSUME NEW s \in Sessions, Serves(s) \/ Forward(s) \/ ServerCloses(s) PROVE HInv'
  <2>1. ServerStep(s)
    BY <1>4, LoggingIn, InSessionStep DEF Serves, HInv
  <2> QED
    BY <1>4, <2>1, ServesBegun, ServerKeeps
<1>5. CASE Tick
  BY <1>5, TickStep, OwnKeeps
<1>6. CASE UNCHANGED vars
  <2>1. HTypes' /\ Starting' /\ UNCHANGED <<inbox, srv, hellos>>
    BY <1>6 DEF vars, HInv, HTypes, Starting
  <2> QED
    BY <2>1, InboxSame, SrvSame, OwnKeeps DEF OwnStep
<1> QED
  BY <1>1, <1>2, <1>3, <1>4, <1>5, <1>6 DEF Next

LEMMA HandshakeAlwaysInv == Spec => []HInv
BY HandshakeInit, HandshakeStep, PTL DEF Spec

(***************************************************************************)
(* The refinement.                                                         *)
(***************************************************************************)
LEMMA HeldKept == PcsKept => Held' = Held
BY DEF PcsKept, Held

LEMMA HeldAtPlaces ==
  /\ \A pc \in {"none", "keys", "auth"} : HeldAt(pc) = "before"
  /\ HeldAt("loop") = "in" /\ HeldAt("refused") = "refused"
  /\ \A pc \in {"left", "silent"} : HeldAt(pc) = "out"
<1>1. HeldAt("none") = "before" /\ HeldAt("keys") = "before" /\ HeldAt("auth") = "before"
  BY DEF HeldAt
<1>2. HeldAt("loop") = "in" /\ HeldAt("refused") = "refused"
  BY DEF HeldAt
<1>3. HeldAt("left") = "out" /\ HeldAt("silent") = "out"
  BY DEF HeldAt
<1> QED
  BY <1>1, <1>2, <1>3

(* The program joins nothing and leaves nothing.                            *)
Unmoved == UNCHANGED <<Held, Joined, HasJoined>>

LEMMA OpeningUnmoved ==
  ASSUME HInv, PcsKept, app.pc \in Opening, app'.pc # "start beat", beat' = beat,
         status' # "connected"
  PROVE  Unmoved
<1>1. beat.pc = "new" /\ beat'.pc = "new" /\ status # "connected" /\ app.pc # "start beat"
  BY DEF HInv, Starting, Opening
<1> QED
  BY <1>1, HeldKept DEF Unmoved, Joined, HasJoined

LEMMA LaterUnmoved ==
  ASSUME PcsKept, session' = session,
         status' = status \/ {status, status'} \subseteq {"disconnected", "connecting"},
         \/ app'.pc = app.pc /\ (beat.pc = "new" <=> beat'.pc = "new")
         \/ /\ app.pc = "start beat" \/ beat.pc # "new"
            /\ app'.pc = "start beat" \/ beat'.pc # "new"
         \/ /\ app.pc # "start beat" /\ app'.pc # "start beat"
            /\ beat.pc = "new" <=> beat'.pc = "new"
  PROVE  Unmoved
<1>1. Joined' = Joined
  BY DEF Joined
<1>2. HasJoined' = HasJoined
  BY DEF HasJoined
<1> QED
  BY <1>1, <1>2, HeldKept DEF Unmoved

LEMMA OpeningAgrees ==
  ASSUME HInv,
         \/ DiscoverEIBServer \/ DiscoverReturns \/ OpenConnection \/ FirstPhaseSends
         \/ FirstPhaseTimesOut \/ FirstPhaseReturns \/ KeysConfirmed \/ LoginFails
  PROVE  PcsKept => Unmoved
<1>1. app.pc \in Opening /\ beat' = beat
  BY DEF DiscoverEIBServer, DiscoverReturns, OpenConnection, FirstPhaseSends, FirstPhaseTimesOut,
         FirstPhaseReturns, KeysConfirmed, LoginFails, Opening
<1>2. status # "connected"
  BY <1>1 DEF HInv, Starting
<1>3. status' # "connected"
  BY <1>2 DEF DiscoverEIBServer, DiscoverReturns, OpenConnection, FirstPhaseSends,
              FirstPhaseTimesOut, FirstPhaseReturns, KeysConfirmed, LoginFails
<1>4. \/ \E pc \in {"discover", "open", "hello", "public", "keyed", "login"} : Go(pc)
      \/ \E r : Returns(r)
      \/ app' = [app EXCEPT !.pc = "hello", !.tries = @ - 1]
  BY DEF DiscoverEIBServer, DiscoverReturns, OpenConnection, FirstPhaseSends, FirstPhaseTimesOut,
         FirstPhaseReturns, KeysConfirmed, LoginFails
<1>5. app \in Programs
  BY DEF HInv, HTypes
<1>6. app'.pc # "start beat"
  BY <1>4, <1>5 DEF Programs, Go, Returns
<1> QED
  BY <1>1, <1>3, <1>6, OpeningUnmoved

LEMMA InSessionAgrees ==
  ASSUME HInv,
         \/ StartHeartbeat \/ OpenAgain \/ ReceiveEIBNetwork \/ SendEIBNetwork \/ Close
         \/ CloseStopsBeat \/ CloseJoinsBeat
         \/ BeatSends \/ BeatReceives \/ BeatUnanswered \/ BeatWaited
  PROVE  PcsKept => Unmoved
<1>1. app \in Programs /\ beat \in Beats /\ status \in {"disconnected", "connecting", "connected"}
  BY DEF HInv, HTypes
<1>2. session' = session
  BY DEF StartHeartbeat, OpenAgain, ReceiveEIBNetwork, SendEIBNetwork, Close, CloseStopsBeat,
         CloseJoinsBeat, BeatSends, BeatReceives, BeatUnanswered, BeatWaited
<1>3. status' = status \/ {status, status'} \subseteq {"disconnected", "connecting"}
  BY <1>1 DEF StartHeartbeat, OpenAgain, ReceiveEIBNetwork, SendEIBNetwork, Close, CloseStopsBeat,
              CloseJoinsBeat, BeatSends, BeatReceives, BeatUnanswered, BeatWaited
<1>4. CASE StartHeartbeat
  <2>1. app.pc = "start beat" /\ beat'.pc = "check"
    BY <1>1, <1>4 DEF StartHeartbeat, Beats
  <2> QED
    BY <1>2, <1>3, <2>1, LaterUnmoved
<1>5. CASE OpenAgain \/ SendEIBNetwork \/ Close \/ CloseStopsBeat \/ CloseJoinsBeat
  <2>1. app.pc # "start beat" /\ app'.pc # "start beat"
    BY <1>1, <1>5 DEF OpenAgain, SendEIBNetwork, Close, CloseStopsBeat, CloseJoinsBeat, Programs, Go
  <2>2. beat.pc = "new" <=> beat'.pc = "new"
    BY <1>1, <1>5 DEF OpenAgain, SendEIBNetwork, Close, CloseStopsBeat, CloseJoinsBeat, Beats
  <2> QED
    BY <1>2, <1>3, <2>1, <2>2, LaterUnmoved
<1>6. CASE ReceiveEIBNetwork \/ BeatSends \/ BeatReceives \/ BeatUnanswered \/ BeatWaited
  <2>1. app' = app /\ (beat' = beat \/ (beat.pc # "new" /\ beat'.pc # "new"))
    BY <1>1, <1>6 DEF ReceiveEIBNetwork, BeatSends, BeatReceives, BeatUnanswered, BeatWaited, Beats
  <2> QED
    BY <1>2, <1>3, <2>1, LaterUnmoved
<1> QED
  BY <1>4, <1>5, <1>6

(* The reply to the login.                                                  *)
LEMMA LoginJoins ==
  ASSUME HInv, LoginReturns, PcsKept
  PROVE  session \in Sessions /\ Agreement!Join(session)
<1>1. /\ app.pc = "login" /\ inbox # <<>> /\ Head(inbox) = Msg("welcome", session)
      /\ status' = "connected" /\ Go("start beat") /\ UNCHANGED <<session, beat>>
  BY DEF LoginReturns, Answers
<1>2. session \in Sessions /\ status # "connected" /\ beat.pc = "new"
  BY <1>1 DEF HInv, Starting, Opening
<1>3. app'.pc = "start beat"
  BY <1>1, AppTypes DEF HInv
<1>4. inbox[1].type = "welcome" /\ inbox[1].of = session /\ 1 \in 1 .. Len(inbox)
  <2>1. inbox[1] = Msg("welcome", session) /\ 1 \in 1 .. Len(inbox)
    BY <1>1, TakenQueue DEF HInv, HTypes
  <2> QED
    BY <2>1 DEF Msg
<1>5. srv[session].pc \in {"loop", "left", "silent"}
  BY <1>4 DEF HInv, Welcomed
<1>6. Held[session] \in {"in", "out"}
  BY <1>2, <1>5, HeldAtPlaces DEF Held
<1>7. Joined = None /\ Joined' = session
  BY <1>1, <1>2 DEF Joined
<1>8. HasJoined = {} /\ HasJoined' = {session}
  BY <1>1, <1>2, <1>3 DEF HasJoined
<1> QED
  BY <1>2, <1>6, <1>7, <1>8, HeldKept DEF Agreement!Join

LEMMA EndLeaves ==
  ASSUME HInv, BeatEnds, PcsKept
  PROVE  Agreement!Leave
<1>1. /\ beat.pc # "new" /\ beat'.pc # "new" /\ status' = "disconnected"
      /\ UNCHANGED <<app, session>>
  BY DEF BeatEnds, HInv, HTypes, Beats
<1>2. Joined' = None
  BY <1>1 DEF Joined
<1>3. HasJoined' = HasJoined
  BY <1>1 DEF HasJoined
<1> QED
  BY <1>2, <1>3, HeldKept DEF Agreement!Leave

(* A session of the server moves.                                           *)
LEMMA SessionAgrees ==
  ASSUME HInv, NEW s \in Sessions, ServerStep(s), UNCHANGED <<app, status, session, beat>>
  PROVE  Agreement!LogIn(s) \/ Agreement!Refuse(s) \/ Agreement!LogOut(s) \/ Unmoved
<1>1. Joined' = Joined /\ HasJoined' = HasJoined
  BY DEF Joined, HasJoined
<1>2. \A t \in Sessions : t # s => srv'[t].pc = srv[t].pc
  BY DEF ServerStep, SessionMoves
<1>3. Held' = [Held EXCEPT ![s] = Held'[s]]
  BY <1>2 DEF Held
<1>4. CASE srv[s].pc \in {"keys", "auth"} /\ srv'[s].pc = "refused"
  <2>1. Held[s] = "before" /\ Held'[s] = "refused"
    BY <1>4, HeldAtPlaces DEF Held
  <2> QED
    BY <1>1, <1>3, <2>1 DEF Agreement!Refuse
<1>5. CASE srv[s].pc = "auth" /\ srv'[s].pc = "loop"
  <2>1. Held[s] = "before" /\ Held'[s] = "in"
    BY <1>5, HeldAtPlaces DEF Held
  <2> QED
    BY <1>1, <1>3, <2>1 DEF Agreement!LogIn
<1>6. CASE srv[s].pc = "loop" /\ srv'[s].pc \in {"left", "silent"}
  <2>1. Held[s] = "in" /\ Held'[s] = "out"
    BY <1>6, HeldAtPlaces DEF Held
  <2> QED
    BY <1>1, <1>3, <2>1 DEF Agreement!LogOut
<1>7. CASE srv[s].pc \in {"none", "keys"} /\ srv'[s].pc \in {"keys", "auth"}
  <2>1. Held[s] = "before" /\ Held'[s] = "before"
    BY <1>7, HeldAtPlaces DEF Held
  <2>2. Held' = Held
    BY <1>2, <2>1 DEF Held
  <2> QED
    BY <1>1, <2>2 DEF Unmoved
<1>8. CASE srv'[s].pc = srv[s].pc
  <2>1. PcsKept
    BY <1>2, <1>8 DEF PcsKept
  <2> QED
    BY <1>1, <2>1, HeldKept DEF Unmoved
<1> QED
  BY <1>4, <1>5, <1>6, <1>7, <1>8 DEF ServerStep, SessionMoves, Moves

LEMMA StillUnmoved ==
  ASSUME PcsKept, UNCHANGED <<app, status, session>>, beat'.pc = beat.pc
  PROVE  Unmoved
BY LaterUnmoved

LEMMA StepAgrees ==
  HInv /\ [Next]_vars => [Agreement!AgreementNext]_(Agreement!agreementVars)
<1> SUFFICES ASSUME HInv, [Next]_vars PROVE Agreement!AgreementNext \/ Unmoved
  BY DEF Unmoved, Agreement!agreementVars
<1>1. CASE Program \/ OpenAgain \/ SendEIBNetwork \/ Close \/ Heartbeat
  <2>1. PcsKept
    BY <1>1, DiscoveryStep, HelloStep, FirstPhaseStep, LoginStep, IdleStep, HeartbeatStep
       DEF Program, OwnStep
  <2>2. CASE LoginReturns
    BY <2>1, <2>2, LoginJoins DEF Agreement!AgreementNext
  <2>3. CASE BeatEnds
    BY <2>1, <2>3, EndLeaves DEF Agreement!AgreementNext
  <2> QED
    BY <1>1, <2>1, <2>2, <2>3, OpeningAgrees, InSessionAgrees DEF Program, Heartbeat
<1>2. CASE HandleServiceDiscovery
  BY <1>2, ProbeStep, StillUnmoved DEF OwnStep
<1>3. CASE AcceptHello
  <2>1. UNCHANGED <<app, status, session, beat>>
    BY <1>3, AcceptStep
  <2>2. CASE PcsKept
    BY <2>1, <2>2, StillUnmoved
  <2>3. ASSUME NEW s \in Sessions, ServerStep(s) PROVE Agreement!AgreementNext \/ Unmoved
    BY <2>1, <2>3, SessionAgrees DEF Agreement!AgreementNext
  <2> QED
    BY <1>3, <2>2, <2>3, AcceptStep
<1>4. ASSUME NEW s \in Sessions, Serves(s) \/ Forward(s) \/ ServerCloses(s)
      PROVE  Agreement!AgreementNext \/ Unmoved
  <2>1. ServerStep(s)
    BY <1>4, LoggingIn, InSessionStep DEF Serves, HInv
  <2> QED
    BY <1>4, <2>1, ServesBegun, SessionAgrees DEF Agreement!AgreementNext
<1>5. CASE Tick
  BY <1>5, TickStep, StillUnmoved DEF OwnStep
<1>6. CASE UNCHANGED vars
  BY <1>6, SrvSame, StillUnmoved DEF vars
<1> QED
  BY <1>1, <1>2, <1>3, <1>4, <1>5, <1>6 DEF Next

LEMMA InitAgrees == Init => Agreement!AgreementInit
<1> SUFFICES ASSUME Init PROVE Agreement!AgreementInit
  OBVIOUS
<1>1. \A s \in Sessions : srv[s].pc = "none"
  BY DEF Init, NewSession
<1>2. Held = [s \in Sessions |-> "before"]
  BY <1>1, HeldAtPlaces DEF Held
<1>3. Joined = None /\ HasJoined = {}
  BY DEF Init, Joined, HasJoined
<1> QED
  BY <1>2, <1>3 DEF Agreement!AgreementInit

(* For any number of sessions, whatever is lost, late or repeated: the      *)
(* program believes in a session only after the server has logged it in,    *)
(* and never again in one that it has left (OpenConnection of               *)
(* GenericServer.cpp against ClientsMgr.cpp and Client.cpp).                *)
THEOREM HandshakeAgrees == Spec => ImplementsAgreement
BY InitAgrees, HandshakeAlwaysInv, StepAgrees, PTL
   DEF Spec, ImplementsAgreement, Agreement!AgreementSpec

-----------------------------------------------------------------------------
(***************************************************************************)
(* The key that both sides of a login compute.                             *)
(***************************************************************************)
Entry(f, e, x, n) ==
  IF e = 1 THEN x % n
  ELSE LET square == (f[e \div 2] * f[e \div 2]) % n
       IN IF e % 2 = 0 THEN square ELSE (square * x) % n

IsPower(f, x, y, n) == f = [e \in 1 .. y |-> Entry(f, e, x, n)]

(* The recursion goes down.                                                 *)
LEMMA Halves ==
  ASSUME NEW e \in Nat, e > 1
  PROVE  e \div 2 \in 1 .. e - 1
BY Division

(* There is such a function, and what it says of a number does not depend   *)
(* on how far it goes.                                                      *)
LEMMA PowerExists ==
  ASSUME NEW x, NEW n, NEW y \in Nat
  PROVE  \E f : IsPower(f, x, y, n)
<1> DEFINE Bad == {z \in Nat : ~ \E f : IsPower(f, x, z, n)}
<1> SUFFICES ASSUME Bad # {} PROVE FALSE
  OBVIOUS
<1>1. PICK z \in Bad : \A w \in Bad : z <= w
  <2>1. Bad \subseteq Nat
    OBVIOUS
  <2> HIDE DEF Bad
  <2> QED
    BY <2>1, LeastNumber
<1>2. z \in Nat /\ ~ \E f : IsPower(f, x, z, n)
  OBVIOUS
<1>3. CASE z = 0
  <2>1. PICK f : f = [e \in {} |-> 0]
    OBVIOUS
  <2>2. IsPower(f, x, 0, n)
    <3>1. 1 .. 0 = {}
      OBVIOUS
    <3> QED
      BY <2>1, <3>1 DEF IsPower
  <2> QED
    BY <1>2, <1>3, <2>2
<1>4. CASE z # 0
  <2>1. z - 1 \in Nat /\ z - 1 \notin Bad
    BY <1>1, <1>2, <1>4
  <2>2. PICK f : IsPower(f, x, z - 1, n)
    BY <2>1
  <2> DEFINE g == [e \in 1 .. z |-> Entry(f, e, x, n)]
  <2>3. \A e \in 1 .. z - 1 : f[e] = Entry(f, e, x, n)
    BY <2>2, Zenon DEF IsPower
  <2>4. \A e \in 1 .. z - 1 : e \in 1 .. z
    BY <1>2
  <2>5. \A e \in 1 .. z - 1 : g[e] = f[e]
    BY <2>3, <2>4, Zenon
  <2> HIDE DEF g
  <2>6. \A e \in 1 .. z : Entry(g, e, x, n) = Entry(f, e, x, n)
    <3> SUFFICES ASSUME NEW e \in 1 .. z PROVE Entry(g, e, x, n) = Entry(f, e, x, n)
      OBVIOUS
    <3>1. CASE e = 1
      BY <3>1, Zenon DEF Entry
    <3>2. CASE e # 1
      <4>1. e \div 2 \in 1 .. z - 1
        <5>1. e \in Nat /\ e > 1 /\ e <= z
          BY <1>2, <3>2
        <5> QED
          BY <1>2, <5>1, Halves
      <4>2. g[e \div 2] = f[e \div 2]
        BY <2>5, <4>1
      <4> QED
        BY <4>2, Zenon DEF Entry
    <3> QED
      BY <3>1, <3>2
  <2>7. IsPower(g, x, z, n)
    <3>1. g = [e \in 1 .. z |-> Entry(g, e, x, n)]
      BY <2>6 DEF g
    <3> QED
      BY <3>1, Zenon DEF IsPower
  <2> QED
    BY <1>2, <2>7
<1> QED
  BY <1>3, <1>4

LEMMA PowerUnique ==
  ASSUME NEW x, NEW n, NEW y \in Nat, NEW z \in Nat,
         NEW f, IsPower(f, x, y, n), NEW g, IsPower(g, x, z, n)
  PROVE  \A e \in 1 .. y : e \in 1 .. z => f[e] = g[e]
<1> DEFINE Bad == {e \in 1 .. y : e \in 1 .. z /\ f[e] # g[e]}
<1> SUFFICES ASSUME Bad # {} PROVE FALSE
  OBVIOUS
<1>1. PICK e \in Bad : \A d \in Bad : e <= d
  <2>1. Bad \subseteq Nat
    OBVIOUS
  <2> HIDE DEF Bad
  <2> QED
    BY <2>1, LeastNumber
<1>2. e \in 1 .. y /\ e \in 1 .. z /\ f[e] # g[e]
  OBVIOUS
<1>3. f[e] = Entry(f, e, x, n) /\ g[e] = Entry(g, e, x, n)
  BY <1>2, Zenon DEF IsPower
<1>4. CASE e = 1
  BY <1>2, <1>3, <1>4, Zenon DEF Entry
<1>5. CASE e # 1
  <2>1. e \in Nat /\ e > 1
    BY <1>2, <1>5
  <2>2. e \div 2 \in 1 .. y /\ e \div 2 \in 1 .. z /\ ~ (e <= e \div 2) /\ e \div 2 \in Nat
    BY <1>2, <2>1, Halves
  <2>3. f[e \div 2] = g[e \div 2]
    BY <1>1, <2>2
  <2> HIDE DEF Bad
  <2> QED
    BY <1>2, <1>3, <2>3, Zenon DEF Entry
<1> QED
  BY <1>4, <1>5

(* The recursion of the code, as equations of XpowYmodN.                    *)
LEMMA PowerValue ==
  ASSUME NEW x, NEW n, NEW y \in Nat \ {0}
  PROVE  /\ y = 1 => XpowYmodN(x, y, n) = x % n
         /\ y # 1 =>
              LET half == XpowYmodN(x, y \div 2, n)  square == (half * half) % n
              IN XpowYmodN(x, y, n) = IF y % 2 = 0 THEN square ELSE (square * x) % n
<1>1. ASSUME NEW z \in Nat PROVE \E f : IsPower(f, x, z, n) /\ XpowYmodN(x, z, n) = f[z]
  <2>1. XpowYmodN(x, z, n) = (CHOOSE f : IsPower(f, x, z, n))[z]
    BY DEF XpowYmodN, IsPower, Entry
  <2> QED
    BY <2>1, PowerExists, Zenon
<1>2. PICK f : IsPower(f, x, y, n) /\ XpowYmodN(x, y, n) = f[y]
  BY <1>1
<1>3. f[y] = Entry(f, y, x, n)
  <2>1. y \in 1 .. y
    OBVIOUS
  <2> QED
    BY <1>2, <2>1, Zenon DEF IsPower
<1>4. CASE y = 1
  BY <1>2, <1>3, <1>4, Zenon DEF Entry
<1>5. CASE y # 1
  <2>1. y \in Nat /\ y > 1
    BY <1>5
  <2>2. y \div 2 \in Nat /\ y \div 2 \in 1 .. y /\ y \div 2 \in 1 .. (y \div 2)
    BY <2>1, Halves
  <2>3. PICK g : IsPower(g, x, y \div 2, n) /\ XpowYmodN(x, y \div 2, n) = g[y \div 2]
    BY <1>1, <2>2
  <2>4. f[y \div 2] = g[y \div 2]
    BY <1>2, <2>2, <2>3, PowerUnique
  <2> QED
    BY <1>2, <1>3, <1>5, <2>3, <2>4, Zenon DEF Entry
<1> QED
  BY <1>4, <1>5

(* The same of 2k and of 2k + 1.                                            *)
LEMMA PowerHalves ==
  ASSUME NEW x, NEW n, NEW k \in Nat \ {0}
  PROVE  LET half == XpowYmodN(x, k, n)  square == (half * half) % n
         IN /\ XpowYmodN(x, 2 * k, n) = square
            /\ XpowYmodN(x, 2 * k + 1, n) = (square * x) % n
<1>1. /\ 2 * k \in Nat \ {0} /\ 2 * k # 1 /\ (2 * k) \div 2 = k /\ (2 * k) % 2 = 0
      /\ 2 * k + 1 \in Nat \ {0} /\ 2 * k + 1 # 1
      /\ (2 * k + 1) \div 2 = k /\ (2 * k + 1) % 2 # 0
  OBVIOUS
<1>2. PICK even : even = 2 * k
  OBVIOUS
<1>3. PICK odd : odd = 2 * k + 1
  OBVIOUS
<1>4. LET half == XpowYmodN(x, k, n)  square == (half * half) % n
      IN XpowYmodN(x, even, n) = square
  BY <1>1, <1>2, PowerValue
<1>5. LET half == XpowYmodN(x, k, n)  square == (half * half) % n
      IN XpowYmodN(x, odd, n) = (square * x) % n
  <2>1. odd \in Nat \ {0} /\ odd # 1 /\ odd \div 2 = k /\ odd % 2 # 0
    BY <1>1, <1>3
  <2>2. PICK z : z = odd \div 2
    OBVIOUS
  <2>3. LET half == XpowYmodN(x, z, n)  square == (half * half) % n
        IN XpowYmodN(x, odd, n) = IF odd % 2 = 0 THEN square ELSE (square * x) % n
    BY <2>1, <2>2, PowerValue
  <2> QED
    BY <2>1, <2>2, <2>3, Zenon
<1> QED
  BY <1>2, <1>3, <1>4, <1>5

(* A power is a remainder.                                                  *)
LEMMA PowerType ==
  ASSUME NEW x \in Nat, NEW n \in Nat \ {0}, NEW y \in Nat \ {0}
  PROVE  XpowYmodN(x, y, n) \in 0 .. n - 1
<1> DEFINE Bad == {z \in Nat \ {0} : XpowYmodN(x, z, n) \notin 0 .. n - 1}
<1> SUFFICES ASSUME Bad # {} PROVE FALSE
  OBVIOUS
<1>1. PICK z \in Bad : \A w \in Bad : z <= w
  <2>1. Bad \subseteq Nat
    OBVIOUS
  <2> HIDE DEF Bad
  <2> QED
    BY <2>1, LeastNumber
<1>2. z \in Nat \ {0} /\ XpowYmodN(x, z, n) \notin 0 .. n - 1
  OBVIOUS
<1>3. CASE z = 1
  <2>1. XpowYmodN(x, z, n) = x % n
    BY <1>2, <1>3, PowerValue
  <2> QED
    BY <1>2, <2>1, Division
<1>4. CASE z # 1
  <2>1. z \in Nat /\ z > 1
    BY <1>2, <1>4
  <2>2. z \div 2 \in Nat \ {0} /\ ~ (z <= z \div 2)
    BY <2>1, Halves
  <2>3. XpowYmodN(x, z \div 2, n) \in 0 .. n - 1
    BY <1>1, <2>2
  <2>4. PICK half \in Nat : half = XpowYmodN(x, z \div 2, n)
    BY <2>3
  <2>5. half * half \in Nat
    OBVIOUS
  <2>6. PICK square \in Nat : square = (half * half) % n /\ square \in 0 .. n - 1
    <3>1. PICK m \in Nat : m = half * half
      BY <2>5
    <3>2. m % n \in 0 .. n - 1 /\ m % n \in Nat
      BY Division
    <3> QED
      BY <3>1, <3>2
  <2>7. square * x \in Nat
    OBVIOUS
  <2>8. (square * x) % n \in 0 .. n - 1
    BY <2>7, Division
  <2>9. XpowYmodN(x, z, n) = IF z % 2 = 0 THEN square ELSE (square * x) % n
    BY <1>2, <1>4, <2>4, <2>6, PowerValue
  <2> HIDE DEF Bad
  <2> QED
    BY <1>2, <2>6, <2>8, <2>9
<1> QED
  BY <1>3, <1>4

(* So the squaring is a multiplication repeated.                            *)
LEMMA PowerNext ==
  ASSUME NEW x \in Nat, NEW n \in Nat \ {0}, NEW y \in Nat \ {0}
  PROVE  XpowYmodN(x, y + 1, n) = (XpowYmodN(x, y, n) * x) % n
<1> DEFINE P(e) == XpowYmodN(x, e, n)
           Bad == {z \in Nat \ {0} : P(z + 1) # (P(z) * x) % n}
<1> SUFFICES ASSUME Bad # {} PROVE FALSE
  OBVIOUS
<1>1. PICK z \in Bad : \A w \in Bad : z <= w
  <2>1. Bad \subseteq Nat
    OBVIOUS
  <2> HIDE DEF Bad
  <2> QED
    BY <2>1, LeastNumber
<1>2. z \in Nat \ {0} /\ P(z + 1) # (P(z) * x) % n
  OBVIOUS
<1>3. \A w \in Nat \ {0} : w < z => P(w + 1) = (P(w) * x) % n
  BY <1>1, <1>2
<1>4. ASSUME NEW w \in Nat \ {0} PROVE P(w) \in Nat
  <2>1. P(w) \in 0 .. n - 1
    BY PowerType
  <2> HIDE DEF P
  <2> QED
    BY <2>1
<1>5. P(1) = x % n
  BY PowerValue
<1>6. \A k \in Nat \ {0} :
        P(2 * k) = (P(k) * P(k)) % n /\ P(2 * k + 1) = (((P(k) * P(k)) % n) * x) % n
  BY PowerHalves
<1> HIDE DEF P, Bad
<1>7. CASE z = 1
  <2>1. P(z + 1) = ((x % n) * (x % n)) % n
    BY <1>5, <1>6, <1>7
  <2>2. PICK r \in Nat : r = x % n
    BY Division
  <2>3. (r * (x % n)) % n = (r * x) % n
    BY ProductRemainder
  <2> QED
    BY <1>2, <1>5, <1>7, <2>1, <2>2, <2>3
<1>8. ASSUME NEW k \in Nat \ {0}, z = 2 * k PROVE FALSE
  BY <1>2, <1>6, <1>8
<1>9. ASSUME NEW k \in Nat \ {0}, z = 2 * k + 1 PROVE FALSE
  <2>1. PICK h \in Nat : h = P(k)
    BY <1>4
  <2>2. PICK hx \in Nat : hx = h * x
    OBVIOUS
  <2>3. PICK hh \in Nat : hh = h * h
    OBVIOUS
  <2>4. P(k + 1) = hx % n
    BY <1>2, <1>3, <1>9, <2>1, <2>2
  <2>5. P(z + 1) = (hx * hx) % n
    <3>1. z + 1 = 2 * (k + 1) /\ k + 1 \in Nat \ {0}
      BY <1>9
    <3>2. P(z + 1) = ((hx % n) * (hx % n)) % n
      BY <1>6, <2>4, <3>1
    <3>3. PICK r \in Nat : r = hx % n
      BY Division
    <3>4. (r * (hx % n)) % n = (r * hx) % n
      BY ProductRemainder
    <3>5. ((hx % n) * hx) % n = (hx * hx) % n
      BY ProductRemainder
    <3> QED
      BY <3>2, <3>3, <3>4, <3>5
  <2>6. P(z) = ((hh % n) * x) % n
    BY <1>6, <1>9, <2>1, <2>3
  <2>7. (P(z) * x) % n = (hh * (x * x)) % n
    <3>1. hh % n \in Nat /\ x * x \in Nat
      BY Division
    <3>2. PICK m \in Nat : m = (hh % n) * x
      BY <3>1
    <3>3. ((m % n) * x) % n = (m * x) % n
      BY ProductRemainder
    <3>4. PICK xx \in Nat : xx = x * x
      BY <3>1
    <3>5. m * x = (hh % n) * xx
      BY <3>1, <3>2, <3>4
    <3>6. ((hh % n) * xx) % n = (hh * xx) % n
      BY ProductRemainder
    <3> QED
      BY <2>6, <3>2, <3>3, <3>4, <3>5, <3>6
  <2>8. hx * hx = hh * (x * x)
    BY <2>2, <2>3
  <2> QED
    BY <1>2, <2>5, <2>7, <2>8
<1>10. z = 1 \/ \E k \in Nat \ {0} : z = 2 * k \/ z = 2 * k + 1
  <2>1. z = 2 * (z \div 2) + (z % 2) /\ z % 2 \in {0, 1} /\ z \div 2 \in Int
    <3>1. z \in Nat
      BY <1>2
    <3> QED
      BY <3>1
  <2>2. z = 1 \/ z \div 2 \in Nat \ {0}
    BY <1>2, <2>1
  <2> QED
    BY <2>1, <2>2
<1> QED
  BY <1>7, <1>8, <1>9, <1>10

(* The exponents of a product are added,                                    *)
LEMMA PowerSum ==
  ASSUME NEW x \in Nat, NEW n \in Nat \ {0}, NEW a \in Nat \ {0}, NEW b \in Nat \ {0}
  PROVE  XpowYmodN(x, a + b, n) = (XpowYmodN(x, a, n) * XpowYmodN(x, b, n)) % n
<1> DEFINE P(e) == XpowYmodN(x, e, n)
           Bad == {c \in Nat \ {0} : P(a + c) # (P(a) * P(c)) % n}
<1> SUFFICES ASSUME Bad # {} PROVE FALSE
  OBVIOUS
<1>1. PICK c \in Bad : \A w \in Bad : c <= w
  <2>1. Bad \subseteq Nat
    OBVIOUS
  <2> HIDE DEF Bad
  <2> QED
    BY <2>1, LeastNumber
<1>2. c \in Nat \ {0} /\ P(a + c) # (P(a) * P(c)) % n
  OBVIOUS
<1>3. \A w \in Nat \ {0} : w < c => P(a + w) = (P(a) * P(w)) % n
  BY <1>1, <1>2
<1>4. ASSUME NEW w \in Nat \ {0} PROVE P(w) \in Nat /\ P(w + 1) = (P(w) * x) % n
  <2>1. P(w) \in 0 .. n - 1
    BY PowerType
  <2>2. P(w + 1) = (P(w) * x) % n
    BY PowerNext
  <2> HIDE DEF P
  <2> QED
    BY <2>1, <2>2
<1>5. P(1) = x % n
  BY PowerValue
<1> HIDE DEF P, Bad
<1>6. CASE c = 1
  <2>1. P(a + c) = (P(a) * x) % n /\ P(a) \in Nat
    BY <1>4, <1>6
  <2> QED
    BY <1>2, <1>5, <1>6, <2>1, ProductRemainder
<1>7. CASE c # 1
  <2>1. PICK d \in Nat \ {0} : c = d + 1 /\ d < c
    <3>1. c - 1 \in Nat \ {0} /\ c = (c - 1) + 1 /\ c - 1 < c
      BY <1>2, <1>7
    <3> QED
      BY <3>1
  <2>2. PICK pa \in Nat : pa = P(a)
    BY <1>4
  <2>3. PICK pd \in Nat : pd = P(d)
    BY <1>4
  <2>4. a + d \in Nat \ {0} /\ a + c = (a + d) + 1 /\ pa * pd \in Nat /\ pd * x \in Nat
    BY <2>1
  <2>5. P(a + c) = (((pa * pd) % n) * x) % n
    BY <1>3, <1>4, <2>1, <2>2, <2>3, <2>4
  <2>6. P(a + c) = ((pa * pd) * x) % n
    BY <2>4, <2>5, ProductRemainder
  <2>7. (P(a) * P(c)) % n = (pa * (pd * x)) % n
    <3>1. P(c) = (pd * x) % n
      BY <1>4, <2>1, <2>3
    <3>2. PICK m \in Nat : m = pd * x
      BY <2>4
    <3>3. (pa * (m % n)) % n = (pa * m) % n
      BY ProductRemainder
    <3> QED
      BY <2>2, <3>1, <3>2, <3>3
  <2>8. (pa * pd) * x = pa * (pd * x)
    OBVIOUS
  <2> QED
    BY <1>2, <2>6, <2>7, <2>8
<1> QED
  BY <1>6, <1>7

(* and those of a power multiplied.                                         *)
LEMMA PowerOfPower ==
  ASSUME NEW x \in Nat, NEW n \in Nat \ {0}, NEW a \in Nat \ {0}, NEW b \in Nat \ {0}
  PROVE  XpowYmodN(XpowYmodN(x, a, n), b, n) = XpowYmodN(x, a * b, n)
<1>1. PICK y \in Nat : y = XpowYmodN(x, a, n) /\ y \in 0 .. n - 1
  BY PowerType
<1> DEFINE P(e) == XpowYmodN(x, e, n)
           Q(e) == XpowYmodN(y, e, n)
           Bad == {c \in Nat \ {0} : Q(c) # P(a * c)}
<1> SUFFICES ASSUME Bad # {} PROVE FALSE
  BY <1>1
<1>2. PICK c \in Bad : \A w \in Bad : c <= w
  <2>1. Bad \subseteq Nat
    OBVIOUS
  <2> HIDE DEF Bad
  <2> QED
    BY <2>1, LeastNumber
<1>3. c \in Nat \ {0} /\ Q(c) # P(a * c)
  OBVIOUS
<1>4. \A w \in Nat \ {0} : w < c => Q(w) = P(a * w)
  BY <1>2, <1>3
<1>5. \A w \in Nat \ {0} : Q(w + 1) = (Q(w) * y) % n
  BY PowerNext
<1>6. \A v, w \in Nat \ {0} : P(v + w) = (P(v) * P(w)) % n
  BY PowerSum
<1>7. Q(1) = y /\ y = P(a)
  <2>1. Q(1) = y % n
    BY PowerValue
  <2>2. y % n = y
    BY <1>1, SmallRemainder
  <2> QED
    BY <1>1, <2>1, <2>2
<1> HIDE DEF P, Q, Bad
<1>8. CASE c = 1
  <2>1. a * c = a
    BY <1>8
  <2> QED
    BY <1>3, <1>7, <1>8, <2>1
<1>9. CASE c # 1
  <2>1. PICK d \in Nat \ {0} : c = d + 1 /\ d < c
    <3>1. c - 1 \in Nat \ {0} /\ c = (c - 1) + 1 /\ c - 1 < c
      BY <1>3, <1>9
    <3> QED
      BY <3>1
  <2>2. PICK ad : ad = a * d /\ ad \in Nat \ {0} /\ a * c = ad + a
    <3>1. a * d \in Nat \ {0}
      OBVIOUS
    <3>2. a * c = a * d + a
      BY <2>1
    <3> QED
      BY <3>1, <3>2
  <2>3. Q(c) = (P(ad) * P(a)) % n
    BY <1>4, <1>5, <1>7, <2>1, <2>2
  <2>4. P(a * c) = (P(ad) * P(a)) % n
    BY <1>6, <2>2
  <2> QED
    BY <1>3, <2>3, <2>4
<1> QED
  BY <1>8, <1>9

(* The two sides of a key exchange compute the same key, whatever generator,*)
(* modulus and private numbers they have: each raises the other's number to *)
(* its own private one (XpowYmodN, CreateSenderEncryptionKey and            *)
(* CreateRecipientEncryptionKey of DiffieHellman.cpp).                      *)
THEOREM KeysMeet ==
  ASSUME NEW g \in Nat, NEW n \in Nat \ {0}, NEW a \in Nat \ {0}, NEW b \in Nat \ {0}
  PROVE  XpowYmodN(XpowYmodN(g, a, n), b, n) = XpowYmodN(XpowYmodN(g, b, n), a, n)
<1>1. a * b = b * a
  OBVIOUS
<1> QED
  BY <1>1, PowerOfPower

-----------------------------------------------------------------------------
(***************************************************************************)
(* What a message says is read from it.                                    *)
(***************************************************************************)

IsText(t) == t \in [before : Nat, word : {t.word}, after : Nat]
HasTexts(headers) == \A h \in DOMAIN headers : IsText(headers[h])
Text(b, w, a) == [before |-> b, word |-> w, after |-> a]

(* Trim takes the blanks away.                                              *)
LEMMA TextTrim ==
  ASSUME NEW b \in Nat, NEW w, NEW a \in Nat
  PROVE  Trim(Text(b, w, a)) = Text(0, w, 0)
<1>1. [Text(b, w, a) EXCEPT !.before = 0] = Text(0, w, a)
  BY DEF Text
<1>2. [Text(0, w, a) EXCEPT !.after = 0] = Text(0, w, 0)
  BY DEF Text
<1>3. Trim(Text(b, w, a)) = [[Text(b, w, a) EXCEPT !.before = 0] EXCEPT !.after = 0]
  BY DEF Trim
<1> QED
  BY <1>1, <1>2, <1>3, Zenon

(* A blank that the message adds is not read.                               *)
LEMMA TextRead ==
  ASSUME NEW t, IsText(t)
  PROVE  /\ Trim([t EXCEPT !.before = @ + 1]) = Trim(t)
         /\ IsText([t EXCEPT !.before = @ + 1])
<1>1. PICK b, w, a : b = t.before /\ w = t.word /\ a = t.after
  OBVIOUS
<1>2. t = Text(b, w, a) /\ b \in Nat /\ a \in Nat /\ b + 1 \in Nat
  BY <1>1 DEF IsText, Text
<1>3. [Text(b, w, a) EXCEPT !.before = @ + 1] = Text(b + 1, w, a)
  BY <1>2 DEF Text
<1>4. IsText(Text(b + 1, w, a))
  BY <1>2 DEF IsText, Text
<1>5. Trim(Text(b, w, a)) = Text(0, w, 0) /\ Trim(Text(b + 1, w, a)) = Text(0, w, 0)
  BY <1>2, TextTrim, Zenon
<1> QED
  BY <1>2, <1>3, <1>4, <1>5, Zenon

LEMMA WordRead ==
  ASSUME NEW w
  PROVE  /\ IsText(LoginText(w)) /\ Trim(LoginText(w)) = LoginText(w)
         /\ IsText(Number(w)) /\ ToInt(Trim(Number(w))) = w
<1>1. LoginText(w) = Text(0, w, 0) /\ Number(w) = LoginText(w)
  BY DEF LoginText, Text, Number
<1>2. IsText(Text(0, w, 0))
  BY DEF IsText, Text
<1>3. Trim(Text(0, w, 0)) = Text(0, w, 0)
  BY TextTrim
<1>4. ToInt(Text(0, w, 0)) = w
  BY DEF ToInt, Text
<1> QED
  BY <1>1, <1>2, <1>3, <1>4, Zenon

(* That the headers have one of that name, with that text.                  *)
Says(headers, name, text) == name \in DOMAIN headers /\ headers[name] = text

LEMMA AddHeaderSays ==
  ASSUME NEW headers, HasTexts(headers), NEW name, name \notin DOMAIN headers,
         NEW text, IsText(text)
  PROVE  /\ DOMAIN AddHeader(headers, name, text) = DOMAIN headers \cup {name}
         /\ HasTexts(AddHeader(headers, name, text))
         /\ Says(AddHeader(headers, name, text), name, text)
         /\ \A h, t : Says(headers, h, t) => Says(AddHeader(headers, name, text), h, t)
<1>1. PICK more : more = AddHeader(headers, name, text)
  OBVIOUS
<1>2. /\ DOMAIN more = DOMAIN headers \cup {name} /\ more[name] = text
      /\ \A h \in DOMAIN headers : more[h] = headers[h]
  BY <1>1 DEF AddHeader
<1>3. HasTexts(more)
  BY <1>2, Zenon DEF HasTexts
<1> QED
  BY <1>1, <1>2, <1>3, Zenon DEF Says

(* One that is there already stays as it is.                                *)
LEMMA AddHeaderKeeps ==
  ASSUME NEW headers, HasTexts(headers), NEW name, NEW text, IsText(text)
  PROVE  /\ DOMAIN AddHeader(headers, name, text) = DOMAIN headers \cup {name}
         /\ HasTexts(AddHeader(headers, name, text))
         /\ \A h, t : Says(headers, h, t) => Says(AddHeader(headers, name, text), h, t)
<1>1. CASE name \notin DOMAIN headers
  BY <1>1, AddHeaderSays, Zenon
<1>2. CASE name \in DOMAIN headers
  <2>1. PICK more : more = AddHeader(headers, name, text)
    OBVIOUS
  <2>2. /\ DOMAIN more = DOMAIN headers \cup {name}
        /\ \A h \in DOMAIN headers : more[h] = headers[h]
    BY <2>1 DEF AddHeader
  <2>3. DOMAIN more = DOMAIN headers
    BY <1>2, <2>2
  <2>4. HasTexts(more)
    BY <2>2, <2>3, Zenon DEF HasTexts
  <2> QED
    BY <2>1, <2>2, <2>4, Zenon DEF Says
<1> QED
  BY <1>1, <1>2

(* What a header says is read from the message, without its blanks.         *)
LEMMA HeadersRead ==
  ASSUME NEW headers, HasTexts(headers)
  PROVE  /\ DOMAIN headers \subseteq DOMAIN WithBlanks(NoContent(headers))
         /\ \A h, t : Says(headers, h, t) =>
              Says(ParseHeaders(WithBlanks(NoContent(headers))), h, Trim(t))
<1>1. PICK all : all = NoContent(headers)
  OBVIOUS
<1>2. /\ DOMAIN all = DOMAIN headers \cup {"Content-Length"} /\ HasTexts(all)
      /\ \A h, t : Says(headers, h, t) => Says(all, h, t)
  BY <1>1, AddHeaderKeeps, WordRead, Zenon DEF NoContent
<1>3. PICK sent : sent = WithBlanks(all)
  OBVIOUS
<1>4. /\ DOMAIN sent = DOMAIN all
      /\ \A h \in DOMAIN all : sent[h] = [all[h] EXCEPT !.before = @ + 1]
  BY <1>3 DEF WithBlanks
<1>5. /\ DOMAIN ParseHeaders(sent) = DOMAIN sent
      /\ \A h \in DOMAIN sent : ParseHeaders(sent)[h] = Trim(sent[h])
  BY DEF ParseHeaders
<1>6. ASSUME NEW h, NEW t, Says(all, h, t)
      PROVE  Says(ParseHeaders(sent), h, Trim(t))
  <2>1. h \in DOMAIN all /\ all[h] = t
    BY <1>6 DEF Says
  <2>2. IsText(t)
    BY <1>2, <2>1, Zenon DEF HasTexts
  <2>3. sent[h] = [t EXCEPT !.before = @ + 1]
    BY <1>4, <2>1, Zenon
  <2>4. Trim(sent[h]) = Trim(t)
    BY <2>2, <2>3, TextRead, Zenon
  <2> QED
    BY <1>4, <1>5, <2>1, <2>4, Zenon DEF Says
<1>7. DOMAIN headers \subseteq DOMAIN sent
  BY <1>2, <1>4
<1> QED
  BY <1>1, <1>2, <1>3, <1>6, <1>7, Zenon

(* A request with the headers that are needed is legal, and is read as it   *)
(* was written; so is a reply.                                              *)
LEMMA RequestRead ==
  ASSUME NEW uri, NEW headers, HasTexts(headers), NEW needed, needed \subseteq DOMAIN headers
  PROVE  /\ ParseRequest(FinalizeRequest(uri, headers), uri, needed).legal
         /\ \A h, t : Says(headers, h, t) =>
              Says(ParseRequest(FinalizeRequest(uri, headers), uri, needed).headers, h, Trim(t))
<1>1. PICK all : all = WithBlanks(NoContent(headers))
  OBVIOUS
<1>2. /\ DOMAIN headers \subseteq DOMAIN all
      /\ \A h, t : Says(headers, h, t) => Says(ParseHeaders(all), h, Trim(t))
  BY <1>1, HeadersRead, Zenon
<1>3. needed \subseteq DOMAIN all
  BY <1>2
<1>4. PICK message : message = FinalizeRequest(uri, headers)
  OBVIOUS
<1>5. message.line = <<"GET", uri, "HTTP/1.0">> /\ message.headers = all
  BY <1>1, <1>4 DEF FinalizeRequest
<1>6. PICK request : request = ParseRequest(message, uri, needed)
  OBVIOUS
<1>7. request.legal = TRUE
  BY <1>3, <1>5, <1>6 DEF ParseRequest
<1>8. request.headers = ParseHeaders(all)
  BY <1>5, <1>6 DEF ParseRequest
<1> QED
  BY <1>2, <1>4, <1>6, <1>7, <1>8, Zenon

LEMMA ReplyRead ==
  ASSUME NEW headers, HasTexts(headers), NEW needed, needed \subseteq DOMAIN headers
  PROVE  /\ ParseReply(FinalizeReply(headers), needed).legal
         /\ \A h, t : Says(headers, h, t) =>
              Says(ParseReply(FinalizeReply(headers), needed).headers, h, Trim(t))
<1>1. PICK typed : typed = AddHeader(headers, "Content-Type", LoginText("text/plain"))
  OBVIOUS
<1>2. /\ DOMAIN typed = DOMAIN headers \cup {"Content-Type"} /\ HasTexts(typed)
      /\ \A h, t : Says(headers, h, t) => Says(typed, h, t)
  BY <1>1, AddHeaderKeeps, WordRead, Zenon
<1>3. PICK all : all = WithBlanks(NoContent(typed))
  OBVIOUS
<1>4. /\ DOMAIN typed \subseteq DOMAIN all
      /\ \A h, t : Says(typed, h, t) => Says(ParseHeaders(all), h, Trim(t))
  BY <1>2, <1>3, HeadersRead, Zenon
<1>5. needed \subseteq DOMAIN all
  BY <1>2, <1>4
<1>6. PICK message : message = FinalizeReply(headers)
  OBVIOUS
<1>7. message.line = <<"HTTP/1.0", "200", "OK">> /\ message.headers = all
  BY <1>1, <1>3, <1>6 DEF FinalizeReply
<1>8. PICK reply : reply = ParseReply(message, needed)
  OBVIOUS
<1>9. reply.legal = TRUE
  BY <1>5, <1>7, <1>8 DEF ParseReply
<1>10. reply.headers = ParseHeaders(all)
  BY <1>7, <1>8 DEF ParseReply
<1> QED
  BY <1>2, <1>4, <1>6, <1>8, <1>9, <1>10, Zenon

(* A message in a wrong key is no request.                                  *)
LEMMA NothingRead ==
  ASSUME NEW uri, NEW needed
  PROVE  ~ ParseRequest(Unreadable, uri, needed).legal
<1>1. PICK line : line = Unreadable.line
  OBVIOUS
<1>2. line = <<>>
  BY <1>1 DEF Unreadable
<1>3. line # <<"GET", uri, "HTTP/1.0">>
  <2>1. PICK request : request = <<"GET", uri, "HTTP/1.0">>
    OBVIOUS
  <2>2. 1 \in DOMAIN request
    BY <2>1
  <2>3. 1 \notin DOMAIN line
    BY <1>2
  <2> QED
    BY <2>1, <2>2, <2>3, Zenon
<1> QED
  BY <1>1, <1>3 DEF ParseRequest


(***************************************************************************)
(* The headers of each message of a login.                                 *)
(***************************************************************************)
DiscoveryRequest ==
  AddHeader(AddHeader(NoHeaders, "Address", LoginText("program")),
            "Data-Port", Number(ProgramPorts.data))
DiscoveryReply ==
  AddHeader(AddHeader(NoHeaders, "Address", LoginText("server")), "Data-Port", Number(Ports.manager))
HelloRequest ==
  AddHeader(AddHeader(AddHeader(AddHeader(NoHeaders,
    "Network", LoginText("program")), "Data-Port", Number(ProgramPorts.data)),
    "KeepAlive-Port", Number(ProgramPorts.beat)), "Address", LoginText("program"))
KeyRequest(public) ==
  AddHeader(AddHeader(NoHeaders, "Interim", Number(public)), "Client-Type", Number(1))
NameRequest(name, password) ==
  AddHeader(AddHeader(NoHeaders, "User-Name", name), "Password", password)
ModeReply(mode) == AddHeader(NoHeaders, "Mode", Number(mode))

LEMMA NoHeadersSay == DOMAIN NoHeaders = {} /\ HasTexts(NoHeaders)
BY DEF NoHeaders, HasTexts

LEMMA OneHeader ==
  ASSUME NEW a, NEW s, IsText(s)
  PROVE  /\ HasTexts(AddHeader(NoHeaders, a, s)) /\ DOMAIN AddHeader(NoHeaders, a, s) = {a}
         /\ Says(AddHeader(NoHeaders, a, s), a, s)
<1>1. a \notin DOMAIN NoHeaders /\ DOMAIN NoHeaders \cup {a} = {a}
  BY NoHeadersSay
<1> QED
  BY <1>1, NoHeadersSay, AddHeaderSays, Zenon

LEMMA TwoHeaders ==
  ASSUME NEW a, NEW s, IsText(s), NEW b, NEW t, IsText(t), a # b
  PROVE  LET two == AddHeader(AddHeader(NoHeaders, a, s), b, t)
         IN /\ HasTexts(two) /\ DOMAIN two = {a, b}
            /\ Says(two, a, s) /\ Says(two, b, t)
<1>1. PICK one : one = AddHeader(NoHeaders, a, s)
  OBVIOUS
<1>2. /\ HasTexts(one) /\ DOMAIN one = {a} /\ Says(one, a, s)
  BY <1>1, OneHeader, Zenon
<1>3. b \notin DOMAIN one /\ DOMAIN one \cup {b} = {a, b}
  BY <1>2
<1> QED
  BY <1>1, <1>2, <1>3, AddHeaderSays, Zenon

LEMMA DiscoverySays ==
  /\ HasTexts(DiscoveryRequest) /\ DOMAIN DiscoveryRequest = {"Address", "Data-Port"}
  /\ HasTexts(DiscoveryReply) /\ DOMAIN DiscoveryReply = {"Address", "Data-Port"}
  /\ Says(DiscoveryReply, "Data-Port", Number(Ports.manager))
<1>1. "Address" # "Data-Port"
  OBVIOUS
<1>2. /\ IsText(LoginText("program")) /\ IsText(LoginText("server"))
      /\ IsText(Number(ProgramPorts.data)) /\ IsText(Number(Ports.manager))
  BY WordRead, Zenon
<1>3. HasTexts(DiscoveryRequest) /\ DOMAIN DiscoveryRequest = {"Address", "Data-Port"}
  BY <1>1, <1>2, TwoHeaders, Zenon DEF DiscoveryRequest
<1>4. /\ HasTexts(DiscoveryReply) /\ DOMAIN DiscoveryReply = {"Address", "Data-Port"}
      /\ Says(DiscoveryReply, "Data-Port", Number(Ports.manager))
  BY <1>1, <1>2, TwoHeaders, Zenon DEF DiscoveryReply
<1> QED
  BY <1>3, <1>4

LEMMA KeySays ==
  ASSUME NEW public
  PROVE  /\ HasTexts(KeyRequest(public)) /\ DOMAIN KeyRequest(public) = {"Interim", "Client-Type"}
         /\ Says(KeyRequest(public), "Interim", Number(public))
<1>1. "Interim" # "Client-Type"
  OBVIOUS
<1>2. IsText(Number(public)) /\ IsText(Number(1))
  BY WordRead, Zenon
<1> QED
  BY <1>1, <1>2, TwoHeaders, Zenon DEF KeyRequest

LEMMA NameSays ==
  ASSUME NEW name, IsText(name), NEW password, IsText(password)
  PROVE  /\ HasTexts(NameRequest(name, password))
         /\ DOMAIN NameRequest(name, password) = {"User-Name", "Password"}
         /\ Says(NameRequest(name, password), "User-Name", name)
         /\ Says(NameRequest(name, password), "Password", password)
<1>1. "User-Name" # "Password"
  OBVIOUS
<1> QED
  BY <1>1, TwoHeaders, Zenon DEF NameRequest

LEMMA ModeSays ==
  ASSUME NEW mode
  PROVE  /\ HasTexts(ModeReply(mode)) /\ DOMAIN ModeReply(mode) = {"Mode"}
         /\ Says(ModeReply(mode), "Mode", Number(mode))
BY WordRead, OneHeader, Zenon DEF ModeReply

LEMMA HelloSays ==
  /\ HasTexts(HelloRequest)
  /\ DOMAIN HelloRequest = {"Network", "Data-Port", "KeepAlive-Port", "Address"}
  /\ Says(HelloRequest, "Data-Port", Number(ProgramPorts.data))
  /\ Says(HelloRequest, "KeepAlive-Port", Number(ProgramPorts.beat))
<1>1. "Network" # "Data-Port"
  OBVIOUS
<1>2. /\ IsText(LoginText("program")) /\ IsText(Number(ProgramPorts.data))
      /\ IsText(Number(ProgramPorts.beat))
  BY WordRead, Zenon
<1>3. PICK two : two = AddHeader(AddHeader(NoHeaders, "Network", LoginText("program")),
                                 "Data-Port", Number(ProgramPorts.data))
  OBVIOUS
<1>4. /\ HasTexts(two) /\ DOMAIN two = {"Network", "Data-Port"}
      /\ Says(two, "Data-Port", Number(ProgramPorts.data))
  BY <1>1, <1>2, <1>3, TwoHeaders, Zenon
<1>5. PICK three : three = AddHeader(two, "KeepAlive-Port", Number(ProgramPorts.beat))
  OBVIOUS
<1>6. "KeepAlive-Port" \notin DOMAIN two
  BY <1>4
<1>7. /\ HasTexts(three) /\ DOMAIN three = DOMAIN two \cup {"KeepAlive-Port"}
      /\ Says(three, "Data-Port", Number(ProgramPorts.data))
      /\ Says(three, "KeepAlive-Port", Number(ProgramPorts.beat))
  BY <1>2, <1>4, <1>5, <1>6, AddHeaderSays, Zenon
<1>8. PICK four : four = AddHeader(three, "Address", LoginText("program"))
  OBVIOUS
<1>9. "Address" \notin DOMAIN three
  BY <1>4, <1>7
<1>10. /\ HasTexts(four) /\ DOMAIN four = DOMAIN three \cup {"Address"}
       /\ Says(four, "Data-Port", Number(ProgramPorts.data))
       /\ Says(four, "KeepAlive-Port", Number(ProgramPorts.beat))
  BY <1>2, <1>7, <1>8, <1>9, AddHeaderSays, Zenon
<1>11. DOMAIN four = {"Network", "Data-Port", "KeepAlive-Port", "Address"}
  BY <1>4, <1>7, <1>10
<1> QED
  BY <1>3, <1>5, <1>8, <1>10, <1>11, Zenon DEF HelloRequest

KeyNames == {"Modulus", "Interim", "Generator", "Data-Port", "Session-ID", "KeepAlive-Port"}

LEMMA PublicDataSays ==
  ASSUME NEW dh
  PROVE  /\ HasTexts(PublicData(dh)) /\ DOMAIN PublicData(dh) = KeyNames
         /\ Says(PublicData(dh), "Modulus", Number(dh.modulus))
         /\ Says(PublicData(dh), "Interim", Number(dh.public))
         /\ Says(PublicData(dh), "Generator", Number(dh.generator))
         /\ Says(PublicData(dh), "Data-Port", Number(Ports.data))
         /\ Says(PublicData(dh), "Session-ID", Number(SessionId))
         /\ Says(PublicData(dh), "KeepAlive-Port", Number(Ports.beat))
<1>1. "Modulus" # "Interim"
  OBVIOUS
<1>2. /\ IsText(Number(dh.modulus)) /\ IsText(Number(dh.public)) /\ IsText(Number(dh.generator))
      /\ IsText(Number(Ports.data)) /\ IsText(Number(SessionId)) /\ IsText(Number(Ports.beat))
  BY WordRead, Zenon
<1>3. PICK two : two = AddHeader(AddHeader(NoHeaders, "Modulus", Number(dh.modulus)),
                                 "Interim", Number(dh.public))
  OBVIOUS
<1>4. /\ HasTexts(two) /\ DOMAIN two = {"Modulus", "Interim"}
      /\ Says(two, "Modulus", Number(dh.modulus)) /\ Says(two, "Interim", Number(dh.public))
  <2>1. PICK one : one = AddHeader(NoHeaders, "Modulus", Number(dh.modulus))
    OBVIOUS
  <2>2. /\ HasTexts(one) /\ DOMAIN one = {"Modulus"} /\ Says(one, "Modulus", Number(dh.modulus))
    BY <1>2, <2>1, OneHeader, Zenon
  <2>3. "Interim" \notin DOMAIN one /\ DOMAIN one \cup {"Interim"} = {"Modulus", "Interim"}
    BY <1>1, <2>2
  <2> QED
    BY <1>2, <1>3, <2>1, <2>2, <2>3, AddHeaderSays, Zenon
<1>5. PICK three : three = AddHeader(two, "Generator", Number(dh.generator))
  OBVIOUS
<1>6. "Generator" \notin DOMAIN two
  BY <1>4
<1>7. /\ HasTexts(three) /\ DOMAIN three = DOMAIN two \cup {"Generator"}
      /\ Says(three, "Generator", Number(dh.generator))
      /\ \A h, t : Says(two, h, t) => Says(three, h, t)
  BY <1>2, <1>4, <1>5, <1>6, AddHeaderSays, Zenon
<1>8. PICK four : four = AddHeader(three, "Data-Port", Number(Ports.data))
  OBVIOUS
<1>9. "Data-Port" \notin DOMAIN three
  BY <1>4, <1>7
<1>10. /\ HasTexts(four) /\ DOMAIN four = DOMAIN three \cup {"Data-Port"}
       /\ Says(four, "Data-Port", Number(Ports.data))
       /\ \A h, t : Says(three, h, t) => Says(four, h, t)
  BY <1>2, <1>7, <1>8, <1>9, AddHeaderSays, Zenon
<1>11. PICK five : five = AddHeader(four, "Session-ID", Number(SessionId))
  OBVIOUS
<1>12. "Session-ID" \notin DOMAIN four
  BY <1>4, <1>7, <1>10
<1>13. /\ HasTexts(five) /\ DOMAIN five = DOMAIN four \cup {"Session-ID"}
       /\ Says(five, "Session-ID", Number(SessionId))
       /\ \A h, t : Says(four, h, t) => Says(five, h, t)
  BY <1>2, <1>10, <1>11, <1>12, AddHeaderSays, Zenon
<1>14. PICK six : six = AddHeader(five, "KeepAlive-Port", Number(Ports.beat))
  OBVIOUS
<1>15. "KeepAlive-Port" \notin DOMAIN five
  BY <1>4, <1>7, <1>10, <1>13
<1>16. /\ HasTexts(six) /\ DOMAIN six = DOMAIN five \cup {"KeepAlive-Port"}
       /\ Says(six, "KeepAlive-Port", Number(Ports.beat))
       /\ \A h, t : Says(five, h, t) => Says(six, h, t)
  BY <1>2, <1>13, <1>14, <1>15, AddHeaderSays, Zenon
<1>17. DOMAIN six = KeyNames
  BY <1>4, <1>7, <1>10, <1>13, <1>16 DEF KeyNames
<1>18. PublicData(dh) = six
  BY <1>3, <1>5, <1>8, <1>11, <1>14 DEF PublicData
<1> QED
  BY <1>4, <1>7, <1>10, <1>13, <1>16, <1>17, <1>18, Zenon

-----------------------------------------------------------------------------
(***************************************************************************)
(* How far a login is: the inductive invariant.                            *)
(***************************************************************************)
Datagram(to, message, key) == [to |-> to, data |-> Encrypt(message, key)]

(* What is sent arrives, and is read with the key it was sent with.         *)
LEMMA SendsDatagram ==
  ASSUME NEW to, NEW message, NEW key
  PROVE  Sends(to, message, key) <=> loginNet' = Datagram(to, message, key)
BY DEF Sends, Datagram

LEMMA Arrives ==
  ASSUME NEW to, NEW message, NEW key, loginNet = Datagram(to, message, key)
  PROVE  /\ loginNet.to = to /\ Arrived(key) = message
         /\ \A other : other # key => Arrived(other) = Unreadable
<1>1. PICK data : data = Encrypt(message, key)
  OBVIOUS
<1>2. loginNet = [to |-> to, data |-> data]
  BY <1>1, Zenon DEF Datagram
<1>3. loginNet.to = to /\ loginNet.data = data
  BY <1>2
<1>4. data.message = message /\ data.key = key
  BY <1>1 DEF Encrypt
<1>5. \A k : Arrived(k) = IF k = key THEN message ELSE Unreadable
  BY <1>3, <1>4 DEF Arrived, Decrypt
<1> QED
  BY <1>3, <1>5

LEMMA NothingArrives == Nothing.to = "nobody"
BY DEF Nothing

LEMMA KeysDiffer == InitialKey # OtherKey
BY DEF InitialKey, OtherKey

(* No prime of the code is 0: nothing is divided by 0.                      *)
LEMMA PrimesArePositive == Primes \subseteq Nat \ {0}
<1> SUFFICES ASSUME NEW draw \in LoginDraws, NEW p \in GeneratePrime(draw)
             PROVE  p \in Nat \ {0}
  BY DEF Primes
<1>1. draw \in Nat /\ draw > 4
  BY LoginAssumption
<1>2. draw \div 2 \in Nat
  BY <1>1
<1>3. PICK odd : odd = 2 * (draw \div 2) + 1
  OBVIOUS
<1>4. odd \in Nat /\ odd > 0 /\ p \in odd .. 2 * odd
  BY <1>2, <1>3 DEF GeneratePrime
<1> QED
  BY <1>4

-----------------------------------------------------------------------------
PortPairs == Nat \X Nat
KeyNumbers == [generator : Nat, modulus : Nat, private : Nat, public : Nat, shared : Nat]

ServerPcs == {"listens", "exchanges", "authenticates", "logged in", "ended"}
ProgramPcs == {"start", "discovers", "greets", "exchanges", "logs in", "done"}
LoginResults == {"none", "ok", "no reply", "internal error", "incorrect credentials"}
ServerStates ==
  [pc : ServerPcs, dh : KeyNumbers, mode : LoginModes, ports : PortPairs,
   user : LoginNames \cup {LoginText("")}]
ProgramStates ==
  [pc : ProgramPcs, dh : KeyNumbers, initial : {InitialKey, OtherKey}, port : Nat,
   ports : PortPairs, session : Nat, name : LoginNames, password : LoginPasswords,
   mode : LoginModes \cup {"undefined"}, result : LoginResults]

LoginTypes == loginServer \in ServerStates /\ loginProgram \in ProgramStates

(* A side's numbers, as it draws them.                                      *)
Drawn(dh) ==
  /\ dh.modulus # 0 /\ dh.private # 0
  /\ dh.public = XpowYmodN(dh.generator, dh.private, dh.modulus)

ServerKnowsPorts == loginServer.ports = <<ProgramPorts.data, ProgramPorts.beat>>
ProgramKnowsSession ==
  loginProgram.ports = <<Ports.data, Ports.beat>> /\ loginProgram.session = SessionId
OneKey == loginServer.dh.shared = loginProgram.dh.shared

Starts == loginProgram.pc = "start" /\ loginServer.pc = "listens" /\ loginNet = Nothing

Discovers ==
  /\ loginProgram.pc = "discovers" /\ loginServer.pc = "listens"
  /\ \/ loginNet = Datagram("manager", FinalizeRequest("DISCOVERY", DiscoveryRequest),
                            loginProgram.initial)
     \/ /\ loginProgram.initial = InitialKey
        /\ loginNet = Datagram("program", FinalizeReply(DiscoveryReply), InitialKey)
     \/ loginProgram.initial = OtherKey /\ loginNet = Nothing

Greets ==
  /\ loginProgram.pc = "greets"
  /\ \/ /\ loginServer.pc = "listens"
        /\ loginNet = Datagram("manager", FinalizeRequest("HELLO", HelloRequest),
                               loginProgram.initial)
     \/ loginServer.pc = "listens" /\ loginProgram.initial = OtherKey /\ loginNet = Nothing
     \/ /\ loginServer.pc = "exchanges" /\ loginProgram.initial = InitialKey
        /\ Drawn(loginServer.dh) /\ ServerKnowsPorts
        /\ loginNet = Datagram("program", FinalizeReply(PublicData(loginServer.dh)), InitialKey)

(* The program has computed the key from a private number of its own.       *)
Computed(private) ==
  /\ loginProgram.dh.shared = XpowYmodN(loginServer.dh.public, private, loginServer.dh.modulus)
  /\ loginNet = Datagram("session",
                  FinalizeRequest("PUBLIC_DATA",
                    KeyRequest(XpowYmodN(loginServer.dh.generator, private, loginServer.dh.modulus))),
                  InitialKey)

Exchanges ==
  /\ loginProgram.pc = "exchanges" /\ loginProgram.initial = InitialKey
  /\ ServerKnowsPorts /\ ProgramKnowsSession
  /\ \/ /\ loginServer.pc = "exchanges" /\ Drawn(loginServer.dh)
        /\ \E private \in LoginPrivates : Computed(private)
     \/ /\ loginServer.pc = "authenticates" /\ OneKey
        /\ loginNet = Datagram("program", FinalizeReply(NoHeaders), Shared(loginServer.dh))

LogsIn ==
  /\ loginProgram.pc = "logs in" /\ ServerKnowsPorts /\ ProgramKnowsSession
  /\ \/ /\ loginServer.pc = "authenticates" /\ OneKey
        /\ loginNet = Datagram("session",
                        FinalizeRequest("AUTHENTICATE",
                                        NameRequest(loginProgram.name, loginProgram.password)),
                        Shared(loginServer.dh))
     \/ /\ loginServer.pc = "logged in" /\ OneKey /\ loginServer.user = Trim(loginProgram.name)
        /\ loginNet = Datagram("program", FinalizeReply(ModeReply(loginServer.mode)),
                               Shared(loginServer.dh))
     \/ loginServer.pc = "ended" /\ loginNet = Nothing /\ ~ LoginKnown

Over == loginProgram.pc = "done" /\ loginNet = Nothing /\ LoginAgrees

LoginInv ==
  /\ LoginTypes
  /\ \/ loginProgram.result = "none" /\ (Starts \/ Discovers \/ Greets \/ Exchanges \/ LogsIn)
     \/ Over

-----------------------------------------------------------------------------
(* What a step leaves of the types.                                         *)
LEMMA ProgramGoesOn ==
  ASSUME LoginTypes, NEW pc \in ProgramPcs, loginProgram' = [loginProgram EXCEPT !.pc = pc],
         UNCHANGED loginServer
  PROVE  /\ LoginTypes'
         /\ loginProgram'.pc = pc /\ loginProgram'.result = loginProgram.result
         /\ loginProgram'.initial = loginProgram.initial
         /\ loginProgram'.name = loginProgram.name /\ loginProgram'.password = loginProgram.password
         /\ loginProgram'.dh = loginProgram.dh /\ loginProgram'.ports = loginProgram.ports
         /\ loginProgram'.session = loginProgram.session
<1>1. loginProgram \in ProgramStates
  BY DEF LoginTypes
<1>2. PICK r, s : r = loginProgram /\ s = loginProgram'
  OBVIOUS
<1>3. r \in ProgramStates /\ s = [r EXCEPT !.pc = pc]
  BY <1>1, <1>2
<1>4. s \in ProgramStates
  BY <1>3 DEF ProgramStates
<1>5. s.pc = pc /\ s.result = r.result
  BY <1>3 DEF ProgramStates
<1>6. s.initial = r.initial
  BY <1>3 DEF ProgramStates
<1>7. s.name = r.name /\ s.password = r.password
  BY <1>3 DEF ProgramStates
<1>8. s.dh = r.dh
  BY <1>3 DEF ProgramStates
<1>9. s.ports = r.ports
  BY <1>3 DEF ProgramStates
<1>10. s.session = r.session
  BY <1>3 DEF ProgramStates
<1> QED
  BY <1>2, <1>4, <1>5, <1>6, <1>7, <1>8, <1>9, <1>10 DEF LoginTypes

LEMMA ProgramEnds ==
  ASSUME LoginTypes, NEW result \in LoginResults, LoginResult(result), UNCHANGED loginServer
  PROVE  /\ LoginTypes'
         /\ loginProgram'.pc = "done" /\ loginProgram'.result = result
         /\ loginProgram'.initial = loginProgram.initial
         /\ loginProgram'.name = loginProgram.name /\ loginProgram'.password = loginProgram.password
<1>1. PICK r, s : r = loginProgram /\ s = loginProgram'
  OBVIOUS
<1>2. r \in ProgramStates /\ s = [r EXCEPT !.pc = "done", !.result = result]
  BY <1>1 DEF LoginTypes, LoginResult
<1>3. s \in ProgramStates
  BY <1>2 DEF ProgramStates, ProgramPcs
<1>4. s.pc = "done"
  BY <1>2 DEF ProgramStates
<1>5. s.result = result
  BY <1>2 DEF ProgramStates
<1>6. s.initial = r.initial
  BY <1>2 DEF ProgramStates
<1>7. s.name = r.name /\ s.password = r.password
  BY <1>2 DEF ProgramStates
<1> QED
  BY <1>1, <1>3, <1>4, <1>5, <1>6, <1>7 DEF LoginTypes

LEMMA ProgramFindsPort ==
  ASSUME LoginTypes, NEW pc \in ProgramPcs, NEW port \in Nat,
         loginProgram' = [loginProgram EXCEPT !.pc = pc, !.port = port], UNCHANGED loginServer
  PROVE  /\ LoginTypes'
         /\ loginProgram'.pc = pc /\ loginProgram'.result = loginProgram.result
         /\ loginProgram'.initial = loginProgram.initial
<1>1. PICK r, s : r = loginProgram /\ s = loginProgram'
  OBVIOUS
<1>2. r \in ProgramStates /\ s = [r EXCEPT !.pc = pc, !.port = port]
  BY <1>1 DEF LoginTypes
<1>3. s \in ProgramStates
  BY <1>2 DEF ProgramStates
<1>4. s.pc = pc /\ s.result = r.result /\ s.initial = r.initial
  BY <1>2 DEF ProgramStates
<1> QED
  BY <1>1, <1>3, <1>4 DEF LoginTypes

(* The place of the program says how far the login is.                      *)
LEMMA StageOf ==
  ASSUME LoginInv
  PROVE  /\ LoginTypes
         /\ loginProgram.pc = "start" => Starts /\ loginProgram.result = "none"
         /\ loginProgram.pc = "discovers" => Discovers /\ loginProgram.result = "none"
         /\ loginProgram.pc = "greets" => Greets /\ loginProgram.result = "none"
         /\ loginProgram.pc = "exchanges" => Exchanges /\ loginProgram.result = "none"
         /\ loginProgram.pc = "logs in" => LogsIn /\ loginProgram.result = "none"
         /\ loginNet.to = "session" => loginProgram.pc \in {"exchanges", "logs in"}
<1>1. /\ loginProgram.pc = "start" => Starts /\ loginProgram.result = "none"
      /\ loginProgram.pc = "discovers" => Discovers /\ loginProgram.result = "none"
      /\ loginProgram.pc = "greets" => Greets /\ loginProgram.result = "none"
      /\ loginProgram.pc = "exchanges" => Exchanges /\ loginProgram.result = "none"
      /\ loginProgram.pc = "logs in" => LogsIn /\ loginProgram.result = "none"
      /\ loginProgram.pc = "done" => loginNet = Nothing
      /\ loginProgram.pc \in {"start", "discovers", "greets", "exchanges", "logs in", "done"}
  BY DEF LoginInv, Starts, Discovers, Greets, Exchanges, LogsIn, Over
<1>2. ASSUME loginNet.to = "session", loginProgram.pc \notin {"exchanges", "logs in"} PROVE FALSE
  <2>1. loginNet # Nothing
    BY <1>2, NothingArrives
  <2>2. ASSUME NEW to, NEW message, NEW key, loginNet = Datagram(to, message, key)
        PROVE  to = "session"
    BY <1>2, <2>2, Arrives, Zenon
  <2>3. CASE loginProgram.pc = "discovers"
    BY <1>1, <2>1, <2>2, <2>3 DEF Discovers
  <2>4. CASE loginProgram.pc = "greets"
    BY <1>1, <2>1, <2>2, <2>4 DEF Greets
  <2>5. CASE loginProgram.pc \in {"start", "done"}
    BY <1>1, <2>1, <2>5 DEF Starts
  <2> QED
    BY <1>1, <1>2, <2>3, <2>4, <2>5
<1> QED
  BY <1>1, <1>2 DEF LoginInv

(* Each step keeps the invariant.                                           *)
LEMMA StartsDiscovering ==
  LoginInv /\ LoginDiscovers => LoginInv'
<1> SUFFICES ASSUME LoginInv, LoginDiscovers PROVE LoginInv'
  OBVIOUS
<1>1. loginProgram.pc = "start" /\ loginProgram' = [loginProgram EXCEPT !.pc = "discovers"] /\ UNCHANGED loginServer
  BY DEF LoginDiscovers
<1>2. loginNet' = Datagram("manager", FinalizeRequest("DISCOVERY", DiscoveryRequest), loginProgram.initial)
  <2>1. Sends("manager", FinalizeRequest("DISCOVERY", DiscoveryRequest), loginProgram.initial)
    BY Zenon DEF LoginDiscovers, DiscoveryRequest
  <2> QED
    BY <2>1, SendsDatagram, Zenon
<1>3. Starts /\ loginProgram.result = "none"
  BY <1>1 DEF LoginInv, Discovers, Greets, Exchanges, LogsIn, Over
<1>4. LoginTypes /\ "discovers" \in ProgramPcs
  BY DEF LoginInv, ProgramPcs
<1>5. /\ LoginTypes' /\ loginProgram'.pc = "discovers"
      /\ loginProgram'.initial = loginProgram.initial /\ loginProgram'.result = "none"
  BY <1>1, <1>3, <1>4, ProgramGoesOn, Zenon
<1>6. Discovers'
  BY <1>1, <1>2, <1>3, <1>5 DEF Discovers, Starts
<1> QED
  BY <1>5, <1>6 DEF LoginInv

LEMMA ManagerAnswersDiscovery ==
  LoginInv /\ LoginServiceDiscovery => LoginInv'
<1> SUFFICES ASSUME LoginInv, LoginServiceDiscovery PROVE LoginInv'
  OBVIOUS
<1>1. /\ loginProgram.pc = "discovers" /\ loginNet.to = "manager"
      /\ UNCHANGED <<loginServer, loginProgram>>
  BY DEF LoginServiceDiscovery
<1>2. LoginTypes /\ Discovers /\ loginProgram.result = "none"
  BY <1>1, StageOf, Zenon
<1>3. loginNet = Datagram("manager", FinalizeRequest("DISCOVERY", DiscoveryRequest), loginProgram.initial)
  <2>1. loginNet # Nothing
    BY <1>1, NothingArrives
  <2>2. loginNet # Datagram("program", FinalizeReply(DiscoveryReply), InitialKey)
    <3>1. "program" # "manager"
      OBVIOUS
    <3> QED
      BY <1>1, <3>1, Arrives, Zenon
  <2> QED
    BY <1>2, <2>1, <2>2 DEF Discovers
<1>4. PICK request :
        request = ParseRequest(Arrived(InitialKey), "DISCOVERY", {"Address", "Data-Port"})
  OBVIOUS
<1>5. IF request.legal THEN loginNet' = Datagram("program", FinalizeReply(DiscoveryReply), InitialKey)
      ELSE loginNet' = Nothing
  BY <1>4, Zenon DEF LoginServiceDiscovery, DiscoveryReply, Sends, Datagram
<1>6. Discovers'
  <2>1. CASE loginProgram.initial = InitialKey
    <3>1. Arrived(InitialKey) = FinalizeRequest("DISCOVERY", DiscoveryRequest)
      BY <1>3, <2>1, Arrives, Zenon
    <3>2. {"Address", "Data-Port"} \subseteq DOMAIN DiscoveryRequest /\ HasTexts(DiscoveryRequest)
      BY DiscoverySays
    <3>3. request.legal
      BY <1>4, <3>1, <3>2, RequestRead, Zenon
    <3> QED
      BY <1>1, <1>2, <1>5, <2>1, <3>3 DEF Discovers
  <2>2. CASE loginProgram.initial # InitialKey
    <3>1. Arrived(InitialKey) = Unreadable
      BY <1>3, <2>2, Arrives, Zenon
    <3>2. ~ request.legal
      BY <1>4, <3>1, NothingRead, Zenon
    <3>3. loginProgram.initial = OtherKey
      BY <1>2, <2>2 DEF LoginTypes, ProgramStates
    <3> QED
      BY <1>1, <1>2, <1>5, <3>2, <3>3 DEF Discovers
  <2> QED
    BY <2>1, <2>2
<1>7. LoginTypes' /\ loginProgram'.result = "none"
  BY <1>1, <1>2 DEF LoginTypes
<1> QED
  BY <1>6, <1>7 DEF LoginInv

LEMMA NoReplyAgrees ==
  ASSUME LoginTypes, LoginResult("no reply"), UNCHANGED loginServer, loginNet' = Nothing,
         loginProgram.initial = OtherKey
  PROVE  LoginInv'
<1>1. "no reply" \in LoginResults
  BY DEF LoginResults
<1>2. /\ LoginTypes' /\ loginProgram'.pc = "done" /\ loginProgram'.result = "no reply"
      /\ loginProgram'.initial = OtherKey
  BY <1>1, ProgramEnds, Zenon
<1>3. LoginAgrees'
  BY <1>2 DEF LoginAgrees
<1> QED
  BY <1>2, <1>3 DEF LoginInv, Over

LEMMA ProgramFindsManager ==
  LoginInv /\ LoginDiscovered => LoginInv'
<1> SUFFICES ASSUME LoginInv, LoginDiscovered PROVE LoginInv'
  OBVIOUS
<1>1. /\ loginProgram.pc = "discovers" /\ loginNet.to # "manager"
      /\ loginNet' = Nothing /\ UNCHANGED loginServer
  BY DEF LoginDiscovered
<1>2. LoginTypes /\ Discovers /\ loginProgram.result = "none"
  BY <1>1, StageOf, Zenon
<1>3. \/ /\ loginProgram.initial = InitialKey
         /\ loginNet = Datagram("program", FinalizeReply(DiscoveryReply), InitialKey)
      \/ loginProgram.initial = OtherKey /\ loginNet = Nothing
  BY <1>1, <1>2, Arrives, Zenon DEF Discovers
<1>4. CASE loginProgram.initial = OtherKey /\ loginNet = Nothing
  <2>1. LoginResult("no reply")
    BY <1>4 DEF LoginDiscovered
  <2> QED
    BY <1>1, <1>2, <1>4, <2>1, NoReplyAgrees, Zenon
<1>5. CASE /\ loginProgram.initial = InitialKey
           /\ loginNet = Datagram("program", FinalizeReply(DiscoveryReply), InitialKey)
  <2>1. loginNet # Nothing /\ Arrived(loginProgram.initial) = FinalizeReply(DiscoveryReply)
    <3>1. "program" # "nobody"
      OBVIOUS
    <3> QED
      BY <1>5, <3>1, Arrives, NothingArrives, Zenon
  <2>2. PICK reply : reply = ParseReply(Arrived(loginProgram.initial), {"Address", "Data-Port"})
    OBVIOUS
  <2>3. {"Address", "Data-Port"} \subseteq DOMAIN DiscoveryReply /\ HasTexts(DiscoveryReply)
    BY DiscoverySays
  <2>4. reply.legal /\ Says(reply.headers, "Data-Port", Trim(Number(Ports.manager)))
    BY <2>1, <2>2, <2>3, DiscoverySays, ReplyRead, Zenon
  <2>5. ToInt(reply.headers["Data-Port"]) = Ports.manager
    BY <2>4, WordRead, Zenon DEF Says
  <2>6. loginProgram' = [loginProgram EXCEPT !.pc = "start", !.port = Ports.manager]
    BY <2>1, <2>2, <2>4, <2>5, Zenon DEF LoginDiscovered
  <2>7. "start" \in ProgramPcs /\ Ports.manager \in Nat
    BY DEF ProgramPcs, Ports
  <2>8. LoginTypes' /\ loginProgram'.pc = "start" /\ loginProgram'.result = "none"
    BY <1>1, <1>2, <2>6, <2>7, ProgramFindsPort, Zenon
  <2>9. Starts'
    BY <1>1, <1>2, <2>8 DEF Starts, Discovers
  <2> QED
    BY <2>8, <2>9 DEF LoginInv
<1> QED
  BY <1>3, <1>4, <1>5

LEMMA ProgramGreets ==
  LoginInv /\ FirstPhaseConnection => LoginInv'
<1> SUFFICES ASSUME LoginInv, FirstPhaseConnection PROVE LoginInv'
  OBVIOUS
<1>1. /\ loginProgram.pc = "start" /\ UNCHANGED loginServer
      /\ loginProgram' = [loginProgram EXCEPT !.pc = "greets", !.port = Ports.manager]
  BY DEF FirstPhaseConnection
<1>2. loginNet' = Datagram("manager", FinalizeRequest("HELLO", HelloRequest), loginProgram.initial)
  <2>1. Sends("manager", FinalizeRequest("HELLO", HelloRequest), loginProgram.initial)
    BY Zenon DEF FirstPhaseConnection, HelloRequest
  <2> QED
    BY <2>1, SendsDatagram, Zenon
<1>3. LoginTypes /\ Starts /\ loginProgram.result = "none"
  BY <1>1, StageOf, Zenon
<1>4. "greets" \in ProgramPcs /\ Ports.manager \in Nat
  BY DEF ProgramPcs, Ports
<1>5. /\ LoginTypes' /\ loginProgram'.pc = "greets" /\ loginProgram'.result = "none"
      /\ loginProgram'.initial = loginProgram.initial
  BY <1>1, <1>3, <1>4, ProgramFindsPort, Zenon
<1>6. Greets'
  BY <1>1, <1>2, <1>3, <1>5 DEF Greets, Starts
<1> QED
  BY <1>5, <1>6 DEF LoginInv

LEMMA ProgramHearsNothing ==
  LoginInv /\ NoReply => LoginInv'
<1> SUFFICES ASSUME LoginInv, NoReply PROVE LoginInv'
  OBVIOUS
<1>1. /\ loginProgram.pc = "greets" /\ loginNet = Nothing /\ LoginResult("no reply")
      /\ UNCHANGED <<loginServer, loginNet>>
  BY DEF NoReply
<1>2. LoginTypes /\ Greets
  BY <1>1, StageOf, Zenon
<1>3. loginProgram.initial = OtherKey
  <2>1. "manager" # "nobody" /\ "program" # "nobody"
    OBVIOUS
  <2> QED
    BY <1>1, <1>2, <2>1, Arrives, NothingArrives, Zenon DEF Greets
<1> QED
  BY <1>1, <1>2, <1>3, NoReplyAgrees

-----------------------------------------------------------------------------
(* The numbers that are drawn, and the key that is computed from them.      *)
LEMMA PrivateDrawn ==
  ASSUME NEW dh \in KeyNumbers, dh.modulus # 0, NEW private \in LoginPrivates
  PROVE  /\ WithPrivate(dh, private) \in KeyNumbers /\ Drawn(WithPrivate(dh, private))
         /\ WithPrivate(dh, private).generator = dh.generator
         /\ WithPrivate(dh, private).modulus = dh.modulus
         /\ WithPrivate(dh, private).private = private
<1>1. private \in Nat \ {0}
  BY LoginAssumption
<1>2. dh.generator \in Nat /\ dh.modulus \in Nat \ {0}
  BY DEF KeyNumbers
<1>3. PICK public : public = XpowYmodN(dh.generator, private, dh.modulus)
  OBVIOUS
<1>4. public \in Nat
  <2>1. public \in 0 .. dh.modulus - 1
    BY <1>1, <1>2, <1>3, PowerType, Zenon
  <2> QED
    BY <1>2, <2>1
<1>5. PICK keys : keys = [dh EXCEPT !.private = private, !.public = public]
  OBVIOUS
<1>6. keys = WithPrivate(dh, private)
  BY <1>3, <1>5, Zenon DEF WithPrivate
<1>7. keys \in KeyNumbers
  BY <1>1, <1>4, <1>5 DEF KeyNumbers
<1>8. keys.generator = dh.generator /\ keys.modulus = dh.modulus
  BY <1>5 DEF KeyNumbers
<1>9. keys.private = private /\ keys.public = public
  BY <1>5 DEF KeyNumbers
<1>10. Drawn(keys)
  BY <1>1, <1>3, <1>8, <1>9 DEF Drawn
<1> QED
  BY <1>6, <1>7, <1>8, <1>9, <1>10, Zenon

LEMMA ServerDraws ==
  ASSUME NEW p \in Primes, NEW q \in Primes, NEW private \in LoginPrivates
  PROVE  /\ CreateSenderInterKey(CreateKeys(p, q), private) \in KeyNumbers
         /\ Drawn(CreateSenderInterKey(CreateKeys(p, q), private))
<1>1. p \in Nat \ {0} /\ q \in Nat \ {0}
  BY PrimesArePositive
<1>2. PICK dh : dh = CreateKeys(p, q)
  OBVIOUS
<1>3. PICK g \in Nat, n \in Nat \ {0} :
        g = (IF p > q THEN q ELSE p) /\ n = (IF p > q THEN p ELSE q)
  BY <1>1
<1>4. dh = [NoKeys EXCEPT !.generator = g, !.modulus = n]
  BY <1>2, <1>3, Zenon DEF CreateKeys
<1>5. dh \in KeyNumbers
  BY <1>3, <1>4 DEF NoKeys, KeyNumbers
<1>6. dh.modulus # 0
  BY <1>3, <1>4 DEF NoKeys, KeyNumbers
<1> QED
  BY <1>2, <1>5, <1>6, PrivateDrawn, Zenon DEF CreateSenderInterKey

LEMMA ProgramDraws ==
  ASSUME NEW server \in KeyNumbers, server.modulus # 0, NEW private \in LoginPrivates
  PROVE  LET mine == CreateRecipientInterKey(NoKeys, private, server.generator, server.modulus)
             dh == CreateEncryptionKey(mine, server.public)
         IN /\ mine.public = XpowYmodN(server.generator, private, server.modulus)
            /\ dh \in KeyNumbers
            /\ dh.shared = XpowYmodN(server.public, private, server.modulus)
<1>1. PICK keys : keys = [NoKeys EXCEPT !.generator = server.generator, !.modulus = server.modulus]
  OBVIOUS
<1>2. keys \in KeyNumbers
  BY <1>1 DEF NoKeys, KeyNumbers
<1>3. keys.generator = server.generator /\ keys.modulus = server.modulus
  BY <1>1 DEF NoKeys, KeyNumbers
<1>4. PICK mine :
        mine = CreateRecipientInterKey(NoKeys, private, server.generator, server.modulus)
  OBVIOUS
<1>5. mine = WithPrivate(keys, private)
  BY <1>1, <1>4, Zenon DEF CreateRecipientInterKey
<1>6. /\ mine \in KeyNumbers /\ Drawn(mine)
      /\ mine.generator = server.generator /\ mine.modulus = server.modulus
      /\ mine.private = private
  BY <1>2, <1>3, <1>5, PrivateDrawn, Zenon
<1>7. mine.public = XpowYmodN(server.generator, private, server.modulus)
  BY <1>6, Zenon DEF Drawn
<1>8. PICK shared : shared = XpowYmodN(server.public, private, server.modulus)
  OBVIOUS
<1>9. shared \in Nat
  <2>1. private \in Nat \ {0} /\ server.public \in Nat /\ server.modulus \in Nat \ {0}
    BY LoginAssumption DEF KeyNumbers
  <2>2. shared \in 0 .. server.modulus - 1
    BY <1>8, <2>1, PowerType, Zenon
  <2> QED
    BY <2>1, <2>2
<1>10. PICK dh : dh = [mine EXCEPT !.shared = shared]
  OBVIOUS
<1>11. dh = CreateEncryptionKey(mine, server.public)
  BY <1>6, <1>8, <1>10, Zenon DEF CreateEncryptionKey
<1>12. dh \in KeyNumbers
  BY <1>6, <1>9, <1>10 DEF KeyNumbers
<1>13. dh.shared = shared
  BY <1>6, <1>10 DEF KeyNumbers
<1> QED
  BY <1>4, <1>7, <1>8, <1>11, <1>12, <1>13, Zenon

(* What the server computes from the program's number is the program's key. *)
LEMMA ServerComputes ==
  ASSUME NEW server \in KeyNumbers, Drawn(server), NEW private \in LoginPrivates
  PROVE  LET dh == CreateEncryptionKey(server, XpowYmodN(server.generator, private, server.modulus))
         IN /\ dh \in KeyNumbers
            /\ dh.shared = XpowYmodN(server.public, private, server.modulus)
<1>1. PICK g \in Nat, n \in Nat \ {0}, a \in Nat \ {0}, b \in Nat \ {0} :
        g = server.generator /\ n = server.modulus /\ a = server.private /\ b = private
  <2>1. server.generator \in Nat /\ server.modulus \in Nat \ {0} /\ server.private \in Nat \ {0}
    BY DEF KeyNumbers, Drawn
  <2>2. private \in Nat \ {0}
    BY LoginAssumption
  <2> QED
    BY <2>1, <2>2, Zenon
<1>2. server.public = XpowYmodN(g, a, n)
  BY <1>1, Zenon DEF Drawn
<1>3. PICK shared : shared = XpowYmodN(XpowYmodN(g, b, n), a, n)
  OBVIOUS
<1>4. shared = XpowYmodN(server.public, private, server.modulus)
  <2>1. XpowYmodN(XpowYmodN(g, a, n), b, n) = XpowYmodN(XpowYmodN(g, b, n), a, n)
    BY KeysMeet
  <2> QED
    BY <1>1, <1>2, <1>3, <2>1, Zenon
<1>5. shared \in Nat
  <2>1. XpowYmodN(g, b, n) \in 0 .. n - 1
    BY PowerType
  <2>2. XpowYmodN(g, b, n) \in Nat
    BY <2>1
  <2>3. shared \in 0 .. n - 1
    BY <1>3, <2>2, PowerType, Zenon
  <2> QED
    BY <2>3
<1>6. PICK dh : dh = [server EXCEPT !.shared = shared]
  OBVIOUS
<1>7. dh = CreateEncryptionKey(server, XpowYmodN(server.generator, private, server.modulus))
  BY <1>1, <1>3, <1>6, Zenon DEF CreateEncryptionKey
<1>8. dh \in KeyNumbers
  BY <1>5, <1>6 DEF KeyNumbers
<1>9. dh.shared = shared
  BY <1>6 DEF KeyNumbers
<1> QED
  BY <1>4, <1>7, <1>8, <1>9, Zenon

-----------------------------------------------------------------------------
Opened(server, dh, ports) ==
  [server EXCEPT !.pc = "exchanges", !.dh = dh, !.ports = ports]

LEMMA ServerOpensSession ==
  ASSUME LoginTypes, NEW dh \in KeyNumbers, NEW ports \in PortPairs,
         loginServer' = Opened(loginServer, dh, ports), UNCHANGED loginProgram
  PROVE  /\ LoginTypes'
         /\ loginServer'.pc = "exchanges" /\ loginServer'.dh = dh /\ loginServer'.ports = ports
<1>1. PICK r, s : r = loginServer /\ s = loginServer'
  OBVIOUS
<1>2. r \in ServerStates /\ s = [r EXCEPT !.pc = "exchanges", !.dh = dh, !.ports = ports]
  BY <1>1 DEF LoginTypes, Opened
<1>3. s \in ServerStates
  BY <1>2 DEF ServerStates, ServerPcs
<1>4. s.pc = "exchanges"
  BY <1>2 DEF ServerStates
<1>5. s.dh = dh
  BY <1>2 DEF ServerStates
<1>6. s.ports = ports
  BY <1>2 DEF ServerStates
<1> QED
  BY <1>1, <1>3, <1>4, <1>5, <1>6 DEF LoginTypes

LEMMA ServerStartsSession ==
  LoginInv /\ LoginHello => LoginInv'
<1> SUFFICES ASSUME LoginInv, LoginHello PROVE LoginInv'
  OBVIOUS
<1>1. /\ loginServer.pc = "listens" /\ loginProgram.pc = "greets" /\ loginNet.to = "manager"
      /\ UNCHANGED loginProgram
  BY DEF LoginHello
<1>2. LoginTypes /\ Greets /\ loginProgram.result = "none"
  BY <1>1, StageOf, Zenon
<1>3. loginNet = Datagram("manager", FinalizeRequest("HELLO", HelloRequest), loginProgram.initial)
  <2>1. loginNet # Nothing
    BY <1>1, NothingArrives
  <2>2. "listens" # "exchanges"
    OBVIOUS
  <2> QED
    BY <1>1, <1>2, <2>1, <2>2, Zenon DEF Greets
<1>4. PICK request :
        request = ParseRequest(Arrived(InitialKey), "HELLO", {"Address", "Data-Port", "KeepAlive-Port"})
  OBVIOUS
<1>5. CASE loginProgram.initial = InitialKey
  <2>1. Arrived(InitialKey) = FinalizeRequest("HELLO", HelloRequest)
    BY <1>3, <1>5, Arrives, Zenon
  <2>2. {"Address", "Data-Port", "KeepAlive-Port"} \subseteq DOMAIN HelloRequest
    BY HelloSays
  <2>3. /\ request.legal
        /\ Says(request.headers, "Data-Port", Trim(Number(ProgramPorts.data)))
        /\ Says(request.headers, "KeepAlive-Port", Trim(Number(ProgramPorts.beat)))
    BY <1>4, <2>1, <2>2, HelloSays, RequestRead, Zenon
  <2>4. /\ ToInt(request.headers["Data-Port"]) = ProgramPorts.data
        /\ ToInt(request.headers["KeepAlive-Port"]) = ProgramPorts.beat
    BY <2>3, WordRead, Zenon DEF Says
  <2>5. PICK dh :
          /\ dh \in KeyNumbers /\ Drawn(dh)
          /\ loginServer' = [loginServer EXCEPT
               !.pc = "exchanges", !.dh = dh,
               !.ports = <<ToInt(request.headers["Data-Port"]),
                           ToInt(request.headers["KeepAlive-Port"])>>]
          /\ Sends("program", FinalizeReply(PublicData(dh)), InitialKey)
    <3>1. \E p, q \in Primes, private \in LoginPrivates :
            LET dh == CreateSenderInterKey(CreateKeys(p, q), private)
            IN /\ loginServer' = [loginServer EXCEPT
                    !.pc = "exchanges", !.dh = dh,
                    !.ports = <<ToInt(request.headers["Data-Port"]),
                                ToInt(request.headers["KeepAlive-Port"])>>]
               /\ Sends("program", FinalizeReply(PublicData(dh)), InitialKey)
      BY <1>4, <2>3, Zenon DEF LoginHello
    <3> QED
      BY <3>1, ServerDraws, Zenon
  <2>6. PICK ports : ports = <<ProgramPorts.data, ProgramPorts.beat>>
    OBVIOUS
  <2>7. loginServer' = Opened(loginServer, dh, ports)
    BY <2>4, <2>5, <2>6, Zenon DEF Opened
  <2>8. ports \in PortPairs
    BY <2>6 DEF ProgramPorts, PortPairs
  <2>9. /\ LoginTypes' /\ loginServer'.pc = "exchanges"
        /\ loginServer'.dh = dh /\ loginServer'.ports = ports
    BY <1>1, <1>2, <2>5, <2>7, <2>8, ServerOpensSession, Zenon
  <2>10. loginNet' = Datagram("program", FinalizeReply(PublicData(dh)), InitialKey)
    BY <2>5, SendsDatagram, Zenon
  <2>11. LoginTypes' /\ loginProgram'.result = "none"
    BY <1>1, <1>2, <2>9
  <2>12. Greets'
    BY <1>1, <1>5, <2>5, <2>6, <2>9, <2>10 DEF Greets, ServerKnowsPorts
  <2> QED
    BY <2>11, <2>12 DEF LoginInv
<1>6. CASE loginProgram.initial # InitialKey
  <2>1. Arrived(InitialKey) = Unreadable
    BY <1>3, <1>6, Arrives, Zenon
  <2>2. ~ request.legal
    BY <1>4, <2>1, NothingRead, Zenon
  <2>3. loginNet' = Nothing /\ UNCHANGED loginServer
    BY <1>4, <2>2, Zenon DEF LoginHello
  <2>4. loginProgram.initial = OtherKey
    BY <1>2, <1>6 DEF LoginTypes, ProgramStates
  <2>5. Greets'
    BY <1>1, <2>3, <2>4 DEF Greets
  <2>6. LoginTypes' /\ loginProgram'.result = "none"
    BY <1>1, <1>2, <2>3 DEF LoginTypes
  <2> QED
    BY <2>5, <2>6 DEF LoginInv
<1> QED
  BY <1>5, <1>6

KeysTaken(program, id, ports, dh) ==
  [program EXCEPT !.pc = "exchanges", !.session = id, !.ports = ports, !.dh = dh]

LEMMA ProgramTakesKeys ==
  ASSUME LoginTypes, NEW id \in Nat, NEW ports \in PortPairs, NEW dh \in KeyNumbers,
         loginProgram' = KeysTaken(loginProgram, id, ports, dh), UNCHANGED loginServer
  PROVE  /\ LoginTypes'
         /\ loginProgram'.pc = "exchanges" /\ loginProgram'.dh = dh
         /\ loginProgram'.session = id /\ loginProgram'.ports = ports
         /\ loginProgram'.initial = loginProgram.initial
         /\ loginProgram'.result = loginProgram.result
<1>1. PICK r, s : r = loginProgram /\ s = loginProgram'
  OBVIOUS
<1>2. /\ r \in ProgramStates
      /\ s = [r EXCEPT !.pc = "exchanges", !.session = id, !.ports = ports, !.dh = dh]
  BY <1>1 DEF LoginTypes, KeysTaken
<1>3. s \in ProgramStates
  BY <1>2 DEF ProgramStates, ProgramPcs
<1>4. s.pc = "exchanges" /\ s.initial = r.initial /\ s.result = r.result
  BY <1>2 DEF ProgramStates
<1>5. s.dh = dh
  BY <1>2 DEF ProgramStates
<1>6. s.session = id
  BY <1>2 DEF ProgramStates
<1>7. s.ports = ports
  BY <1>2 DEF ProgramStates
<1> QED
  BY <1>1, <1>3, <1>4, <1>5, <1>6, <1>7 DEF LoginTypes

LEMMA ProgramOpensConnection ==
  LoginInv /\ OpenConnectionKeys => LoginInv'
<1> SUFFICES ASSUME LoginInv, OpenConnectionKeys PROVE LoginInv'
  OBVIOUS
<1>1. /\ loginProgram.pc = "greets" /\ loginNet.to = "program" /\ UNCHANGED loginServer
  BY DEF OpenConnectionKeys
<1>2. LoginTypes /\ Greets /\ loginProgram.result = "none"
  BY <1>1, StageOf, Zenon
<1>3. /\ loginServer.pc = "exchanges" /\ loginProgram.initial = InitialKey
      /\ Drawn(loginServer.dh) /\ ServerKnowsPorts
      /\ loginNet = Datagram("program", FinalizeReply(PublicData(loginServer.dh)), InitialKey)
  <2>1. loginNet # Nothing
    BY <1>1, NothingArrives
  <2>2. loginNet # Datagram("manager", FinalizeRequest("HELLO", HelloRequest), loginProgram.initial)
    <3>1. "program" # "manager"
      OBVIOUS
    <3> QED
      BY <1>1, <3>1, Arrives, Zenon
  <2> QED
    BY <1>2, <2>1, <2>2 DEF Greets
<1>4. PICK server : server = loginServer.dh
  OBVIOUS
<1>5. server \in KeyNumbers /\ server.modulus # 0
  BY <1>2, <1>3, <1>4 DEF LoginTypes, ServerStates, Drawn
<1>6. PICK reply : reply = ParseReply(Arrived(loginProgram.initial), DOMAIN PublicData(NoKeys))
  OBVIOUS
<1>7. Arrived(loginProgram.initial) = FinalizeReply(PublicData(server))
  BY <1>3, <1>4, Arrives, Zenon
<1>8. HasTexts(PublicData(server)) /\ DOMAIN PublicData(NoKeys) \subseteq DOMAIN PublicData(server)
  <2>1. /\ HasTexts(PublicData(server)) /\ DOMAIN PublicData(server) = KeyNames
        /\ DOMAIN PublicData(NoKeys) = KeyNames
    BY PublicDataSays, Zenon
  <2> QED
    BY <2>1
<1>9. /\ reply.legal
      /\ \A h, t : Says(PublicData(server), h, t) => Says(reply.headers, h, Trim(t))
  BY <1>6, <1>7, <1>8, ReplyRead, Zenon
<1>10. /\ ToInt(reply.headers["Generator"]) = server.generator
       /\ ToInt(reply.headers["Modulus"]) = server.modulus
       /\ ToInt(reply.headers["Interim"]) = server.public
       /\ ToInt(reply.headers["Session-ID"]) = SessionId
       /\ ToInt(reply.headers["Data-Port"]) = Ports.data
       /\ ToInt(reply.headers["KeepAlive-Port"]) = Ports.beat
  <2>1. ASSUME NEW h, NEW w, Says(PublicData(server), h, Number(w))
        PROVE  ToInt(reply.headers[h]) = w
    BY <1>9, <2>1, WordRead, Zenon DEF Says
  <2>2. /\ Says(PublicData(server), "Modulus", Number(server.modulus))
        /\ Says(PublicData(server), "Interim", Number(server.public))
        /\ Says(PublicData(server), "Generator", Number(server.generator))
        /\ Says(PublicData(server), "Data-Port", Number(Ports.data))
        /\ Says(PublicData(server), "Session-ID", Number(SessionId))
        /\ Says(PublicData(server), "KeepAlive-Port", Number(Ports.beat))
    BY PublicDataSays, Zenon
  <2> QED
    BY <2>1, <2>2, Zenon
<1>11. PICK private, mine :
         /\ private \in LoginPrivates
         /\ mine = CreateRecipientInterKey(NoKeys, private, ToInt(reply.headers["Generator"]),
                                           ToInt(reply.headers["Modulus"]))
         /\ loginProgram' = [loginProgram EXCEPT
              !.pc = "exchanges", !.session = ToInt(reply.headers["Session-ID"]),
              !.ports = <<ToInt(reply.headers["Data-Port"]),
                          ToInt(reply.headers["KeepAlive-Port"])>>,
              !.dh = CreateEncryptionKey(mine, ToInt(reply.headers["Interim"]))]
         /\ Sends("session", FinalizeRequest("PUBLIC_DATA", KeyRequest(mine.public)),
                  loginProgram.initial)
  <2>1. \E private \in LoginPrivates :
          LET mine == CreateRecipientInterKey(NoKeys, private, ToInt(reply.headers["Generator"]),
                                              ToInt(reply.headers["Modulus"]))
          IN /\ loginProgram' = [loginProgram EXCEPT
                  !.pc = "exchanges", !.session = ToInt(reply.headers["Session-ID"]),
                  !.ports = <<ToInt(reply.headers["Data-Port"]),
                              ToInt(reply.headers["KeepAlive-Port"])>>,
                  !.dh = CreateEncryptionKey(mine, ToInt(reply.headers["Interim"]))]
             /\ Sends("session",
                      FinalizeRequest("PUBLIC_DATA",
                        AddHeader(AddHeader(NoHeaders, "Interim", Number(mine.public)),
                                  "Client-Type", Number(1))),
                      loginProgram.initial)
    BY <1>6, <1>9, Zenon DEF OpenConnectionKeys
  <2> QED
    BY <2>1, Zenon DEF KeyRequest
<1>12. PICK dh : dh = CreateEncryptionKey(mine, server.public)
  OBVIOUS
<1>13. PICK ports : ports = <<Ports.data, Ports.beat>>
  OBVIOUS
<1>14. loginProgram' = KeysTaken(loginProgram, SessionId, ports, dh)
  BY <1>10, <1>11, <1>12, <1>13, Zenon DEF KeysTaken
<1>15. /\ private \in LoginPrivates
       /\ mine = CreateRecipientInterKey(NoKeys, private, server.generator, server.modulus)
  BY <1>10, <1>11, Zenon
<1>16. /\ mine.public = XpowYmodN(server.generator, private, server.modulus)
       /\ dh \in KeyNumbers /\ dh.shared = XpowYmodN(server.public, private, server.modulus)
  BY <1>5, <1>12, <1>15, ProgramDraws, Zenon
<1>17. ports \in PortPairs /\ SessionId \in Nat
  BY <1>13 DEF Ports, PortPairs, SessionId
<1>18. /\ LoginTypes'
       /\ loginProgram'.pc = "exchanges" /\ loginProgram'.dh = dh
       /\ loginProgram'.session = SessionId /\ loginProgram'.ports = ports
       /\ loginProgram'.initial = InitialKey /\ loginProgram'.result = "none"
  BY <1>1, <1>2, <1>3, <1>14, <1>16, <1>17, ProgramTakesKeys, Zenon
<1>19. loginNet' = Datagram("session", FinalizeRequest("PUBLIC_DATA", KeyRequest(mine.public)), InitialKey)
  BY <1>3, <1>11, SendsDatagram, Zenon
<1>20. loginServer'.dh = server /\ loginServer'.pc = "exchanges" /\ ServerKnowsPorts'
  BY <1>1, <1>3, <1>4 DEF ServerKnowsPorts
<1>21. Computed(private)'
  BY <1>16, <1>18, <1>19, <1>20, Zenon DEF Computed
<1>22. Drawn(loginServer.dh)' /\ ProgramKnowsSession'
  BY <1>3, <1>4, <1>13, <1>18, <1>20, Zenon DEF Drawn, ProgramKnowsSession
<1>23. Exchanges'
  BY <1>11, <1>18, <1>20, <1>21, <1>22, Zenon DEF Exchanges
<1> QED
  BY <1>18, <1>23 DEF LoginInv

LEMMA ServerHasKey ==
  ASSUME LoginTypes, NEW pc \in ServerPcs, NEW dh \in KeyNumbers,
         loginServer' = [loginServer EXCEPT !.pc = pc, !.dh = dh], UNCHANGED loginProgram
  PROVE  /\ LoginTypes' /\ loginServer'.pc = pc /\ loginServer'.dh = dh
         /\ loginServer'.ports = loginServer.ports
<1>1. PICK r, s : r = loginServer /\ s = loginServer'
  OBVIOUS
<1>2. r \in ServerStates /\ s = [r EXCEPT !.pc = pc, !.dh = dh]
  BY <1>1 DEF LoginTypes
<1>3. s \in ServerStates
  BY <1>2 DEF ServerStates
<1>4. s.pc = pc
  BY <1>2 DEF ServerStates
<1>5. s.dh = dh
  BY <1>2 DEF ServerStates
<1>6. s.ports = r.ports
  BY <1>2 DEF ServerStates
<1> QED
  BY <1>1, <1>3, <1>4, <1>5, <1>6 DEF LoginTypes

LEMMA ServerSharesKey ==
  LoginInv /\ LoginExchangesKeys => LoginInv'
<1> SUFFICES ASSUME LoginInv, LoginExchangesKeys PROVE LoginInv'
  OBVIOUS
<1>1. /\ loginServer.pc = "exchanges" /\ loginNet.to = "session" /\ UNCHANGED loginProgram
  BY DEF LoginExchangesKeys
<1>2. LoginTypes /\ Exchanges /\ loginProgram.result = "none"
  <2>1. ~ LogsIn
    BY <1>1 DEF LogsIn
  <2> QED
    BY <1>1, <2>1, StageOf
<1>3. /\ Drawn(loginServer.dh) /\ \E private \in LoginPrivates : Computed(private)
      /\ loginProgram.pc = "exchanges" /\ loginProgram.initial = InitialKey
      /\ ServerKnowsPorts /\ ProgramKnowsSession
  BY <1>1, <1>2 DEF Exchanges
<1>4. PICK private, public, server :
        /\ private \in LoginPrivates /\ Computed(private) /\ server = loginServer.dh
        /\ public = XpowYmodN(server.generator, private, server.modulus)
  BY <1>3, Zenon
<1>5. server \in KeyNumbers /\ Drawn(server)
  BY <1>2, <1>3, <1>4 DEF LoginTypes, ServerStates
<1>6. PICK request :
        request = ParseRequest(Arrived(InitialKey), "PUBLIC_DATA", {"Client-Type", "Interim"})
  OBVIOUS
<1>7. Arrived(InitialKey) = FinalizeRequest("PUBLIC_DATA", KeyRequest(public))
  BY <1>4, Arrives, Zenon DEF Computed
<1>8. HasTexts(KeyRequest(public)) /\ {"Client-Type", "Interim"} \subseteq DOMAIN KeyRequest(public)
  BY KeySays
<1>9. request.legal /\ Says(request.headers, "Interim", Trim(Number(public)))
  BY <1>6, <1>7, <1>8, KeySays, RequestRead, Zenon
<1>10. ToInt(request.headers["Interim"]) = public
  BY <1>9, WordRead, Zenon DEF Says
<1>11. PICK dh : dh = CreateEncryptionKey(server, public)
  OBVIOUS
<1>12. /\ loginServer' = [loginServer EXCEPT !.pc = "authenticates", !.dh = dh]
       /\ Sends("program", FinalizeReply(NoHeaders), Shared(dh))
  BY <1>4, <1>6, <1>9, <1>10, <1>11, Zenon DEF LoginExchangesKeys
<1>13. dh \in KeyNumbers /\ dh.shared = XpowYmodN(server.public, private, server.modulus)
  BY <1>4, <1>5, <1>11, ServerComputes, Zenon
<1>14. "authenticates" \in ServerPcs
  BY DEF ServerPcs
<1>15. /\ LoginTypes' /\ loginServer'.pc = "authenticates" /\ loginServer'.dh = dh
       /\ loginServer'.ports = loginServer.ports
  BY <1>1, <1>2, <1>12, <1>13, <1>14, ServerHasKey, Zenon
<1>16. loginNet' = Datagram("program", FinalizeReply(NoHeaders), Shared(dh))
  BY <1>12, SendsDatagram, Zenon
<1>17. OneKey'
  BY <1>1, <1>4, <1>13, <1>15, Zenon DEF OneKey, Computed
<1>18. Exchanges'
  BY <1>1, <1>3, <1>15, <1>16, <1>17 DEF Exchanges, ServerKnowsPorts, ProgramKnowsSession
<1> QED
  BY <1>1, <1>2, <1>15, <1>18 DEF LoginInv

LEMMA ProgramLogsIn ==
  LoginInv /\ OpenConnectionLogin => LoginInv'
<1> SUFFICES ASSUME LoginInv, OpenConnectionLogin PROVE LoginInv'
  OBVIOUS
<1>1. /\ loginProgram.pc = "exchanges" /\ loginNet.to # "session" /\ UNCHANGED loginServer
  BY DEF OpenConnectionLogin
<1>2. LoginTypes /\ Exchanges /\ loginProgram.result = "none"
  BY <1>1, StageOf, Zenon
<1>3. /\ loginServer.pc = "authenticates" /\ OneKey
      /\ loginNet = Datagram("program", FinalizeReply(NoHeaders), Shared(loginServer.dh))
      /\ ServerKnowsPorts /\ ProgramKnowsSession
  <2>1. ASSUME NEW private, Computed(private) PROVE FALSE
    BY <1>1, <2>1, Arrives, Zenon DEF Computed
  <2> QED
    BY <1>2, <2>1, Zenon DEF Exchanges
<1>4. Shared(loginServer.dh) = Shared(loginProgram.dh)
  BY <1>3 DEF OneKey, Shared
<1>5. loginNet.to = "program" /\ Arrived(Shared(loginProgram.dh)) = FinalizeReply(NoHeaders)
  BY <1>3, <1>4, Arrives, Zenon
<1>6. ParseReply(Arrived(Shared(loginProgram.dh)), {}).legal
  <2>1. HasTexts(NoHeaders) /\ {} \subseteq DOMAIN NoHeaders
    BY NoHeadersSay
  <2> QED
    BY <1>5, <2>1, ReplyRead, Zenon
<1>7. /\ loginProgram' = [loginProgram EXCEPT !.pc = "logs in"]
      /\ Sends("session",
               FinalizeRequest("AUTHENTICATE", NameRequest(loginProgram.name, loginProgram.password)),
               Shared(loginProgram.dh))
  BY <1>5, <1>6, Zenon DEF OpenConnectionLogin, NameRequest
<1>8. "logs in" \in ProgramPcs
  BY DEF ProgramPcs
<1>9. /\ LoginTypes'
      /\ loginProgram'.pc = "logs in" /\ loginProgram'.result = "none"
      /\ loginProgram'.name = loginProgram.name /\ loginProgram'.password = loginProgram.password
      /\ loginProgram'.dh = loginProgram.dh /\ loginProgram'.ports = loginProgram.ports
      /\ loginProgram'.session = loginProgram.session
  BY <1>1, <1>2, <1>7, <1>8, ProgramGoesOn, Zenon
<1>10. loginNet' = Datagram("session",
                     FinalizeRequest("AUTHENTICATE",
                                     NameRequest(loginProgram.name, loginProgram.password)),
                     Shared(loginServer.dh))
  BY <1>4, <1>7, SendsDatagram, Zenon
<1>11. LogsIn'
  <2>1. OneKey' /\ ServerKnowsPorts' /\ ProgramKnowsSession'
    BY <1>1, <1>3, <1>9 DEF OneKey, ServerKnowsPorts, ProgramKnowsSession
  <2> QED
    BY <1>1, <1>3, <1>9, <1>10, <2>1 DEF LogsIn
<1> QED
  BY <1>9, <1>11 DEF LoginInv

LEMMA ServerTakesUser ==
  ASSUME LoginTypes, NEW user \in LoginNames,
         loginServer' = [loginServer EXCEPT !.pc = "logged in", !.user = user],
         UNCHANGED loginProgram
  PROVE  /\ LoginTypes' /\ loginServer'.pc = "logged in" /\ loginServer'.user = user
         /\ loginServer'.dh = loginServer.dh /\ loginServer'.ports = loginServer.ports
         /\ loginServer'.mode = loginServer.mode
<1>1. PICK r, s : r = loginServer /\ s = loginServer'
  OBVIOUS
<1>2. r \in ServerStates /\ s = [r EXCEPT !.pc = "logged in", !.user = user]
  BY <1>1 DEF LoginTypes
<1>3. s \in ServerStates
  BY <1>2 DEF ServerStates, ServerPcs
<1>4. s.pc = "logged in"
  BY <1>2 DEF ServerStates
<1>5. s.user = user
  BY <1>2 DEF ServerStates
<1>6. s.dh = r.dh
  BY <1>2 DEF ServerStates
<1>7. s.ports = r.ports
  BY <1>2 DEF ServerStates
<1>8. s.mode = r.mode
  BY <1>2 DEF ServerStates
<1> QED
  BY <1>1, <1>3, <1>4, <1>5, <1>6, <1>7, <1>8 DEF LoginTypes

LEMMA ServerEnds ==
  ASSUME LoginTypes, SessionEnds, UNCHANGED loginProgram
  PROVE  /\ LoginTypes' /\ loginServer'.pc = "ended" /\ loginNet' = Nothing
         /\ loginServer'.ports = loginServer.ports
<1>1. PICK r, s : r = loginServer /\ s = loginServer'
  OBVIOUS
<1>2. r \in ServerStates /\ s = [r EXCEPT !.pc = "ended"]
  BY <1>1 DEF LoginTypes, SessionEnds
<1>3. s \in ServerStates
  BY <1>2 DEF ServerStates, ServerPcs
<1>4. s.pc = "ended"
  BY <1>2 DEF ServerStates
<1>5. s.ports = r.ports
  BY <1>2 DEF ServerStates
<1> QED
  BY <1>1, <1>3, <1>4, <1>5 DEF LoginTypes, SessionEnds

LEMMA ServerAuthenticates ==
  LoginInv /\ LoginAuthenticates => LoginInv'
<1> SUFFICES ASSUME LoginInv, LoginAuthenticates PROVE LoginInv'
  OBVIOUS
<1>1. /\ loginServer.pc = "authenticates" /\ loginNet.to = "session" /\ UNCHANGED loginProgram
  BY DEF LoginAuthenticates
<1>2. LoginTypes /\ LogsIn /\ loginProgram.result = "none"
  <2>1. loginNet # Datagram("program", FinalizeReply(NoHeaders), Shared(loginServer.dh))
    <3>1. "program" # "session"
      OBVIOUS
    <3> QED
      BY <1>1, <3>1, Arrives, Zenon
  <2>2. ~ Exchanges
    BY <1>1, <2>1 DEF Exchanges
  <2> QED
    BY <1>1, <2>2, StageOf
<1>3. PICK name, password : name = loginProgram.name /\ password = loginProgram.password
  OBVIOUS
<1>4. /\ loginNet = Datagram("session", FinalizeRequest("AUTHENTICATE", NameRequest(name, password)),
                             Shared(loginServer.dh))
      /\ OneKey /\ loginProgram.pc = "logs in" /\ ServerKnowsPorts /\ ProgramKnowsSession
  BY <1>1, <1>2, <1>3 DEF LogsIn
<1>5. IsText(name) /\ IsText(password)
  <2>1. name \in LoginNames /\ password \in LoginPasswords
    BY <1>2, <1>3 DEF LoginTypes, ProgramStates
  <2> QED
    BY <2>1, LoginAssumption, Zenon DEF IsText
<1>6. PICK request :
        request = ParseRequest(Arrived(Shared(loginServer.dh)), "AUTHENTICATE", {"User-Name", "Password"})
  OBVIOUS
<1>7. Arrived(Shared(loginServer.dh)) = FinalizeRequest("AUTHENTICATE", NameRequest(name, password))
  BY <1>4, Arrives, Zenon
<1>8. /\ HasTexts(NameRequest(name, password))
      /\ {"User-Name", "Password"} \subseteq DOMAIN NameRequest(name, password)
      /\ Says(NameRequest(name, password), "User-Name", name)
      /\ Says(NameRequest(name, password), "Password", password)
  BY <1>5, NameSays
<1>9. /\ request.legal
      /\ Says(request.headers, "User-Name", Trim(name))
      /\ Says(request.headers, "Password", Trim(password))
  BY <1>6, <1>7, <1>8, RequestRead, Zenon
<1>10. request.headers["User-Name"] = Trim(name) /\ request.headers["Password"] = Trim(password)
  BY <1>9, Zenon DEF Says
<1>11. LoginKnown <=> AuthenticateUser(Trim(name), Trim(password))
  BY <1>3, Zenon DEF LoginKnown
<1>12. LoginKnown' <=> LoginKnown
  BY <1>1 DEF LoginKnown
<1>13. CASE LoginKnown
  <2>1. /\ loginServer' = [loginServer EXCEPT !.pc = "logged in", !.user = Trim(name)]
        /\ Sends("program", FinalizeReply(ModeReply(loginServer.mode)), Shared(loginServer.dh))
    BY <1>6, <1>9, <1>10, <1>11, <1>13, Zenon DEF LoginAuthenticates, ModeReply
  <2>2. Trim(name) \in LoginNames
    BY <1>11, <1>13, LoginAssumption DEF AuthenticateUser
  <2>3. /\ LoginTypes' /\ loginServer'.pc = "logged in" /\ loginServer'.user = Trim(name)
        /\ loginServer'.dh = loginServer.dh /\ loginServer'.ports = loginServer.ports
        /\ loginServer'.mode = loginServer.mode
    BY <1>1, <1>2, <2>1, <2>2, ServerTakesUser, Zenon
  <2>4. loginNet' = Datagram("program", FinalizeReply(ModeReply(loginServer.mode)), Shared(loginServer.dh))
    BY <2>1, SendsDatagram, Zenon
  <2>5. OneKey' /\ ServerKnowsPorts' /\ ProgramKnowsSession'
    BY <1>1, <1>4, <2>3 DEF OneKey, ServerKnowsPorts, ProgramKnowsSession
  <2>6. loginServer'.user = Trim(loginProgram'.name)
    BY <1>1, <1>3, <2>3, Zenon
  <2>7. LogsIn'
    BY <1>1, <1>4, <2>3, <2>4, <2>5, <2>6 DEF LogsIn
  <2> QED
    BY <1>1, <1>2, <2>3, <2>7 DEF LoginInv
<1>14. CASE ~ LoginKnown
  <2>1. SessionEnds
    BY <1>6, <1>9, <1>10, <1>11, <1>14, Zenon DEF LoginAuthenticates
  <2>2. /\ LoginTypes' /\ loginServer'.pc = "ended" /\ loginNet' = Nothing
        /\ loginServer'.ports = loginServer.ports
    BY <1>1, <1>2, <2>1, ServerEnds, Zenon
  <2>3. ServerKnowsPorts' /\ ProgramKnowsSession'
    BY <1>1, <1>4, <2>2 DEF ServerKnowsPorts, ProgramKnowsSession
  <2>4. LogsIn'
    BY <1>1, <1>4, <1>12, <1>14, <2>2, <2>3 DEF LogsIn
  <2> QED
    BY <1>1, <1>2, <2>2, <2>4 DEF LoginInv
<1> QED
  BY <1>13, <1>14

LEMMA ProgramConnects ==
  ASSUME LoginTypes, NEW mode \in LoginModes, UNCHANGED loginServer,
         loginProgram' = [loginProgram EXCEPT !.pc = "done", !.result = "ok", !.mode = mode]
  PROVE  /\ LoginTypes' /\ loginProgram'.pc = "done" /\ loginProgram'.result = "ok"
         /\ loginProgram'.mode = mode /\ loginProgram'.name = loginProgram.name
         /\ loginProgram'.dh = loginProgram.dh /\ loginProgram'.ports = loginProgram.ports
         /\ loginProgram'.session = loginProgram.session
<1>1. PICK r, s : r = loginProgram /\ s = loginProgram'
  OBVIOUS
<1>2. r \in ProgramStates /\ s = [r EXCEPT !.pc = "done", !.result = "ok", !.mode = mode]
  BY <1>1 DEF LoginTypes
<1>3. s \in ProgramStates
  BY <1>2 DEF ProgramStates, ProgramPcs, LoginResults
<1>4. s.pc = "done" /\ s.result = "ok"
  BY <1>2 DEF ProgramStates
<1>5. s.mode = mode
  BY <1>2 DEF ProgramStates
<1>6. s.name = r.name
  BY <1>2 DEF ProgramStates
<1>7. s.dh = r.dh
  BY <1>2 DEF ProgramStates
<1>8. s.ports = r.ports
  BY <1>2 DEF ProgramStates
<1>9. s.session = r.session
  BY <1>2 DEF ProgramStates
<1> QED
  BY <1>1, <1>3, <1>4, <1>5, <1>6, <1>7, <1>8, <1>9 DEF LoginTypes

LEMMA ProgramLearnsResult ==
  LoginInv /\ AuthenticateReturns => LoginInv'
<1> SUFFICES ASSUME LoginInv, AuthenticateReturns PROVE LoginInv'
  OBVIOUS
<1>1. /\ loginProgram.pc = "logs in" /\ loginNet.to # "session" /\ loginNet' = Nothing
      /\ UNCHANGED loginServer
  BY DEF AuthenticateReturns
<1>2. LoginTypes /\ LogsIn /\ loginProgram.result = "none"
  BY <1>1, StageOf, Zenon
<1>3. PICK reply : reply = ParseReply(Arrived(Shared(loginProgram.dh)), {"Mode"})
  OBVIOUS
<1>4. \/ /\ loginServer.pc = "logged in" /\ OneKey /\ loginServer.user = Trim(loginProgram.name)
         /\ loginNet = Datagram("program", FinalizeReply(ModeReply(loginServer.mode)),
                                Shared(loginServer.dh))
         /\ ServerKnowsPorts /\ ProgramKnowsSession
      \/ loginServer.pc = "ended" /\ loginNet = Nothing /\ ~ LoginKnown
  BY <1>1, <1>2, Arrives, Zenon DEF LogsIn
<1>5. CASE /\ loginServer.pc = "logged in" /\ OneKey /\ loginServer.user = Trim(loginProgram.name)
           /\ loginNet = Datagram("program", FinalizeReply(ModeReply(loginServer.mode)),
                                  Shared(loginServer.dh))
           /\ ServerKnowsPorts /\ ProgramKnowsSession
  <2>1. PICK mode : mode = loginServer.mode
    OBVIOUS
  <2>2. mode \in LoginModes
    BY <1>2, <2>1 DEF LoginTypes, ServerStates
  <2>3. Shared(loginServer.dh) = Shared(loginProgram.dh)
    BY <1>5 DEF OneKey, Shared
  <2>4. loginNet.to = "program" /\ Arrived(Shared(loginProgram.dh)) = FinalizeReply(ModeReply(mode))
    BY <1>5, <2>1, <2>3, Arrives, Zenon
  <2>5. /\ HasTexts(ModeReply(mode)) /\ {"Mode"} \subseteq DOMAIN ModeReply(mode)
        /\ Says(ModeReply(mode), "Mode", Number(mode))
    BY ModeSays
  <2>6. reply.legal /\ Says(reply.headers, "Mode", Trim(Number(mode)))
    BY <1>3, <2>4, <2>5, ReplyRead, Zenon
  <2>7. ToInt(reply.headers["Mode"]) = mode
    BY <2>6, WordRead, Zenon DEF Says
  <2>8. loginProgram' = [loginProgram EXCEPT !.pc = "done", !.result = "ok", !.mode = mode]
    BY <1>3, <2>4, <2>6, <2>7, Zenon DEF AuthenticateReturns
  <2>9. /\ LoginTypes' /\ loginProgram'.pc = "done" /\ loginProgram'.result = "ok"
        /\ loginProgram'.mode = mode /\ loginProgram'.name = loginProgram.name
        /\ loginProgram'.dh = loginProgram.dh /\ loginProgram'.ports = loginProgram.ports
        /\ loginProgram'.session = loginProgram.session
    BY <1>1, <1>2, <2>2, <2>8, ProgramConnects, Zenon
  <2>10. LoginAgrees'
    BY <1>1, <1>5, <2>1, <2>9 DEF LoginAgrees, OneKey, ServerKnowsPorts, ProgramKnowsSession
  <2> QED
    BY <1>1, <2>9, <2>10 DEF LoginInv, Over
<1>6. CASE loginServer.pc = "ended" /\ loginNet = Nothing /\ ~ LoginKnown
  <2>1. loginNet.to # "program"
    BY <1>6, NothingArrives
  <2>2. LoginResult("incorrect credentials")
    BY <1>3, <2>1, Zenon DEF AuthenticateReturns
  <2>3. "incorrect credentials" \in LoginResults
    BY DEF LoginResults
  <2>4. /\ LoginTypes' /\ loginProgram'.pc = "done"
        /\ loginProgram'.result = "incorrect credentials"
        /\ loginProgram'.name = loginProgram.name /\ loginProgram'.password = loginProgram.password
    BY <1>1, <1>2, <2>2, <2>3, ProgramEnds, Zenon
  <2>5. ~ LoginKnown'
    BY <1>6, <2>4 DEF LoginKnown
  <2>6. LoginAgrees'
    BY <2>4, <2>5 DEF LoginAgrees
  <2> QED
    BY <1>1, <2>4, <2>6 DEF LoginInv, Over
<1> QED
  BY <1>4, <1>5, <1>6

LEMMA LoginInvAtFirst ==
  LoginInit => LoginInv
<1> SUFFICES ASSUME LoginInit PROVE LoginInv
  OBVIOUS
<1>1. NoKeys \in KeyNumbers /\ <<0, 0>> \in PortPairs
  BY DEF NoKeys, KeyNumbers, PortPairs
<1>2. PICK none : none = <<0, 0>>
  OBVIOUS
<1>3. loginServer \in ServerStates /\ loginServer.pc = "listens"
  BY <1>1, <1>2 DEF LoginInit, ServerStates, ServerPcs
<1>4. PICK i \in {InitialKey, OtherKey}, n \in LoginNames, w \in LoginPasswords :
        loginProgram = [pc |-> "start", dh |-> NoKeys, initial |-> i, port |-> 0, ports |-> none,
                        session |-> 0, name |-> n, password |-> w, mode |-> "undefined",
                        result |-> "none"]
  <2>1. loginProgram \in [pc : {"start"}, dh : {NoKeys}, initial : {InitialKey, OtherKey},
                          port : {0}, ports : {none}, session : {0},
                          name : LoginNames, password : LoginPasswords,
                          mode : {"undefined"}, result : {"none"}]
    BY <1>2, Zenon DEF LoginInit
  <2> QED
    BY <2>1
<1>5. loginProgram \in ProgramStates
  BY <1>1, <1>2, <1>4 DEF ProgramStates, ProgramPcs, LoginResults
<1>6. loginProgram.pc = "start" /\ loginProgram.result = "none"
  BY <1>4
<1> QED
  BY <1>3, <1>5, <1>6 DEF LoginInv, LoginTypes, Starts, LoginInit

LEMMA LoginStepKeepsInv ==
  LoginInv /\ [LoginNext]_loginVars => LoginInv'
<1> SUFFICES ASSUME LoginInv, [LoginNext]_loginVars PROVE LoginInv'
  OBVIOUS
<1>1. CASE LoginDiscovers
  BY <1>1, StartsDiscovering
<1>2. CASE LoginServiceDiscovery
  BY <1>2, ManagerAnswersDiscovery
<1>3. CASE LoginDiscovered
  BY <1>3, ProgramFindsManager
<1>4. CASE FirstPhaseConnection
  BY <1>4, ProgramGreets
<1>5. CASE LoginHello
  BY <1>5, ServerStartsSession
<1>6. CASE NoReply
  BY <1>6, ProgramHearsNothing
<1>7. CASE OpenConnectionKeys
  BY <1>7, ProgramOpensConnection
<1>8. CASE LoginExchangesKeys
  BY <1>8, ServerSharesKey
<1>9. CASE OpenConnectionLogin
  BY <1>9, ProgramLogsIn
<1>10. CASE LoginAuthenticates
  BY <1>10, ServerAuthenticates
<1>11. CASE AuthenticateReturns
  BY <1>11, ProgramLearnsResult
<1>12. CASE UNCHANGED loginVars
  <2>1. loginServer' = loginServer /\ loginProgram' = loginProgram /\ loginNet' = loginNet
    BY <1>12 DEF loginVars
  <2>2. (LoginTypes' <=> LoginTypes) /\ (Starts' <=> Starts)
    BY <2>1 DEF LoginTypes, Starts
  <2>3. (Discovers' <=> Discovers) /\ (Greets' <=> Greets)
    BY <2>1 DEF Discovers, Greets, ServerKnowsPorts
  <2>4. Exchanges' <=> Exchanges
    BY <2>1, Zenon DEF Exchanges, Computed, OneKey, ServerKnowsPorts, ProgramKnowsSession
  <2>5. LogsIn' <=> LogsIn
    BY <2>1 DEF LogsIn, OneKey, ServerKnowsPorts, ProgramKnowsSession, LoginKnown
  <2>6. Over' <=> Over
    BY <2>1 DEF Over, LoginAgrees, LoginKnown
  <2> QED
    BY <2>1, <2>2, <2>3, <2>4, <2>5, <2>6 DEF LoginInv
<1> QED
  BY <1>1, <1>2, <1>3, <1>4, <1>5, <1>6, <1>7, <1>8, <1>9, <1>10, <1>11, <1>12 DEF LoginNext

(* Whatever both sides draw and whoever the users are, the messages of a    *)
(* login make both sides agree: a program that is told that it is connected *)
(* shares the key, the ports, the session, the user and the mode with the   *)
(* server; only an unknown user is refused, only another initial key is not *)
(* answered, and no message is unreadable (OpenConnection, ExchangeKeys,    *)
(* Authenticate, HttpParser.cpp, DiffieHellman.cpp).                        *)
THEOREM LoginAlwaysAgrees ==
  LoginInit /\ [][LoginNext]_loginVars => []LoginAgrees
<1>1. LoginInv => LoginAgrees
  BY DEF LoginInv, Over, LoginAgrees
<1> QED
  BY <1>1, LoginInvAtFirst, LoginStepKeepsInv, PTL

-----------------------------------------------------------------------------
(* The maps.                                                                *)

(* A map that holds some of what another one does.                          *)
Part(whole, keys) == [k \in keys |-> whole[k]]

(* What a map of some keys to some values is, and how one is made.           *)
LEMMA MapsAre ==
  ASSUME NEW keys, NEW values, NEW f \in Maps(keys, values)
  PROVE  /\ f \in [DOMAIN f -> values] /\ DOMAIN f \subseteq keys /\ IsFiniteSet(DOMAIN f)
         /\ \A k \in DOMAIN f : f[k] \in values
<1>1. PICK s : s \in SUBSET keys /\ IsFiniteSet(s) /\ f \in [s -> values]
  BY DEF Maps
<1>2. DOMAIN f = s
  BY <1>1
<1>3. QED BY <1>1, <1>2

LEMMA MapsMade ==
  ASSUME NEW keys, NEW values, NEW s \in SUBSET keys, IsFiniteSet(s), NEW f \in [s -> values]
  PROVE  f \in Maps(keys, values)
BY DEF Maps

(* Nothing that the console does to a map takes it out of the maps.          *)
LEMMA InsertKept ==
  ASSUME NEW keys, NEW values, NEW f \in Maps(keys, values), NEW k \in keys, NEW v \in values
  PROVE  Insert(f, k, v) \in Maps(keys, values)
<1>1. /\ f \in [DOMAIN f -> values] /\ DOMAIN f \subseteq keys /\ IsFiniteSet(DOMAIN f)
      /\ \A x \in DOMAIN f : f[x] \in values
  BY MapsAre
<1>2. DOMAIN f \cup {k} \in SUBSET keys /\ IsFiniteSet(DOMAIN f \cup {k})
  BY <1>1, FS_AddElement
<1>3. Insert(f, k, v) \in [DOMAIN f \cup {k} -> values]
  BY <1>1 DEF Insert
<1>4. QED BY ONLY <1>2, <1>3, MapsMade

LEMMA EraseKept ==
  ASSUME NEW keys, NEW values, NEW f \in Maps(keys, values), NEW k
  PROVE  Erase(f, k) \in Maps(keys, values)
<1>1. /\ f \in [DOMAIN f -> values] /\ DOMAIN f \subseteq keys /\ IsFiniteSet(DOMAIN f)
      /\ \A x \in DOMAIN f : f[x] \in values
  BY MapsAre
<1>2. DOMAIN f \ {k} \in SUBSET keys /\ IsFiniteSet(DOMAIN f \ {k})
  BY <1>1, FS_RemoveElement
<1>3. Erase(f, k) \in [DOMAIN f \ {k} -> values]
  BY <1>1 DEF Erase
<1>4. QED BY ONLY <1>2, <1>3, MapsMade

LEMMA ChangeKept ==
  ASSUME NEW keys, NEW values, NEW f \in Maps(keys, values), NEW k \in DOMAIN f, NEW v \in values
  PROVE  [f EXCEPT ![k] = v] \in Maps(keys, values) /\ DOMAIN [f EXCEPT ![k] = v] = DOMAIN f
<1>1. f \in [DOMAIN f -> values] /\ DOMAIN f \subseteq keys /\ IsFiniteSet(DOMAIN f)
  BY MapsAre
<1>2. [f EXCEPT ![k] = v] \in [DOMAIN f -> values]
  BY <1>1
<1>3. [f EXCEPT ![k] = v] \in Maps(keys, values)
  BY ONLY <1>1, <1>2, MapsMade
<1>4. QED BY <1>3

LEMMA EmptyKept ==
  ASSUME NEW keys, NEW values
  PROVE  Empty \in Maps(keys, values)
<1>1. {} \in SUBSET keys /\ IsFiniteSet({})
  BY FS_EmptySet
<1>2. Empty \in [{} -> values]
  BY DEF Empty
<1>3. QED BY ONLY <1>1, <1>2, MapsMade

(* What is inserted from a whole makes a larger part of it.                 *)
LEMMA PartGrows ==
  ASSUME NEW whole, NEW keys, NEW k
  PROVE  Insert(Part(whole, keys), k, whole[k]) = Part(whole, keys \cup {k})
<1>1. DOMAIN Part(whole, keys) = keys /\ \A x \in keys : Part(whole, keys)[x] = whole[x]
  BY DEF Part
<1>2. Insert(Part(whole, keys), k, whole[k])
        = [x \in keys \cup {k} |-> IF x \in keys THEN Part(whole, keys)[x] ELSE whole[k]]
  BY <1>1 DEF Insert
<1>3. \A x \in keys \cup {k} :
        (IF x \in keys THEN Part(whole, keys)[x] ELSE whole[k]) = whole[x]
  BY <1>1
<1>4. [x \in keys \cup {k} |-> IF x \in keys THEN Part(whole, keys)[x] ELSE whole[k]]
        = [x \in keys \cup {k} |-> whole[x]]
  BY <1>3
<1>5. QED BY <1>2, <1>4 DEF Part

LEMMA PartWhole ==
  ASSUME NEW keys, NEW values, NEW f \in Maps(keys, values)
  PROVE  Part(f, DOMAIN f) = f
<1>1. f \in [DOMAIN f -> values]
  BY MapsAre
<1>2. QED BY <1>1 DEF Part

LEMMA PartNone ==
  ASSUME NEW whole
  PROVE  Part(whole, {}) = Empty
BY DEF Part, Empty

(* A listing names everything.                                              *)
LEMMA Listed ==
  ASSUME NEW S, IsFiniteSet(S)
  PROVE  /\ Cardinality(S) \in Nat
         /\ Listing(S) \in [1 .. Cardinality(S) -> S]
         /\ \A x \in S : \E i \in 1 .. Cardinality(S) : Listing(S)[i] = x
<1>1. Cardinality(S) \in Nat /\ ExistsBijection(1 .. Cardinality(S), S)
  BY FS_CardinalityType
<1>2. PICK list \in [1 .. Cardinality(S) -> S] :
        \A x \in S : \E i \in 1 .. Cardinality(S) : list[i] = x
  BY <1>1, Zenon DEF ExistsBijection, Bijection, Surjection
<1>3. QED BY <1>1, <1>2, Zenon DEF Listing

(* What of a set the first places of a listing name.                        *)
Named(S, n) == {Listing(S)[i] : i \in 1 .. n}

(* The first places name one more with each place, and in the end all.       *)
LEMMA NamedSteps ==
  ASSUME NEW S, IsFiniteSet(S)
  PROVE  /\ Named(S, 0) = {} /\ Named(S, Cardinality(S)) = S
         /\ \A n \in 1 .. Cardinality(S) :
              Named(S, n) = Named(S, n - 1) \cup {Listing(S)[n]} /\ Listing(S)[n] \in S
<1>1. /\ Cardinality(S) \in Nat
      /\ Listing(S) \in [1 .. Cardinality(S) -> S]
      /\ \A x \in S : \E i \in 1 .. Cardinality(S) : Listing(S)[i] = x
  BY Listed
<1>2. Named(S, 0) = {}
  <2>1. 1 .. 0 = {}
    OBVIOUS
  <2>2. QED BY <2>1 DEF Named
<1>3. Named(S, Cardinality(S)) = S
  BY <1>1, Zenon DEF Named
<1>4. ASSUME NEW n \in 1 .. Cardinality(S)
      PROVE  Named(S, n) = Named(S, n - 1) \cup {Listing(S)[n]} /\ Listing(S)[n] \in S
  <2>1. 1 .. n = (1 .. n - 1) \cup {n}
    BY <1>1
  <2>2. Named(S, n) = Named(S, n - 1) \cup {Listing(S)[n]}
    BY <2>1, Zenon DEF Named
  <2>3. QED BY <1>1, <2>2, Zenon
<1>5. QED BY <1>2, <1>3, <1>4, Zenon

-----------------------------------------------------------------------------
(* Reading a file.                                                          *)

(* Reading the lines takes the one state to the other.                      *)
Reads(from, lines, to) ==
  \E state : /\ state[0] = from /\ state[Len(lines)] = to
             /\ \A n \in 1 .. Len(lines) : state[n] = LoadLine(state[n - 1], lines[n])

(* Reading one line, and reading on.                                         *)
LEMMA ReadsOne ==
  ASSUME NEW from, NEW line
  PROVE  Reads(from, <<line>>, LoadLine(from, line))
<1>1. PICK to : to = LoadLine(from, line)
  OBVIOUS
<1>2. PICK lines : lines = <<line>>
  OBVIOUS
<1>3. Len(lines) = 1 /\ lines[1] = line
  BY <1>2
<1> DEFINE state == [n \in 0 .. 1 |-> IF n = 0 THEN from ELSE to]
<1>4. state[0] = from /\ state[1] = to
  OBVIOUS
<1> HIDE DEF state
<1>5. \A n \in 1 .. 1 : state[n] = LoadLine(state[n - 1], lines[n])
  <2>1. SUFFICES ASSUME NEW n \in 1 .. 1 PROVE state[n] = LoadLine(state[n - 1], lines[n])
    BY Zenon
  <2>2. n = 1 /\ n - 1 = 0
    OBVIOUS
  <2>3. QED BY <1>1, <1>3, <1>4, <2>2
<1>6. Reads(from, lines, to)
  BY <1>3, <1>4, <1>5, Zenon DEF Reads
<1>7. QED BY ONLY <1>1, <1>2, <1>6

LEMMA ReadsBoth ==
  ASSUME NEW L, NEW a \in Seq(L), NEW b \in Seq(L), NEW from, NEW between, NEW to,
         Reads(from, a, between), Reads(between, b, to)
  PROVE  Reads(from, a \o b, to)
<1>1. PICK f : /\ f[0] = from /\ f[Len(a)] = between
               /\ \A n \in 1 .. Len(a) : f[n] = LoadLine(f[n - 1], a[n])
  BY Zenon DEF Reads
<1>2. PICK g : /\ g[0] = between /\ g[Len(b)] = to
               /\ \A n \in 1 .. Len(b) : g[n] = LoadLine(g[n - 1], b[n])
  BY Zenon DEF Reads
<1>3. PICK m \in Nat, l \in Nat : m = Len(a) /\ l = Len(b)
  BY LenProperties
<1>4. PICK c : c = a \o b
  OBVIOUS
<1>5. /\ Len(c) = m + l /\ \A n \in 1 .. m : c[n] = a[n]
      /\ \A n \in 1 .. m + l : n > m => c[n] = b[n - m]
  BY <1>3, <1>4
<1> DEFINE h == [n \in 0 .. m + l |-> IF n <= m THEN f[n] ELSE g[n - m]]
<1>6. \A n \in 0 .. m : h[n] = f[n]
  BY <1>3
<1>7. \A n \in 0 .. m + l : n >= m => h[n] = g[n - m]
  <2>1. SUFFICES ASSUME NEW n \in 0 .. m + l, n >= m PROVE h[n] = g[n - m]
    OBVIOUS
  <2>2. CASE n = m
    <3>1. h[n] = f[m] /\ n - m = 0
      BY <1>3, <2>2
    <3>2. QED BY ONLY <3>1, <1>1, <1>2, <1>3, Zenon
  <2>3. CASE n > m
    BY <1>3, <2>3
  <2>4. QED BY <1>3, <2>1, <2>2, <2>3
<1> HIDE DEF h
<1>8. h[0] = from /\ h[m + l] = to
  <2>1. 0 \in 0 .. m /\ m + l \in 0 .. m + l /\ m + l >= m /\ m + l - m = l
    BY <1>3
  <2>2. h[0] = f[0] /\ h[m + l] = g[m + l - m]
    BY ONLY <2>1, <1>6, <1>7
  <2>3. QED BY ONLY <2>1, <2>2, <1>1, <1>2, <1>3, Zenon
<1>9. \A n \in 1 .. m + l : h[n] = LoadLine(h[n - 1], c[n])
  <2>1. SUFFICES ASSUME NEW n \in 1 .. m + l PROVE h[n] = LoadLine(h[n - 1], c[n])
    BY Zenon
  <2>2. CASE n <= m
    <3>1. n \in 1 .. m /\ n \in 0 .. m /\ n - 1 \in 0 .. m
      BY <1>3, <2>1, <2>2
    <3>2. h[n] = f[n] /\ h[n - 1] = f[n - 1] /\ c[n] = a[n]
      BY ONLY <3>1, <1>5, <1>6, Zenon
    <3>3. f[n] = LoadLine(f[n - 1], a[n])
      BY ONLY <3>1, <1>1, <1>3, Zenon
    <3>4. QED BY ONLY <3>2, <3>3, Zenon
  <2>3. CASE n > m
    <3>1. /\ n \in 0 .. m + l /\ n >= m /\ n - 1 \in 0 .. m + l /\ n - 1 >= m /\ n - m \in 1 .. l
          /\ n - 1 - m = n - m - 1
      BY <1>3, <2>1, <2>3
    <3>2. h[n] = g[n - m] /\ h[n - 1] = g[n - 1 - m] /\ c[n] = b[n - m]
      BY ONLY <2>1, <2>3, <3>1, <1>5, <1>7, Zenon
    <3>3. g[n - m] = LoadLine(g[n - m - 1], b[n - m])
      BY ONLY <3>1, <1>2, <1>3, Zenon
    <3>4. QED BY ONLY <3>1, <3>2, <3>3, Zenon
  <2>4. QED BY <1>3, <2>1, <2>2, <2>3
<1>10. Reads(from, c, to)
  BY ONLY <1>5, <1>8, <1>9, Zenon DEF Reads
<1>11. QED BY ONLY <1>4, <1>10

(* What the lines are read as is what Load finds.                           *)
LEMMA ReadsLoad ==
  ASSUME NEW L, NEW file \in Seq(L), NEW to, Reads(NotLoaded, file, to)
  PROVE  LoadLines(file)[Len(file)] = to
<1>1. PICK g : /\ g[0] = NotLoaded /\ g[Len(file)] = to
               /\ \A n \in 1 .. Len(file) : g[n] = LoadLine(g[n - 1], file[n])
  BY Zenon DEF Reads
<1>2. PICK m \in Nat : m = Len(file)
  BY LenProperties
<1> DEFINE Step(f) == [n \in 0 .. m |-> IF n = 0 THEN NotLoaded ELSE LoadLine(f[n - 1], file[n])]
           h == [n \in 0 .. m |-> g[n]]
<1>3. \A n \in 0 .. m : (IF n = 0 THEN NotLoaded ELSE LoadLine(h[n - 1], file[n])) = g[n]
  <2>1. SUFFICES ASSUME NEW n \in 0 .. m
                 PROVE  (IF n = 0 THEN NotLoaded ELSE LoadLine(h[n - 1], file[n])) = g[n]
    BY Zenon
  <2>2. CASE n = 0
    BY <1>1, <2>2, Zenon
  <2>3. CASE n # 0
    <3>1. n \in 1 .. m /\ n - 1 \in 0 .. m
      BY <1>2, <2>1, <2>3
    <3>2. h[n - 1] = g[n - 1]
      BY <3>1
    <3> HIDE DEF h
    <3>3. g[n] = LoadLine(g[n - 1], file[n])
      BY <3>1, <1>1, <1>2, Zenon
    <3>4. QED BY <2>3, <3>2, <3>3, Zenon
  <2>4. QED BY <2>2, <2>3, Zenon
<1>4. h = Step(h)
  <2>1. Step(h) = [n \in 0 .. m |-> g[n]]
    BY ONLY <1>3, Zenon
  <2>2. QED BY <2>1, Zenon
<1>5. LoadLines(file) = CHOOSE f : f = Step(f)
  BY <1>2, Zenon DEF LoadLines
<1>6. PICK f : f = LoadLines(file) /\ f = Step(f)
  <2> HIDE DEF h, Step
  <2>1. QED BY <1>4, <1>5, Zenon
<1>7. f[0] = NotLoaded /\ \A n \in 1 .. m : f[n] = LoadLine(f[n - 1], file[n])
  <2>1. f = [n \in 0 .. m |-> IF n = 0 THEN NotLoaded ELSE LoadLine(f[n - 1], file[n])]
    BY <1>6, Zenon
  <2>2. 0 \in 0 .. m /\ \A n \in 1 .. m : n \in 0 .. m /\ n # 0
    BY <1>2
  <2>3. QED BY ONLY <2>1, <2>2, Zenon
<1> DEFINE Bad == {n \in 0 .. m : f[n] # g[n]}
<1>8. Bad = {}
  <2> SUFFICES ASSUME Bad # {} PROVE FALSE
    OBVIOUS
  <2>1. PICK z \in Bad : \A w \in Bad : z <= w
    <3>1. Bad \subseteq Nat
      BY <1>2
    <3> HIDE DEF Bad
    <3> QED BY <3>1, LeastNumber
  <2>2. z \in 0 .. m /\ f[z] # g[z]
    BY Zenon
  <2>3. z # 0
    BY <2>2, <1>1, <1>7, Zenon
  <2>4. z \in 1 .. m /\ z - 1 \in 0 .. m /\ ~ (z <= z - 1)
    BY <1>2, <2>2, <2>3
  <2>5. f[z - 1] = g[z - 1]
    BY <2>1, <2>4, Zenon
  <2>6. f[z] = LoadLine(f[z - 1], file[z]) /\ g[z] = LoadLine(g[z - 1], file[z])
    BY <1>1, <1>2, <1>7, <2>4, Zenon
  <2> QED BY ONLY <2>2, <2>5, <2>6, Zenon
<1>9. m \in 0 .. m
  BY <1>2
<1>10. f[m] = g[m]
  BY <1>8, <1>9, Zenon
<1>11. QED BY ONLY <1>1, <1>2, <1>6, <1>10, Zenon

-----------------------------------------------------------------------------
(* The parts of a line.                                                     *)

(* The order of three places.                                               *)
LEMMA ThreeAscend ==
  ASSUME NEW p \in Nat, NEW q \in Nat, 1 < p, p < q
  PROVE  /\ Cardinality({1, p, q}) = 3
         /\ Ascending({1, p, q})[1] = 1 /\ Ascending({1, p, q})[2] = p
         /\ Ascending({1, p, q})[3] = q
<1>1. Cardinality({1, p, q}) = 3
  <2>1. IsFiniteSet({1}) /\ Cardinality({1}) = 1
    BY FS_Singleton
  <2>2. IsFiniteSet({1} \cup {p}) /\ Cardinality({1} \cup {p}) = 2
    BY <2>1, FS_AddElement
  <2>3. Cardinality(({1} \cup {p}) \cup {q}) = 3
    BY <2>2, FS_AddElement
  <2>4. ({1} \cup {p}) \cup {q} = {1, p, q}
    OBVIOUS
  <2>5. QED BY <2>3, <2>4
<1>2. PICK S : S = {1, p, q}
  OBVIOUS
<1> DEFINE Ascends(list) == \A i, j \in 1 .. 3 : i < j => list[i] < list[j]
<1>3. \E list \in [1 .. 3 -> S] : Ascends(list)
  <2> DEFINE list == [i \in 1 .. 3 |-> IF i = 1 THEN 1 ELSE IF i = 2 THEN p ELSE q]
  <2>1. list \in [1 .. 3 -> S]
    BY <1>2
  <2>2. list[1] = 1 /\ list[2] = p /\ list[3] = q
    OBVIOUS
  <2> HIDE DEF list
  <2>3. Ascends(list)
    BY <2>2
  <2>4. QED BY <2>1, <2>3, Zenon
<1>4. Ascending(S) = CHOOSE list \in [1 .. 3 -> S] : Ascends(list)
  BY <1>1, <1>2, Zenon DEF Ascending
<1>5. PICK list \in [1 .. 3 -> S] : list = Ascending(S) /\ Ascends(list)
  <2> HIDE DEF Ascends
  <2>1. QED BY <1>3, <1>4, Zenon
<1>6. list[1] < list[2] /\ list[2] < list[3] /\ list[1] < list[3]
  BY <1>5
<1>7. list[1] \in S /\ list[2] \in S /\ list[3] \in S
  BY <1>5
<1>8. list[1] = 1 /\ list[2] = p /\ list[3] = q
  BY ONLY <1>2, <1>6, <1>7, p \in Nat, q \in Nat, 1 < p, p < q
<1>9. QED BY <1>1, <1>2, <1>5, <1>8, Zenon

(* A part ends before the next colon.                                       *)
LEMMA PartEnds ==
  ASSUME NEW s, NEW begin \in Nat, NEW end \in begin .. Len(s),
         \A i \in begin .. end : s[i] # Colon, end = Len(s) \/ s[end + 1] = Colon,
         Len(s) \in Nat
  PROVE  PartEnd(s, begin) = end
<1> DEFINE Ends(e) == (\A i \in begin .. e : s[i] # Colon) /\ (e = Len(s) \/ s[e + 1] = Colon)
<1>1. Ends(end)
  OBVIOUS
<1>2. PICK e \in begin .. Len(s) : e = PartEnd(s, begin) /\ Ends(e)
  <2>1. PartEnd(s, begin) = CHOOSE e \in begin .. Len(s) : Ends(e)
    BY Zenon DEF PartEnd
  <2> HIDE DEF Ends
  <2>2. QED BY <1>1, <2>1, Zenon
<1>3. ~ (e < end)
  <2> SUFFICES ASSUME e < end PROVE FALSE
    OBVIOUS
  <2>1. e # Len(s) /\ e + 1 \in begin .. end
    OBVIOUS
  <2>2. QED BY <1>2, <2>1
<1>4. ~ (end < e)
  <2> SUFFICES ASSUME end < e PROVE FALSE
    OBVIOUS
  <2>1. end # Len(s) /\ end + 1 \in begin .. e
    OBVIOUS
  <2>2. QED BY <1>2, <2>1
<1>5. QED BY <1>2, <1>3, <1>4

(* Two colons make three parts.                                             *)
LEMMA ThreeParts ==
  ASSUME NEW W, NEW s \in Seq(W), NEW a \in Nat, NEW b \in Nat, 1 < a, a + 1 < b, b < Len(s),
         s[a] = Colon, s[b] = Colon, \A i \in 1 .. Len(s) : i # a /\ i # b => s[i] # Colon
  PROVE  /\ Len(Tokens(s)) = 3
         /\ Tokens(s)[1] = SubSeq(s, 1, a - 1)
         /\ Tokens(s)[2] = SubSeq(s, a + 1, b - 1)
         /\ Tokens(s)[3] = SubSeq(s, b + 1, Len(s))
<1>0. PICK m \in Nat : m = Len(s)
  BY LenProperties
<1>1. PICK p \in Nat, q \in Nat : p = a + 1 /\ q = b + 1 /\ 1 < p /\ p < q
  OBVIOUS
<1>2. PartBegins(s) = {1, p, q}
  <2>1. \A i \in 1 .. m : s[i] # Colon <=> i # a /\ i # b
    BY <1>0
  <2>2. \A i \in 1 .. m : i # 1 => i - 1 \in 1 .. m
    BY <1>0
  <2>3. \A i \in 1 .. m :
          s[i] # Colon /\ (i = 1 \/ s[i - 1] = Colon) <=> i = 1 \/ i = p \/ i = q
    BY <1>0, <1>1, <2>1, <2>2
  <2>4. 1 \in 1 .. m /\ p \in 1 .. m /\ q \in 1 .. m
    BY <1>0, <1>1
  <2>5. QED BY <1>0, <2>3, <2>4 DEF PartBegins
<1>3. PICK list : list = Ascending({1, p, q})
  OBVIOUS
<1>4. Cardinality({1, p, q}) = 3 /\ list[1] = 1 /\ list[2] = p /\ list[3] = q
  <2>1. /\ Cardinality({1, p, q}) = 3
        /\ Ascending({1, p, q})[1] = 1 /\ Ascending({1, p, q})[2] = p
        /\ Ascending({1, p, q})[3] = q
    BY <1>1, ThreeAscend
  <2>2. QED BY ONLY <1>3, <2>1, Zenon
<1>5. PartEnd(s, 1) = a - 1
  <2>1. a - 1 \in 1 .. Len(s) /\ s[(a - 1) + 1] = Colon /\ Len(s) \in Nat
    BY <1>0
  <2>2. \A i \in 1 .. a - 1 : s[i] # Colon
    BY <1>0
  <2>3. QED BY <2>1, <2>2, PartEnds
<1>6. PartEnd(s, p) = b - 1
  <2>1. b - 1 \in p .. Len(s) /\ s[(b - 1) + 1] = Colon /\ Len(s) \in Nat
    BY <1>0, <1>1
  <2>2. \A i \in p .. b - 1 : s[i] # Colon
    BY <1>0, <1>1
  <2>3. QED BY <2>1, <2>2, PartEnds
<1>7. PartEnd(s, q) = m
  <2>1. m \in q .. Len(s) /\ m = Len(s) /\ Len(s) \in Nat
    BY <1>0, <1>1
  <2>2. \A i \in q .. m : s[i] # Colon
    BY <1>0, <1>1
  <2>3. QED BY <2>1, <2>2, PartEnds
<1>8. Tokens(s) = [k \in 1 .. 3 |-> SubSeq(s, list[k], PartEnd(s, list[k]))]
  BY ONLY <1>2, <1>3, <1>4, Zenon DEF Tokens
<1>9. PICK t : t = Tokens(s)
  OBVIOUS
<1>10. /\ t[1] = SubSeq(s, list[1], PartEnd(s, list[1]))
       /\ t[2] = SubSeq(s, list[2], PartEnd(s, list[2]))
       /\ t[3] = SubSeq(s, list[3], PartEnd(s, list[3]))
  <2>1. 1 \in 1 .. 3 /\ 2 \in 1 .. 3 /\ 3 \in 1 .. 3
    OBVIOUS
  <2>2. QED BY ONLY <1>8, <1>9, <2>1, Zenon
<1>11. Len(t) = 3
  <2>1. PICK X : X = {SubSeq(s, list[k], PartEnd(s, list[k])) : k \in 1 .. 3}
    BY ONLY Zenon
  <2>2. t \in [1 .. 3 -> X]
    BY ONLY <1>8, <1>9, <2>1, Zenon
  <2>3. QED BY ONLY <2>2
<1>12. QED BY ONLY <1>0, <1>1, <1>4, <1>5, <1>6, <1>7, <1>9, <1>10, <1>11, Zenon

(* A text without blanks at its ends is not trimmed.                        *)
LEMMA TrimsNothing ==
  ASSUME NEW W, NEW s \in Seq(W), s # <<>>, s[1] # Gap, s[Len(s)] # Gap
  PROVE  TrimText(s) = s
<1>1. PICK m \in Nat : m = Len(s) /\ m > 0
  BY LenProperties, EmptySeq
<1>2. PICK kept : kept = {i \in 1 .. m : s[i] # Gap}
  OBVIOUS
<1>3. 1 \in kept /\ m \in kept /\ \A i \in kept : i \in Int /\ 1 <= i /\ i <= m
  BY <1>1, <1>2
<1>4. (CHOOSE i \in kept : \A j \in kept : i <= j) = 1
  <2>1. PICK i \in kept : i = (CHOOSE k \in kept : \A j \in kept : k <= j) /\ \A j \in kept : i <= j
    BY ONLY <1>3, Zenon
  <2>2. QED BY <1>3, <2>1
<1>5. (CHOOSE i \in kept : \A j \in kept : j <= i) = m
  <2>1. PICK i \in kept : i = (CHOOSE k \in kept : \A j \in kept : j <= k) /\ \A j \in kept : j <= i
    BY ONLY <1>3, Zenon
  <2>2. i <= m /\ m <= i /\ i \in Int
    BY <1>3, <2>1
  <2>3. QED BY <1>1, <2>1, <2>2
<1>6. kept # {}
  BY <1>3
<1>7. TrimText(s) = SubSeq(s, 1, m)
  BY ONLY <1>1, <1>2, <1>4, <1>5, <1>6, Zenon DEF TrimText
<1>8. SubSeq(s, 1, m) = s
  BY <1>1
<1>9. QED BY <1>7, <1>8

-----------------------------------------------------------------------------
(* The lines, one by one.                                                   *)

(* What is assumed of the texts, the addresses and the values.              *)
LEMMA TextFacts ==
  ASSUME NEW text \in Texts
  PROVE  \E W : /\ text \in Seq(W) /\ Len(text) \in Nat /\ Len(text) >= 1
                /\ \A i \in 1 .. Len(text) : text[i] # Colon
                /\ text[1] # Gap /\ text[Len(text)] # Gap /\ text[Len(text)] # Bracket
<1>1. StorableText(text)
  BY SmsMappingsAssumption, Zenon DEF Texts
<1>2. PICK W : W = {text[i] : i \in DOMAIN text}
  OBVIOUS
<1>3. text \in Seq(W) /\ text # <<>>
  BY <1>1, <1>2, Zenon DEF StorableText
<1>4. Len(text) \in Nat /\ Len(text) >= 1 /\ DOMAIN text = 1 .. Len(text)
  BY <1>3, LenProperties, EmptySeq
<1>5. /\ \A i \in 1 .. Len(text) : text[i] # Colon
      /\ text[1] # Gap /\ text[Len(text)] # Gap /\ text[Len(text)] # Bracket
  BY <1>1, <1>4 DEF StorableText
<1>6. QED BY <1>3, <1>4, <1>5, Zenon

LEMMA WordFacts ==
  ASSUME NEW word \in SmsAddresses \cup SmsValues
  PROVE  word # Colon /\ word # Gap /\ word # Bracket
BY SmsMappingsAssumption

(* The body of a line that is read without an exception.                    *)
Legal(body) == TrimText(body) = body /\ Len(Tokens(body)) = 3 /\ body[Len(body)] # Bracket

(* The two kinds of bodies, and what is read from them.                     *)
AlertIs(body, a, v, text) == body = <<a, Colon, v, Colon>> \o text
CommandIs(body, a, v, text) == body = text \o <<Colon, v, Colon, a>>

LEMMA AlertBody ==
  ASSUME NEW a \in SmsAddresses, NEW v \in SmsValues, NEW text \in Texts, NEW body,
         AlertIs(body, a, v, text)
  PROVE  /\ Legal(body) /\ Tokens(body)[1][1] = a /\ Tokens(body)[2][1] = v
         /\ Tokens(body)[3] = text
<1>1. PICK V : /\ text \in Seq(V) /\ Len(text) \in Nat /\ Len(text) >= 1
               /\ \A i \in 1 .. Len(text) : text[i] # Colon
               /\ text[1] # Gap /\ text[Len(text)] # Gap /\ text[Len(text)] # Bracket
  BY TextFacts
<1>2. a # Colon /\ a # Gap /\ v # Colon
  BY WordFacts
<1>3. PICK W : V \subseteq W /\ a \in W /\ v \in W /\ Colon \in W
  <2>1. V \subseteq V \cup {a, v, Colon} /\ {a, v, Colon} \subseteq V \cup {a, v, Colon}
    OBVIOUS
  <2>2. QED BY <2>1
<1>4. PICK h \in Seq(W) : /\ h = <<a, Colon, v, Colon>> /\ Len(h) = 4
                          /\ h[1] = a /\ h[2] = Colon /\ h[3] = v /\ h[4] = Colon
  <2>1. PICK h : h = <<a, Colon, v, Colon>>
    BY ONLY Zenon
  <2>2. h \in Seq(W) /\ Len(h) = 4 /\ h[1] = a /\ h[2] = Colon /\ h[3] = v /\ h[4] = Colon
    BY ONLY <1>3, <2>1
  <2>3. QED BY ONLY <2>1, <2>2, Zenon
<1>5. text \in Seq(W)
  BY <1>1, <1>3, SeqMonotonic
<1>6. PICK m \in Nat : m = Len(text) /\ m >= 1
  BY <1>1
<1>7. /\ body \in Seq(W) /\ Len(body) = 4 + m
      /\ \A i \in 1 .. 4 : body[i] = h[i]
      /\ \A i \in 1 .. m : body[4 + i] = text[i]
  <2>1. body = h \o text
    BY <1>4, Zenon DEF AlertIs
  <2>2. QED BY <1>4, <1>5, <1>6, <2>1
<1>8. /\ body[1] = a /\ body[2] = Colon /\ body[3] = v /\ body[4] = Colon
      /\ body[Len(body)] = text[Len(text)]
  BY <1>4, <1>6, <1>7
<1>9. \A i \in 1 .. Len(body) : i # 2 /\ i # 4 => body[i] # Colon
  <2>1. SUFFICES ASSUME NEW i \in 1 .. Len(body), i # 2, i # 4 PROVE body[i] # Colon
    OBVIOUS
  <2>2. CASE i <= 4
    BY <1>2, <1>8, <2>1, <2>2
  <2>3. CASE i > 4
    <3>1. i - 4 \in 1 .. m /\ 4 + (i - 4) = i
      BY <1>6, <1>7, <2>1, <2>3
    <3>2. body[i] = text[i - 4]
      BY <1>7, <3>1
    <3>3. QED BY <1>1, <1>6, <3>1, <3>2
  <2>4. QED BY <1>6, <1>7, <2>1, <2>2, <2>3
<1>10. /\ Len(Tokens(body)) = 3
       /\ Tokens(body)[1] = SubSeq(body, 1, 1)
       /\ Tokens(body)[2] = SubSeq(body, 3, 3)
       /\ Tokens(body)[3] = SubSeq(body, 5, Len(body))
  <2>1. PICK p \in Nat, q \in Nat : p = 2 /\ q = 4
    OBVIOUS
  <2>2. 1 < p /\ p + 1 < q /\ q < Len(body)
    BY <1>6, <1>7, <2>1
  <2>3. body[p] = Colon /\ body[q] = Colon
    BY ONLY <1>8, <2>1
  <2>4. \A i \in 1 .. Len(body) : i # p /\ i # q => body[i] # Colon
    BY ONLY <1>9, <2>1
  <2>5. /\ Len(Tokens(body)) = 3
        /\ Tokens(body)[1] = SubSeq(body, 1, p - 1)
        /\ Tokens(body)[2] = SubSeq(body, p + 1, q - 1)
        /\ Tokens(body)[3] = SubSeq(body, q + 1, Len(body))
    BY <1>7, <2>2, <2>3, <2>4, ThreeParts
  <2>6. p - 1 = 1 /\ p + 1 = 3 /\ q - 1 = 3 /\ q + 1 = 5
    BY <2>1
  <2>7. QED BY ONLY <2>5, <2>6, Zenon
<1>11. SubSeq(body, 1, 1)[1] = a /\ SubSeq(body, 3, 3)[1] = v
  BY <1>6, <1>7, <1>8
<1>12. SubSeq(body, 5, Len(body)) = text
  <2>1. PICK r \in Seq(W) : /\ r = SubSeq(body, 5, Len(body)) /\ Len(r) = m
                            /\ \A i \in 1 .. m : r[i] = body[4 + i]
    <3>1. PICK r : r = SubSeq(body, 5, Len(body))
      BY ONLY Zenon
    <3>2. body \in Seq(W) /\ Len(body) = 4 + m /\ m \in Nat
      BY <1>7
    <3>3. r \in Seq(W) /\ Len(r) = m
      BY ONLY <3>1, <3>2
    <3>4. \A i \in 1 .. m : r[i] = body[4 + i]
      BY ONLY <3>1, <3>2
    <3>5. QED BY ONLY <3>1, <3>3, <3>4, Zenon
  <2>2. \A i \in 1 .. Len(r) : r[i] = text[i]
    BY <1>7, <2>1
  <2>3. QED BY <1>5, <1>6, <2>1, <2>2, SeqEqual
<1>13. TrimText(body) = body
  <2>1. body # <<>>
    BY <1>6, <1>7
  <2>2. QED BY <1>1, <1>2, <1>7, <1>8, <2>1, TrimsNothing
<1>14. QED BY <1>1, <1>8, <1>10, <1>11, <1>12, <1>13, Zenon DEF Legal

LEMMA CommandBody ==
  ASSUME NEW a \in SmsAddresses, NEW v \in SmsValues, NEW text \in Texts, NEW body,
         CommandIs(body, a, v, text)
  PROVE  /\ Legal(body) /\ Tokens(body)[1] = text /\ Tokens(body)[2][1] = v
         /\ Tokens(body)[3][1] = a
<1>1. PICK V : /\ text \in Seq(V) /\ Len(text) \in Nat /\ Len(text) >= 1
               /\ \A i \in 1 .. Len(text) : text[i] # Colon
               /\ text[1] # Gap /\ text[Len(text)] # Gap /\ text[Len(text)] # Bracket
  BY TextFacts
<1>2. a # Colon /\ a # Gap /\ a # Bracket /\ v # Colon
  BY WordFacts
<1>3. PICK W : V \subseteq W /\ a \in W /\ v \in W /\ Colon \in W
  <2>1. V \subseteq V \cup {a, v, Colon} /\ {a, v, Colon} \subseteq V \cup {a, v, Colon}
    OBVIOUS
  <2>2. QED BY <2>1
<1>4. PICK h \in Seq(W) : /\ h = <<Colon, v, Colon, a>> /\ Len(h) = 4
                          /\ h[1] = Colon /\ h[2] = v /\ h[3] = Colon /\ h[4] = a
  <2>1. PICK h : h = <<Colon, v, Colon, a>>
    BY ONLY Zenon
  <2>2. h \in Seq(W) /\ Len(h) = 4 /\ h[1] = Colon /\ h[2] = v /\ h[3] = Colon /\ h[4] = a
    BY ONLY <1>3, <2>1
  <2>3. QED BY ONLY <2>1, <2>2, Zenon
<1>5. text \in Seq(W)
  BY <1>1, <1>3, SeqMonotonic
<1>6. PICK m \in Nat : m = Len(text) /\ m >= 1
  BY <1>1
<1>7. /\ body \in Seq(W) /\ Len(body) = m + 4
      /\ \A i \in 1 .. m : body[i] = text[i]
      /\ \A i \in 1 .. 4 : body[m + i] = h[i]
  <2>1. body = text \o h
    BY <1>4, Zenon DEF CommandIs
  <2>2. QED BY <1>4, <1>5, <1>6, <2>1
<1>8. /\ body[m + 1] = Colon /\ body[m + 2] = v /\ body[m + 3] = Colon /\ body[m + 4] = a
      /\ body[Len(body)] = a /\ body[1] = text[1]
  BY <1>4, <1>6, <1>7
<1>9. \A i \in 1 .. Len(body) : i # m + 1 /\ i # m + 3 => body[i] # Colon
  <2>1. SUFFICES ASSUME NEW i \in 1 .. Len(body), i # m + 1, i # m + 3 PROVE body[i] # Colon
    OBVIOUS
  <2>2. CASE i > m
    <3>1. i = m + 2 \/ i = m + 4
      BY <1>6, <1>7, <2>1, <2>2
    <3>2. QED BY <1>2, <1>8, <3>1
  <2>3. CASE i <= m
    BY <1>1, <1>6, <1>7, <2>1, <2>3
  <2>4. QED BY <1>6, <1>7, <2>1, <2>2, <2>3
<1>10. /\ Len(Tokens(body)) = 3
       /\ Tokens(body)[1] = SubSeq(body, 1, m)
       /\ Tokens(body)[2] = SubSeq(body, m + 2, m + 2)
       /\ Tokens(body)[3] = SubSeq(body, m + 4, m + 4)
  <2>1. PICK p \in Nat, q \in Nat : p = m + 1 /\ q = m + 3
    BY <1>6
  <2>2. 1 < p /\ p + 1 < q /\ q < Len(body)
    BY <1>6, <1>7, <2>1
  <2>6. body[p] = Colon /\ body[q] = Colon
    BY ONLY <1>8, <2>1, Zenon
  <2>7. \A i \in 1 .. Len(body) : i # p /\ i # q => body[i] # Colon
    BY ONLY <1>9, <2>1, Zenon
  <2>3. /\ Len(Tokens(body)) = 3
        /\ Tokens(body)[1] = SubSeq(body, 1, p - 1)
        /\ Tokens(body)[2] = SubSeq(body, p + 1, q - 1)
        /\ Tokens(body)[3] = SubSeq(body, q + 1, Len(body))
    BY <1>7, <2>2, <2>6, <2>7, ThreeParts
  <2>4. p - 1 = m /\ p + 1 = m + 2 /\ q - 1 = m + 2 /\ q + 1 = m + 4 /\ Len(body) = m + 4
    BY <1>7, <2>1
  <2>5. QED BY ONLY <2>3, <2>4, Zenon
<1>11. SubSeq(body, m + 2, m + 2)[1] = v /\ SubSeq(body, m + 4, m + 4)[1] = a
  BY <1>6, <1>7, <1>8
<1>12. SubSeq(body, 1, m) = text
  <2>1. PICK r \in Seq(W) : /\ r = SubSeq(body, 1, m) /\ Len(r) = m
                            /\ \A i \in 1 .. m : r[i] = body[i]
    <3>1. PICK r : r = SubSeq(body, 1, m)
      BY ONLY Zenon
    <3>2. body \in Seq(W) /\ Len(body) = 4 + m /\ m \in Nat
      BY <1>7
    <3>3. r \in Seq(W) /\ Len(r) = m
      BY ONLY <3>1, <3>2
    <3>4. \A i \in 1 .. m : r[i] = body[i]
      BY ONLY <3>1, <3>2
    <3>5. QED BY ONLY <3>1, <3>3, <3>4, Zenon
  <2>2. \A i \in 1 .. Len(r) : r[i] = text[i]
    BY <1>7, <2>1
  <2>3. QED BY <1>5, <1>6, <2>1, <2>2, SeqEqual
<1>13. TrimText(body) = body
  <2>1. body # <<>>
    BY <1>6, <1>7
  <2>2. QED BY <1>1, <1>2, <1>7, <1>8, <2>1, TrimsNothing
<1>14. QED BY <1>2, <1>8, <1>10, <1>11, <1>12, <1>13, Zenon DEF Legal

-----------------------------------------------------------------------------
(* The states between two lines.                                            *)
State(db, number, entry) == [legal |-> TRUE, db |-> db, number |-> number, entry |-> entry]
Mapped(alerts, commands) == [alerts |-> alerts, commands |-> commands]

(* Changing what is read of a number changes nothing else.                  *)
Stands(load, db, number, entry) == load = State(db, number, entry)

LEMMA EntryChanged ==
  ASSUME NEW db, NEW number, NEW entry, NEW other, NEW l, Stands(l, db, number, entry)
  PROVE  Stands([l EXCEPT !.entry = other], db, number, other)
<1>1. PICK t : t = TRUE
  OBVIOUS
<1>2. l = [legal |-> t, db |-> db, number |-> number, entry |-> entry]
  BY ONLY <1>1, Stands(l, db, number, entry), Zenon DEF State, Stands
<1>3. [l EXCEPT !.entry = other] = [legal |-> t, db |-> db, number |-> number, entry |-> other]
  BY ONLY <1>2
<1>4. QED BY ONLY <1>1, <1>3, Zenon DEF State, Stands

(* What each kind of line does.                                             *)
Leads(from, line, to) == LoadLine(from, line) = to

LEMMA AlertRead ==
  ASSUME NEW a \in SmsAddresses, NEW v \in SmsValues, NEW text \in Texts,
         NEW db, NEW number \in SmsNumbers, NEW alerts, NEW commands
  PROVE  Leads(State(db, number, Mapped(alerts, commands)), AlertLine(<<a, v>>, text),
               State(db, number, Mapped(Insert(alerts, <<a, v>>, text), commands)))
<1>1. PICK l : /\ l = State(db, number, Mapped(alerts, commands))
               /\ Stands(l, db, number, Mapped(alerts, commands))
  BY Zenon DEF Stands
<1>2. l.legal = TRUE /\ l.db = db /\ l.number = number /\ l.entry = Mapped(alerts, commands)
  BY ONLY <1>1 DEF State
<1>3. PICK body : AlertIs(body, a, v, text) /\ body = <<a, Colon, v, Colon>> \o text
  BY Zenon DEF AlertIs
<1>4. /\ Legal(body) /\ Tokens(body)[1][1] = a /\ Tokens(body)[2][1] = v /\ Tokens(body)[3] = text
  BY <1>3, AlertBody
<1>5. PICK line : line = AlertLine(<<a, v>>, text)
  OBVIOUS
<1>6. line = [kind |-> "param", name |-> "EIB_TO_SMS", body |-> body]
  BY <1>3, <1>5 DEF AlertLine, Param
<1>7. line.kind = "param" /\ line.name = "EIB_TO_SMS" /\ line.body = body
  BY <1>6
<1>8. number # "none"
  BY SmsMappingsAssumption
<1>9. LoadLine(l, line) = [l EXCEPT !.entry = Parsed(@, "EIB_TO_SMS", Tokens(body))]
  BY <1>2, <1>4, <1>7, <1>8 DEF LoadLine, Legal
<1>10. Parsed(Mapped(alerts, commands), "EIB_TO_SMS", Tokens(body))
         = Mapped(Insert(alerts, <<a, v>>, text), commands)
  <2>1. PICK tokens : tokens = Tokens(body)
    BY ONLY Zenon
  <2>2. tokens[1][1] = a /\ tokens[2][1] = v /\ tokens[3] = text
    BY ONLY <2>1, <1>4, Zenon
  <2>3. Parsed(Mapped(alerts, commands), "EIB_TO_SMS", tokens)
          = Mapped(Insert(alerts, <<a, v>>, text), commands)
    BY ONLY <2>2 DEF Parsed, Mapped
  <2>4. QED BY ONLY <2>1, <2>3, Zenon
<1>11. PICK e : e = Parsed(Mapped(alerts, commands), "EIB_TO_SMS", Tokens(body))
  BY ONLY Zenon
<1>12. LoadLine(l, line) = [l EXCEPT !.entry = e]
  <2>1. l.entry = Mapped(alerts, commands)
    BY ONLY <1>2, Zenon
  <2>2. QED BY ONLY <1>9, <1>11, <2>1
<1>13. Stands([l EXCEPT !.entry = e], db, number, e)
  BY ONLY <1>1, EntryChanged, Zenon
<1>14. QED BY ONLY <1>1, <1>5, <1>10, <1>11, <1>12, <1>13, Zenon DEF Stands, Leads
LEMMA CommandRead ==
  ASSUME NEW a \in SmsAddresses, NEW v \in SmsValues, NEW text \in Texts,
         NEW db, NEW number \in SmsNumbers, NEW alerts, NEW commands
  PROVE  Leads(State(db, number, Mapped(alerts, commands)), CommandLine(text, [value |-> v, address |-> a]),
               State(db, number, Mapped(alerts, Insert(commands, text, [value |-> v, address |-> a]))))
<1>1. PICK l : /\ l = State(db, number, Mapped(alerts, commands))
               /\ Stands(l, db, number, Mapped(alerts, commands))
  BY Zenon DEF Stands
<1>2. l.legal = TRUE /\ l.db = db /\ l.number = number /\ l.entry = Mapped(alerts, commands)
  BY ONLY <1>1 DEF State
<1>3. PICK body : CommandIs(body, a, v, text) /\ body = text \o <<Colon, v, Colon, a>>
  BY Zenon DEF CommandIs
<1>4. /\ Legal(body) /\ Tokens(body)[1] = text /\ Tokens(body)[2][1] = v /\ Tokens(body)[3][1] = a
  BY <1>3, CommandBody
<1>5. PICK line : line = CommandLine(text, [value |-> v, address |-> a])
  OBVIOUS
<1>6. line = [kind |-> "param", name |-> "SMS_TO_EIB", body |-> body]
  BY <1>3, <1>5 DEF CommandLine, Param
<1>7. line.kind = "param" /\ line.name = "SMS_TO_EIB" /\ line.body = body
  BY <1>6
<1>8. number # "none"
  BY SmsMappingsAssumption
<1>9. LoadLine(l, line) = [l EXCEPT !.entry = Parsed(@, "SMS_TO_EIB", Tokens(body))]
  BY <1>2, <1>4, <1>7, <1>8 DEF LoadLine, Legal
<1>10. Parsed(Mapped(alerts, commands), "SMS_TO_EIB", Tokens(body))
         = Mapped(alerts, Insert(commands, text, [value |-> v, address |-> a]))
  <2>1. PICK tokens : tokens = Tokens(body)
    BY ONLY Zenon
  <2>2. tokens[1] = text /\ tokens[2][1] = v /\ tokens[3][1] = a
    BY ONLY <2>1, <1>4, Zenon
  <2>3. Parsed(Mapped(alerts, commands), "SMS_TO_EIB", tokens)
          = Mapped(alerts, Insert(commands, text, [value |-> v, address |-> a]))
    BY ONLY <2>2 DEF Parsed, Mapped
  <2>4. QED BY ONLY <2>1, <2>3, Zenon
<1>11. PICK e : e = Parsed(Mapped(alerts, commands), "SMS_TO_EIB", Tokens(body))
  BY ONLY Zenon
<1>12. LoadLine(l, line) = [l EXCEPT !.entry = e]
  <2>1. l.entry = Mapped(alerts, commands)
    BY ONLY <1>2, Zenon
  <2>2. QED BY ONLY <1>9, <1>11, <2>1
<1>13. Stands([l EXCEPT !.entry = e], db, number, e)
  BY ONLY <1>1, EntryChanged, Zenon
<1>14. QED BY ONLY <1>1, <1>5, <1>10, <1>11, <1>12, <1>13, Zenon DEF Stands, Leads
LEMMA BlockRead ==
  ASSUME NEW db, NEW n, NEW entry, NEW number, NEW more, more = RecordComplete(State(db, n, entry)).db
  PROVE  Leads(State(db, n, entry), Block(number), State(more, number, NewEntry))
<1>1. PICK l : l = State(db, n, entry) /\ l.legal /\ more = RecordComplete(l).db
  BY DEF State
<1>2. PICK line : line = Block(number) /\ line.kind = "block" /\ line.name = number
  <2>1. PICK line : line = Block(number)
    BY ONLY Zenon
  <2>2. line.kind = "block" /\ line.name = number
    BY ONLY <2>1 DEF Block
  <2>3. QED BY ONLY <2>1, <2>2, Zenon
<1>3. LoadLine(l, line) = [RecordComplete(l) EXCEPT !.number = line.name, !.entry = NewEntry]
  BY ONLY <1>1, <1>2 DEF LoadLine
<1>4. PICK t : t = TRUE
  OBVIOUS
<1>5. l = [legal |-> t, db |-> db, number |-> n, entry |-> entry]
  BY ONLY <1>1, <1>4, Zenon DEF State
<1>6. RecordComplete(l) = [legal |-> t, db |-> more, number |-> n, entry |-> entry]
  <2>1. CASE l.number = "none"
    <3>1. RecordComplete(l) = l
      BY ONLY <2>1, Zenon DEF RecordComplete
    <3>2. l.db = db
      BY ONLY <1>5
    <3>3. QED BY ONLY <1>1, <1>5, <3>1, <3>2, Zenon
  <2>2. CASE l.number # "none"
    <3>1. PICK z : z = Insert(l.db, l.number, l.entry)
      BY ONLY Zenon
    <3>2. RecordComplete(l) = [l EXCEPT !.db = z]
      BY ONLY <2>2, <3>1 DEF RecordComplete
    <3>3. PICK r : r = RecordComplete(l)
      BY ONLY Zenon
    <3>4. r = [legal |-> t, db |-> z, number |-> n, entry |-> entry]
      BY ONLY <1>5, <3>2, <3>3
    <3>5. r.db = z
      BY ONLY <3>4
    <3>6. QED BY ONLY <1>1, <3>3, <3>4, <3>5, Zenon
  <2>3. QED BY ONLY <2>1, <2>2, Zenon
<1>7. [RecordComplete(l) EXCEPT !.number = line.name, !.entry = NewEntry]
        = [legal |-> t, db |-> more, number |-> line.name, entry |-> NewEntry]
  <2>1. PICK r, x, y : r = RecordComplete(l) /\ x = line.name /\ y = NewEntry
    BY ONLY Zenon
  <2>2. r = [legal |-> t, db |-> more, number |-> n, entry |-> entry]
    BY ONLY <1>6, <2>1, Zenon
  <2>3. [r EXCEPT !.number = x, !.entry = y] = [legal |-> t, db |-> more, number |-> x, entry |-> y]
    <3>1. PICK s : s = [r EXCEPT !.number = x]
      BY ONLY Zenon
    <3>2. s = [legal |-> t, db |-> more, number |-> x, entry |-> entry]
      BY ONLY <2>2, <3>1
    <3>3. [s EXCEPT !.entry = y] = [legal |-> t, db |-> more, number |-> x, entry |-> y]
      BY ONLY <3>2
    <3>4. [r EXCEPT !.number = x, !.entry = y] = [[r EXCEPT !.number = x] EXCEPT !.entry = y]
      BY ONLY Zenon
    <3>5. QED BY ONLY <3>1, <3>3, <3>4, Zenon
  <2>4. QED BY ONLY <2>1, <2>3
<1>8. QED BY ONLY <1>1, <1>2, <1>3, <1>4, <1>7, Zenon DEF State, Leads

LEMMA BlankRead ==
  ASSUME NEW l
  PROVE  Leads(l, Blank, l)
<1>1. PICK line : line = Blank /\ line.kind = "blank"
  <2>1. PICK line : line = Blank
    BY ONLY Zenon
  <2>2. line.kind = "blank"
    BY ONLY <2>1 DEF Blank
  <2>3. QED BY ONLY <2>1, <2>2, Zenon
<1>2. LoadLine(l, line) = l
  BY ONLY <1>1 DEF LoadLine
<1>3. QED BY ONLY <1>1, <1>2, Zenon DEF Leads

-----------------------------------------------------------------------------
(* The records, one by one.                                                 *)

(* The lines of all alerts are read as the alerts, whatever their order.     *)
LEMMA AlertsRead ==
  ASSUME NEW db, NEW number \in SmsNumbers, NEW commands,
         NEW alerts \in Maps(SmsAddresses \X SmsValues, Texts)
  PROVE  /\ Reads(State(db, number, Mapped(Empty, commands)), AlertLines(alerts),
                  State(db, number, Mapped(alerts, commands)))
         /\ \E L : AlertLines(alerts) \in Seq(L)
<1>1. PICK D : D = DOMAIN alerts
  OBVIOUS
<1>2. /\ IsFiniteSet(D) /\ D \subseteq SmsAddresses \X SmsValues
      /\ \A k \in D : alerts[k] \in Texts
  BY <1>1, MapsAre
<1>3. PICK m \in Nat : m = Cardinality(D)
  BY <1>2, Listed
<1>4. /\ Named(D, 0) = {} /\ Named(D, m) = D
      /\ \A n \in 1 .. m : Named(D, n) = Named(D, n - 1) \cup {Listing(D)[n]} /\ Listing(D)[n] \in D
  BY <1>2, <1>3, NamedSteps
<1>5. PICK lines : lines = AlertLines(alerts)
  OBVIOUS
<1>6. lines = [i \in 1 .. m |-> AlertLine(Listing(D)[i], alerts[Listing(D)[i]])]
  BY <1>1, <1>3, <1>5, Zenon DEF AlertLines
<1>7. PICK L : lines \in Seq(L) /\ Len(lines) = m
  <2>1. PICK L : L = {AlertLine(Listing(D)[i], alerts[Listing(D)[i]]) : i \in 1 .. m}
    BY ONLY Zenon
  <2>2. lines \in [1 .. m -> L]
    BY ONLY <1>6, <2>1, Zenon
  <2>3. lines \in Seq(L) /\ Len(lines) = m
    BY <1>3, <2>2
  <2>4. QED BY <2>3
<1> DEFINE state == [n \in 0 .. m |-> State(db, number, Mapped(Part(alerts, Named(D, n)), commands))]
<1>8. \A n \in 0 .. m : state[n] = State(db, number, Mapped(Part(alerts, Named(D, n)), commands))
  BY Zenon
<1> HIDE DEF state
<1>9. 0 \in 0 .. m /\ m \in 0 .. m /\ \A n \in 1 .. m : n \in 0 .. m /\ n - 1 \in 0 .. m
  BY <1>3
<1>10. state[0] = State(db, number, Mapped(Empty, commands))
  <2>1. Part(alerts, Named(D, 0)) = Empty
    BY ONLY <1>4, PartNone, Zenon
  <2>2. QED BY ONLY <1>8, <1>9, <2>1, Zenon
<1>11. state[m] = State(db, number, Mapped(alerts, commands))
  <2>1. Part(alerts, Named(D, m)) = alerts
    <3>1. Part(alerts, DOMAIN alerts) = alerts
      BY PartWhole
    <3>2. QED BY ONLY <1>1, <1>4, <3>1, Zenon
  <2>2. QED BY ONLY <1>8, <1>9, <2>1, Zenon
<1>12. ASSUME NEW n \in 1 .. m PROVE state[n] = LoadLine(state[n - 1], lines[n])
  <2>1. PICK k \in D : k = Listing(D)[n]
    BY <1>4, Zenon
  <2>2. PICK part : part = Part(alerts, Named(D, n - 1))
    OBVIOUS
  <2>3. Part(alerts, Named(D, n)) = Insert(part, k, alerts[k])
    <3>1. Named(D, n) = Named(D, n - 1) \cup {k}
      BY <1>4, <2>1, Zenon
    <3>2. Insert(Part(alerts, Named(D, n - 1)), k, alerts[k]) = Part(alerts, Named(D, n - 1) \cup {k})
      BY PartGrows
    <3>3. QED BY ONLY <2>2, <3>1, <3>2, Zenon
  <2>4. PICK a \in SmsAddresses, v \in SmsValues : k = <<a, v>>
    BY <1>2
  <2>5. PICK text \in Texts : text = alerts[k]
    BY <1>2, Zenon
  <2>6. lines[n] = AlertLine(<<a, v>>, text)
    BY ONLY <1>6, <2>1, <2>4, <2>5, n \in 1 .. m, Zenon
  <2>7. Leads(State(db, number, Mapped(part, commands)), AlertLine(<<a, v>>, text),
              State(db, number, Mapped(Insert(part, <<a, v>>, text), commands)))
    BY AlertRead
  <2>8. /\ state[n] = State(db, number, Mapped(Insert(part, <<a, v>>, text), commands))
        /\ state[n - 1] = State(db, number, Mapped(part, commands))
    BY ONLY <1>8, <1>9, n \in 1 .. m, <2>2, <2>3, <2>4, <2>5, Zenon
  <2>9. QED BY ONLY <2>6, <2>7, <2>8, Zenon DEF Leads
<1>13. Reads(State(db, number, Mapped(Empty, commands)), lines,
             State(db, number, Mapped(alerts, commands)))
  BY ONLY <1>7, <1>10, <1>11, <1>12, Zenon DEF Reads
<1>14. QED BY ONLY <1>5, <1>7, <1>13, Zenon
(* And those of all commands as the commands.                               *)
LEMMA CommandsRead ==
  ASSUME NEW db, NEW number \in SmsNumbers, NEW alerts,
         NEW commands \in Maps(Texts, Commands)
  PROVE  /\ Reads(State(db, number, Mapped(alerts, Empty)), CommandLines(commands),
                  State(db, number, Mapped(alerts, commands)))
         /\ \E L : CommandLines(commands) \in Seq(L)
<1>1. PICK D : D = DOMAIN commands
  OBVIOUS
<1>2. /\ IsFiniteSet(D) /\ D \subseteq Texts
      /\ \A k \in D : commands[k] \in Commands
  BY <1>1, MapsAre
<1>3. PICK m \in Nat : m = Cardinality(D)
  BY <1>2, Listed
<1>4. /\ Named(D, 0) = {} /\ Named(D, m) = D
      /\ \A n \in 1 .. m : Named(D, n) = Named(D, n - 1) \cup {Listing(D)[n]} /\ Listing(D)[n] \in D
  BY <1>2, <1>3, NamedSteps
<1>5. PICK lines : lines = CommandLines(commands)
  OBVIOUS
<1>6. lines = [i \in 1 .. m |-> CommandLine(Listing(D)[i], commands[Listing(D)[i]])]
  BY <1>1, <1>3, <1>5, Zenon DEF CommandLines
<1>7. PICK L : lines \in Seq(L) /\ Len(lines) = m
  <2>1. PICK L : L = {CommandLine(Listing(D)[i], commands[Listing(D)[i]]) : i \in 1 .. m}
    BY ONLY Zenon
  <2>2. lines \in [1 .. m -> L]
    BY ONLY <1>6, <2>1, Zenon
  <2>3. lines \in Seq(L) /\ Len(lines) = m
    BY <1>3, <2>2
  <2>4. QED BY <2>3
<1> DEFINE state == [n \in 0 .. m |-> State(db, number, Mapped(alerts, Part(commands, Named(D, n))))]
<1>8. \A n \in 0 .. m : state[n] = State(db, number, Mapped(alerts, Part(commands, Named(D, n))))
  BY Zenon
<1> HIDE DEF state
<1>9. 0 \in 0 .. m /\ m \in 0 .. m /\ \A n \in 1 .. m : n \in 0 .. m /\ n - 1 \in 0 .. m
  BY <1>3
<1>10. state[0] = State(db, number, Mapped(alerts, Empty))
  <2>1. Part(commands, Named(D, 0)) = Empty
    BY ONLY <1>4, PartNone, Zenon
  <2>2. QED BY ONLY <1>8, <1>9, <2>1, Zenon
<1>11. state[m] = State(db, number, Mapped(alerts, commands))
  <2>1. Part(commands, Named(D, m)) = commands
    <3>1. Part(commands, DOMAIN commands) = commands
      BY PartWhole
    <3>2. QED BY ONLY <1>1, <1>4, <3>1, Zenon
  <2>2. QED BY ONLY <1>8, <1>9, <2>1, Zenon
<1>12. ASSUME NEW n \in 1 .. m PROVE state[n] = LoadLine(state[n - 1], lines[n])
  <2>1. PICK k \in D : k = Listing(D)[n]
    BY <1>4, Zenon
  <2>2. PICK part : part = Part(commands, Named(D, n - 1))
    OBVIOUS
  <2>3. Part(commands, Named(D, n)) = Insert(part, k, commands[k])
    <3>1. Named(D, n) = Named(D, n - 1) \cup {k}
      BY <1>4, <2>1, Zenon
    <3>2. Insert(Part(commands, Named(D, n - 1)), k, commands[k]) = Part(commands, Named(D, n - 1) \cup {k})
      BY PartGrows
    <3>3. QED BY ONLY <2>2, <3>1, <3>2, Zenon
  <2>4. PICK text \in Texts : k = text
    BY <1>2
  <2>5. PICK a \in SmsAddresses, v \in SmsValues : commands[k] = [value |-> v, address |-> a]
    <3>1. commands[k] \in Commands
      BY <1>2, Zenon
    <3>2. PICK c : c = commands[k]
      OBVIOUS
    <3>3. /\ c.value \in SmsValues /\ c.address \in SmsAddresses
          /\ c = [value |-> c.value, address |-> c.address]
      BY <3>1, <3>2 DEF Commands
    <3>4. QED BY <3>2, <3>3, Zenon
  <2>6. lines[n] = CommandLine(text, [value |-> v, address |-> a])
    BY ONLY <1>6, <2>1, <2>4, <2>5, n \in 1 .. m, Zenon
  <2>7. Leads(State(db, number, Mapped(alerts, part)), CommandLine(text, [value |-> v, address |-> a]),
              State(db, number, Mapped(alerts, Insert(part, text, [value |-> v, address |-> a]))))
    BY CommandRead
  <2>8. /\ state[n] = State(db, number, Mapped(alerts, Insert(part, text, [value |-> v, address |-> a])))
        /\ state[n - 1] = State(db, number, Mapped(alerts, part))
    BY ONLY <1>8, <1>9, n \in 1 .. m, <2>2, <2>3, <2>4, <2>5, Zenon
  <2>9. QED BY ONLY <2>6, <2>7, <2>8, Zenon DEF Leads
<1>13. Reads(State(db, number, Mapped(alerts, Empty)), lines,
             State(db, number, Mapped(alerts, commands)))
  BY ONLY <1>7, <1>10, <1>11, <1>12, Zenon DEF Reads
<1>14. QED BY ONLY <1>5, <1>7, <1>13, Zenon

LEMMA EntryFacts ==
  ASSUME NEW entry \in Entries
  PROVE  /\ entry.alerts \in Maps(SmsAddresses \X SmsValues, Texts)
         /\ entry.commands \in Maps(Texts, Commands)
         /\ entry = Mapped(entry.alerts, entry.commands)
<1>1. PICK A, C : A = Maps(SmsAddresses \X SmsValues, Texts) /\ C = Maps(Texts, Commands)
  OBVIOUS
<1>2. entry \in [alerts : A, commands : C]
  BY <1>1, Zenon DEF Entries
<1>3. entry.alerts \in A /\ entry.commands \in C /\ entry = Mapped(entry.alerts, entry.commands)
  BY ONLY <1>2 DEF Mapped
<1>4. QED BY ONLY <1>1, <1>3, Zenon

LEMMA EntryMade ==
  ASSUME NEW alerts \in Maps(SmsAddresses \X SmsValues, Texts), NEW commands \in Maps(Texts, Commands)
  PROVE  Mapped(alerts, commands) \in Entries
BY DEF Mapped, Entries

LEMMA ReadsLine ==
  ASSUME NEW from, NEW line, NEW to, Leads(from, line, to)
  PROVE  Reads(from, <<line>>, to) /\ \E L : <<line>> \in Seq(L)
<1>1. Reads(from, <<line>>, LoadLine(from, line))
  BY ReadsOne
<1>2. <<line>> \in Seq({line})
  OBVIOUS
<1>3. QED BY <1>1, <1>2, Zenon DEF Leads

LEMMA ReadsNext ==
  ASSUME NEW from, NEW a, NEW between, NEW b, NEW to,
         Reads(from, a, between), Reads(between, b, to),
         \E L : a \in Seq(L), \E L : b \in Seq(L)
  PROVE  Reads(from, a \o b, to) /\ \E L : a \o b \in Seq(L)
<1>1. PICK L : a \in Seq(L)
  OBVIOUS
<1>2. PICK M : b \in Seq(M)
  OBVIOUS
<1>3. a \in Seq(L \cup M) /\ b \in Seq(L \cup M)
  BY <1>1, <1>2, SeqMonotonic
<1>4. a \o b \in Seq(L \cup M)
  BY <1>3, ConcatProperties
<1>5. Reads(from, a \o b, to)
  BY <1>3, ReadsBoth
<1>6. QED BY <1>4, <1>5, Zenon

(* The lines of a record complete the record before, and are read as it.     *)
LEMMA BlockReads ==
  ASSUME NEW db, NEW n, NEW e, NEW number \in SmsNumbers, NEW entry \in Entries,
         NEW more, more = RecordComplete(State(db, n, e)).db
  PROVE  /\ Reads(State(db, n, e), BlockLines(number, entry), State(more, number, entry))
         /\ \E L : BlockLines(number, entry) \in Seq(L)
<1>1. PICK alerts \in Maps(SmsAddresses \X SmsValues, Texts), commands \in Maps(Texts, Commands) :
        alerts = entry.alerts /\ commands = entry.commands /\ entry = Mapped(alerts, commands)
  BY EntryFacts, Zenon
<1>2. PICK a, b, c, d : /\ a = <<Block(number)>> /\ b = AlertLines(alerts)
                        /\ c = CommandLines(commands) /\ d = <<Blank>>
  BY ONLY Zenon
<1>3. PICK s0, s1, s2, s3 : /\ s0 = State(db, n, e) /\ s1 = State(more, number, Mapped(Empty, Empty))
                            /\ s2 = State(more, number, Mapped(alerts, Empty))
                            /\ s3 = State(more, number, Mapped(alerts, commands))
  BY ONLY Zenon
<1>4. Reads(s0, a, s1) /\ \E L : a \in Seq(L)
  <2>1. NewEntry = Mapped(Empty, Empty)
    BY DEF NewEntry, Mapped
  <2>2. Leads(State(db, n, e), Block(number), State(more, number, NewEntry))
    BY BlockRead
  <2>3. Leads(s0, Block(number), s1)
    BY ONLY <1>3, <2>1, <2>2, Zenon
  <2>4. QED BY ONLY <1>2, <2>3, ReadsLine, Zenon
<1>5. Reads(s1, b, s2) /\ \E L : b \in Seq(L)
  <2>1. /\ Reads(State(more, number, Mapped(Empty, Empty)), AlertLines(alerts),
                 State(more, number, Mapped(alerts, Empty)))
        /\ \E L : AlertLines(alerts) \in Seq(L)
    BY AlertsRead
  <2>2. QED BY ONLY <1>2, <1>3, <2>1, Zenon
<1>6. Reads(s2, c, s3) /\ \E L : c \in Seq(L)
  <2>1. /\ Reads(State(more, number, Mapped(alerts, Empty)), CommandLines(commands),
                 State(more, number, Mapped(alerts, commands)))
        /\ \E L : CommandLines(commands) \in Seq(L)
    BY CommandsRead
  <2>2. QED BY ONLY <1>2, <1>3, <2>1, Zenon
<1>7. Reads(s3, d, s3) /\ \E L : d \in Seq(L)
  BY ONLY <1>2, BlankRead, ReadsLine, Zenon
<1>8. PICK ab : /\ ab = a \o b
                /\ Reads(s0, ab, s2) /\ \E L : ab \in Seq(L)
  BY ONLY <1>4, <1>5, ReadsNext, Zenon
<1>9. PICK abc : /\ abc = ab \o c
                 /\ Reads(s0, abc, s3) /\ \E L : abc \in Seq(L)
  <2>1. Reads(s0, ab \o c, s3) /\ \E L : ab \o c \in Seq(L)
    <3>1. Reads(s0, ab, s2) /\ \E L : ab \in Seq(L)
      BY ONLY <1>8, Zenon
    <3>2. QED BY ONLY <1>6, <3>1, ReadsNext, Zenon
  <2>2. QED BY ONLY <2>1, Zenon
<1>10. Reads(s0, ((a \o b) \o c) \o d, s3) /\ \E L : ((a \o b) \o c) \o d \in Seq(L)
  <2>1. Reads(s0, abc \o d, s3) /\ \E L : abc \o d \in Seq(L)
    <3>1. Reads(s0, abc, s3) /\ \E L : abc \in Seq(L)
      BY ONLY <1>9, Zenon
    <3>2. QED BY ONLY <1>7, <3>1, ReadsNext, Zenon
  <2>2. QED BY ONLY <1>8, <1>9, <2>1, Zenon
<1>11. BlockLines(number, entry) = ((a \o b) \o c) \o d
  BY ONLY <1>1, <1>2, Zenon DEF BlockLines
<1>12. QED BY ONLY <1>1, <1>3, <1>10, <1>11, Zenon

-----------------------------------------------------------------------------
(* The file.                                                                *)

(* From the lines the part of the records is read.                          *)
Reached(lines, part) ==
  /\ \E L : lines \in Seq(L)
  /\ \E db, number, entry :
       /\ Reads(NotLoaded, lines, State(db, number, entry))
       /\ RecordComplete(State(db, number, entry)).db = part

LEMMA ReachedFirst ==
  Reached(<<>>, Empty)
<1>1. PICK l : l = NotLoaded
  OBVIOUS
<1>2. l = State(Empty, "none", NewEntry)
  BY <1>1, Zenon DEF State, NotLoaded
<1>3. RecordComplete(l) = l
  <2>1. l.number = "none"
    BY ONLY <1>2 DEF State
  <2>2. QED BY ONLY <2>1, Zenon DEF RecordComplete
<1>4. l.db = Empty
  BY ONLY <1>2 DEF State
<1>5. <<>> \in Seq({}) /\ Len(<<>>) = 0
  OBVIOUS
<1>6. Reads(l, <<>>, l)
  <2>1. PICK none : none = <<>> /\ Len(none) = 0
    BY <1>5, Zenon
  <2>2. PICK state : state = [n \in {0} |-> l]
    BY ONLY Zenon
  <2>3. state[0] = l
    BY ONLY <2>2
  <2>4. \A n \in 1 .. 0 : state[n] = LoadLine(state[n - 1], none[n])
    OBVIOUS
  <2>5. Reads(l, none, l)
    BY ONLY <2>1, <2>3, <2>4, Zenon DEF Reads
  <2>6. QED BY ONLY <2>1, <2>5, Zenon
<1>7. QED BY ONLY <1>1, <1>2, <1>3, <1>4, <1>5, <1>6, Zenon DEF Reached

(* With the lines of one more record, one more record is read.               *)
LEMMA ReachedNext ==
  ASSUME NEW lines, NEW part, Reached(lines, part),
         NEW number \in SmsNumbers, NEW entry \in Entries
  PROVE  Reached(lines \o BlockLines(number, entry), Insert(part, number, entry))
<1>1. PICK db, n, e : /\ Reads(NotLoaded, lines, State(db, n, e))
                      /\ part = RecordComplete(State(db, n, e)).db
  BY Zenon DEF Reached
<1>2. /\ Reads(State(db, n, e), BlockLines(number, entry), State(part, number, entry))
      /\ \E L : BlockLines(number, entry) \in Seq(L)
  BY <1>1, BlockReads
<1>3. \E L : lines \in Seq(L)
  BY Zenon DEF Reached
<1>4. /\ Reads(NotLoaded, lines \o BlockLines(number, entry), State(part, number, entry))
      /\ \E L : lines \o BlockLines(number, entry) \in Seq(L)
  BY ONLY <1>1, <1>2, <1>3, ReadsNext, Zenon
<1>5. RecordComplete(State(part, number, entry)).db = Insert(part, number, entry)
  <2>1. number # "none"
    BY SmsMappingsAssumption
  <2>2. PICK l : l = State(part, number, entry)
    OBVIOUS
  <2>3. l.number = number /\ l.db = part /\ l.entry = entry
    BY ONLY <2>2 DEF State
  <2>4. PICK z : z = Insert(part, number, entry)
    OBVIOUS
  <2>5. RecordComplete(l) = [l EXCEPT !.db = z]
    BY ONLY <2>1, <2>3, <2>4 DEF RecordComplete
  <2>6. [l EXCEPT !.db = z].db = z
    BY ONLY <2>2 DEF State
  <2>7. QED BY ONLY <2>2, <2>4, <2>5, <2>6, Zenon
<1>6. QED BY ONLY <1>4, <1>5, Zenon DEF Reached

SaveStep(lines, db, n) ==
  IF n = 0 THEN <<>>
  ELSE lines[n - 1] \o BlockLines(Listing(DOMAIN db)[n], db[Listing(DOMAIN db)[n]])
IsSaved(lines, db, m) == lines = [n \in 0 .. m |-> SaveStep(lines, db, n)]

(* The recursion of Save has a solution.                                     *)
LEMMA SavedExists ==
  ASSUME NEW db, NEW m \in Nat
  PROVE  \E lines : IsSaved(lines, db, m)
<1> DEFINE Bad == {z \in Nat : ~ \E f : IsSaved(f, db, z)}
<1> SUFFICES ASSUME Bad # {} PROVE FALSE
  OBVIOUS
<1>1. PICK z \in Bad : \A w \in Bad : z <= w
  <2>1. Bad \subseteq Nat
    OBVIOUS
  <2> HIDE DEF Bad
  <2> QED BY <2>1, LeastNumber
<1>2. z \in Nat /\ ~ \E f : IsSaved(f, db, z)
  OBVIOUS
<1>3. PICK f : \A n \in 0 .. z - 1 : f[n] = SaveStep(f, db, n)
  <2>1. CASE z = 0
    <3>1. 0 .. z - 1 = {}
      BY <2>1
    <3>2. QED BY <3>1, Zenon
  <2>2. CASE z # 0
    <3>1. z - 1 \in Nat /\ ~ (z <= z - 1)
      BY <1>2, <2>2
    <3>2. z - 1 \notin Bad
      BY <1>1, <3>1, Zenon
    <3>3. PICK f : IsSaved(f, db, z - 1)
      BY <3>1, <3>2, Zenon
    <3>4. \A n \in 0 .. z - 1 : f[n] = SaveStep(f, db, n)
      BY ONLY <3>3, Zenon DEF IsSaved
    <3>5. QED BY <3>4, Zenon
  <2>3. QED BY <2>1, <2>2, Zenon
<1>4. PICK g : g = [n \in 0 .. z |-> SaveStep(f, db, n)]
  BY ONLY Zenon
<1>5. \A n \in 0 .. z : SaveStep(g, db, n) = SaveStep(f, db, n)
  <2>1. SUFFICES ASSUME NEW n \in 0 .. z PROVE SaveStep(g, db, n) = SaveStep(f, db, n)
    BY Zenon
  <2>2. CASE n = 0
    BY <2>2, Zenon DEF SaveStep
  <2>3. CASE n # 0
    <3>1. n - 1 \in 0 .. z /\ n - 1 \in 0 .. z - 1
      BY <1>2, <2>1, <2>3
    <3>2. g[n - 1] = f[n - 1]
      BY ONLY <1>3, <1>4, <3>1, Zenon
    <3>3. QED BY ONLY <2>3, <3>2, Zenon DEF SaveStep
  <2>4. QED BY <2>2, <2>3, Zenon
<1>6. g = [n \in 0 .. z |-> SaveStep(g, db, n)]
  BY ONLY <1>4, <1>5, Zenon
<1>7. QED BY ONLY <1>2, <1>6, Zenon DEF IsSaved

(* What is saved is what is loaded.                                         *)
LEMMA SavedLoads ==
  ASSUME NEW db \in Databases
  PROVE  Load(Save(db)).legal /\ Load(Save(db)).db = db
<1>1. PICK D : D = DOMAIN db
  OBVIOUS
<1>2. /\ IsFiniteSet(D) /\ D \subseteq SmsNumbers
      /\ \A k \in D : db[k] \in Entries
  BY <1>1, MapsAre DEF Databases
<1>3. PICK m \in Nat : m = Cardinality(D)
  BY <1>2, Listed
<1>4. /\ Named(D, 0) = {} /\ Named(D, m) = D
      /\ \A n \in 1 .. m : Named(D, n) = Named(D, n - 1) \cup {Listing(D)[n]} /\ Listing(D)[n] \in D
  BY <1>2, <1>3, NamedSteps
<1>5. PICK f : f = SavedLines(db) /\ f = [n \in 0 .. m |-> SaveStep(f, db, n)]
  <2>1. SavedLines(db) = CHOOSE f : IsSaved(f, db, m)
    BY ONLY <1>1, <1>3, Zenon DEF SavedLines, IsSaved, SaveStep
  <2>2. \E f : IsSaved(f, db, m)
    BY SavedExists
  <2>3. PICK f : f = SavedLines(db) /\ IsSaved(f, db, m)
    BY ONLY <2>1, <2>2, Zenon
  <2>4. QED BY ONLY <2>3, Zenon DEF IsSaved
<1>6. f[0] = <<>>
  <2>1. 0 \in 0 .. m
    BY <1>3
  <2>2. f[0] = SaveStep(f, db, 0)
    BY ONLY <1>5, <2>1, Zenon
  <2>3. QED BY ONLY <2>2, Zenon DEF SaveStep
<1>7. ASSUME NEW n \in 1 .. m
      PROVE  f[n] = f[n - 1] \o BlockLines(Listing(D)[n], db[Listing(D)[n]])
  <2>1. n \in 0 .. m /\ n # 0
    BY <1>3
  <2>2. f[n] = SaveStep(f, db, n)
    BY ONLY <1>5, <2>1, Zenon
  <2>3. QED BY ONLY <1>1, <2>1, <2>2, Zenon DEF SaveStep
<1> DEFINE Bad == {n \in 0 .. m : ~ Reached(f[n], Part(db, Named(D, n)))}
<1>8. Bad = {}
  <2> SUFFICES ASSUME Bad # {} PROVE FALSE
    OBVIOUS
  <2>1. PICK z \in Bad : \A w \in Bad : z <= w
    <3>1. Bad \subseteq Nat
      BY <1>3
    <3> HIDE DEF Bad
    <3> QED BY <3>1, LeastNumber
  <2>2. z \in 0 .. m /\ ~ Reached(f[z], Part(db, Named(D, z)))
    BY Zenon
  <2>3. z # 0
    <3>1. Reached(f[0], Part(db, Named(D, 0)))
      BY ONLY <1>4, <1>6, PartNone, ReachedFirst, Zenon
    <3>2. QED BY ONLY <2>2, <3>1, Zenon
  <2>4. z \in 1 .. m /\ z - 1 \in 0 .. m /\ ~ (z <= z - 1)
    BY <1>3, <2>2, <2>3
  <2>5. Reached(f[z - 1], Part(db, Named(D, z - 1)))
    BY <2>1, <2>4, Zenon
  <2>6. PICK k \in SmsNumbers : k = Listing(D)[z] /\ db[k] \in Entries
    BY <1>2, <1>4, <2>4, Zenon
  <2>7. Reached(f[z - 1] \o BlockLines(k, db[k]), Insert(Part(db, Named(D, z - 1)), k, db[k]))
    BY ONLY <2>5, <2>6, k \in SmsNumbers, ReachedNext, Zenon
  <2>8. f[z] = f[z - 1] \o BlockLines(k, db[k])
    BY <1>7, <2>4, <2>6, Zenon
  <2>9. Insert(Part(db, Named(D, z - 1)), k, db[k]) = Part(db, Named(D, z))
    <3>1. Named(D, z) = Named(D, z - 1) \cup {k}
      BY <1>4, <2>4, <2>6, Zenon
    <3>2. Insert(Part(db, Named(D, z - 1)), k, db[k]) = Part(db, Named(D, z - 1) \cup {k})
      BY PartGrows
    <3>3. QED BY ONLY <3>1, <3>2, Zenon
  <2> QED BY ONLY <2>2, <2>7, <2>8, <2>9, Zenon
<1>9. Reached(Save(db), db)
  <2>1. m \in 0 .. m
    BY <1>3
  <2>2. Reached(f[m], Part(db, Named(D, m)))
    BY <1>8, <2>1, Zenon
  <2>3. Part(db, DOMAIN db) = db
    BY PartWhole, Zenon DEF Databases
  <2>4. Save(db) = f[m]
    BY ONLY <1>1, <1>3, <1>5, Zenon DEF Save
  <2>5. QED BY ONLY <1>1, <1>4, <2>2, <2>3, <2>4, Zenon
<1>10. PICK d, number, entry : /\ Reads(NotLoaded, Save(db), State(d, number, entry))
                               /\ RecordComplete(State(d, number, entry)).db = db
  BY ONLY <1>9, Zenon DEF Reached
<1>11. PICK L : Save(db) \in Seq(L)
  BY ONLY <1>9, Zenon DEF Reached
<1>12. PICK l : l = State(d, number, entry)
  BY ONLY Zenon
<1>13. LoadLines(Save(db))[Len(Save(db))] = l
  BY ONLY <1>10, <1>11, <1>12, ReadsLoad, Zenon
<1>14. Load(Save(db)) = RecordComplete(l)
  BY ONLY <1>13, Zenon DEF Load
<1>15. RecordComplete(l).legal
  <2>1. l.legal
    BY ONLY <1>12 DEF State
  <2>2. CASE l.number = "none"
    <3>1. RecordComplete(l) = l
      BY ONLY <2>2, Zenon DEF RecordComplete
    <3>2. QED BY ONLY <2>1, <3>1, Zenon
  <2>3. CASE l.number # "none"
    <3>1. PICK z : z = Insert(l.db, l.number, l.entry)
      BY ONLY Zenon
    <3>2. RecordComplete(l) = [l EXCEPT !.db = z]
      BY ONLY <2>3, <3>1 DEF RecordComplete
    <3>3. [l EXCEPT !.db = z].legal = l.legal
      BY ONLY <1>12 DEF State
    <3>4. QED BY ONLY <2>1, <3>2, <3>3, Zenon
  <2>4. QED BY ONLY <2>2, <2>3, Zenon
<1>16. QED BY ONLY <1>10, <1>12, <1>14, <1>15, Zenon

-----------------------------------------------------------------------------
(* The inductive invariant: what the file says is what was saved, and all   *)
(* that the program holds can be written.                                   *)
MapInv ==
  /\ mapDb \in Databases /\ mapSaved \in Databases
  /\ Load(mapFile).legal /\ Load(mapFile).db = mapSaved
  /\ ConsoleAt("edit") => mapConsole.number \in DOMAIN mapDb

LEMMA MapInvInit ==
  MappingsInit => MapInv
<1> SUFFICES ASSUME MappingsInit PROVE MapInv
  OBVIOUS
<1>1. mapFile \in SmsFiles /\ mapSaved = Load(mapFile).db /\ mapDb = Empty
  BY DEF MappingsInit
<1>2. Load(mapFile).legal /\ Load(mapFile).db \in Databases
  BY <1>1, SmsFilesAssumption
<1>3. mapDb \in Databases
  BY <1>1, EmptyKept DEF Databases
<1>4. ~ ConsoleAt("edit")
  BY DEF MappingsInit, ConsoleAt
<1>5. QED BY <1>1, <1>2, <1>3, <1>4, Zenon DEF MapInv

(* A change of the entry that is edited.                                    *)
LEMMA EntryEdited ==
  ASSUME MapInv, ConsoleAt("edit"), NEW entry \in Entries
  PROVE  /\ [mapDb EXCEPT ![mapConsole.number] = entry] \in Databases
         /\ DOMAIN [mapDb EXCEPT ![mapConsole.number] = entry] = DOMAIN mapDb
<1>1. mapConsole.number \in DOMAIN mapDb /\ mapDb \in Maps(SmsNumbers, Entries)
  BY Zenon DEF MapInv, Databases
<1>2. QED BY <1>1, ChangeKept, Zenon DEF Databases

LEMMA EditedEntry ==
  ASSUME MapInv, ConsoleAt("edit")
  PROVE  mapDb[mapConsole.number] \in Entries
BY MapsAre, Zenon DEF MapInv, Databases

(* What is edited stays within what can be written.                          *)
LEMMA StaysEdited ==
  ASSUME MapInv, mapConsole' = mapConsole, mapSaved' = mapSaved, mapFile' = mapFile,
         mapDb' \in Databases, ConsoleAt("edit") => DOMAIN mapDb' = DOMAIN mapDb
  PROVE  MapInv'
<1>1. Load(mapFile') = Load(mapFile)
  OBVIOUS
<1>2. ConsoleAt("edit")' => mapConsole'.number \in DOMAIN mapDb'
  BY DEF MapInv, ConsoleAt
<1>3. QED BY <1>1, <1>2 DEF MapInv

LEMMA MapStep ==
  MapInv /\ [MappingsNext]_mapVars => MapInv'
<1> SUFFICES ASSUME MapInv, [MappingsNext]_mapVars PROVE MapInv'
  OBVIOUS
<1>0. /\ mapDb \in Maps(SmsNumbers, Entries) /\ mapSaved \in Databases
      /\ Load(mapFile).legal /\ Load(mapFile).db = mapSaved
  BY Zenon DEF MapInv, Databases
<1>1. CASE ConsoleOpens
  <2>1. mapDb' = Load(mapFile).db /\ mapFile' = mapFile /\ mapSaved' = mapSaved /\ ConsoleGoes("menu")
    BY <1>0, <1>1 DEF ConsoleOpens
  <2>2. mapDb' \in Databases
    BY <1>0, <2>1
  <2>3. ~ ConsoleAt("edit")'
    BY <2>1 DEF ConsoleAt, ConsoleGoes
  <2>4. QED BY <1>0, <2>1, <2>2, <2>3 DEF MapInv
<1>2. CASE EditEnds
  <2>1. ~ ConsoleAt("edit")'
    BY <1>2 DEF EditEnds, ConsoleAt, ConsoleGoes
  <2>2. UNCHANGED <<mapDb, mapFile, mapSaved>>
    BY <1>2 DEF EditEnds
  <2>3. QED BY <1>0, <2>1, <2>2 DEF MapInv, Databases
<1>3. CASE SaveAndQuit
  <2>1. mapFile' = Save(mapDb) /\ mapSaved' = mapDb /\ mapDb' = mapDb /\ mapDb \in Databases
    BY <1>0, <1>3 DEF SaveAndQuit, Databases
  <2>2. Load(Save(mapDb)).legal /\ Load(Save(mapDb)).db = mapDb
    BY <2>1, SavedLoads
  <2>3. Load(mapFile') = Load(Save(mapDb))
    BY <2>1
  <2>4. ~ ConsoleAt("edit")'
    BY <1>3 DEF SaveAndQuit, ConsoleAt, ConsoleGoes
  <2>5. QED BY <2>1, <2>2, <2>3, <2>4 DEF MapInv
<1>4. CASE QuitWithoutSaving
  <2>1. ~ ConsoleAt("edit")'
    BY <1>4 DEF QuitWithoutSaving, ConsoleAt, ConsoleGoes
  <2>2. UNCHANGED <<mapDb, mapFile, mapSaved>>
    BY <1>4 DEF QuitWithoutSaving
  <2>3. QED BY <1>0, <2>1, <2>2 DEF MapInv, Databases
<1>5. ASSUME NEW number \in SmsNumbers, AddUserEntry(number) PROVE MapInv'
  <2>1. NewEntry \in Entries
    <3>1. NewEntry = Mapped(Empty, Empty)
      BY DEF NewEntry, Mapped
    <3>2. QED BY <3>1, EmptyKept, EntryMade
  <2>2. mapDb' \in Databases
    BY <1>0, <1>5, <2>1, InsertKept DEF AddUserEntry, Databases
  <2>3. QED BY <1>5, <2>2, StaysEdited DEF AddUserEntry, ConsoleAt
<1>6. ASSUME NEW number \in SmsNumbers, DeleteUserEntry(number) PROVE MapInv'
  <2>1. mapDb' \in Databases
    BY <1>0, <1>6, EraseKept DEF DeleteUserEntry, Databases
  <2>2. QED BY <1>6, <2>1, StaysEdited DEF DeleteUserEntry, ConsoleAt
<1>7. ASSUME NEW number \in SmsNumbers, EditUserEntry(number) PROVE MapInv'
  <2>1. mapConsole'.number \in DOMAIN mapDb'
    BY <1>7 DEF EditUserEntry
  <2>2. UNCHANGED <<mapDb, mapFile, mapSaved>>
    BY <1>7 DEF EditUserEntry
  <2>3. QED BY <1>0, <2>1, <2>2 DEF MapInv, Databases
<1>8. ASSUME NEW address \in SmsAddresses, NEW value \in SmsValues, NEW text \in Texts,
             AddAlert(address, value, text)
      PROVE  MapInv'
  <2>1. ConsoleAt("edit")
    BY <1>8 DEF AddAlert
  <2>2. PICK entry \in Entries : entry = mapDb[mapConsole.number]
    BY <2>1, EditedEntry
  <2>3. PICK alerts : alerts = Insert(entry.alerts, <<address, value>>, text)
    OBVIOUS
  <2>4. alerts \in Maps(SmsAddresses \X SmsValues, Texts) /\ entry = Mapped(entry.alerts, entry.commands)
        /\ entry.commands \in Maps(Texts, Commands)
    BY <2>2, <2>3, EntryFacts, InsertKept
  <2>5. PICK changed \in Entries : changed = Mapped(alerts, entry.commands)
    BY <2>4, EntryMade
  <2>6. [entry EXCEPT !.alerts = alerts] = changed
    BY ONLY <2>4, <2>5 DEF Mapped
  <2>7. mapDb' = [mapDb EXCEPT ![mapConsole.number] = changed]
    BY <1>8, <2>2, <2>3, <2>6 DEF AddAlert
  <2>8. mapDb' \in Databases /\ DOMAIN mapDb' = DOMAIN mapDb
    BY <2>1, <2>7, EntryEdited
  <2>9. QED BY <1>8, <2>8, StaysEdited DEF AddAlert
<1>9. ASSUME NEW address \in SmsAddresses, NEW value \in SmsValues, NEW text \in Texts,
             AddCommand(address, value, text)
      PROVE  MapInv'
  <2>1. ConsoleAt("edit")
    BY <1>9 DEF AddCommand
  <2>2. PICK entry \in Entries : entry = mapDb[mapConsole.number]
    BY <2>1, EditedEntry
  <2>3. PICK commands : commands = Insert(entry.commands, text, [value |-> value, address |-> address])
    OBVIOUS
  <2>4. commands \in Maps(Texts, Commands)
    <3>1. [value |-> value, address |-> address] \in Commands
      BY DEF Commands
    <3>2. QED BY <2>2, <2>3, <3>1, EntryFacts, InsertKept
  <2>5. /\ entry = Mapped(entry.alerts, entry.commands)
        /\ entry.alerts \in Maps(SmsAddresses \X SmsValues, Texts)
    BY <2>2, EntryFacts
  <2>6. PICK changed \in Entries : changed = Mapped(entry.alerts, commands)
    BY <2>4, <2>5, EntryMade
  <2>7. [entry EXCEPT !.commands = commands] = changed
    BY ONLY <2>5, <2>6 DEF Mapped
  <2>8. mapDb' = [mapDb EXCEPT ![mapConsole.number] = changed]
    BY <1>9, <2>2, <2>3, <2>7 DEF AddCommand
  <2>9. mapDb' \in Databases /\ DOMAIN mapDb' = DOMAIN mapDb
    BY <2>1, <2>8, EntryEdited
  <2>10. QED BY <1>9, <2>9, StaysEdited DEF AddCommand
<1>10. ASSUME NEW key, DeleteAlert(key) PROVE MapInv'
  <2>1. ConsoleAt("edit")
    BY <1>10 DEF DeleteAlert
  <2>2. PICK entry \in Entries : entry = mapDb[mapConsole.number]
    BY <2>1, EditedEntry
  <2>3. PICK alerts : alerts = Erase(entry.alerts, key)
    OBVIOUS
  <2>4. alerts \in Maps(SmsAddresses \X SmsValues, Texts) /\ entry = Mapped(entry.alerts, entry.commands)
        /\ entry.commands \in Maps(Texts, Commands)
    BY <2>2, <2>3, EntryFacts, EraseKept
  <2>5. PICK changed \in Entries : changed = Mapped(alerts, entry.commands)
    BY <2>4, EntryMade
  <2>6. [entry EXCEPT !.alerts = alerts] = changed
    BY ONLY <2>4, <2>5 DEF Mapped
  <2>7. mapDb' = [mapDb EXCEPT ![mapConsole.number] = changed]
    BY <1>10, <2>2, <2>3, <2>6 DEF DeleteAlert
  <2>8. mapDb' \in Databases /\ DOMAIN mapDb' = DOMAIN mapDb
    BY <2>1, <2>7, EntryEdited
  <2>9. QED BY <1>10, <2>8, StaysEdited DEF DeleteAlert
<1>11. ASSUME NEW shown, DeleteCommand(shown) PROVE MapInv'
  <2>1. ConsoleAt("edit")
    BY <1>11 DEF DeleteCommand
  <2>2. PICK entry \in Entries : entry = mapDb[mapConsole.number]
    BY <2>1, EditedEntry
  <2>3. CASE mapDb' = mapDb
    BY <1>0, <1>11, <2>3, StaysEdited DEF DeleteCommand, Databases
  <2>4. CASE mapDb' # mapDb
    <3>1. PICK commands : commands = Erase(entry.commands, InOrder(entry.commands)[shown])
      OBVIOUS
    <3>2. mapDb' = [mapDb EXCEPT ![mapConsole.number].commands = commands]
      BY <1>11, <2>2, <2>4, <3>1 DEF DeleteCommand
    <3>3. commands \in Maps(Texts, Commands) /\ entry = Mapped(entry.alerts, entry.commands)
          /\ entry.alerts \in Maps(SmsAddresses \X SmsValues, Texts)
      BY <2>2, <3>1, EntryFacts, EraseKept
    <3>4. PICK changed \in Entries : changed = Mapped(entry.alerts, commands)
      BY <3>3, EntryMade
    <3>5. [entry EXCEPT !.commands = commands] = changed
      BY ONLY <3>3, <3>4 DEF Mapped
    <3>6. mapDb' = [mapDb EXCEPT ![mapConsole.number] = changed]
      BY <2>2, <3>2, <3>5
    <3>7. mapDb' \in Databases /\ DOMAIN mapDb' = DOMAIN mapDb
      BY <2>1, <3>6, EntryEdited
    <3>8. QED BY <1>11, <3>7, StaysEdited DEF DeleteCommand
  <2>5. QED BY <2>3, <2>4, Zenon
<1>12. CASE UNCHANGED mapVars
  BY <1>0, <1>12, StaysEdited DEF mapVars, Databases
<1>13. QED
  BY <1>1, <1>2, <1>3, <1>4, <1>5, <1>6, <1>7, <1>8, <1>9, <1>10, <1>11, <1>12, Zenon
     DEF MappingsNext, Texts

(* Whatever was edited and saved is what the next run loads (CGenericDB::Save *)
(* and Load, OnSaveRecordStarted, ParseAlertRecord, ParseCommandRecord), for  *)
(* all numbers, addresses, values and texts of the kind that                 *)
(* SmsMappingsAssumption describes, and however often they are edited.       *)
THEOREM MappingsAlwaysKept == MappingsSpec => []MappingsKept
<1>1. MapInv => MappingsKept
  BY Zenon DEF MapInv, MappingsKept
<1>2. QED BY <1>1, MapInvInit, MapStep, PTL DEF MappingsSpec
=============================================================================
