----------------------------- MODULE SmsGateway -----------------------------
(***************************************************************************)
(* The SMS server: a client of the EIB server with a GSM modem.  One thread *)
(* turns received messages into EIB commands, the other turns EIB commands  *)
(* into messages.  Both chat with the modem over one serial line, line by   *)
(* line, and take no lock.                                                 *)
(***************************************************************************)
EXTENDS Naturals, FiniteSets, SequencesExt

CONSTANTS SmsMessages,      \* messages that arrive, as pairs of a store and an index in it
          SmsAlerts,        \* numbers that are told of the EIB command of this instance
          SmsMaxEvents,     \* bound on its occurrences
          SmsMaxSilences,   \* how many commands the modem does not take
          SmsMaxOverlaps,   \* how many are sent before the last one was answered in full
          SmsTries,         \* how often the prompt for a text is asked for again: 5
          SmsSelectFails    \* whether the modem may refuse to select a store

VARIABLES smsLine,    \* lines of the modem that nobody has read
          smsAsked,   \* commands that the modem has not answered
          smsModem,   \* its messages, the store it has selected, and whether it waits for a text
          smsLast,    \* _lastSMSStoreName
          smsNew,     \* _newMessages
          smsTask,    \* of each thread: where it is, the commands it has to chat, the tries left
          smsStop, smsMain,
          smsBounds,  \* EIB commands received, silences and overlaps so far
          smsSeen     \* messages that have arrived, that are erased and obeyed, and the last read

smsVars == <<smsLine, smsAsked, smsModem, smsLast, smsNew, smsTask, smsStop, smsMain, smsBounds,
             smsSeen>>

SmsThreads == {"listener", "agent"}
SmsStores == {m[1] : m \in SmsMessages}
Command(op, arg) == [op |-> op, arg |-> arg]
Line(kind, arg) == [kind |-> kind, arg |-> arg]
Text(kind) == Line(kind, "none")

SmsAt(t, pc) == smsTask[t].pc = pc
SmsGoes(t, pc) == smsTask' = [smsTask EXCEPT ![t].pc = pc]

SmsInit ==
  /\ smsLine = <<>> /\ smsAsked = <<>>
  /\ smsModem = [stored |-> {}, selected |-> "none", prompts |-> FALSE]
  /\ smsLast = "none" /\ smsNew = <<>>
  /\ smsTask = [t \in SmsThreads |-> [pc |-> "idle", cmds |-> <<>>, tries |-> 0]]
  /\ smsStop = {} /\ smsMain = "running"
  /\ smsSeen = [arrived |-> {}, read |-> <<"none", 0>>, erased |-> {}, obeyed |-> {}]
  /\ smsBounds = [events |-> 0, silences |-> 0, overlaps |-> 0]

-----------------------------------------------------------------------------
(***************************************************************************)
(* The modem.                                                              *)
(***************************************************************************)
(* A message is stored and announced, between the answers.                  *)
SmsArrives ==
  /\ \E m \in SmsMessages \ smsSeen.arrived :
       /\ smsSeen' = [smsSeen EXCEPT !.arrived = @ \cup {m}]
       /\ smsModem' = [smsModem EXCEPT !.stored = @ \cup {m}]
       /\ smsLine' = Append(smsLine, Line("event", m))
  /\ UNCHANGED <<smsAsked, smsLast, smsNew, smsTask, smsStop, smsMain, smsBounds>>

(* What becomes of the modem, and its lines.  While it waits for the text    *)
(* of a message it takes whatever comes for a part of it.                   *)
SmsOutcomes(c) ==
  LET there == <<smsModem.selected, c.arg[2]>>
      same(kinds) == [modem |-> smsModem, lines |-> kinds]
  IN CASE smsModem.prompts /\ c.op = "text" ->
            {[modem |-> [smsModem EXCEPT !.prompts = FALSE], lines |-> <<Text("result"), Text("empty"), Text("OK")>>]}
       [] smsModem.prompts /\ c.op # "text" -> {same(<<>>)}
       [] c.op = "CPMS" /\ ~smsModem.prompts ->
            {[modem |-> [smsModem EXCEPT !.selected = c.arg[1]], lines |-> <<Text("result"), Text("empty"), Text("OK")>>]}
              \cup IF SmsSelectFails THEN {same(<<Text("ERROR")>>)} ELSE {}
       [] c.op = "CMGR" /\ ~smsModem.prompts ->
            {same(IF there \in smsModem.stored
                  THEN <<Text("result"), Line("pdu", there), Text("empty"), Text("OK")>> ELSE <<Text("OK")>>)}
       [] c.op = "CMGD" /\ ~smsModem.prompts ->
            {[modem |-> [smsModem EXCEPT !.stored = @ \ {there}], lines |-> <<Text("OK")>>]}
       [] c.op = "CMGS" /\ ~smsModem.prompts ->
            {[modem |-> [smsModem EXCEPT !.prompts = TRUE], lines |-> <<Text("prompt")>>],
             same(<<Text("ERROR")>>)}
       [] OTHER -> {same(<<Text("OK")>>)}

(* The modem answers a command, or does not take it.                        *)
SmsAnswers ==
  /\ smsAsked # <<>> /\ smsAsked' = Tail(smsAsked)
  /\ \/ \E o \in SmsOutcomes(Head(smsAsked)) :
          /\ smsModem' = o.modem /\ UNCHANGED smsBounds
          /\ smsLine' = smsLine \o IF o.lines = <<>> THEN <<>> ELSE <<Text("empty")>> \o o.lines
          /\ smsSeen' = [smsSeen EXCEPT !.erased = @ \cup (smsModem.stored \ o.modem.stored)]
     \/ /\ smsBounds.silences < SmsMaxSilences
        /\ smsBounds' = [smsBounds EXCEPT !.silences = @ + 1]
        /\ UNCHANGED <<smsModem, smsLine, smsSeen>>
  /\ UNCHANGED <<smsLast, smsNew, smsTask, smsStop, smsMain>>

-----------------------------------------------------------------------------
(***************************************************************************)
(* GsmAt: chat and sendPdu, a line at a time.                               *)
(***************************************************************************)
SmsReading(t) == smsTask[t].pc \in {"echo", "reply", "pdu", "final", "prompt"}

(* Another chat is in the middle, or has left an answer behind.             *)
SmsOverlaps(t) ==
  \/ smsAsked # <<>> \/ \E i \in DOMAIN smsLine : smsLine[i].kind # "event"
  \/ \E u \in SmsThreads \ {t} :
       SmsReading(u) \/ (SmsAt(u, "chat") /\ Head(smsTask[u].cmds).op = "text")

(* Mutant: a store is selected once, and the next one taken for it.         *)
SelectsOnce(c) == c.op \in {"CMGR", "CMGD"} /\ smsLast = "none"

(* setSMSStore: the name is kept before the modem has agreed.               *)
Selects(c) == c.op \in {"CMGR", "CMGD"} /\ smsLast # c.arg[1]

SmsCommands(t) ==
  /\ SmsAt(t, "chat") /\ Head(smsTask[t].cmds).op \notin {"check", "obey", "end"}
  /\ LET c == Head(smsTask[t].cmds)
         select == Command("CPMS", c.arg)
     IN /\ smsAsked' = Append(smsAsked, IF Selects(c) THEN select ELSE c)
        /\ smsLast' = IF Selects(c) THEN c.arg[1] ELSE smsLast
        /\ smsTask' = [smsTask EXCEPT ![t].pc = IF c.op = "text" THEN "reply" ELSE "echo",
                                      ![t].cmds = IF Selects(c) THEN <<select>> \o @ ELSE @]
  /\ SmsOverlaps(t) => smsBounds.overlaps < SmsMaxOverlaps
  /\ smsBounds' = [smsBounds EXCEPT !.overlaps = IF SmsOverlaps(t) THEN @ + 1 ELSE @]
  /\ UNCHANGED <<smsLine, smsModem, smsNew, smsStop, smsMain, smsSeen>>

(* An exception ends the listener's turn, or one message of the agent.      *)
Fails(t) ==
  smsTask' = [smsTask EXCEPT ![t] =
    IF t = "listener" THEN [pc |-> "idle", cmds |-> <<>>, tries |-> 0]
    ELSE [pc |-> "chat", cmds |-> SelectSeq(Tail(@.cmds), LAMBDA c : c.op # "text"), tries |-> SmsTries]]

Chatted(t) == smsTask' = [smsTask EXCEPT ![t].pc = "chat", ![t].cmds = Tail(@), ![t].tries = SmsTries]

(* The `+CMGS' loop asks again, six times in all.                           *)
AsksAgain(t) ==
  IF smsTask[t].tries > 0
  THEN smsTask' = [smsTask EXCEPT ![t].pc = "chat", ![t].tries = @ - 1]
  ELSE Fails(t)

(* Commands that are answered by nothing but an OK.                         *)
NoResponse == {"", "CMGD"}

(* After `+CMGS': the prompt, on which the text is sent, or an error.       *)
UnderstandsPrompt(t, line) ==
  CASE line.kind = "prompt" ->
         smsTask' = [smsTask EXCEPT ![t].pc = "chat", ![t].cmds = <<Command("text", "none")>> \o Tail(@)]
    [] line.kind \in {"ERROR", "result"} -> AsksAgain(t)
    [] OTHER -> Fails(t)

(* What a thread makes of a line: the echo of its command, its first line   *)
(* of the answer, the PDU, and the end of the answer.  An empty memory      *)
(* gives a null message, which the listener uses.                          *)
Understands(t, line) ==
  LET c == Head(smsTask[t].cmds) IN
  \/ SmsAt(t, "echo") /\ SmsGoes(t, IF c.op = "CMGS" THEN "prompt" ELSE "reply")
  \/ /\ ~SmsAt(t, "echo") /\ line.kind = "empty" /\ UNCHANGED smsTask
  \/ /\ SmsAt(t, "reply") /\ line.kind # "empty"
     /\ IF line.kind = "ERROR" THEN Fails(t)
        ELSE IF c.op \in NoResponse THEN (IF line.kind = "OK" THEN Chatted(t) ELSE Fails(t))
        ELSE IF c.op = "CMGR"
             THEN IF line.kind = "OK" THEN SmsGoes(t, "crashed") ELSE SmsGoes(t, "pdu")
        ELSE IF c.op = "text" /\ line.kind # "result" THEN Fails(t)
        ELSE SmsGoes(t, "final")
  \/ /\ SmsAt(t, "pdu") /\ line.kind # "empty"
     /\ IF line.kind = "OK" THEN SmsGoes(t, "crashed") ELSE SmsGoes(t, "final")
  \/ SmsAt(t, "final") /\ line.kind # "empty" /\ IF line.kind = "OK" THEN Chatted(t) ELSE Fails(t)
  \/ SmsAt(t, "prompt") /\ line.kind # "empty" /\ UnderstandsPrompt(t, line)

(* getLine: an announcement is put aside, whoever reads it.                 *)
SmsReadsLine(t) ==
  /\ SmsReading(t) /\ smsLine # <<>>
  /\ LET line == Head(smsLine) IN
     /\ smsLine' = Tail(smsLine)
     /\ IF line.kind = "event" THEN smsNew' = Append(smsNew, line.arg) /\ UNCHANGED smsTask
        ELSE Understands(t, line) /\ UNCHANGED smsNew
     /\ smsSeen' = IF SmsAt(t, "pdu") /\ line.kind = "pdu"
                   THEN [smsSeen EXCEPT !.read = line.arg] ELSE smsSeen
  /\ UNCHANGED <<smsAsked, smsModem, smsLast, smsStop, smsMain, smsBounds>>

(* readByte gives up after a minute, which is enough for a modem that       *)
(* answers at all.                                                         *)
SmsTimesOut(t) ==
  /\ SmsReading(t) /\ smsLine = <<>> /\ smsAsked = <<>>
  /\ IF SmsAt(t, "prompt") THEN AsksAgain(t) ELSE Fails(t)
  /\ UNCHANGED <<smsLine, smsAsked, smsModem, smsLast, smsNew, smsStop, smsMain, smsBounds, smsSeen>>

-----------------------------------------------------------------------------
(***************************************************************************)
(* CSMSListener: data on the line is fetched with an empty command, then    *)
(* one announced message is read twice, erased and obeyed.                  *)
(***************************************************************************)
Script(t, cmds) == smsTask' = [smsTask EXCEPT ![t] = [pc |-> "chat", cmds |-> cmds, tries |-> SmsTries]]

SmsWaitsEvent ==
  /\ SmsAt("listener", "idle")
  /\ IF "listener" \in smsStop THEN SmsGoes("listener", "done")
     ELSE IF smsLine # <<>> THEN Script("listener", <<Command("", "none"), Command("check", "none")>>)
     ELSE Script("listener", <<Command("check", "none")>>)
  /\ UNCHANGED <<smsLine, smsAsked, smsModem, smsLast, smsNew, smsStop, smsMain, smsBounds, smsSeen>>

CheckForNewMessages ==
  /\ SmsAt("listener", "chat") /\ Head(smsTask["listener"].cmds).op = "check"
  /\ IF smsNew = <<>> THEN SmsGoes("listener", "idle") /\ UNCHANGED smsNew
     ELSE /\ Script("listener", [i \in 1 .. 4 |-> Command(<<"CMGR", "CMGR", "CMGD", "obey">>[i], Head(smsNew))])
          /\ smsNew' = Tail(smsNew)
  /\ UNCHANGED <<smsLine, smsAsked, smsModem, smsLast, smsStop, smsMain, smsBounds, smsSeen>>

(* The commands of the text, for the number that it came from.              *)
SmsObeys ==
  /\ SmsAt("listener", "chat") /\ Head(smsTask["listener"].cmds).op = "obey"
  /\ smsSeen' = [smsSeen EXCEPT !.obeyed = @ \cup {smsSeen.read}]
  /\ SmsGoes("listener", "idle")
  /\ UNCHANGED <<smsLine, smsAsked, smsModem, smsLast, smsNew, smsStop, smsMain, smsBounds>>

-----------------------------------------------------------------------------
(***************************************************************************)
(* CEIBAgent, and Close of the server, which waits for both threads.        *)
(***************************************************************************)
(* A command that some users want to be told of, one message for each.      *)
SmsHears ==
  /\ SmsAt("agent", "idle")
  /\ \/ "agent" \in smsStop /\ SmsGoes("agent", "done") /\ UNCHANGED smsBounds
     \/ /\ "agent" \notin smsStop /\ smsBounds.events < SmsMaxEvents
        /\ smsBounds' = [smsBounds EXCEPT !.events = @ + 1]
        /\ Script("agent", [i \in 1 .. Cardinality(SmsAlerts) |-> Command("CMGS", "none")]
                             \o <<Command("end", "none")>>)
  /\ UNCHANGED <<smsLine, smsAsked, smsModem, smsLast, smsNew, smsStop, smsMain, smsSeen>>

SmsAgentEnds ==
  /\ SmsAt("agent", "chat") /\ Head(smsTask["agent"].cmds).op = "end"
  /\ SmsGoes("agent", "idle")
  /\ UNCHANGED <<smsLine, smsAsked, smsModem, smsLast, smsNew, smsStop, smsMain, smsBounds, smsSeen>>

SmsCloses ==
  /\ \/ smsMain = "running" /\ smsMain' = "join agent" /\ smsStop' = {"agent"}
     \/ /\ smsMain = "join agent" /\ SmsAt("agent", "done")
        /\ smsMain' = "join listener" /\ smsStop' = SmsThreads
     \/ smsMain = "join listener" /\ SmsAt("listener", "done") /\ smsMain' = "closed" /\ UNCHANGED smsStop
  /\ UNCHANGED <<smsLine, smsAsked, smsModem, smsLast, smsNew, smsTask, smsBounds, smsSeen>>

SmsChats(t) == SmsCommands(t) \/ SmsReadsLine(t) \/ SmsTimesOut(t)
SmsListens == SmsChats("listener") \/ SmsWaitsEvent \/ CheckForNewMessages \/ SmsObeys
SmsTells == SmsChats("agent") \/ SmsHears \/ SmsAgentEnds
SmsNext == SmsArrives \/ SmsAnswers \/ SmsListens \/ SmsTells \/ SmsCloses

SmsFairness == WF_smsVars(SmsAnswers) /\ WF_smsVars(SmsListens) /\ WF_smsVars(SmsTells) /\ WF_smsVars(SmsCloses /\ smsMain # "running")
SmsSpec == SmsInit /\ [][SmsNext]_smsVars /\ SmsFairness

-----------------------------------------------------------------------------
(***************************************************************************)
(* Properties.                                                             *)
(***************************************************************************)
(* Close returns: the threads are waited for in the middle of a chat, with   *)
(* a modem that may have fallen silent.                                     *)
SmsCloseReturns == smsMain = "join agent" ~> smsMain = "closed"

(* A message that is erased from the modem is obeyed, although it is erased  *)
(* first; and one that has arrived is read from its own store and obeyed,    *)
(* unless the modem has fallen silent or the server is closing.              *)
SmsObeyed ==
  \A m \in SmsMessages :
    /\ m \in smsSeen.erased ~> m \in smsSeen.obeyed
    /\ m \in smsSeen.arrived ~> (m \in smsSeen.obeyed \/ smsBounds.silences > 0 \/ smsStop # {})
=============================================================================
