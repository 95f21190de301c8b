-------------------------- MODULE MCClientPrograms --------------------------
(***************************************************************************)
(* The programs that connect to the EIB server: the session that all of      *)
(* them have, and what two of them do with it.  They share nothing, so that  *)
(* one runs and the others rest.  Two sessions are as many as one            *)
(* OpenConnection can ask for.                                              *)
(***************************************************************************)
EXTENDS Handshake, AmxGateway, SmsGateway, SmsMappings, SmsPdu, LoginMessages

VARIABLE running

programVars == <<running, vars, amxVars, smsVars, mapVars, pduVars, loginVars>>

TwoSessions == 1 .. 2
MCLoginUsers ==
  [n \in {LoginText("ann"), LoginText("bob")} |-> IF n.word = "ann" THEN LoginText("key") ELSE LoginText("")]
MCLoginNames ==
  {LoginText("ann"), LoginText("bob"), LoginText("carl"), [before |-> 1, word |-> "ann", after |-> 0]}
MCLoginPasswords == {LoginText("key"), LoginText(""), [before |-> 0, word |-> "key", after |-> 1]}
MCSmsTexts == <<<<"off">>, <<"on">>, <<"on", Gap, "off">>>>
MCSmsFiles ==
  {<<>>,
   <<Block("05"), Param("EIB_TO_SMS", <<"1/2/3", Colon, "0x81", Colon, "on">>), Blank,
     Param("SMS_TO_EIB", <<"on", Colon, "0x81", Colon, "1/2/3">>)>>}

PlainText(n) == [i \in 1 .. n |-> 64 + (i % 26)]
MCPduTexts == {PlainText(n) : n \in (0 .. 9) \cup {160, 161}} \cup {<<228, 128, 172, 36, 233>>}
MCPduNumbers == {[plus |-> p, digits |-> ds] : p \in BOOLEAN, ds \in {<<1>>, <<9, 0, 5>>, <<0, 5, 2, 3>>}}
Phone == Address([plus |-> TRUE, digits |-> <<9, 7, 2>>])
Sender(n) == [type |-> Alphanumeric, plan |-> 0, number |-> PlainText(n)]
LastMinute == [digits |-> <<24, 12, 31, 23, 59, 8>>, zone |-> [minutes |-> 120, negative |-> TRUE]]
DeliverMessage(address, dcs, text) ==
  [type |-> "deliver", sca |-> Phone, more |-> 1, report |-> 0, reply |-> 1, address |-> address, pid |-> 3,
   dcs |-> dcs, time |-> LastMinute, text |-> text]
MCPduIncoming ==
  {DeliverMessage(address, 0, PlainText(n)) : address \in {Phone} \cup {Sender(k) : k \in 1 .. 8}, n \in 6 .. 8}
  \cup {DeliverMessage(Phone, dcs, PlainText(n)) @@ [header |-> <<0, 3, 7, 2, 1>>] : dcs \in {0, 4}, n \in 0 .. 8}
  \cup {DeliverMessage(Phone, 8, <<0, 255, 128>>)}
  \cup {[type |-> "status", sca |-> NoSca, more |-> 0, qualifier |-> 1, reference |-> 9, address |-> Phone,
         time |-> LastMinute, discharge |-> [LastMinute EXCEPT !.zone = [minutes |-> 45, negative |-> FALSE]], status |-> 255]}
  \cup {[type |-> "submitReport", sca |-> NoSca, time |-> LastMinute] @@ o :
          o \in {<<>>, [pid |-> 1], [dcs |-> 4, text |-> <<1, 2>>], [text |-> PlainText(3)],
                 [pid |-> 255, dcs |-> 0, text |-> PlainText(8)]}}
  \cup {[type |-> "deliverReport", sca |-> NoSca] @@ o : o \in {<<>>, [pid |-> 1, text |-> PlainText(7)]}}
  \cup {[type |-> "command", sca |-> NoSca, report |-> 1, reference |-> 1, pid |-> 0, command |-> 2,
         message |-> 7, address |-> Phone, data |-> <<>>]}
  \cup {[SubmitMessage([plus |-> TRUE, digits |-> <<1, 2>>], PlainText(3))
           EXCEPT !.format = v.format, !.validity = v] :
          v \in {[format |-> 0], [format |-> 2, relative |-> 255], [format |-> 3, absolute |-> LastMinute]}}
TwoStores == {<<"SM", 1>>, <<"ME", 1>>}

(* Every packet of one or two frames, of presses that are translated, of a    *)
(* kind that both loops know, one that only the second does, and one that    *)
(* neither does; and each of the three between two presses.                  *)
MCServices == {"06", "16", "00"}
MCAmxPackets ==
  (BoundedSeq(AmxEntries \cup MCServices, 2) \ {<<>>})
    \cup {<<"1 on", kind, "1 off">> : kind \in MCServices} \cup {<<"1 on", "1 off", "1 on">>}

HandshakeEnded ==
  /\ app = [pc |-> "closed", tries |-> 0, result |-> "no reply", reopens |-> MaxReopens, sends |-> 0]
  /\ status = "disconnected" /\ session = None
  /\ beat = [pc |-> "new", stop |-> FALSE, timer |-> 0]
  /\ inbox = <<>> /\ beatIn = <<>> /\ probe = "none"
  /\ hellos = [sent |-> Cardinality(Sessions), in |-> <<>>]
  /\ srv = [s \in Sessions |-> NewSession] /\ lost = TRUE

AmxEnded ==
  /\ amxTable = {} /\ amxMain = "destroyed" /\ amxConnected = FALSE
  /\ amxIn = [pc |-> "done", parse |-> <<>>, maintain |-> <<>>] /\ amxOut = [pc |-> "done"]
  /\ amxStop = {"eib", "amx"}
  /\ amxPanel = [up |-> FALSE, packets |-> 0, events |-> 0, presses |-> <<>>]
  /\ amxPassed = <<>> /\ amxExpected = <<>>

SmsEnded ==
  /\ smsLine = <<>> /\ smsAsked = <<>> /\ smsNew = <<>> /\ smsLast = "none"
  /\ smsModem = [stored |-> {}, selected |-> "none", prompts |-> FALSE]
  /\ smsTask = [t \in SmsThreads |-> [pc |-> "done", cmds |-> <<>>, tries |-> 0]]
  /\ smsStop = SmsThreads /\ smsMain = "closed"
  /\ smsSeen = [arrived |-> {}, read |-> <<"none", 0>>, erased |-> {}, obeyed |-> {}]
  /\ smsBounds = [events |-> 0, silences |-> 0, overlaps |-> 0]

MappingsEnded ==
  /\ mapDb = Empty /\ mapFile = <<>> /\ mapSaved = Empty
  /\ mapConsole = [pc |-> "off", number |-> "none"]
  /\ mapEdits = 0

(* The messages of a login after a discovery that nobody answered.          *)
LoginEnded ==
  /\ loginServer = [pc |-> "listens", dh |-> NoKeys, mode |-> 1, ports |-> <<0, 0>>, user |-> LoginText("")]
  /\ loginProgram = [pc |-> "done", dh |-> NoKeys, initial |-> OtherKey, port |-> 0,
                     ports |-> <<0, 0>>, session |-> 0, name |-> LoginText("ann"),
                     password |-> LoginText("key"), mode |-> "undefined", result |-> "no reply"]
  /\ loginNet = Nothing

ProgramsInit ==
  /\ running \in {"session", "amx", "sms", "mappings", "pdu", "login"}
  /\ IF running = "session" THEN Init ELSE HandshakeEnded
  /\ IF running = "amx" THEN AmxInit ELSE AmxEnded
  /\ IF running = "sms" THEN SmsInit ELSE SmsEnded
  /\ IF running = "mappings" THEN MappingsInit ELSE MappingsEnded
  /\ IF running = "login" THEN LoginInit ELSE LoginEnded
  /\ PduInit

ProgramsNext ==
  /\ \/ running = "session" /\ Next /\ UNCHANGED <<amxVars, smsVars, mapVars, pduVars, loginVars>>
     \/ running = "amx" /\ AmxNext /\ UNCHANGED <<vars, smsVars, mapVars, pduVars, loginVars>>
     \/ running = "sms" /\ SmsNext /\ UNCHANGED <<vars, amxVars, mapVars, pduVars, loginVars>>
     \/ running = "mappings" /\ MappingsNext /\ UNCHANGED <<vars, amxVars, smsVars, pduVars, loginVars>>
     \/ running = "pdu" /\ PduNext /\ UNCHANGED <<vars, amxVars, smsVars, mapVars, loginVars>>
     \/ running = "login" /\ LoginNext /\ UNCHANGED <<vars, amxVars, smsVars, mapVars, pduVars>>
  /\ UNCHANGED running

ProgramsSpec == ProgramsInit /\ [][ProgramsNext]_programVars /\ Fairness /\ AmxFairness /\ SmsFairness

(* Close of a program returns: of any of them, whose heartbeat keeps a        *)
(* monitor that Close needs, and of the SMS server, which waits for two      *)
(* threads in the middle of a chat with a modem that may be silent.         *)
EveryCloseReturns == CloseReturns /\ SmsCloseReturns
=============================================================================
