--------------------------- MODULE MCServerParts ---------------------------
(***************************************************************************)
(* The parts of the server that share nothing with each other here: one of  *)
(* them runs, and the others rest.  What follows when two have saved a list *)
(* of users at a time is not explored: nothing is stated of it.            *)
(***************************************************************************)
EXTENDS CommandScheduler, BufferNoSync, WebSessions, JtcMonitor, StatsRecords, WebDocuments, ProgramConfigs

CONSTANTS a, b, c

VARIABLE running

MCValues == {a, b, c}

MCRights == {{"read", "web"}, {"read", "write", "web", "admin"}}

partsVars == <<running, vars, bufferVars, webVars, jtcVars, statsVars, docVars, cfgVars>>

(* Users, and the XML that another program writes by hand.                  *)
DocUser(name, pass, rights, src, dst) ==
  [name |-> name, pass |-> pass, rights |-> <<rights>>, src |-> <<src>>, dst |-> <<dst>>]

MCDocUsers ==
  {{DocUser(<<"ann">>, <<"p", "&", "<", "\"">>, "15", "65535", "255"),
    DocUser(<<"o", "'", "neil">>, <<"&", "amp", ";", " ", ">", "\t">>, "3", "4096", "65535")},
   {DocUser(<<"ann">>, <<>>, "9", "1", "2")}}
MCDocTyped ==
  {DocUser(<<" ", "ann", " ">>, <<"a", " ", "b">>, "5", "65535", "7"),
   DocUser(<<"eve">>, <<>>, "0", "1", "65535")}

Tag(name, text) == <<"<", name, ">">> \o text \o <<"<", "/", name, ">">>
PostedUser(name, pass) ==
  Tag("EIB_SERVER_USER",
      Tag("EIB_SERVER_USER_NAME", name) \o <<"<", "!--", " ", "&", " ", "--", ">">>
        \o Tag("EIB_SERVER_USER_PASSWORD", pass) \o Tag("EIB_SERVER_USER_PRIVILIGES", <<"7">>)
        \o <<"\n", "<", "NOTE", " ", "/", ">">>
        \o Tag("EIB_SERVER_USER_SOURCE_ADDR_MASK", <<"1">>) \o Tag("EIB_SERVER_USER_DST_ADDR_MASK", <<"2">>))
Posted(users) ==
  <<"<", "?xml", " ", "version", "=", "'", "1.0", "'", "\n", "other", "=", "x", " ", "?", ">", "\n",
    "<", "!DOCTYPE", " ", "Root", ">", "<", "Root", " ", "a", "=", "\"", "'", "&", "lt", ";", "\"", "\n",
    "b", " ", "=", " ", "'", "\"", "'", " ", "c", "=", "1", ">">>
    \o Tag("EIB_SERVER_USERS_LIST", FlattenSeq([i \in DOMAIN users |-> PostedUser(users[i][1], users[i][2])]))
    \o <<"<", "/", "Root", ">", "\n">>
MCDocPosts ==
  {[body |-> Posted(<<<<<<" ", "bob", "\n">>, <<"x", "\n", " ", "&", "#x", "09", ";", "y">>>>,
                      <<<<"bob">>, <<"<", "![CDATA[", "<", "&", "]]", ">">>>>>>),
    means |-> <<DocUser(<<"bob">>, <<"<", "&">>, "7", "1", "2")>>],
   [body |-> Posted(<<<<<<"bob">>, <<"x", "\n", " ", "&", "#x", "09", ";", "y">>>>>>),
    means |-> <<DocUser(<<"bob">>, <<"x", " ", "\t", "y">>, "7", "1", "2")>>]}

DocRow(address, group, value) ==
  [address |-> <<address>>, group |-> group, time |-> <<"1/1/2026", " ", "10:00:00">>,
   value |-> <<value>>, count |-> <<"3">>]
MCDocTables ==
  {<<>>, <<DocRow("1/2/3", TRUE, "0x81")>>, <<DocRow("1.1.4", FALSE, "0x0"), DocRow("1/2/4", TRUE, "0x1")>>}
MCDocDevices ==
  {[address |-> <<"10.0.0.2">>, port |-> <<"3671">>, mode |-> mode, auto |-> auto,
    lastSent |-> <<"Never">>, lastReceived |-> <<"1/1/2026", " ", "10:00:00">>, sent |-> <<"0">>,
    received |-> <<"12">>, running |-> isUp, info |-> info] :
     mode \in {"Routing", "Tunneling"}, auto \in {TRUE, FALSE}, isUp \in {TRUE, FALSE},
     info \in {<<>>, <<[name |-> <<"IP", " ", "Router">>, mac |-> <<"00:24">>, phy |-> <<"1.1.1">>,
                        serial |-> <<"00C5">>, mcast |-> <<"224.0.23.12">>, services |-> <<"\n", "Core">>]>>}}

(* Configuration files, and what is typed at the console.                   *)
MCCfgPrograms == {"server", "relay", "emulator", "amx", "sms"}
Sets(n, value) == <<n, " ", "=", " ">> \o value
InGeneral(lines) == <<<<"[", "G", "]">>>> \o lines
MCCfgFiles ==
  {InGeneral(<<<<"#", "x">>, Sets("level", <<"1">>), <<>>, <<"#", "y">>, <<"#", "z">>, Sets("port", <<"2", "x">>)>>),
   InGeneral(<<Sets("auto", <<"TRUE">>), <<"#", "x">>, Sets("auto", <<"no">>), Sets("address", <<"=", " ", "#">>),
               <<"#", "y">>>>),
   InGeneral(<<Sets("port", <<"3">>), Sets("key", <<>>)>>),
   InGeneral(<<Sets("u", <<"3">>), Sets("port", <<"3">>)>>),
   <<<<"[", "O", "]">>, Sets("level", <<"1">>)>> \o InGeneral(<<Sets("level", <<"2">>)>>)}
MCCfgTyped == {<<>>, <<"n">>, <<" ", "2">>}

(* The scheduler after Close.                                               *)
SchedulerEnded ==
  /\ now = MaxTime /\ schedule = {} /\ monitor = "free"
  /\ run = [pc |-> "dead", next |-> 0, wake |-> 0, t |-> 0, cmd |-> NoCommand]
  /\ web = [pc |-> "idle", due |-> 0] /\ main = "closed" /\ stop = TRUE
  /\ output = TRUE /\ accepted = 0 /\ sent = <<>>

WebEnded ==
  /\ usersFile = <<>> /\ usersDb = NoUsers /\ webSessions = NoUsers /\ webMain = "failed"
  /\ webClosing = [pc |-> "no", place |-> 0] /\ webMixed = FALSE
  /\ webSeed = [done |-> TRUE, drawn |-> 0] /\ webBrowser = [w \in WebBrowsers |-> WebIdle]
  /\ webBudget = [calls |-> 0, edits |-> 0] /\ usersLists = {{}}

PartsInit ==
  /\ running \in {"scheduler", "buffer", "web", "monitor", "stats", "documents", "configs"}
  /\ IF running = "scheduler" THEN Init ELSE SchedulerEnded
  /\ IF running = "web" THEN WebInit ELSE WebEnded
  /\ IF running = "documents" THEN DocInit ELSE DocRest
  /\ IF running = "configs" THEN CfgInit ELSE CfgRest
  /\ BufferInit /\ JtcInit /\ StatsInit

PartsNext ==
  /\ \/ running = "scheduler" /\ Next /\ UNCHANGED <<bufferVars, webVars, jtcVars, statsVars, docVars, cfgVars>>
     \/ running = "buffer" /\ BufferNext /\ UNCHANGED <<vars, webVars, jtcVars, statsVars, docVars, cfgVars>>
     \/ running = "web" /\ ~webMixed /\ WebNext /\ UNCHANGED <<vars, bufferVars, jtcVars, statsVars, docVars, cfgVars>>
     \/ running = "monitor" /\ JtcNext /\ UNCHANGED <<vars, bufferVars, webVars, statsVars, docVars, cfgVars>>
     \/ running = "stats" /\ StatsNext /\ UNCHANGED <<vars, bufferVars, webVars, jtcVars, docVars, cfgVars>>
     \/ running = "documents" /\ DocNext
        /\ UNCHANGED <<vars, bufferVars, webVars, jtcVars, statsVars, cfgVars>>
     \/ running = "configs" /\ CfgNext
        /\ UNCHANGED <<vars, bufferVars, webVars, jtcVars, statsVars, docVars>>
  /\ UNCHANGED running

PartsSpec == PartsInit /\ [][PartsNext]_partsVars /\ Fairness

(* What is written down is kept: a list of users on its way through the     *)
(* documents of the pages, and the configuration through every start,       *)
(* reload, console and stop.                                               *)
WrittenIsKept == DocumentsKept /\ ConfigKept
=============================================================================
