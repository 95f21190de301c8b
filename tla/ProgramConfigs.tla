--------------------------- MODULE ProgramConfigs ---------------------------
(***************************************************************************)
(* The configuration file of a program: how it is read when the program    *)
(* starts, asked for at the console, read again while the program runs, and *)
(* written when it stops.  The five programs share CConfigFile and differ   *)
(* in what they do when the file cannot be read.                            *)
(*                                                                         *)
(* A text is a sequence of characters, a line is a text and a file is a     *)
(* sequence of lines.                                                      *)
(***************************************************************************)
EXTENDS Naturals, Sequences, SequencesExt

CONSTANTS CfgPrograms,     \* the programs, of "server", "relay", "emulator", "amx", "sms"
          CfgFiles,        \* the files that a user writes by hand
          CfgTyped,        \* what a user types at the console
          CfgMaxSteps,     \* bound of the starts, stops and edits
          CfgMaxConsoles   \* and of the runs with -i

ASSUME ProgramConfigsAssumption ==
  CfgPrograms \subseteq {"server", "relay", "emulator", "amx", "sms"}
    /\ CfgMaxSteps \in Nat /\ CfgMaxConsoles \in Nat

VARIABLES cfgProgram, cfgFile, cfgRun, cfgLast, cfgBudget

cfgVars == <<cfgProgram, cfgFile, cfgRun, cfgLast, cfgBudget>>

NoFile == <<<<"no file">>>>
General == <<"G">>

----------------------------------------------------------------------------
(* CConfigFile.                                                             *)

CfgTrim(text) ==
  LET solid == {i \in DOMAIN text : text[i] # " "}
  IN  IF solid = {} THEN <<>>
      ELSE SubSeq(text, CHOOSE i \in solid : \A j \in solid : i <= j,
                        CHOOSE i \in solid : \A j \in solid : i >= j)

HasParam(params, name) == \E i \in DOMAIN params : params[i].name = name
HasBlock(conf, name) == \E i \in DOMAIN conf : conf[i].name = name

(* Update keeps the comments of a parameter that is there.                  *)
UpdateParam(params, name, value) ==
  IF HasParam(params, name)
  THEN [i \in DOMAIN params |->
          IF params[i].name = name THEN [params[i] EXCEPT !.value = value] ELSE params[i]]
  ELSE Append(params, [name |-> name, value |-> value, comments |-> <<>>])

(* The reader of one file: the blocks so far, the section it is in with all *)
(* parameters since the beginning of the file, and the comments that wait   *)
(* for the next parameter.                                                 *)
CfgReader(conf) == [conf |-> conf, name |-> <<>>, params |-> <<>>, comments |-> <<>>, thrown |-> FALSE]

EndBlock(r) ==
  IF r.name # <<>> /\ ~HasBlock(r.conf, r.name)
  THEN [r EXCEPT !.conf = Append(@, [name |-> r.name, params |-> r.params])]
  ELSE r

ReadParam(r, line, at) ==
  LET name == CfgTrim(SubSeq(line, 1, at - 1))
      value == CfgTrim(SubSeq(line, at + 1, Len(line)))
  IN  IF at = Len(line) \/ r.name = <<>> THEN [r EXCEPT !.thrown = TRUE]
      ELSE [r EXCEPT !.comments = <<>>,
                     !.params = IF HasParam(@, name) THEN @
                                ELSE Append(@, [name |-> name, value |-> value, comments |-> r.comments])]

ReadTrimmed(r, line) ==
  IF r.thrown \/ Len(line) < 2 THEN r
  ELSE IF line[1] = "[" /\ Last(line) = "]"
       THEN [EndBlock(r) EXCEPT !.name = SubSeq(line, 2, Len(line) - 1)]
  ELSE IF line[1] = "[" \/ Last(line) = "]" THEN [r EXCEPT !.thrown = TRUE]
  ELSE IF line[1] = "#"
       THEN IF HasParam(r.params, <<>>) THEN r ELSE [r EXCEPT !.comments = Append(@, line)]
  ELSE IF Contains(line, "=")
       THEN ReadParam(r, line, CHOOSE i \in DOMAIN line : line[i] = "=" /\ \A j \in 1 .. i - 1 : line[j] # "=")
  ELSE [r EXCEPT !.thrown = TRUE]

ReadLine(r, line) == ReadTrimmed(r, CfgTrim(line))

EndFile(r) == IF r.thrown THEN r ELSE EndBlock(r)

(* The blocks of an earlier Load are still there, and are not replaced.     *)
LoadFromFile(conf, file) == EndFile(FoldLeft(ReadLine, CfgReader(conf), file))

ParamLines(param) ==
  (IF param.comments = <<>> THEN <<>> ELSE <<<<>>>> \o param.comments)
    \o <<param.name \o <<" ", "=", " ">> \o param.value>>
BlockLines(block) ==
  <<<<"[">> \o block.name \o <<"]">>>>
    \o FlattenSeq([i \in DOMAIN block.params |-> ParamLines(block.params[i])]) \o <<<<>>>>
SaveToFile(conf) == FlattenSeq([i \in DOMAIN conf |-> BlockLines(conf[i])])

----------------------------------------------------------------------------
(* The five classes made from it.  A member is held as the text that        *)
(* ParamToString gives it.                                                 *)

(* One parameter of each sort that the programs have.                       *)
Entries ==
  CASE cfgProgram \in {"server", "relay", "sms"} -> {"key", "port", "auto", "address", "level"}
    [] cfgProgram = "amx" -> {"key", "port", "address", "level"}
    [] cfgProgram = "emulator" -> {"port", "level"}

Default(n) ==
  CASE n = "key" -> <<"EIBKEY">>
    [] n = "port" -> <<"5000">>
    [] n = "address" -> <<"127.0.0.1">>
    [] n = "level" -> <<"3">>
    [] n = "auto" -> IF cfgProgram = "server" THEN <<"false">> ELSE <<"true">>

Defaults == [n \in Entries |-> Default(n)]

Kind(n) ==
  CASE n \in {"key", "address"} -> "text"
    [] n \in {"port", "level"} -> "number"
    [] n = "auto" -> "flag"

Digits == {"0", "1", "2", "3", "5000"}

(* A number is what the text starts with, and 0 if it starts with no digit. *)
FromText(kind, text) ==
  CASE kind = "text" -> text
    [] kind = "flag" -> IF text \in {<<"true">>, <<"TRUE">>} THEN <<"true">> ELSE <<"false">>
    [] kind = "number" ->
         LET n == CHOOSE k \in 0 .. Len(text) :
                    /\ \A i \in 1 .. k : text[i] \in Digits
                    /\ k < Len(text) => text[k + 1] \notin Digits
         IN  IF n = 0 THEN <<"0">> ELSE SubSeq(text, 1, n)

LoadGeneralBlock(values, params) ==
  [n \in Entries |->
     IF HasParam(params, <<n>>)
     THEN FromText(Kind(n), (CHOOSE i \in ToSet(params) : i.name = <<n>>).value)
     ELSE values[n]]

HasUnknown(conf) ==
  \E b \in ToSet(conf) : b.name = General /\ \E p \in ToSet(b.params) : p.name \notin {<<n>> : n \in Entries}

LoadBlocks(conf) ==
  IF HasBlock(conf, General)
  THEN LoadGeneralBlock(Defaults, (CHOOSE b \in ToSet(conf) : b.name = General).params)
  ELSE Defaults

(* What Load leaves in the object: the blocks, the members, and whether it  *)
(* returned.  An unknown parameter is noticed after the members are set.    *)
Loaded(r) ==
  [conf |-> r.conf, ok |-> ~r.thrown /\ ~HasUnknown(r.conf),
   values |-> IF r.thrown THEN Defaults ELSE LoadBlocks(r.conf)]
LoadConf(conf, file) ==
  IF file = NoFile THEN [conf |-> conf, ok |-> FALSE, values |-> Defaults]
  ELSE Loaded(LoadFromFile(conf, file))

(* Entries has no order; the one that the parameters new to the file are *)
(* written in makes no difference to who reads them.                        *)
EntryOrder == SetToSeq(Entries)

SaveGeneralBlock(params, values) ==
  FoldLeft(LAMBDA ps, n : UpdateParam(ps, <<n>>, values[n]), params, EntryOrder)

SavedBlocks(conf, values) ==
  [i \in DOMAIN conf |->
     IF conf[i].name = General THEN [conf[i] EXCEPT !.params = SaveGeneralBlock(@, values)] ELSE conf[i]]
SaveConf(conf, values) ==
  SavedBlocks(IF conf = <<>> THEN <<[name |-> General, params |-> <<>>]>> ELSE conf, values)

----------------------------------------------------------------------------
(* The console.  An input that is not understood is asked for again.        *)

StartsWithNumber(input) == CfgTrim(input) # <<>> /\ CfgTrim(input)[1] \in Digits

(* Enter alone takes what the configuration has.                            *)
Entered(old, understood) == understood \cup {old : input \in CfgTyped \cap {<<>>}}

TextAnswers(old) == Entered(old, CfgTyped \ {<<>>})
NumberAnswers(old) ==
  Entered(old, {FromText("number", CfgTrim(input)) : input \in {i \in CfgTyped : StartsWithNumber(i)}})
FlagAnswers(old) ==
  Entered(old, {IF input = <<"y">> THEN <<"true">> ELSE <<"false">> : input \in CfgTyped \cap {<<"y">>, <<"n">>}})
LevelAnswers(old) == Entered(old, NumberAnswers(old) \cap {<<"1">>, <<"2">>, <<"3">>})

ConsoleAnswers(n, old) ==
  CASE n = "level" -> LevelAnswers(old)
    [] n = "port" -> NumberAnswers(old)
    [] n = "auto" -> FlagAnswers(old)
    [] n \in {"key", "address"} -> TextAnswers(old)

AskFor(reached, n) ==
  UNION {{[values EXCEPT ![n] = answer] : answer \in ConsoleAnswers(n, values[n])} : values \in reached}
AskEach(reached, names) == FoldLeft(AskFor, reached, names)

(* Questions that only an answer no leads to.                               *)
AskUnlessAuto(reached, names) ==
  {v \in reached : v["auto"] = <<"true">>} \cup AskEach({v \in reached : v["auto"] = <<"false">>}, names)

ServerAsks(values) == AskUnlessAuto(AskEach({values}, <<"key", "port", "level", "auto">>), <<"address">>)
RelayAsks(values) ==
  AskEach(AskUnlessAuto(AskEach({values}, <<"key", "auto">>), <<"address", "port">>), <<"level">>)
EmulatorAsks(values) == AskEach({values}, <<"level">>)
SmsAsks(values) ==
  AskEach(AskUnlessAuto(AskEach({values}, <<"key", "auto">>), <<"address", "port">>), <<"level">>)

----------------------------------------------------------------------------
(* What a file says, to one who reads it line by line.                      *)

IsSection(line) == Len(line) > 1 /\ line[1] = "[" /\ Last(line) = "]"
IsComment(line) == Len(line) > 1 /\ line[1] = "#"
Says(line, n) == Len(line) > 4 /\ SubSeq(line, 1, 4) = <<n, " ", "=", " ">>

(* One section, the general one, first, and nothing that Load refuses.      *)
Clean(file) ==
  /\ file # NoFile /\ file # <<>> /\ file[1] = <<"[">> \o General \o <<"]">>
  /\ \A i \in DOMAIN file :
       \/ file[i] = <<>>
       \/ IsSection(file[i]) /\ i = 1
       \/ IsComment(file[i]) /\ Last(file[i]) # "]" /\ i < Len(file)
       \/ Last(file[i]) \notin {"]", " "} /\ \E n \in Entries : Says(file[i], n)

Value(line) == CfgTrim(SubSeq(line, 5, Len(line)))

SaidValues(file) ==
  [n \in Entries |->
     LET said == {i \in DOMAIN file : Says(file[i], n)}
     IN  IF said = {} THEN Default(n)
         ELSE FromText(Kind(n), Value(file[CHOOSE i \in said : \A j \in said : i <= j]))]

(* Each comment with the parameter that it stands above.                    *)
Remarks(file) ==
  {r \in {line \in ToSet(file) : IsComment(line)} \X Entries :
     \E i, j \in DOMAIN file :
       /\ i < j /\ file[i] = r[1] /\ Says(file[j], r[2])
       /\ \A k \in i .. j - 1 : file[k] = <<>> \/ IsComment(file[k])
       /\ \A k \in 1 .. j - 1 : ~Says(file[k], r[2])}

(* A line that is none of a section, a comment and a value.                 *)
Broken(file) ==
  file = NoFile \/ \E i \in DOMAIN file :
    Len(file[i]) > 1 /\ ~IsSection(file[i]) /\ ~IsComment(file[i])
      /\ (~Contains(file[i], "=") \/ Last(file[i]) = "=")

Expected(file) == IF file = NoFile THEN Defaults ELSE SaidValues(file)

----------------------------------------------------------------------------
(* The programs.  cfgLast is who wrote the file last, the file that it had  *)
(* read before, and the values that it was told to write.                  *)

CfgStopped == [pc |-> "stopped", conf |-> <<>>, values |-> Defaults, ok |-> FALSE, read |-> NoFile]

CfgInit ==
  /\ cfgProgram \in CfgPrograms /\ cfgFile \in CfgFiles \cup {NoFile}
  /\ cfgRun = CfgStopped /\ cfgBudget = [steps |-> CfgMaxSteps, consoles |-> CfgMaxConsoles]
  /\ cfgLast = [by |-> "user", from |-> cfgFile, values |-> Defaults]

CfgRest ==
  /\ cfgProgram = "server" /\ cfgFile = NoFile /\ cfgRun = CfgStopped
  /\ cfgBudget = [steps |-> 0, consoles |-> 0]
  /\ cfgLast = [by |-> "user", from |-> NoFile, values |-> Defaults]

CfgStep ==
  cfgBudget.steps > 0 /\ cfgBudget' = [cfgBudget EXCEPT !.steps = @ - 1] /\ UNCHANGED cfgProgram

(* A user may write the file, or remove it, at any time.                    *)
CfgEdits ==
  /\ CfgStep /\ UNCHANGED cfgRun
  /\ \E file \in (CfgFiles \cup {NoFile}) \ {cfgFile} :
       /\ cfgFile' = file
       /\ cfgLast' = [by |-> "user", from |-> file, values |-> Defaults]

WritesNothing == UNCHANGED <<cfgFile, cfgLast>>

(* The file may not open for writing, which only the consoles of the relay, *)
(* the emulator and the SMS server say.                                    *)
WritesConf(conf, values, from, by) ==
  \/ /\ cfgFile' = SaveToFile(SaveConf(conf, values))
     /\ cfgLast' = [by |-> by, from |-> from, values |-> values]
  \/ WritesNothing

(* main, after Init.  "up" and "waits" wait for "q"; the others exit.        *)
ServerMain(up) == IF up THEN "up" ELSE "stopped"
RelayMain(up, connects) == IF ~up THEN "waits" ELSE IF connects THEN "up" ELSE "stopped"
EmulatorMain(up) == IF up THEN "up" ELSE "waits"
AmxMain(up, connects) == IF up /\ connects THEN "up" ELSE "stopped"
SmsMain(up, connects) == IF ~up THEN "waits" ELSE IF connects THEN "up" ELSE "stopped"

Starts(l, pc) ==
  cfgRun' = IF pc = "stopped" THEN CfgStopped
            ELSE [pc |-> pc, conf |-> l.conf, values |-> l.values, ok |-> l.ok, read |-> cfgFile]

(* The rest of Init may fail as the configuration may.  Three of the        *)
(* programs connect to the server before they run.                         *)
ServerInit(l) == \E rest \in BOOLEAN : Starts(l, ServerMain(l.ok /\ rest))
RelayInit(l) == \E rest, connects \in BOOLEAN : Starts(l, RelayMain(l.ok /\ rest, connects))
EmulatorInit(l) == \E rest \in BOOLEAN : Starts(l, EmulatorMain(l.ok /\ rest))
AmxInit(l) == \E rest, connects \in BOOLEAN : Starts(l, AmxMain(l.ok /\ rest, connects))
SmsInit(l) == \E rest, connects \in BOOLEAN : Starts(l, SmsMain(l.ok /\ rest, connects))

MayStart(program) == CfgStep /\ cfgProgram = program /\ cfgRun.pc = "stopped"

CfgServerStarts == MayStart("server") /\ ServerInit(LoadConf(<<>>, cfgFile)) /\ WritesNothing
RelayStarts == MayStart("relay") /\ RelayInit(LoadConf(<<>>, cfgFile)) /\ WritesNothing
EmulatorStarts == MayStart("emulator") /\ EmulatorInit(LoadConf(<<>>, cfgFile)) /\ WritesNothing
SmsStarts == MayStart("sms") /\ SmsInit(LoadConf(<<>>, cfgFile)) /\ WritesNothing

(* The AMX server writes the file that it misses.                           *)
AmxStarts ==
  /\ MayStart("amx") /\ AmxInit(LoadConf(<<>>, cfgFile))
  /\ IF cfgFile = NoFile THEN WritesConf(<<>>, Defaults, NoFile, "program") ELSE WritesNothing

(* The web interface makes the server read its file again after the users   *)
(* were saved.                                                             *)
Reloads(l) == cfgRun' = [cfgRun EXCEPT !.conf = l.conf, !.values = l.values, !.ok = l.ok]
ServerReloads ==
  /\ CfgStep /\ cfgProgram = "server" /\ cfgRun.pc = "up"
  /\ Reloads(LoadConf(cfgRun.conf, cfgFile)) /\ WritesNothing

MayClose(programs) == CfgStep /\ cfgProgram \in programs /\ cfgRun.pc # "stopped" /\ cfgRun' = CfgStopped

WritesBack == WritesConf(cfgRun.conf, cfgRun.values, cfgRun.read, "program")

(* The mutant of ServerCloses: the server as the others.                     *)
ServerClosesAlways == MayClose({"server"}) /\ WritesBack

ServerCloses == MayClose({"server"}) /\ IF cfgRun.ok THEN WritesBack ELSE WritesNothing
RelayCloses == MayClose({"relay"}) /\ WritesBack
EmulatorCloses == MayClose({"emulator"}) /\ WritesBack
SmsCloses == MayClose({"sms"}) /\ WritesBack

(* Save puts the folder before a name that has it already, and no such      *)
(* folder is there.                                                        *)
AmxCloses == MayClose({"amx"}) /\ WritesNothing

(* The program run with -i, which may also run without it meanwhile.         *)
MayAsk(program) ==
  /\ cfgBudget.consoles > 0 /\ cfgBudget' = [cfgBudget EXCEPT !.consoles = @ - 1]
  /\ cfgProgram = program /\ UNCHANGED <<cfgProgram, cfgRun>>

Told(conf, answers) == \E values \in answers : WritesConf(conf, values, cfgFile, "console")
Asked(l) == IF l.ok THEN l.values ELSE Defaults

ServerTold(l) == Told(l.conf, ServerAsks(Asked(l)))
RelayTold(l) == Told(l.conf, RelayAsks(Asked(l)))
EmulatorTold(l) == Told(l.conf, EmulatorAsks(Asked(l)))
SmsTold(l) == Told(l.conf, SmsAsks(Asked(l)))

ServerConsole == MayAsk("server") /\ ServerTold(LoadConf(<<>>, cfgFile))
RelayConsole == MayAsk("relay") /\ RelayTold(LoadConf(<<>>, cfgFile))
EmulatorConsole == MayAsk("emulator") /\ EmulatorTold(LoadConf(<<>>, cfgFile))
SmsConsole == MayAsk("sms") /\ SmsTold(LoadConf(<<>>, cfgFile))

CfgNext ==
  \/ CfgEdits \/ ServerReloads
  \/ CfgServerStarts \/ RelayStarts \/ EmulatorStarts \/ AmxStarts \/ SmsStarts
  \/ ServerCloses \/ RelayCloses \/ EmulatorCloses \/ AmxCloses \/ SmsCloses
  \/ ServerConsole \/ RelayConsole \/ EmulatorConsole \/ SmsConsole

CfgTypeOK ==
  /\ cfgProgram \in CfgPrograms /\ cfgBudget \in [steps : 0 .. CfgMaxSteps, consoles : 0 .. CfgMaxConsoles]
  /\ cfgRun.pc \in {"stopped", "up", "waits"} /\ DOMAIN cfgRun.values = Entries
  /\ cfgLast.by \in {"user", "program", "console"}

(* A program that runs goes by what its file said when it started, or by    *)
(* the defaults if it was to read it again and could not; a program that    *)
(* stops leaves a file that says the same, with the remarks of the user;    *)
(* what is answered at the console is what the next program reads.          *)
ConfigKept ==
  /\ cfgRun.pc = "up" /\ Clean(cfgRun.read) =>
       cfgRun.values = IF cfgRun.ok THEN SaidValues(cfgRun.read) ELSE Defaults
  /\ cfgLast.by = "user" => cfgFile = cfgLast.from
  /\ cfgLast.by = "program" /\ (Clean(cfgLast.from) \/ cfgLast.from = NoFile) =>
       ~Broken(cfgFile) /\ SaidValues(cfgFile) = Expected(cfgLast.from) /\ Remarks(cfgFile) = Remarks(cfgLast.from)
  /\ cfgLast.by = "console" /\ (Clean(cfgLast.from) \/ Broken(cfgLast.from)) =>
       /\ Clean(cfgFile) /\ SaidValues(cfgFile) = [n \in Entries |-> CfgTrim(cfgLast.values[n])]
       /\ Clean(cfgLast.from) => Remarks(cfgFile) = Remarks(cfgLast.from)
=============================================================================
