----------------------------- MODULE SmsMappings -----------------------------
(***************************************************************************)
(* The mappings of the SMS server (SMSServer/src/SMSServerDB.cpp): which     *)
(* message to a number an event of the bus causes, and which command to the *)
(* bus a message.  They are edited at the console, in a run of the program  *)
(* of its own, kept in a file (EIBStdLib/include/GenericDB.h), and loaded   *)
(* by the next run.                                                         *)
(*                                                                         *)
(* A text is a sequence of words, blanks, colons and brackets.  What a       *)
(* std::map holds is written in the order of its keys; a file is read alike  *)
(* in any order, which Listing leaves open.                                 *)
(***************************************************************************)
EXTENDS Integers, Sequences, FiniteSets

CONSTANTS
  SmsNumbers,     (* phone numbers                                           *)
  SmsAddresses,   (* group addresses, as they are written                    *)
  SmsValues,      (* values, as they are written                             *)
  SmsTexts,       (* the texts of messages, in the order of CString's <      *)
  SmsFiles,       (* what the file may hold before the first run             *)
  SmsMaxEdits     (* how many numbers and mappings are added or deleted      *)

Colon == ":"
Gap == "_"
Bracket == "]"

(* The console takes any text.  One with a colon, one that begins or ends    *)
(* with a blank and one that ends with a bracket are read differently from  *)
(* what was written; here are the others.                                   *)
StorableText(text) ==
  /\ text \in Seq({text[i] : i \in DOMAIN text}) /\ text # <<>>
  /\ \A i \in DOMAIN text : text[i] # Colon
  /\ text[1] # Gap /\ text[Len(text)] \notin {Gap, Bracket}

ASSUME SmsMappingsAssumption ==
  /\ SmsMaxEdits \in Nat
  /\ "none" \notin SmsNumbers
  /\ \A word \in SmsAddresses \cup SmsValues : word \notin {Colon, Gap, Bracket}
  /\ \A i \in DOMAIN SmsTexts : StorableText(SmsTexts[i])

VARIABLES
  mapDb,       (* _data                                                      *)
  mapFile,     (* the lines of Sms.db                                        *)
  mapConsole,  (* where the dialog is, and the number that is edited         *)
  mapSaved,    (* what _data was when it was saved last                      *)
  mapEdits

mapVars == <<mapDb, mapFile, mapConsole, mapSaved, mapEdits>>

-----------------------------------------------------------------------------
Empty == [x \in {} |-> <<>>]
NewEntry == [alerts |-> Empty, commands |-> Empty]

(* AddAlertRecord, AddSmsCommand and AddRecord: what is there stays.        *)
Insert(map, key, value) ==
  [k \in DOMAIN map \cup {key} |-> IF k \in DOMAIN map THEN map[k] ELSE value]
Erase(map, key) == [k \in DOMAIN map \ {key} |-> map[k]]

InOrder(map) == SelectSeq(SmsTexts, LAMBDA text : text \in DOMAIN map)

-----------------------------------------------------------------------------
(* The file.                                                                *)
Block(number) == [kind |-> "block", name |-> number, body |-> <<>>]
Param(name, body) == [kind |-> "param", name |-> name, body |-> body]
Blank == [kind |-> "blank", name |-> "none", body |-> <<>>]

Listing(S) ==
  CHOOSE list \in [1 .. Cardinality(S) -> S] : \A x \in S : \E i \in 1 .. Cardinality(S) : list[i] = x

(* OnSaveRecordStarted.                                                     *)
AlertLine(key, text) == Param("EIB_TO_SMS", <<key[1], Colon, key[2], Colon>> \o text)
AlertLines(alerts) ==
  [i \in 1 .. Cardinality(DOMAIN alerts) |->
     AlertLine(Listing(DOMAIN alerts)[i], alerts[Listing(DOMAIN alerts)[i]])]
CommandLine(text, command) ==
  Param("SMS_TO_EIB", text \o <<Colon, command.value, Colon, command.address>>)
CommandLines(commands) ==
  [i \in 1 .. Cardinality(DOMAIN commands) |->
     CommandLine(Listing(DOMAIN commands)[i], commands[Listing(DOMAIN commands)[i]])]
BlockLines(number, entry) ==
  <<Block(number)>> \o AlertLines(entry.alerts) \o CommandLines(entry.commands) \o <<Blank>>

(* The lines of the first records.                                          *)
SavedLines(db) ==
  LET lines[n \in 0 .. Cardinality(DOMAIN db)] ==
        IF n = 0 THEN <<>>
        ELSE lines[n - 1] \o BlockLines(Listing(DOMAIN db)[n], db[Listing(DOMAIN db)[n]])
  IN lines
Save(db) == SavedLines(db)[Cardinality(DOMAIN db)]

TrimText(s) ==
  LET kept == {i \in 1 .. Len(s) : s[i] # Gap}
  IN IF kept = {} THEN <<>>
     ELSE SubSeq(s, CHOOSE i \in kept : \A j \in kept : i <= j,
                    CHOOSE i \in kept : \A j \in kept : j <= i)

(* StringTokenizer: colons that follow one another are one, and those at    *)
(* the ends none, so that a part begins where no colon follows a colon or   *)
(* the beginning.                                                           *)
Ascending(S) ==
  CHOOSE list \in [1 .. Cardinality(S) -> S] :
    \A i, j \in 1 .. Cardinality(S) : i < j => list[i] < list[j]
PartBegins(s) == {i \in 1 .. Len(s) : s[i] # Colon /\ (i = 1 \/ s[i - 1] = Colon)}
PartEnd(s, begin) ==
  CHOOSE end \in begin .. Len(s) :
    /\ \A i \in begin .. end : s[i] # Colon
    /\ end = Len(s) \/ s[end + 1] = Colon
Tokens(s) ==
  [k \in 1 .. Cardinality(PartBegins(s)) |->
     LET begin == Ascending(PartBegins(s))[k] IN SubSeq(s, begin, PartEnd(s, begin))]

(* ParseAlertRecord and ParseCommandRecord.                                 *)
Parsed(entry, name, tokens) ==
  IF name = "EIB_TO_SMS"
  THEN [entry EXCEPT !.alerts = Insert(@, <<tokens[1][1], tokens[2][1]>>, tokens[3])]
  ELSE [entry EXCEPT !.commands =
          Insert(@, tokens[1], [value |-> tokens[2][1], address |-> tokens[3][1]])]

(* Load, a line at a time.  A line that ends in a bracket and begins with   *)
(* none, and a parameter that has not three parts or belongs to no number,  *)
(* end it with an exception.                                                *)
NotLoaded == [legal |-> TRUE, db |-> Empty, number |-> "none", entry |-> NewEntry]
RecordComplete(load) ==
  IF load.number = "none" THEN load ELSE [load EXCEPT !.db = Insert(@, load.number, load.entry)]
LoadLine(load, line) ==
  LET body == TrimText(line.body)
      tokens == Tokens(body)
      legal == /\ load.number # "none" /\ Len(tokens) = 3
               /\ body[Len(body)] # Bracket
  IN CASE ~ load.legal \/ line.kind = "blank" -> load
       [] load.legal /\ line.kind = "block" ->
            [RecordComplete(load) EXCEPT !.number = line.name, !.entry = NewEntry]
       [] load.legal /\ line.kind = "param" /\ legal ->
            [load EXCEPT !.entry = Parsed(@, line.name, tokens)]
       [] OTHER -> [load EXCEPT !.legal = FALSE]
LoadLines(file) ==
  LET load[n \in 0 .. Len(file)] ==
        IF n = 0 THEN NotLoaded ELSE LoadLine(load[n - 1], file[n])
  IN load
LastNotComplete(file) == LoadLines(file)[Len(file)]
Load(file) == RecordComplete(LoadLines(file)[Len(file)])

(* What the maps of the program can hold.                                   *)
Texts == {SmsTexts[i] : i \in DOMAIN SmsTexts}
Maps(keys, values) == UNION {[some -> values] : some \in {s \in SUBSET keys : IsFiniteSet(s)}}
Commands == [value : SmsValues, address : SmsAddresses]
Entries ==
  [alerts : Maps(SmsAddresses \X SmsValues, Texts),
   commands : Maps(Texts, Commands)]
Databases == Maps(SmsNumbers, Entries)

(* What the file holds before the first run can be loaded.                  *)
ASSUME SmsFilesAssumption ==
  \A file \in SmsFiles : Load(file).legal /\ Load(file).db \in Databases

-----------------------------------------------------------------------------
(* What the server then finds for an event, and for a message.              *)
FindSmsMessages(db, address, value) ==
  {<<number, db[number].alerts[<<address, value>>]>> :
     number \in {n \in DOMAIN db : <<address, value>> \in DOMAIN db[n].alerts}}
FindEibMessages(db, text) ==
  {db[number].commands[text] : number \in {n \in DOMAIN db : text \in DOMAIN db[n].commands}}

-----------------------------------------------------------------------------
MappingsInit ==
  /\ mapDb = Empty /\ mapFile \in SmsFiles /\ mapSaved = Load(mapFile).db
  /\ mapConsole = [pc |-> "off", number |-> "none"]
  /\ mapEdits = 0

ConsoleAt(pc) == mapConsole.pc = pc
ConsoleGoes(pc) == mapConsole' = [pc |-> pc, number |-> "none"]
Edits == mapEdits < SmsMaxEdits /\ mapEdits' = mapEdits + 1

(* InteractiveConf begins with Load, whose exception ends the program.      *)
ConsoleOpens ==
  /\ ConsoleAt("off")
  /\ IF Load(mapFile).legal THEN mapDb' = Load(mapFile).db /\ ConsoleGoes("menu")
                            ELSE ConsoleGoes("failed") /\ UNCHANGED mapDb
  /\ UNCHANGED <<mapFile, mapSaved, mapEdits>>

AddUserEntry(number) ==
  /\ ConsoleAt("menu") /\ Edits
  /\ mapDb' = Insert(mapDb, number, NewEntry)
  /\ UNCHANGED <<mapFile, mapConsole, mapSaved>>

DeleteUserEntry(number) ==
  /\ ConsoleAt("menu") /\ number \in DOMAIN mapDb /\ Edits
  /\ mapDb' = Erase(mapDb, number)
  /\ UNCHANGED <<mapFile, mapConsole, mapSaved>>

EditUserEntry(number) ==
  /\ ConsoleAt("menu") /\ number \in DOMAIN mapDb
  /\ mapConsole' = [pc |-> "edit", number |-> number]
  /\ UNCHANGED <<mapDb, mapFile, mapSaved, mapEdits>>

AddAlert(address, value, text) ==
  /\ ConsoleAt("edit") /\ Edits
  /\ mapDb' = [mapDb EXCEPT ![mapConsole.number].alerts = Insert(@, <<address, value>>, text)]
  /\ UNCHANGED <<mapFile, mapConsole, mapSaved>>

AddCommand(address, value, text) ==
  /\ ConsoleAt("edit") /\ Edits
  /\ mapDb' = [mapDb EXCEPT ![mapConsole.number].commands =
                 Insert(@, text, [value |-> value, address |-> address])]
  /\ UNCHANGED <<mapFile, mapConsole, mapSaved>>

DeleteAlert(key) ==
  /\ ConsoleAt("edit") /\ key \in DOMAIN mapDb[mapConsole.number].alerts /\ Edits
  /\ mapDb' = [mapDb EXCEPT ![mapConsole.number].alerts = Erase(@, key)]
  /\ UNCHANGED <<mapFile, mapConsole, mapSaved>>

(* The list that is shown counts on from the alerts; the loop that looks    *)
(* for the command begins with 1 again.                                     *)
DeleteCommand(shown) ==
  LET entry == mapDb[mapConsole.number]
      commands == InOrder(entry.commands)
      before == Cardinality(DOMAIN entry.alerts)
  IN /\ ConsoleAt("edit") /\ Edits
     /\ shown \in before + 1 .. before + Len(commands)
     /\ mapDb' = IF shown \in DOMAIN commands
                 THEN [mapDb EXCEPT ![mapConsole.number].commands = Erase(@, commands[shown])]
                 ELSE mapDb
     /\ UNCHANGED <<mapFile, mapConsole, mapSaved>>

EditEnds ==
  /\ ConsoleAt("edit") /\ ConsoleGoes("menu")
  /\ UNCHANGED <<mapDb, mapFile, mapSaved, mapEdits>>

SaveAndQuit ==
  /\ ConsoleAt("menu") /\ ConsoleGoes("off")
  /\ mapFile' = Save(mapDb) /\ mapSaved' = mapDb
  /\ UNCHANGED <<mapDb, mapEdits>>

QuitWithoutSaving ==
  /\ ConsoleAt("menu") /\ ConsoleGoes("off")
  /\ UNCHANGED <<mapDb, mapFile, mapSaved, mapEdits>>

MappingsNext ==
  \/ ConsoleOpens \/ EditEnds \/ SaveAndQuit \/ QuitWithoutSaving
  \/ \E number \in SmsNumbers : AddUserEntry(number) \/ DeleteUserEntry(number) \/ EditUserEntry(number)
  \/ \E address \in SmsAddresses, value \in SmsValues :
       \/ DeleteAlert(<<address, value>>)
       \/ \E i \in DOMAIN SmsTexts : AddAlert(address, value, SmsTexts[i]) \/ AddCommand(address, value, SmsTexts[i])
  \/ \E shown \in 1 .. 2 * SmsMaxEdits : DeleteCommand(shown)

MappingsSpec == MappingsInit /\ [][MappingsNext]_mapVars

-----------------------------------------------------------------------------
(* Whatever was edited and saved, in however many runs, the next run loads: *)
(* every event finds the messages, and every message the commands, that the *)
(* console had when it saved, and nothing of what was left unsaved          *)
(* (CGenericDB::Save and Load, OnSaveRecordStarted, ParseAlertRecord,        *)
(* ParseCommandRecord).                                                     *)
MappingsKept ==
  LET loaded == Load(mapFile)
  IN /\ loaded.legal /\ DOMAIN loaded.db = DOMAIN mapSaved
     /\ \A address \in SmsAddresses, value \in SmsValues :
          FindSmsMessages(loaded.db, address, value) = FindSmsMessages(mapSaved, address, value)
     /\ \A i \in DOMAIN SmsTexts :
          FindEibMessages(loaded.db, SmsTexts[i]) = FindEibMessages(mapSaved, SmsTexts[i])

(* What is deleted is what the list shows under the number that was chosen. *)
(* No run checks it: it fails as soon as an entry has an alert and a         *)
(* command.                                                                 *)
DeletesWhatIsShown ==
  [][\A shown \in 1 .. 2 * SmsMaxEdits :
       DeleteCommand(shown) =>
         LET entry == mapDb[mapConsole.number]
             chosen == InOrder(entry.commands)[shown - Cardinality(DOMAIN entry.alerts)]
         IN mapDb'[mapConsole.number].commands = Erase(entry.commands, chosen)]_mapVars
=============================================================================
