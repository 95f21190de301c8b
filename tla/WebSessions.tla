---------------------------- MODULE WebSessions ----------------------------
(***************************************************************************)
(* The users database and the web interface that works on it (WebHandler,   *)
(* UsersDB, GenericDB, EIBServerUsersConf, ReloadConfiguration, Dispatcher).*)
(*                                                                         *)
(* The list of users is edited at the console, saved, and loaded by the     *)
(* server that is started next.  Every request of a browser then runs on a  *)
(* thread of its own, and goes on to do so while the server that is closed   *)
(* saves the users once more.  The map of sessions has a mutex; the users and*)
(* their file have none, so that every access to them is a step.  A password *)
(* is known or not; the clock says only whether a session is older than the *)
(* hour after which it is dropped.                                          *)
(***************************************************************************)
EXTENDS Naturals, Sequences, FiniteSets

CONSTANTS WebUsers,        \* names, in the order of the map: a set of numbers
          WebRights,       \* the sets of rights a user may be given
          WebBrowsers,     \* each sends one request at a time
          WebMaxCalls,     \* bound: the requests of all browsers
          WebMaxEdits,     \* bound: the edits at the console
          WebFirstLogin    \* no session id has been drawn yet

(* A number is a name, and 0 is nobody.                                    *)
ASSUME WebAssumption == IsFiniteSet(WebUsers) /\ WebUsers \subseteq Nat \ {0}

VARIABLES usersFile,    \* the records in the file, in order
          usersDb,      \* _data: key -> record
          webSessions,  \* _sessions: id -> user and age
          webSeed,      \* `seeded`, and the numbers drawn since srand
          webMain,      \* "console", "start", "failed", "serving"
          webClosing,   \* the Save of CEIBServer::Close, and its place in the file
          webMixed,     \* two have saved a list of users at a time
          webBrowser,   \* the request of each browser, and its cookie
          webBudget,    \* the requests and edits made
          usersLists    \* the lists that may count: the last, and the next while it is saved

closeVars == <<webClosing, webMixed>>
webVars == <<usersFile, usersDb, webSessions, webSeed, webMain, closeVars, webBrowser, webBudget,
             usersLists>>

WebRecord(name, rights) == [name |-> name, rights |-> rights]
NoUsers == [k \in {} |-> 0]
Records(db) == {db[k] : k \in DOMAIN db}
Keyed(records) == [k \in {r.name : r \in records} |-> CHOOSE r \in records : r.name = k]

(* The lists that a browser can send, each name once.                       *)
UsersLists ==
  UNION {{[u \in names |-> WebRecord(u, rights[u])] : rights \in [names -> WebRights]} :
           names \in SUBSET WebUsers}

(* What Save writes: the records in the order of their keys.                *)
InFile(db) ==
  [i \in 1 .. Cardinality(DOMAIN db) |->
     db[CHOOSE k \in DOMAIN db : Cardinality({j \in DOMAIN db : j <= k}) = i]]

(* AddRecord keeps a record that is there.                                  *)
AddRecord(db, key, record) == IF key \in DOMAIN db THEN db ELSE
  [k \in DOMAIN db \cup {key} |-> IF k = key THEN record ELSE db[k]]
DeleteRecord(db, key) == [k \in DOMAIN db \ {key} |-> db[k]]

(* Load at one go: a second record of a name ends it with an exception.     *)
LoadsWell(file) == \A i, j \in 1 .. Len(file) : file[i].name = file[j].name => i = j
LoadAll(file) == Keyed({file[i] : i \in 1 .. Len(file)})

WebIdle == [pc |-> "idle", cookie |-> 0, as |-> 0, user |-> 0, need |-> "any", pos |-> 0,
            list |-> NoUsers, seen |-> {}]

WebInit ==
  /\ usersDb \in {Keyed({WebRecord(u, r) : u \in WebUsers}) : r \in WebRights}
  /\ usersFile = InFile(usersDb) /\ usersLists = {Records(usersDb)}
  /\ webSessions = NoUsers /\ webMain = "console"
  /\ webClosing = [pc |-> "no", place |-> 0] /\ webMixed = FALSE
  /\ webSeed = [done |-> ~WebFirstLogin, drawn |-> 0]
  /\ webBrowser = [b \in WebBrowsers |-> WebIdle]
  /\ webBudget = [calls |-> 0, edits |-> 0]

-----------------------------------------------------------------------------
(***************************************************************************)
(* The dialog at the console (InteractiveConf), and the start.             *)
(***************************************************************************)
(* An edit goes on with the dialog; adding a name that is there leaves it   *)
(* without saving, as the last option does.                                *)
ConsoleEdits(db) ==
  /\ webMain = "console" /\ webBudget.edits < WebMaxEdits
  /\ usersDb' = db /\ webBudget' = [webBudget EXCEPT !.edits = @ + 1]
  /\ UNCHANGED <<usersFile, webSessions, webSeed, webMain, webBrowser, usersLists, closeVars>>

(* UpdateUser changes the record in place, its name included, and leaves it *)
(* under its key; DeleteUser looks for the name of the chosen record.       *)
AddUser == \E u \in WebUsers, r \in WebRights :
  u \notin DOMAIN usersDb /\ ConsoleEdits(AddRecord(usersDb, u, WebRecord(u, r)))
UpdateUser == \E k \in DOMAIN usersDb, u \in WebUsers, r \in WebRights :
  ConsoleEdits([usersDb EXCEPT ![k] = WebRecord(u, r)])
DeleteUser == \E k \in DOMAIN usersDb : ConsoleEdits(DeleteRecord(usersDb, usersDb[k].name))

ConsoleSaves ==
  /\ webMain = "console"
  /\ \/ usersFile' = InFile(usersDb) /\ usersLists' = {Records(usersDb)}
     \/ UNCHANGED <<usersFile, usersLists>>
  /\ webMain' = "start" /\ usersDb' = NoUsers
  /\ UNCHANGED <<webSessions, webSeed, webBrowser, webBudget, closeVars>>

(* Init of the server: with a name twice it fails; without users it warns.  *)
ServerStarts ==
  /\ webMain = "start"
  /\ IF LoadsWell(usersFile) THEN usersDb' = LoadAll(usersFile) /\ webMain' = "serving"
                             ELSE webMain' = "failed" /\ UNCHANGED usersDb
  /\ UNCHANGED <<usersFile, webSessions, webSeed, webBrowser, webBudget, usersLists, closeVars>>

-----------------------------------------------------------------------------
(***************************************************************************)
(* Requests.                                                               *)
(***************************************************************************)
WebStep(b, r) == webBrowser' = [webBrowser EXCEPT ![b] = r]
(* The reply is sent; the browser keeps its cookie.                         *)
WebReplies(b) == WebStep(b, [WebIdle EXCEPT !.cookie = webBrowser[b].cookie, !.as = webBrowser[b].as])
WebDoes(b, pc) == webBrowser[b].pc = pc

WebBegins(b) ==
  /\ webMain = "serving" /\ webClosing.pc # "stops"
  /\ WebDoes(b, "idle") /\ webBudget.calls < WebMaxCalls
  /\ webBudget' = [webBudget EXCEPT !.calls = @ + 1]
  /\ UNCHANGED <<usersFile, usersDb, webMain, usersLists, closeVars>>

(* Mutant: every login starts the sequence anew.                            *)
ApiLoginSeeds(b) ==
  /\ WebBegins(b)
  /\ \E u \in DOMAIN usersDb :
       /\ "web" \in usersDb[u].rights
       /\ WebStep(b, [webBrowser[b] EXCEPT !.pc = "seed", !.user = u])
  /\ UNCHANGED <<webSessions, webSeed>>

(* ApiLogin: the right password, and the right to use the web interface.    *)
ApiLogin(b) ==
  /\ WebBegins(b)
  /\ \E u \in DOMAIN usersDb :
       /\ "web" \in usersDb[u].rights
       /\ WebStep(b, [webBrowser[b] EXCEPT !.pc = IF webSeed.done THEN "draw" ELSE "seed", !.user = u])
  /\ UNCHANGED <<webSessions, webSeed>>

(* GenerateSessionId: who finds `seeded` unset starts the sequence of the   *)
(* numbers anew, with the same second.                                     *)
WebSeeds(b) ==
  /\ WebDoes(b, "seed")
  /\ webSeed' = [done |-> TRUE, drawn |-> 0]
  /\ WebStep(b, [webBrowser[b] EXCEPT !.pc = "draw"])
  /\ UNCHANGED <<usersFile, usersDb, webSessions, webMain, webBudget, usersLists, closeVars>>

WebStoresSession(b) ==
  /\ WebDoes(b, "draw")
  /\ webSeed' = [webSeed EXCEPT !.drawn = @ + 1]
  /\ LET sid == webSeed.drawn + 1  user == webBrowser[b].user IN
     /\ webSessions' = [s \in DOMAIN webSessions \cup {sid} |->
                          IF s = sid THEN [user |-> user, old |-> FALSE] ELSE webSessions[s]]
     /\ WebStep(b, [WebIdle EXCEPT !.cookie = sid, !.as = user])
  /\ UNCHANGED <<usersFile, usersDb, webMain, webBudget, usersLists, closeVars>>

ApiLogout(b) ==
  /\ WebBegins(b) /\ webBrowser[b].cookie # 0
  /\ webSessions' = [s \in DOMAIN webSessions \ {webBrowser[b].cookie} |-> webSessions[s]]
  /\ WebStep(b, WebIdle)
  /\ UNCHANGED webSeed

(* An hour passes in which a session is not used.                           *)
WebHour ==
  /\ \E s \in DOMAIN webSessions : ~webSessions[s].old
  /\ webSessions' = [s \in DOMAIN webSessions |-> [webSessions[s] EXCEPT !.old = TRUE]]
  /\ UNCHANGED <<usersFile, usersDb, webSeed, webMain, webBrowser, webBudget, usersLists, closeVars>>

(* GetRecord: the rights of now, of a user who is still there.              *)
WebUser(user) == {usersDb[k] : k \in DOMAIN usersDb \cap {user}}

(* What each right is needed for: the history; sending and scheduling; the  *)
(* interface, the bus monitor and the list of users.                        *)
WebNeeds == {"any", "read", "write", "admin", "users"}
WebAllowed(rights, need) ==
  need = "any" \/ need \in rights \/ (need = "users" /\ "admin" \in rights)

WebActs(b, user, need) ==
  IF \E r \in WebUser(user) : WebAllowed(r.rights, need)
  THEN WebStep(b, [webBrowser[b] EXCEPT !.pc = "act", !.user = user, !.need = need,
                                        !.seen = usersLists])
  ELSE WebReplies(b)

(* A call with a cookie: the session is looked up, and kept for an hour.    *)
ApiCall(b) ==
  /\ WebBegins(b) /\ webBrowser[b].cookie # 0
  /\ LET sid == webBrowser[b].cookie IN
     IF sid \notin DOMAIN webSessions \/ webSessions[sid].old
     THEN /\ webSessions' = [s \in DOMAIN webSessions \ {sid} |-> webSessions[s]]
          /\ WebReplies(b)
     ELSE /\ webSessions' = [webSessions EXCEPT ![sid].old = FALSE]
          /\ \E need \in WebNeeds : WebActs(b, webSessions[sid].user, need)
  /\ UNCHANGED webSeed

(* A call without a cookie, with a name and a password: the right to use    *)
(* the web interface is not asked for.                                     *)
ApiCallBasic(b) ==
  /\ WebBegins(b) /\ webBrowser[b].cookie = 0
  /\ \E u \in DOMAIN usersDb, need \in WebNeeds : WebActs(b, u, need)
  /\ UNCHANGED <<webSessions, webSeed>>

(* The call does what it was let in for: the interface, the bus monitor and *)
(* the list of users to look at; the history, sending and scheduling.       *)
WebServes(b, needs) ==
  /\ WebDoes(b, "act") /\ webBrowser[b].need \in needs
  /\ WebReplies(b)
  /\ UNCHANGED <<usersFile, usersDb, webSessions, webSeed, webMain, webBudget, usersLists, closeVars>>
ApiAdminServes(b) == WebServes(b, {"any", "admin"})
ApiDataServes(b) == WebServes(b, {"read", "write"})

-----------------------------------------------------------------------------
(***************************************************************************)
(* SetConnectedClients: the list that the request brings is saved, and the  *)
(* configuration loaded again.  Nothing keeps the others from the database  *)
(* meanwhile.                                                              *)
(***************************************************************************)
WebSaving == {b \in WebBrowsers : webBrowser[b].pc \in {"write", "clear", "load"}}

WebTruncates(b) ==
  /\ WebDoes(b, "act") /\ webBrowser[b].need = "users"
  /\ webMixed' = (webMixed \/ WebSaving # {} \/ webClosing.pc = "saves")
  /\ usersFile' = <<>>
  /\ \E list \in UsersLists :
       /\ usersLists' = usersLists \cup {Records(list)}
       /\ webBrowser' = [c \in WebBrowsers |->
            IF c = b THEN [webBrowser[b] EXCEPT !.pc = "write", !.pos = 0, !.list = list, !.seen = {}]
            ELSE IF webBrowser[c].pc = "act" THEN [webBrowser[c] EXCEPT !.seen = @ \cup usersLists']
            ELSE webBrowser[c]]
  /\ UNCHANGED <<usersDb, webSessions, webSeed, webMain, webClosing, webBudget>>

(* Each writer has its own place in the file.                               *)
PutsAt(pos, record) ==
  usersFile' = IF pos > Len(usersFile) THEN Append(usersFile, record)
               ELSE [usersFile EXCEPT ![pos] = record]

WebWrites(b) ==
  /\ WebDoes(b, "write")
  /\ LET all == InFile(webBrowser[b].list)  pos == webBrowser[b].pos + 1 IN
     IF pos > Len(all)
     THEN WebStep(b, [webBrowser[b] EXCEPT !.pc = "clear"]) /\ UNCHANGED usersFile
     ELSE WebStep(b, [webBrowser[b] EXCEPT !.pos = pos]) /\ PutsAt(pos, all[pos])
  /\ UNCHANGED <<usersDb, webSessions, webSeed, webMain, webBudget, usersLists, closeVars>>

(* Mutant: the records are read over those that are there.                  *)
WebDoesNotClear(b) ==
  /\ WebDoes(b, "clear")
  /\ WebStep(b, [webBrowser[b] EXCEPT !.pc = "load", !.pos = 0])
  /\ UNCHANGED <<usersFile, usersDb, webSessions, webSeed, webMain, webBudget, usersLists, closeVars>>

(* ReloadConfiguration: Clear.                                              *)
WebClears(b) ==
  /\ WebDoes(b, "clear")
  /\ usersDb' = NoUsers
  /\ WebStep(b, [webBrowser[b] EXCEPT !.pc = "load", !.pos = 0])
  /\ UNCHANGED <<usersFile, webSessions, webSeed, webMain, webBudget, usersLists, closeVars>>

(* Load, a record at a time; a name that is there already ends it, and an   *)
(* empty list is only logged.                                              *)
WebLoads(b) ==
  /\ WebDoes(b, "load")
  /\ LET pos == webBrowser[b].pos + 1 IN
     IF pos > Len(usersFile) \/ usersFile[pos].name \in DOMAIN usersDb
     THEN /\ usersLists' = {Records(webBrowser[b].list)}
          /\ WebReplies(b) /\ UNCHANGED usersDb
     ELSE /\ usersDb' = AddRecord(usersDb, usersFile[pos].name, usersFile[pos])
          /\ WebStep(b, [webBrowser[b] EXCEPT !.pos = pos])
          /\ UNCHANGED usersLists
  /\ UNCHANGED <<usersFile, webSessions, webSeed, webMain, webBudget, closeVars>>

-----------------------------------------------------------------------------
(***************************************************************************)
(* CEIBServer::Close: the database is saved, a record at a time and whatever*)
(* the requests do meanwhile; then the web interface takes no more of them,  *)
(* and those that it has come to their end.                                 *)
(***************************************************************************)
CloseStays == UNCHANGED <<usersDb, webSessions, webSeed, webMain, webBrowser, webBudget, usersLists>>

CloseTruncates ==
  /\ webMain = "serving" /\ webClosing.pc = "no"
  /\ webClosing' = [pc |-> "saves", place |-> 0]
  /\ usersFile' = <<>> /\ webMixed' = (webMixed \/ WebSaving # {})
  /\ CloseStays

CloseWrites ==
  /\ webClosing.pc = "saves"
  /\ LET all == InFile(usersDb)  pos == webClosing.place + 1 IN
     IF pos > Len(all)
     THEN webClosing' = [pc |-> "stops", place |-> 0] /\ UNCHANGED usersFile
     ELSE webClosing' = [pc |-> "saves", place |-> pos] /\ PutsAt(pos, all[pos])
  /\ UNCHANGED webMixed /\ CloseStays

WebNext ==
  \/ AddUser \/ UpdateUser \/ DeleteUser \/ ConsoleSaves \/ ServerStarts \/ WebHour
  \/ CloseTruncates \/ CloseWrites
  \/ \E b \in WebBrowsers :
       \/ ApiLogin(b) \/ WebSeeds(b) \/ WebStoresSession(b) \/ ApiLogout(b)
       \/ ApiCall(b) \/ ApiCallBasic(b) \/ ApiAdminServes(b) \/ ApiDataServes(b)
       \/ WebTruncates(b) \/ WebWrites(b) \/ WebClears(b) \/ WebLoads(b)

WebSpec == WebInit /\ [][WebNext]_webVars

-----------------------------------------------------------------------------
(***************************************************************************)
(* Properties.                                                             *)
(***************************************************************************)
(* When no list of users is on its way, the server works with the last one  *)
(* that was saved, at the console or by a browser, and finds each of its    *)
(* users by name; and the file has that list, each name once, so that the   *)
(* server that is started next works with it too - also while the server is  *)
(* closed and saves the list once more, and after - as long as no two have   *)
(* saved at a time, which nothing prevents.                                 *)
UsersTakeEffect ==
  webMain = "serving" /\ WebSaving = {} /\ ~webMixed =>
    /\ usersLists = {Records(usersDb)}
    /\ \A k \in DOMAIN usersDb : usersDb[k].name = k
    /\ webClosing.pc # "saves" => LoadsWell(usersFile) /\ LoadAll(usersFile) = usersDb

(* A request that is let in acts for the user who logged in with that       *)
(* browser, or whose password came with it, and that user has the right in  *)
(* a list of users that was in effect since the request was made: rights    *)
(* that were taken away before are gone, whatever the session was given -   *)
(* also while the server is closed, as long as no two have saved at a time. *)
WebActsWithRights ==
  ~webMixed => \A b \in WebBrowsers : WebDoes(b, "act") =>
     /\ webBrowser[b].cookie # 0 => webBrowser[b].user = webBrowser[b].as
     /\ \E list \in webBrowser[b].seen, r \in WebRights :
          /\ WebRecord(webBrowser[b].user, r) \in list
          /\ WebAllowed(r, webBrowser[b].need)

(* A list that was sent by a browser is in effect and in the file once it is *)
(* saved and loaded.  No run checks it: two browsers save over each other,   *)
(* and so does a server that is closed.                                     *)
UsersAreKept ==
  webMain = "serving" /\ WebSaving = {} /\ webClosing.pc # "saves" =>
    usersLists = {Records(usersDb)} /\ LoadsWell(usersFile) /\ LoadAll(usersFile) = usersDb

(* The same of two browsers, while the server is not closed.  No run checks *)
(* it either.                                                              *)
UsersAreKeptOpen == webClosing.pc = "no" => UsersAreKept
=============================================================================
