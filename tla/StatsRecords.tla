---------------------------- MODULE StatsRecords ----------------------------
(***************************************************************************)
(* The statistics of the server (EIBStdLib/src/StatsDB.cpp): the last       *)
(* values of every address, written by the reader of the bus                *)
(* (EIBServer/src/EIBHandler.cpp) and read by the threads of web requests   *)
(* (EIBServer/src/WebHandler.cpp, conf/EIBBusMonConf.cpp).  Nothing locks   *)
(* them.                                                                   *)
(***************************************************************************)
EXTENDS Integers, Sequences, FiniteSets

CONSTANTS
  StatsAddresses,   (* addresses, ordered as CEibAddress is by operator<     *)
  StatsMaxObjects,  (* MAX_NUM_OBJECTS: 100                                  *)
  StatsMaxHistory,  (* MAX_NUM_OBJECT_HISTORY: 10                            *)
  StatsBrowsers,    (* threads that serve web requests                       *)
  StatsMaxFrames,   (* how many frames arrive                                *)
  StatsMaxRequests  (* how many requests there are                           *)

ASSUME StatsAssumption ==
  /\ StatsAddresses \subseteq Nat \ {0}
  /\ {StatsMaxObjects, StatsMaxHistory} \subseteq Nat \ {0}
  /\ {StatsMaxFrames, StatsMaxRequests} \subseteq Nat

VARIABLES
  statsDb,       (* _db: of an address, its node - the frame that entered it -, *)
                 (* its values, the newest first, and how many were dropped  *)
  statsReader,   (* where the reader is in AddRecord, and for which frame    *)
  statsWeb,      (* the requests: their iterators, and what they collected   *)
  statsReceived, (* the addresses of all frames; the place is the value      *)
  statsRequests

statsVars == <<statsDb, statsReader, statsWeb, statsReceived, statsRequests>>

(* at and node: where the iterator of the map is; eit and end: the places of *)
(* the iterators of the deque; entries: what was read through them.         *)
StatsIdle == [pc |-> "idle", at |-> 0, node |-> 0, eit |-> 0, end |-> 0,
              entries |-> <<>>, answer |-> <<>>]

StatsInit ==
  /\ statsDb = [a \in {} |-> <<>>]
  /\ statsReader = [pc |-> "reads", of |-> 0]
  /\ statsWeb = [w \in StatsBrowsers |-> StatsIdle]
  /\ statsReceived = <<>> /\ statsRequests = 0

-----------------------------------------------------------------------------
(* The iterator of the map: the next address, or 0 past the end.            *)
Least(s) == IF s = {} THEN 0 ELSE CHOOSE x \in s : \A y \in s : x <= y
First == Least(DOMAIN statsDb)
Following(x) == Least({y \in DOMAIN statsDb : y > x})

(* RunEIBReader: a frame has been read.                                     *)
StatsFrame(x) ==
  /\ statsReader.pc = "reads" /\ Len(statsReceived) < StatsMaxFrames
  /\ statsReceived' = Append(statsReceived, x)
  /\ statsReader' = [pc |-> IF x \in DOMAIN statsDb THEN "records"
                            ELSE IF Cardinality(DOMAIN statsDb) = StatsMaxObjects
                            THEN "evicts" ELSE "inserts",
                     of |-> x]
  /\ UNCHANGED <<statsDb, statsWeb, statsRequests>>

(* CStatsDB::AddRecord erases the first address of the map.                 *)
StatsEvicts ==
  /\ statsReader.pc = "evicts"
  /\ statsDb' = [x \in DOMAIN statsDb \ {First} |-> statsDb[x]]
  /\ statsReader' = [statsReader EXCEPT !.pc = "inserts"]
  /\ UNCHANGED <<statsWeb, statsReceived, statsRequests>>

StatsInserts ==
  /\ statsReader.pc = "inserts"
  /\ LET n == Len(statsReceived)
     IN statsDb' = [x \in DOMAIN statsDb \cup {statsReader.of} |->
                      IF x = statsReader.of THEN [node |-> n, popped |-> 0, values |-> <<n>>]
                      ELSE statsDb[x]]
  /\ statsReader' = [statsReader EXCEPT !.pc = "reads"]
  /\ UNCHANGED <<statsWeb, statsReceived, statsRequests>>

(* CEIBObjectRecord::AddRecord: pop_back, if the history is full, and        *)
(* push_front.                                                             *)
StatsPopsFront ==
  /\ statsReader.pc = "records"
  /\ LET h == statsDb[statsReader.of]
     IN statsDb' = IF Len(h.values) = StatsMaxHistory
                   THEN [statsDb EXCEPT ![statsReader.of] =
                           [h EXCEPT !.popped = @ + 1, !.values = Tail(@)]]
                   ELSE statsDb
  /\ statsReader' = [statsReader EXCEPT !.pc = "pushes"]
  /\ UNCHANGED <<statsWeb, statsReceived, statsRequests>>

StatsPops ==
  /\ statsReader.pc = "records"
  /\ LET h == statsDb[statsReader.of]
     IN statsDb' = IF Len(h.values) = StatsMaxHistory
                   THEN [statsDb EXCEPT ![statsReader.of] =
                           [h EXCEPT !.popped = @ + 1,
                                     !.values = SubSeq(@, 1, Len(@) - 1)]]
                   ELSE statsDb
  /\ statsReader' = [statsReader EXCEPT !.pc = "pushes"]
  /\ UNCHANGED <<statsWeb, statsReceived, statsRequests>>

StatsPushes ==
  /\ statsReader.pc = "pushes"
  /\ statsDb' = [statsDb EXCEPT ![statsReader.of].values = <<Len(statsReceived)>> \o @]
  /\ statsReader' = [statsReader EXCEPT !.pc = "reads"]
  /\ UNCHANGED <<statsWeb, statsReceived, statsRequests>>

-----------------------------------------------------------------------------
(***************************************************************************)
(* The requests.  A value keeps its place in the memory of its deque: the   *)
(* places are numbered in the order of the pushes, begin() is the last one   *)
(* pushed, end() the last one popped, and an iterator goes down.            *)
(***************************************************************************)
Pushed(x) == statsDb[x].popped + Len(statsDb[x].values)

(* The node the request is at is still in the map, and the element in its    *)
(* deque.                                                                  *)
LiveNode(w) == /\ statsWeb[w].at \in DOMAIN statsDb
               /\ statsDb[statsWeb[w].at].node = statsWeb[w].node
LiveEntry(w) == /\ LiveNode(w)
                /\ statsDb[statsWeb[w].at].popped < statsWeb[w].eit
                /\ statsWeb[w].eit <= Pushed(statsWeb[w].at)

NodeOf(x) == IF x \in DOMAIN statsDb THEN statsDb[x].node ELSE 0

StatsBegins(w) ==
  /\ statsWeb[w].pc = "idle" /\ statsRequests < StatsMaxRequests
  /\ statsRequests' = statsRequests + 1
  /\ UNCHANGED <<statsDb, statsReader, statsReceived>>

StatsGoesOn(w, request) ==
  /\ statsWeb' = [statsWeb EXCEPT ![w] = request]
  /\ UNCHANGED <<statsDb, statsReader, statsReceived, statsRequests>>

(* ApiGetGlobalHistory: a loop over the map, and in it, over each deque.      *)
ApiGetGlobalHistory(w) ==
  /\ StatsBegins(w)
  /\ statsWeb' = [statsWeb EXCEPT ![w] =
       [StatsIdle EXCEPT !.pc = "iterates", !.at = First, !.node = NodeOf(First)]]

StatsEnters(w) ==
  /\ statsWeb[w].pc = "iterates" /\ LiveNode(w)
  /\ StatsGoesOn(w, [statsWeb[w] EXCEPT !.pc = "compares", !.eit = Pushed(statsWeb[w].at)])

StatsCompares(w) ==
  /\ statsWeb[w].pc = "compares" /\ LiveNode(w)
  /\ LET atEnd == statsWeb[w].eit = statsDb[statsWeb[w].at].popped
     IN StatsGoesOn(w, [statsWeb[w] EXCEPT !.pc = IF atEnd THEN "moves" ELSE "reads"])

AtEntry(w) == \/ statsWeb[w].pc = "reads"
              \/ statsWeb[w].pc = "copies" /\ statsWeb[w].eit # statsWeb[w].end

StatsReads(w) ==
  /\ AtEntry(w) /\ LiveEntry(w)
  /\ LET x == statsWeb[w].at
         value == statsDb[x].values[Pushed(x) + 1 - statsWeb[w].eit]
     IN StatsGoesOn(w, [statsWeb[w] EXCEPT
                          !.pc = IF @ = "reads" THEN "compares" ELSE @,
                          !.eit = @ - 1, !.entries = Append(@, value)])

StatsMoves(w) ==
  /\ statsWeb[w].pc = "moves" /\ LiveNode(w)
  /\ LET x == statsWeb[w].at
     IN StatsGoesOn(w, [statsWeb[w] EXCEPT
                          !.pc = "iterates", !.at = Following(x), !.node = NodeOf(Following(x)),
                          !.entries = <<>>, !.answer = Append(@, <<x, statsWeb[w].entries>>)])

StatsAnswers(w) ==
  /\ statsWeb[w].pc = "iterates" /\ statsWeb[w].at = 0
  /\ StatsGoesOn(w, [statsWeb[w] EXCEPT !.pc = "answers"])

(* ApiGetAddressHistory: GetRecord finds the record and copies its deque,    *)
(* which takes begin() and then, once, end().                               *)
ApiGetAddressHistory(w, x) ==
  /\ StatsBegins(w)
  /\ statsWeb' = [statsWeb EXCEPT ![w] =
       IF x \in DOMAIN statsDb
       THEN [StatsIdle EXCEPT !.pc = "counts", !.at = x, !.node = NodeOf(x), !.eit = Pushed(x)]
       ELSE [StatsIdle EXCEPT !.pc = "answers"]]

StatsCounts(w) ==
  /\ statsWeb[w].pc = "counts" /\ LiveNode(w)
  /\ StatsGoesOn(w, [statsWeb[w] EXCEPT !.pc = "copies",
                                        !.end = statsDb[statsWeb[w].at].popped])

StatsCopied(w) ==
  /\ statsWeb[w].pc = "copies" /\ statsWeb[w].eit = statsWeb[w].end
  /\ StatsGoesOn(w, [statsWeb[w] EXCEPT
                       !.pc = "answers", !.answer = <<<<statsWeb[w].at, statsWeb[w].entries>>>>])

(* A request that uses an element or a node that is gone, or that meets the  *)
(* reader in the middle of a change, may answer anything, or end the server. *)
StatsStrays(w) ==
  /\ \/ statsWeb[w].pc \in {"iterates", "compares", "moves", "counts"}
        /\ statsWeb[w].at # 0 /\ ~LiveNode(w)
     \/ AtEntry(w) /\ ~LiveEntry(w)
     \/ statsWeb[w].pc \notin {"idle", "answers", "astray"} /\ statsReader.pc # "reads"
  /\ StatsGoesOn(w, [statsWeb[w] EXCEPT !.pc = "astray"])

StatsReplies(w) ==
  /\ statsWeb[w].pc \in {"answers", "astray"}
  /\ StatsGoesOn(w, StatsIdle)

StatsNext ==
  \/ \E x \in StatsAddresses : StatsFrame(x)
  \/ StatsEvicts \/ StatsInserts \/ StatsPops \/ StatsPushes
  \/ \E w \in StatsBrowsers :
       \/ ApiGetGlobalHistory(w) \/ StatsEnters(w) \/ StatsCompares(w) \/ StatsReads(w)
       \/ StatsMoves(w) \/ StatsAnswers(w) \/ StatsCounts(w) \/ StatsCopied(w)
       \/ StatsStrays(w) \/ StatsReplies(w)
       \/ \E x \in StatsAddresses : ApiGetAddressHistory(w, x)

-----------------------------------------------------------------------------
(* The frames of an address, the newest first.                              *)
StatsOf(x) ==
  LET n == Len(statsReceived)
      back == [i \in 1 .. n |-> n + 1 - i]
      Its(i) == statsReceived[i] = x
  IN SelectSeq(back, Its)

(* The values came for the address one after the other, the newest first.   *)
StatsSuccessive(history, x) ==
  \A i \in DOMAIN history :
    /\ history[i] \in DOMAIN statsReceived /\ statsReceived[history[i]] = x
    /\ i < Len(history) =>
         /\ history[i + 1] < history[i]
         /\ \A n \in history[i + 1] + 1 .. history[i] - 1 : statsReceived[n] # x

(* What a browser reads of an address are values that came for it one after *)
(* the other, the newest first, none missing between them and never more    *)
(* than a history holds, although the reader drops and pushes values while  *)
(* the request walks over them and has evicted and entered addresses before *)
(* - unless the request uses what is gone (StatsStrays).  An answer names no *)
(* address twice and goes up; and once the reader has recorded a frame, its *)
(* address is there with that frame first (CEIBObjectRecord::AddRecord,      *)
(* CStatsDB::AddRecord, CWebHandler::ApiGetGlobalHistory).                   *)
StatsNewestFirst ==
  /\ \A w \in StatsBrowsers : statsWeb[w].pc # "astray" =>
       LET answer == statsWeb[w].answer
       IN /\ StatsSuccessive(statsWeb[w].entries, statsWeb[w].at)
          /\ Len(statsWeb[w].entries) <= StatsMaxHistory
          /\ \A i \in DOMAIN answer :
               /\ StatsSuccessive(answer[i][2], answer[i][1])
               /\ Len(answer[i][2]) <= StatsMaxHistory
          /\ \A i, j \in DOMAIN answer : i < j => answer[i][1] < answer[j][1]
  /\ statsReader.pc = "reads" /\ statsReceived # <<>> =>
       LET last == statsReceived[Len(statsReceived)]
       IN last \in DOMAIN statsDb /\ statsDb[last].values[1] = Len(statsReceived)

(* A request never uses an element or an address that the reader has dropped.*)
(* No run checks it: without a lock nothing keeps the two apart.            *)
StatsIteratorsLive ==
  \A w \in StatsBrowsers :
    /\ statsWeb[w].pc \in {"iterates", "compares", "moves", "counts"} =>
         statsWeb[w].at = 0 \/ LiveNode(w)
    /\ AtEntry(w) => LiveEntry(w)

(* A request for an address that is recorded is told a value of it.  No run  *)
(* checks it: the reader may drop all that there was when the walk began.    *)
StatsTellsSome ==
  \A w \in StatsBrowsers : statsWeb[w].pc # "astray" =>
    \A i \in DOMAIN statsWeb[w].answer : statsWeb[w].answer[i][2] # <<>>

(* The addresses that are kept are those heard of last.  No run checks it:  *)
(* the map is ordered by address, and its first is the lowest.              *)
StatsKeepsRecent ==
  statsReader.pc = "reads" =>
    \A x \in DOMAIN statsDb, y \in StatsAddresses \ DOMAIN statsDb :
      StatsOf(y) = <<>> \/ StatsOf(x)[1] > StatsOf(y)[1]
=============================================================================
