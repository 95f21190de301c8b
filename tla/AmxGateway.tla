----------------------------- MODULE AmxGateway -----------------------------
(***************************************************************************)
(* The AMX server: a client of the EIB server that translates what is       *)
(* pressed on a panel into EIB commands and EIB commands into presses.  Two *)
(* threads, each with a monitor that it leaves only while it naps.          *)
(***************************************************************************)
EXTENDS Naturals, FiniteSets, SequencesExt

CONSTANTS AmxEntries,     \* presses and releases of devices: frames 0x23 and 0x24
          AmxCommands,    \* EIB functions with a value
          AmxPackets,     \* packets of the panel: its frames, by their kinds
          AmxMaxPackets, AmxMaxEvents   \* bounds

VARIABLES amxTable,     \* the two maps of the translation table, as pairs
          amxIn,        \* CAMXListener: where it is, what is left to parse and to maintain
          amxOut,       \* CEIBListener: where it is
          amxStop,      \* the two _stop
          amxMain, amxConnected,
          amxPanel,     \* whether its connection is up, packets and events received, presses sent to it
          amxPassed, amxExpected   \* EIB commands sent, and (history) those to be sent

amxVars == <<amxTable, amxIn, amxOut, amxStop, amxMain, amxConnected, amxPanel, amxPassed, amxExpected>>

-----------------------------------------------------------------------------
(* InsertEntry refuses a left or a right side that is there already, and    *)
(* the program does not start with such a file.                            *)
AmxInsert(table, left, right) ==
  IF \E p \in table : p[1] = left \/ p[2] = right THEN table ELSE table \cup {<<left, right>>}
AmxLoad(file) == FoldSeq(LAMBDA p, table : AmxInsert(table, p[1], p[2]), {}, file)

AmxFindByLeft(left) == {p[2] : p \in {q \in amxTable : q[1] = left}}
AmxFindByRight(right) == {p[1] : p \in {q \in amxTable : q[2] = right}}

(* The kinds that ParseSingleAMXFrame and MaintainAMXConnection know, and   *)
(* those that are answered, for which a broken connection shows.            *)
AmxParsed == AmxEntries \cup {"05", "06", "15"}
AmxMaintained == AmxParsed \cup {"13", "14", "16", "52"}
AmxReplied == {"06", "16", "52"}

(* What a packet asks for: the frames before the first one of an unknown    *)
(* kind, whose length the parser cannot tell.                               *)
AmxReadable(frames) ==
  LET stop == SelectInSeq(frames, LAMBDA f : f \notin AmxParsed)
  IN IF stop = 0 THEN frames ELSE SubSeq(frames, 1, stop - 1)
AmxTranslated(frames) ==
  FoldLeft(LAMBDA acc, f : acc \o SetToSeq(AmxFindByLeft(f)), <<>>, AmxReadable(frames))

AmxInit ==
  /\ \E file \in BoundedSeq(AmxEntries \X AmxCommands, 2) :
       /\ amxTable = AmxLoad(file)
       /\ amxMain = IF Cardinality(amxTable) = Len(file) THEN "running" ELSE "failed"
  /\ amxIn = [pc |-> IF amxMain = "running" THEN "recv" ELSE "done", parse |-> <<>>, maintain |-> <<>>]
  /\ amxOut = [pc |-> IF amxMain = "running" THEN "recv" ELSE "done"]
  /\ amxStop = {} /\ amxConnected = (amxMain = "running")
  /\ amxPanel = [up |-> TRUE, packets |-> 0, events |-> 0, presses |-> <<>>]
  /\ amxPassed = <<>> /\ amxExpected = <<>>

-----------------------------------------------------------------------------
(***************************************************************************)
(* CAMXListener.                                                           *)
(***************************************************************************)
(* A packet, or nothing for two seconds.                                    *)
AmxReceives ==
  /\ amxIn.pc = "recv"
  /\ \/ amxIn' = [amxIn EXCEPT !.pc = "wait"] /\ UNCHANGED <<amxPanel, amxExpected>>
     \/ /\ amxPanel.packets < AmxMaxPackets
        /\ \E p \in AmxPackets :
             /\ amxIn' = [pc |-> "parse", parse |-> p, maintain |-> p]
             /\ amxExpected' = amxExpected \o AmxTranslated(p)
        /\ amxPanel' = [amxPanel EXCEPT !.packets = @ + 1]
  /\ UNCHANGED <<amxTable, amxOut, amxStop, amxMain, amxConnected, amxPassed>>

(* Mutant: what is found in the last frame of the packet is not handed on.  *)
AmxParsesButLast ==
  /\ amxIn.pc = "parse" /\ amxIn.parse # <<>>
  /\ LET frame == Head(amxIn.parse) IN
     /\ amxIn' = [amxIn EXCEPT !.parse = IF frame \in AmxParsed THEN Tail(@) ELSE <<>>]
     /\ amxPassed' = IF amxConnected /\ Len(amxIn.parse) > 1
                      THEN amxPassed \o SetToSeq(AmxFindByLeft(frame)) ELSE amxPassed
  /\ UNCHANGED <<amxTable, amxOut, amxStop, amxMain, amxConnected, amxPanel, amxExpected>>

(* The first frame of an unknown kind ends the parsing of the packet.       *)
(* Without a connection SendEIBNetwork returns and nothing is sent.         *)
AmxParses ==
  /\ amxIn.pc = "parse" /\ amxIn.parse # <<>>
  /\ LET frame == Head(amxIn.parse) IN
     /\ amxIn' = [amxIn EXCEPT !.parse = IF frame \in AmxParsed THEN Tail(@) ELSE <<>>]
     /\ amxPassed' = IF amxConnected THEN amxPassed \o SetToSeq(AmxFindByLeft(frame)) ELSE amxPassed
  /\ UNCHANGED <<amxTable, amxOut, amxStop, amxMain, amxConnected, amxPanel, amxExpected>>

AmxParsedAll ==
  /\ amxIn.pc = "parse" /\ amxIn.parse = <<>>
  /\ amxIn' = [amxIn EXCEPT !.pc = "maintain"]
  /\ UNCHANGED <<amxTable, amxOut, amxStop, amxMain, amxConnected, amxPanel, amxPassed, amxExpected>>

(* The packet is gone through a second time and frames are answered.  The   *)
(* answers are outside of the try: once the panel's connection is broken,    *)
(* one of them throws and the thread ends, with the rest of the packet.      *)
(* A frame of an unknown kind keeps the loop, and the monitor, for ever.    *)
AmxMaintains ==
  /\ amxIn.pc = "maintain"
  /\ \/ /\ amxIn.maintain # <<>> /\ Head(amxIn.maintain) \in AmxMaintained
        /\ amxIn' = [amxIn EXCEPT !.maintain = Tail(@)]
     \/ /\ amxIn.maintain # <<>> /\ Head(amxIn.maintain) \in AmxReplied /\ ~amxPanel.up
        /\ amxIn' = [amxIn EXCEPT !.pc = "done"]
     \/ amxIn.maintain = <<>> /\ amxIn' = [amxIn EXCEPT !.pc = "wait"]
  /\ UNCHANGED <<amxTable, amxOut, amxStop, amxMain, amxConnected, amxPanel, amxPassed, amxExpected>>

AmxNaps ==
  /\ amxIn.pc = "wait"
  /\ amxIn' = [amxIn EXCEPT !.pc = IF "amx" \in amxStop THEN "done" ELSE "recv"]
  /\ UNCHANGED <<amxTable, amxOut, amxStop, amxMain, amxConnected, amxPanel, amxPassed, amxExpected>>

-----------------------------------------------------------------------------
(***************************************************************************)
(* CEIBListener, which ends by itself when the server is gone, and by the   *)
(* exception of a press that cannot be sent to the panel.                   *)
(***************************************************************************)
AmxHears ==
  /\ amxOut.pc = "recv"
  /\ \/ UNCHANGED amxPanel /\ amxOut' = [pc |-> IF amxConnected THEN "wait" ELSE "done"]
     \/ /\ amxConnected /\ amxPanel.events < AmxMaxEvents
        /\ \E command \in AmxCommands :
             LET presses == SetToSeq(AmxFindByRight(command)) IN
             /\ amxPanel' = [amxPanel EXCEPT !.events = @ + 1, !.presses = @ \o presses]
             /\ \/ amxOut' = [pc |-> "wait"]
                \/ presses # <<>> /\ ~amxPanel.up /\ amxOut' = [pc |-> "done"]
  /\ UNCHANGED <<amxTable, amxIn, amxStop, amxMain, amxConnected, amxPassed, amxExpected>>

AmxOutNaps ==
  /\ amxOut.pc = "wait" /\ amxOut' = [pc |-> IF "eib" \in amxStop THEN "done" ELSE "recv"]
  /\ UNCHANGED <<amxTable, amxIn, amxStop, amxMain, amxConnected, amxPanel, amxPassed, amxExpected>>

AmxServerGone ==
  /\ amxConnected /\ amxConnected' = FALSE
  /\ UNCHANGED <<amxTable, amxIn, amxOut, amxStop, amxMain, amxPanel, amxPassed, amxExpected>>

AmxPanelGone ==
  /\ amxPanel.up /\ amxPanel' = [amxPanel EXCEPT !.up = FALSE]
  /\ UNCHANGED <<amxTable, amxIn, amxOut, amxStop, amxMain, amxConnected, amxPassed, amxExpected>>

-----------------------------------------------------------------------------
(***************************************************************************)
(* CAMXServer::Close: each _stop is set under the monitor of its thread,    *)
(* and neither thread is joined before the server object is destroyed.      *)
(***************************************************************************)
AmxCloses ==
  /\ \/ /\ amxMain = "running" /\ amxOut.pc \in {"wait", "done"}
        /\ amxStop' = amxStop \cup {"eib"} /\ amxMain' = "closing" /\ UNCHANGED amxConnected
     \/ /\ amxMain = "closing" /\ amxIn.pc \in {"wait", "done"}
        /\ amxStop' = amxStop \cup {"amx"} /\ amxMain' = "stopped" /\ UNCHANGED amxConnected
     \/ amxMain = "stopped" /\ amxMain' = "closed" /\ amxConnected' = FALSE /\ UNCHANGED amxStop
     \/ amxMain = "closed" /\ amxMain' = "destroyed" /\ UNCHANGED <<amxStop, amxConnected>>
  /\ UNCHANGED <<amxTable, amxIn, amxOut, amxPanel, amxPassed, amxExpected>>

AmxListens == AmxReceives \/ AmxParses \/ AmxParsedAll \/ AmxMaintains \/ AmxNaps
AmxNext == AmxListens \/ AmxHears \/ AmxOutNaps \/ AmxServerGone \/ AmxPanelGone \/ AmxCloses

AmxFairness == WF_amxVars(AmxListens)
AmxSpec == AmxInit /\ [][AmxNext]_amxVars /\ AmxFairness

-----------------------------------------------------------------------------
(***************************************************************************)
(* Properties.                                                             *)
(***************************************************************************)
(* A packet that the second loop knows how to go through is gone through to *)
(* its end, twice, unless the panel is gone by the time it is answered.      *)
(* By then every press and release in it that the first loop can reach and   *)
(* the table knows has been sent to the EIB server once, in order, unless    *)
(* that one is gone.  Close waits for this nap.                             *)
AmxServesPacket ==
  amxIn.pc = "parse" /\ ToSet(amxIn.maintain) \subseteq AmxMaintained
    ~> /\ amxIn.pc = "wait" \/ (amxIn.pc = "done" /\ ~amxPanel.up)
       /\ amxConnected => amxPassed = amxExpected

(* The listener comes to its nap, where Close can take its monitor, whatever *)
(* the panel sends; a frame of a kind unknown to the second loop keeps it.   *)
AmxListenerNaps == amxIn.pc = "maintain" ~> amxIn.pc \in {"wait", "done"}

(* The threads use the server object, and should have ended before it does. *)
AmxUsesLive == amxMain = "destroyed" => amxIn.pc = "done" /\ amxOut.pc = "done"
=============================================================================
