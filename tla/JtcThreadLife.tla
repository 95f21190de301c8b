----------------------------- MODULE JtcThreadLife --------------------------
(***************************************************************************)
(* The life of the threads of the library: JTCThread, the group that knows  *)
(* them all, and the end of the program, which waits for them.  A thread    *)
(* object has a mutex of its own, m_mutex, for its state; the group has a   *)
(* monitor.  exit_hook takes the monitor first, setPriority takes it second.*)
(***************************************************************************)
EXTENDS FiniteSets

CONSTANTS ThrThreads, ThrMain, ThrNone

VARIABLES thrState,      \* m_state, and "none" before the object is made
          thrGroup,      \* m_threads of the root group
          thrMonitor,    \* who has the monitor of the group
          thrAt,         \* what each thread does, and to which one
          thrEnding,     \* waitTermination has begun
          thrList,       \* what enumerate returned
          thrDestroyed   \* (history) the threads that destroy took for not started

thrVars == <<thrState, thrGroup, thrMonitor, thrAt, thrEnding, thrList, thrDestroyed>>

ThrActors == ThrThreads \cup {ThrMain}

ThrInit ==
  /\ thrState = [t \in ThrActors |-> IF t = ThrMain THEN "runnable" ELSE "none"]
  /\ thrGroup = {ThrMain} /\ thrMonitor = ThrNone
  /\ thrAt = [t \in ThrActors |-> [pc |-> IF t = ThrMain THEN "run" ELSE "none", of |-> t]]
  /\ thrEnding = FALSE /\ thrList = {} /\ thrDestroyed = {}

ThrIsAt(a, pc) == thrAt[a].pc = pc
ThrGoes(a, pc, of) == thrAt' = [thrAt EXCEPT ![a] = [pc |-> pc, of |-> of]]

(* m_mutex is held by who starts the thread and while it sets its priority. *)
ThrMutexFree(t) ==
  \A a \in ThrActors : thrAt[a].of = t => thrAt[a].pc \notin {"starting", "priority"}

-----------------------------------------------------------------------------
(***************************************************************************)
(* What program code does to a thread, in the main thread or another one.   *)
(***************************************************************************)
(* init adds the new thread to the group.                                   *)
ThrCreates(a, t) ==
  /\ ThrIsAt(a, "run") /\ thrState[t] = "none" /\ thrMonitor = ThrNone
  /\ thrState' = [thrState EXCEPT ![t] = "new"] /\ thrGroup' = thrGroup \cup {t}
  /\ UNCHANGED <<thrMonitor, thrAt, thrEnding, thrList, thrDestroyed>>

(* It is started at any time or never, by whoever has the object: the        *)
(* heartbeat of a client is created in the thread of the manager, and        *)
(* started in that of the client, after its login.  It is started by one.    *)
ThrWillStart(a, t) ==
  /\ ThrIsAt(a, "run") /\ thrState[t] = "new" /\ thrAt[t].pc = "none"
  /\ \A b \in ThrActors : thrAt[b] # [pc |-> "start", of |-> t]
  /\ ThrGoes(a, "start", t)
  /\ UNCHANGED <<thrState, thrGroup, thrMonitor, thrEnding, thrList, thrDestroyed>>

(* start creates the native thread with the mutex held, and the state comes *)
(* last.                                                                   *)
ThrStarts(a) ==
  /\ ThrIsAt(a, "start") /\ ThrMutexFree(thrAt[a].of) /\ thrState[thrAt[a].of] = "new"
  /\ thrAt' = [thrAt EXCEPT ![a].pc = "starting", ![thrAt[a].of].pc = "born"]
  /\ UNCHANGED <<thrState, thrGroup, thrMonitor, thrEnding, thrList, thrDestroyed>>
ThrStarted(a) ==
  /\ ThrIsAt(a, "starting")
  /\ thrState' = [thrState EXCEPT ![thrAt[a].of] = "runnable"]
  /\ ThrGoes(a, "run", a)
  /\ UNCHANGED <<thrGroup, thrMonitor, thrEnding, thrList, thrDestroyed>>

(* join waits on a condition of the mutex until the thread has stopped, or  *)
(* returns at once if it has not started.                                  *)
ThrJoins(t) ==
  /\ ThrIsAt(ThrMain, "run") /\ thrState[t] # "none"
  /\ ThrGoes(ThrMain, "join", t)
  /\ UNCHANGED <<thrState, thrGroup, thrMonitor, thrEnding, thrList, thrDestroyed>>
ThrJoined ==
  /\ ThrIsAt(ThrMain, "join") /\ ThrMutexFree(thrAt[ThrMain].of) /\ thrState[thrAt[ThrMain].of] # "runnable"
  /\ IF thrEnding THEN ThrGoes(ThrMain, "look", thrAt[ThrMain].of) ELSE ThrGoes(ThrMain, "run", ThrMain)
  /\ UNCHANGED <<thrState, thrGroup, thrMonitor, thrEnding, thrList, thrDestroyed>>

-----------------------------------------------------------------------------
(***************************************************************************)
(* The thread itself: entrance_hook and exit_hook.                         *)
(***************************************************************************)
ThrSetsPriority(t) ==
  /\ \/ ThrIsAt(t, "born") /\ ThrMutexFree(t) /\ ThrGoes(t, "priority", t)
     \/ ThrIsAt(t, "priority") /\ thrMonitor = ThrNone /\ ThrGoes(t, "run", t)
  /\ UNCHANGED <<thrState, thrGroup, thrMonitor, thrEnding, thrList, thrDestroyed>>

ThrReturns(t) ==
  /\ t # ThrMain /\ ThrIsAt(t, "run") /\ ThrGoes(t, "exit", t)
  /\ UNCHANGED <<thrState, thrGroup, thrMonitor, thrEnding, thrList, thrDestroyed>>

(* Mutant: exit_hook does not take the monitor of the group.                *)
HookWithoutGroup(a) ==
  /\ ThrIsAt(a, "exit") /\ ThrGoes(a, "hook", thrAt[a].of)
  /\ UNCHANGED <<thrState, thrGroup, thrMonitor, thrEnding, thrList, thrDestroyed>>

(* exit_hook runs on the thread, or on the main thread that destroys one    *)
(* which was not started: this one keeps its state.                        *)
HookLocksGroup(a) ==
  /\ ThrIsAt(a, "exit") /\ thrMonitor = ThrNone
  /\ thrMonitor' = a /\ ThrGoes(a, "hook", thrAt[a].of)
  /\ UNCHANGED <<thrState, thrGroup, thrEnding, thrList, thrDestroyed>>
HookWakesJoiners(a) ==
  /\ ThrIsAt(a, "hook") /\ ThrMutexFree(thrAt[a].of)
  /\ thrState' = [thrState EXCEPT ![thrAt[a].of] = IF @ = "runnable" THEN "dead" ELSE @]
  /\ ThrGoes(a, "remove", thrAt[a].of)
  /\ UNCHANGED <<thrGroup, thrMonitor, thrEnding, thrList, thrDestroyed>>
HookRemoves(a) ==
  /\ ThrIsAt(a, "remove")
  /\ thrGroup' = thrGroup \ {thrAt[a].of} /\ ThrGoes(a, "release", thrAt[a].of)
  /\ UNCHANGED <<thrState, thrMonitor, thrEnding, thrList, thrDestroyed>>
(* The object is deleted with the last reference.                           *)
HookReleases(a) ==
  /\ ThrIsAt(a, "release")
  /\ thrMonitor' = ThrNone
  /\ IF a # ThrMain THEN ThrGoes(a, "gone", a)
     ELSE ThrGoes(a, IF thrAt[a].of = ThrMain THEN "count" ELSE "next", ThrMain)
  /\ UNCHANGED <<thrState, thrGroup, thrEnding, thrList, thrDestroyed>>

-----------------------------------------------------------------------------
(***************************************************************************)
(* The end of the program: waitTermination.                                *)
(***************************************************************************)
MainEnds ==
  /\ ThrIsAt(ThrMain, "run")
  /\ thrEnding' = TRUE /\ ThrGoes(ThrMain, "exit", ThrMain)
  /\ UNCHANGED <<thrState, thrGroup, thrMonitor, thrList, thrDestroyed>>

MainCounts ==
  /\ ThrIsAt(ThrMain, "count") /\ thrMonitor = ThrNone
  /\ ThrGoes(ThrMain, IF thrGroup = {} THEN "done" ELSE "enumerate", ThrMain)
  /\ UNCHANGED <<thrState, thrGroup, thrMonitor, thrEnding, thrList, thrDestroyed>>
MainEnumerates ==
  /\ ThrIsAt(ThrMain, "enumerate") /\ thrMonitor = ThrNone
  /\ thrList' = thrGroup /\ ThrGoes(ThrMain, "next", ThrMain)
  /\ UNCHANGED <<thrState, thrGroup, thrMonitor, thrEnding, thrDestroyed>>

MainTakesNext ==
  /\ ThrIsAt(ThrMain, "next")
  /\ \/ thrList = {} /\ ThrGoes(ThrMain, "count", ThrMain) /\ UNCHANGED thrList
     \/ \E t \in thrList : thrList' = thrList \ {t} /\ ThrGoes(ThrMain, "join", t)
  /\ UNCHANGED <<thrState, thrGroup, thrMonitor, thrEnding, thrDestroyed>>

(* The state is looked at without the mutex, and again by destroy with it,  *)
(* which leaves the mutex before it calls exit_hook.                       *)
MainLooks ==
  /\ ThrIsAt(ThrMain, "look")
  /\ IF thrState[thrAt[ThrMain].of] = "new" THEN ThrGoes(ThrMain, "destroy", thrAt[ThrMain].of)
                                            ELSE ThrGoes(ThrMain, "next", ThrMain)
  /\ UNCHANGED <<thrState, thrGroup, thrMonitor, thrEnding, thrList, thrDestroyed>>
MainDestroys ==
  /\ ThrIsAt(ThrMain, "destroy") /\ ThrMutexFree(thrAt[ThrMain].of)
  /\ IF thrState[thrAt[ThrMain].of] = "new"
     THEN /\ ThrGoes(ThrMain, "exit", thrAt[ThrMain].of)
          /\ thrDestroyed' = thrDestroyed \cup {thrAt[ThrMain].of}
     ELSE ThrGoes(ThrMain, "next", ThrMain) /\ UNCHANGED thrDestroyed
  /\ UNCHANGED <<thrState, thrGroup, thrMonitor, thrEnding, thrList>>

-----------------------------------------------------------------------------
ThrSteps(a) ==
  \/ ThrStarts(a) \/ ThrStarted(a) \/ ThrReturns(a)
  \/ HookLocksGroup(a) \/ HookWakesJoiners(a) \/ HookRemoves(a) \/ HookReleases(a)
ThrEnds == ThrJoined \/ MainCounts \/ MainEnumerates \/ MainTakesNext \/ MainLooks \/ MainDestroys

ThrNext ==
  \/ \E a \in ThrActors : ThrSteps(a) \/ \E t \in ThrThreads : ThrCreates(a, t) \/ ThrWillStart(a, t)
  \/ \E t \in ThrThreads : ThrJoins(t) \/ ThrSetsPriority(t)
  \/ ThrEnds \/ MainEnds

(* The scheduler runs every thread, and what a thread runs comes to its end.*)
ThrFairness ==
  /\ \A a \in ThrActors : WF_thrVars(ThrSteps(a))
  /\ \A t \in ThrThreads : WF_thrVars(ThrSetsPriority(t))
  /\ WF_thrVars(ThrEnds)

ThrSpec == ThrInit /\ [][ThrNext]_thrVars /\ ThrFairness

-----------------------------------------------------------------------------
(***************************************************************************)
(* Properties.                                                             *)
(***************************************************************************)
(* A thread that main has taken for not started is started all the same,     *)
(* after destroy has looked at its state: main has the monitor of the group  *)
(* and waits for the mutex of the thread, the thread has its mutex and waits *)
(* for the monitor.                                                        *)
ThrCrossed ==
  \E t \in thrDestroyed : /\ thrAt[ThrMain] = [pc |-> "hook", of |-> t]
                          /\ thrAt[t] = [pc |-> "priority", of |-> t]

(* The program ends after its threads and because of them: waitTermination  *)
(* returns, unless it has met a thread as above, and not before every thread *)
(* has left the library that it did not itself take for not started,         *)
(* although a thread tells those who join it before it leaves, and threads    *)
(* are created, started and destroyed meanwhile.                            *)
ProgramEndsWithItsThreads ==
  /\ thrEnding ~> ThrIsAt(ThrMain, "done") \/ []ThrCrossed
  /\ [][ThrIsAt(ThrMain, "done")' => ThrIsAt(ThrMain, "done") \/
         \A t \in ThrThreads \ thrDestroyed : thrAt[t].pc \in {"none", "gone"}]_thrVars

(* "Wait for all threads to terminate, and destroy any unstarted threads"    *)
(* (Thread.cpp, waitTermination).  A thread that is started after all has no *)
(* place in the group, and main does not wait for it; or main waits for ever.*)
ProgramLeavesNobody ==
  [](ThrIsAt(ThrMain, "done") => \A t \in ThrThreads : thrAt[t].pc \in {"none", "gone"})
ProgramAlwaysEnds == thrEnding ~> ThrIsAt(ThrMain, "done")
=============================================================================
