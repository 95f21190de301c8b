---------------------------- MODULE MesaMonitor ----------------------------
(***************************************************************************)
(* What the notes in Monitor.cpp promise: a monitor with Mesa semantics.    *)
(* One thread at a time is inside, as often as it likes.  Notifications are *)
(* kept until the owner leaves or waits, and each then lets one of the      *)
(* threads go that wait at that moment, or all of them; none is lost, and   *)
(* none is kept for a thread that waits later.                             *)
(***************************************************************************)
EXTENDS Integers

CONSTANTS Threads, None

VARIABLES owner, depth, waiting, pending, saved

mesaVars == <<owner, depth, waiting, pending, saved>>
All == -1

MesaInit ==
  /\ owner = None /\ depth = 0 /\ waiting = {} /\ pending = 0
  /\ saved = [t \in Threads |-> 1]

(* A thread comes in, or comes back from wait() to the depth it had.        *)
Enter(t) ==
  /\ owner = None /\ t \notin waiting
  /\ owner' = t /\ depth' = saved[t] /\ pending' = 0
  /\ saved' = [saved EXCEPT ![t] = 1] /\ UNCHANGED waiting

EnterAgain(t) == owner = t /\ depth' = depth + 1 /\ UNCHANGED <<owner, waiting, pending, saved>>
LeaveOnce(t) ==
  owner = t /\ depth > 1 /\ depth' = depth - 1 /\ UNCHANGED <<owner, waiting, pending, saved>>

Notify(t) == /\ owner = t /\ pending' = IF pending = All THEN All ELSE pending + 1
             /\ UNCHANGED <<owner, depth, waiting, saved>>
NotifyAll(t) == owner = t /\ pending' = All /\ UNCHANGED <<owner, depth, waiting, saved>>

(* A notification goes to one who waits, or to nobody if nobody does.       *)
Deliver ==
  /\ owner # None
  /\ \/ /\ pending = All /\ waiting' = {} /\ pending' = 0
     \/ /\ pending > 0 /\ pending' = pending - 1
        /\ IF waiting = {} THEN UNCHANGED waiting
           ELSE \E w \in waiting : waiting' = waiting \ {w}
  /\ UNCHANGED <<owner, depth, saved>>

Leave(t) ==
  /\ owner = t /\ depth = 1 /\ pending = 0
  /\ owner' = None /\ depth' = 0 /\ UNCHANGED <<waiting, pending, saved>>

Wait(t) ==
  /\ owner = t /\ pending = 0
  /\ waiting' = waiting \cup {t} /\ saved' = [saved EXCEPT ![t] = depth]
  /\ owner' = None /\ depth' = 0 /\ UNCHANGED pending

(* The time is up.                                                          *)
WakeUp(t) == t \in waiting /\ waiting' = waiting \ {t} /\ UNCHANGED <<owner, depth, pending, saved>>

MesaNext ==
  \/ Deliver
  \/ \E t \in Threads : \/ Enter(t) \/ EnterAgain(t) \/ LeaveOnce(t) \/ Notify(t) \/ NotifyAll(t)
                        \/ Leave(t) \/ Wait(t) \/ WakeUp(t)

MesaSpec == MesaInit /\ [][MesaNext]_mesaVars
=============================================================================
