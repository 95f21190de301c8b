----------------------------- MODULE JtcMonitor -----------------------------
(***************************************************************************)
(* The monitor of the threads library on POSIX systems: JTCMonitor over     *)
(* JTCRecursiveMutex and JTCCond.  The recursive mutex is two pthread       *)
(* mutexes: m_internal protects the count and the owner, and m_lock is held *)
(* as long as the count is positive - but also by a thread that is between  *)
(* giving up the count and falling asleep, or between waking up and asking  *)
(* for the count again.  A thread that finds the count at zero waits for    *)
(* m_lock with m_internal held.                                            *)
(***************************************************************************)
EXTENDS Integers, FiniteSets

CONSTANTS JtcThreads, JtcNone,
          JtcMaxDepth,      \* bound: how often a thread is inside
          JtcMaxNotify      \* bound: the notifications it asks for

ASSUME JtcAssumption == JtcNone \notin JtcThreads /\ {JtcMaxDepth, JtcMaxNotify} \subseteq Nat

VARIABLES jtcInternal,  \* who holds m_internal
          jtcLock,      \* who holds m_lock
          jtcCount, jtcOwner,
          jtcNotify,    \* m_nnotify
          jtcCond,      \* who sleeps in pthread_cond_wait
          jtcThread     \* where each thread is; its count while it waits; notifications to send

jtcVars == <<jtcInternal, jtcLock, jtcCount, jtcOwner, jtcNotify, jtcCond, jtcThread>>

JtcInit ==
  /\ jtcInternal = JtcNone /\ jtcLock = JtcNone /\ jtcCount = 0 /\ jtcOwner = JtcNone
  /\ jtcNotify = 0 /\ jtcCond = {}
  /\ jtcThread = [t \in JtcThreads |-> [pc |-> "out", count |-> 1, send |-> 0]]

JtcAt(t, pc) == jtcThread[t].pc = pc
JtcGoes(t, pc) == jtcThread' = [jtcThread EXCEPT ![t].pc = pc]

-----------------------------------------------------------------------------
(***************************************************************************)
(* JTCRecursiveMutex.                                                      *)
(***************************************************************************)
(* lock_internal, under m_internal.  The owner counts on; a thread that     *)
(* finds the count at zero takes it and keeps m_internal; another waits     *)
(* until it could have m_lock, and tries again.                            *)
JtcTakes(t) ==
  /\ JtcAt(t, "lock") /\ jtcInternal = JtcNone
  /\ CASE jtcCount = 0 ->
            /\ jtcCount' = jtcThread[t].count /\ jtcOwner' = t /\ jtcInternal' = t
            /\ jtcThread' = [jtcThread EXCEPT ![t] = [@ EXCEPT !.pc = "take", !.count = 1]]
       [] jtcCount # 0 /\ jtcOwner = t ->
            /\ jtcCount' = jtcCount + 1
            /\ JtcGoes(t, "in") /\ UNCHANGED <<jtcOwner, jtcInternal>>
       [] OTHER -> JtcGoes(t, "spin") /\ UNCHANGED <<jtcCount, jtcOwner, jtcInternal>>
  /\ UNCHANGED <<jtcLock, jtcNotify, jtcCond>>

JtcSpins(t) ==
  /\ JtcAt(t, "spin") /\ jtcLock = JtcNone
  /\ JtcGoes(t, "lock")
  /\ UNCHANGED <<jtcInternal, jtcLock, jtcCount, jtcOwner, jtcNotify, jtcCond>>

(* m_lock is had: the monitor starts without notifications, for a thread    *)
(* that comes in as for one that comes back from wait().                    *)
JtcGets(t) ==
  /\ JtcAt(t, "take") /\ jtcLock = JtcNone
  /\ jtcLock' = t /\ jtcInternal' = JtcNone /\ jtcNotify' = 0
  /\ JtcGoes(t, "in")
  /\ UNCHANGED <<jtcCount, jtcOwner, jtcCond>>

(* unlock_internal.                                                         *)
JtcUnlocks(t) ==
  /\ JtcAt(t, "unlock") /\ jtcInternal = JtcNone
  /\ jtcCount' = jtcCount - 1
  /\ IF jtcCount = 1 THEN jtcOwner' = JtcNone /\ jtcLock' = JtcNone /\ JtcGoes(t, "out")
                     ELSE JtcGoes(t, "in") /\ UNCHANGED <<jtcOwner, jtcLock>>
  /\ UNCHANGED <<jtcInternal, jtcNotify, jtcCond>>

-----------------------------------------------------------------------------
(***************************************************************************)
(* JTCMonitor and JTCCond.                                                 *)
(***************************************************************************)
(* What the program does inside.                                           *)
JtcEnters(t) ==
  /\ JtcAt(t, "out") \/ (JtcAt(t, "in") /\ jtcCount < JtcMaxDepth)
  /\ JtcGoes(t, "lock")
  /\ UNCHANGED <<jtcInternal, jtcLock, jtcCount, jtcOwner, jtcNotify, jtcCond>>

JtcNotifies(t) ==
  /\ JtcAt(t, "in")
  /\ \/ jtcNotify \in 0 .. JtcMaxNotify - 1 /\ jtcNotify' = jtcNotify + 1
     \/ jtcNotify # -1 /\ jtcNotify' = -1
  /\ UNCHANGED <<jtcInternal, jtcLock, jtcCount, jtcOwner, jtcCond, jtcThread>>

(* unlock() and wait() send what there is to send: unlock() only at the     *)
(* outermost level, wait() always.                                         *)
JtcLeaves(t) ==
  /\ JtcAt(t, "in")
  /\ jtcThread' = [jtcThread EXCEPT ![t] = IF jtcCount = 1
                     THEN [@ EXCEPT !.pc = "send", !.send = jtcNotify] ELSE [@ EXCEPT !.pc = "unlock"]]
  /\ UNCHANGED <<jtcInternal, jtcLock, jtcCount, jtcOwner, jtcNotify, jtcCond>>

JtcWaits(t) ==
  /\ JtcAt(t, "in")
  /\ jtcThread' = [jtcThread EXCEPT ![t] = [@ EXCEPT !.pc = "send and wait", !.send = jtcNotify]]
  /\ UNCHANGED <<jtcInternal, jtcLock, jtcCount, jtcOwner, jtcNotify, jtcCond>>

(* notify_internal: broadcast() wakes everybody who sleeps, signal() one.    *)
JtcWoken(n) ==
  CASE n = -1 -> {jtcCond}
    [] n > 0 /\ jtcCond # {} -> {{w} : w \in jtcCond}
    [] OTHER -> {{}}
JtcSent(r) ==
  IF r.send > 0 THEN [r EXCEPT !.send = @ - 1]
  ELSE [r EXCEPT !.send = 0, !.pc = IF r.pc = "send" THEN "unlock" ELSE "reset"]

JtcSends(t) ==
  /\ jtcThread[t].pc \in {"send", "send and wait"}
  /\ \E woken \in JtcWoken(jtcThread[t].send) :
       /\ jtcCond' = jtcCond \ woken
       /\ jtcThread' = [w \in JtcThreads |->
            IF w = t THEN JtcSent(jtcThread[t])
            ELSE IF w \in woken THEN [jtcThread[w] EXCEPT !.pc = "woken"] ELSE jtcThread[w]]
  /\ UNCHANGED <<jtcInternal, jtcLock, jtcCount, jtcOwner, jtcNotify>>

(* Mutant: m_lock is left with the count, before the thread sleeps.         *)
JtcResetsAll(t) ==
  /\ JtcAt(t, "reset") /\ jtcInternal = JtcNone
  /\ jtcThread' = [jtcThread EXCEPT ![t] = [@ EXCEPT !.pc = "sleep", !.count = jtcCount]]
  /\ jtcCount' = 0 /\ jtcOwner' = JtcNone /\ jtcLock' = JtcNone
  /\ UNCHANGED <<jtcInternal, jtcNotify, jtcCond>>

(* reset_for_condvar gives the count up, and m_lock is still held.          *)
JtcResets(t) ==
  /\ JtcAt(t, "reset") /\ jtcInternal = JtcNone
  /\ jtcThread' = [jtcThread EXCEPT ![t] = [@ EXCEPT !.pc = "sleep", !.count = jtcCount]]
  /\ jtcCount' = 0 /\ jtcOwner' = JtcNone
  /\ UNCHANGED <<jtcInternal, jtcLock, jtcNotify, jtcCond>>

(* pthread_cond_wait: to sleep and to release m_lock are one step.          *)
JtcSleeps(t) ==
  /\ JtcAt(t, "sleep")
  /\ jtcCond' = jtcCond \cup {t} /\ jtcLock' = JtcNone
  /\ JtcGoes(t, "asleep")
  /\ UNCHANGED <<jtcInternal, jtcCount, jtcOwner, jtcNotify>>

(* The time is up, or pthreads wakes the thread for no reason.              *)
JtcWakesUp(t) ==
  /\ t \in jtcCond
  /\ jtcCond' = jtcCond \ {t} /\ JtcGoes(t, "woken")
  /\ UNCHANGED <<jtcInternal, jtcLock, jtcCount, jtcOwner, jtcNotify>>

(* pthread_cond_wait returns with m_lock, and JTCCondHelper leaves it to    *)
(* ask for the count like everybody else.                                   *)
JtcReturns(t) ==
  /\ JtcAt(t, "woken") /\ jtcLock = JtcNone
  /\ jtcLock' = t /\ JtcGoes(t, "helper")
  /\ UNCHANGED <<jtcInternal, jtcCount, jtcOwner, jtcNotify, jtcCond>>
JtcHelper(t) ==
  /\ JtcAt(t, "helper")
  /\ jtcLock' = JtcNone /\ JtcGoes(t, "lock")
  /\ UNCHANGED <<jtcInternal, jtcCount, jtcOwner, jtcNotify, jtcCond>>

JtcNext ==
  \E t \in JtcThreads :
    \/ JtcTakes(t) \/ JtcSpins(t) \/ JtcGets(t) \/ JtcUnlocks(t)
    \/ JtcEnters(t) \/ JtcNotifies(t) \/ JtcLeaves(t) \/ JtcWaits(t) \/ JtcSends(t)
    \/ JtcResets(t) \/ JtcSleeps(t) \/ JtcWakesUp(t) \/ JtcReturns(t) \/ JtcHelper(t)

JtcSpec == JtcInit /\ [][JtcNext]_jtcVars

-----------------------------------------------------------------------------
(***************************************************************************)
(* Properties.                                                             *)
(***************************************************************************)
(* What the owner has been asked to notify and has not sent yet: nothing    *)
(* until it has m_lock, and nothing again once everything is sent.          *)
JtcPending ==
  IF jtcOwner = JtcNone THEN 0
  ELSE LET o == jtcThread[jtcOwner] IN
       IF o.pc \in {"send", "send and wait"} THEN o.send
       ELSE IF o.pc \in {"take", "reset"} \/ (o.pc = "unlock" /\ jtcCount = 1) THEN 0
       ELSE jtcNotify

(* A thread that has given the count up already waits.                      *)
JtcWaiting == jtcCond \cup {t \in JtcThreads : JtcAt(t, "sleep")}
JtcSaved   == [t \in JtcThreads |-> jtcThread[t].count]

Mesa == INSTANCE MesaMonitor WITH
  Threads <- JtcThreads, None <- JtcNone, owner <- jtcOwner, depth <- jtcCount,
  waiting <- JtcWaiting, pending <- JtcPending, saved <- JtcSaved

(* The two mutexes, the count and the condition variable are a monitor with *)
(* Mesa semantics: one owner, no notification lost to a thread that is on   *)
(* its way to sleep, and a thread comes back to the depth at which it was.  *)
JtcImplementsMesa == Mesa!MesaSpec
=============================================================================
