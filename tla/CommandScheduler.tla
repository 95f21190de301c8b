-------------------------- MODULE CommandScheduler --------------------------
(***************************************************************************)
(* The scheduler of timed commands (EIBServer/src/CommandScheduler.cpp).   *)
(*                                                                         *)
(* Its thread looks at the earliest command once a minute and sleeps a     *)
(* second at a time in between.  Web requests add commands; the main thread*)
(* closes the scheduler when the server stops.  The monitor of the         *)
(* scheduler is held while a command is added, and from the moment a check *)
(* begins until its last due command has been written - a write that waits *)
(* for the lock of the output handler (EIBHandler, QueueLockFree).         *)
(*                                                                         *)
(* Time is counted in seconds.  The commands are numbered in the order in  *)
(* which they are accepted; the heap breaks ties in an order of its own,   *)
(* which here is that of the numbers.                                      *)
(***************************************************************************)
EXTENDS Integers, Sequences, FiniteSets

CONSTANTS
  Period,      (* seconds between two checks: 60 in the code                 *)
  Nap,         (* ticks that one wait takes at most: wait(1000) ends one or  *)
               (* two ticks of a clock in seconds later                      *)
  MaxCommands, (* bound: commands accepted                                   *)
  MaxDue,      (* bound: times that commands are scheduled for               *)
  MaxTime,     (* bound: the clock                                           *)
  Prompt,      (* whether time passes only while the thread sleeps           *)
  OutputBlocks (* whether the output handler keeps its lock for a while      *)

ASSUME TimesAssumption ==
  Period \in Nat \ {0} /\ Nap \in Nat \ {0} /\ {MaxDue, MaxTime} \subseteq Nat
ASSUME SchedulerBoundsAssumption ==
  MaxCommands \in Nat /\ Prompt \in BOOLEAN /\ OutputBlocks \in BOOLEAN

VARIABLES
  now,      (* the clock                                                     *)
  schedule, (* _schedule                                                     *)
  monitor,  (* who holds the monitor of the scheduler                        *)
  run,      (* the thread: where it is, time_count, the end of its sleep,    *)
            (* and the locals t and cmd of CheckForScheduledCommand          *)
  web,      (* the web request that adds a command                           *)
  main,     (* where the main thread is in CEIBServer::Close                 *)
  stop,     (* _stop                                                         *)
  output,   (* whether the lock of the output handler is free                *)
  accepted, (* history: the number of commands accepted                      *)
  sent      (* history: the commands sent                                    *)

vars == <<now, schedule, monitor, run, web, main, stop, output, accepted, sent>>

Commands == [id : Nat, due : Nat]
NoCommand == [id |-> 0, due |-> 0]

(* The order of the heap, and its top.                                      *)
Before(c, d) == c.due < d.due \/ (c.due = d.due /\ c.id < d.id)
Top(s) == CHOOSE c \in s : \A d \in s \ {c} : Before(c, d)

Init ==
  /\ now = 0
  /\ schedule = {}
  /\ monitor = "free"
  /\ run = [pc |-> "top", next |-> Period, wake |-> 0, t |-> 0, cmd |-> NoCommand]
  /\ web = [pc |-> "idle", due |-> 0]
  /\ main = "serving"
  /\ stop = FALSE
  /\ output = TRUE
  /\ accepted = 0
  /\ sent = <<>>

-----------------------------------------------------------------------------
(***************************************************************************)
(* The thread.                                                             *)
(***************************************************************************)
(* Mutant: the check waits for the second after its time.                   *)
TurnLate ==
  /\ run.pc = "top"
  /\ run' = [run EXCEPT !.pc = IF stop THEN "dead"
                               ELSE IF run.next < now THEN "check" ELSE "nap"]
  /\ UNCHANGED <<now, schedule, monitor, web, main, stop, output, accepted, sent>>

(* The loop condition, and SecondsTo() == 0: the count has run down.        *)
Turn ==
  /\ run.pc = "top"
  /\ run' = [run EXCEPT !.pc = IF stop THEN "dead"
                               ELSE IF run.next <= now THEN "check" ELSE "nap"]
  /\ UNCHANGED <<now, schedule, monitor, web, main, stop, output, accepted, sent>>

CheckBegins ==
  /\ run.pc = "check"
  /\ monitor = "free"
  /\ IF schedule = {}
     THEN run' = [run EXCEPT !.pc = "reset"] /\ UNCHANGED monitor
     ELSE /\ run' = [run EXCEPT !.pc = "loop", !.t = now, !.cmd = Top(schedule)]
          /\ monitor' = "run"
  /\ UNCHANGED <<now, schedule, web, main, stop, output, accepted, sent>>

(* The command at the top is due: it leaves the heap before it is sent.     *)
CheckPops ==
  /\ run.pc = "loop" /\ run.cmd.due <= run.t
  /\ schedule' = schedule \ {Top(schedule)}
  /\ run' = [run EXCEPT !.pc = "send"]
  /\ UNCHANGED <<now, monitor, web, main, stop, output, accepted, sent>>

(* Mutant: the check goes on with the command it has just sent.             *)
CheckSendsAgain ==
  /\ run.pc = "send" /\ output
  /\ sent' = Append(sent, run.cmd)
  /\ IF schedule = {}
     THEN monitor' = "free" /\ run' = [run EXCEPT !.pc = "reset"]
     ELSE run' = [run EXCEPT !.pc = "loop"] /\ UNCHANGED monitor
  /\ UNCHANGED <<now, schedule, web, main, stop, output, accepted>>

CheckSends ==
  /\ run.pc = "send" /\ output
  /\ sent' = Append(sent, run.cmd)
  /\ IF schedule = {}
     THEN monitor' = "free" /\ run' = [run EXCEPT !.pc = "reset"]
     ELSE run' = [run EXCEPT !.pc = "loop", !.cmd = Top(schedule)] /\ UNCHANGED monitor
  /\ UNCHANGED <<now, schedule, web, main, stop, output, accepted>>

CheckEnds ==
  /\ run.pc = "loop" /\ run.cmd.due > run.t
  /\ monitor' = "free"
  /\ run' = [run EXCEPT !.pc = "reset"]
  /\ UNCHANGED <<now, schedule, web, main, stop, output, accepted, sent>>

Reset ==
  /\ run.pc = "reset"
  /\ run' = [run EXCEPT !.pc = "nap", !.next = now + Period]
  /\ UNCHANGED <<now, schedule, monitor, web, main, stop, output, accepted, sent>>

(* wait(1000) releases the monitor it has just taken.                       *)
Sleep ==
  /\ run.pc = "nap"
  /\ monitor = "free"
  /\ \E ticks \in 1 .. Nap : run' = [run EXCEPT !.pc = "wait", !.wake = now + ticks]
  /\ UNCHANGED <<now, schedule, monitor, web, main, stop, output, accepted, sent>>

(* A sleep that would outlast the modelled time ends with it.               *)
WakeUp ==
  /\ run.pc = "wait" /\ (run.wake <= now \/ now = MaxTime)
  /\ monitor = "free"
  /\ run' = [run EXCEPT !.pc = "top"]
  /\ UNCHANGED <<now, schedule, monitor, web, main, stop, output, accepted, sent>>

Scheduler == \/ Turn \/ CheckBegins \/ CheckPops \/ CheckSends \/ CheckEnds
             \/ Reset \/ Sleep \/ WakeUp

-----------------------------------------------------------------------------
(***************************************************************************)
(* AddScheduledCommand: a time that has passed is refused.                 *)
(***************************************************************************)
(* Mutant: the monitor is not taken before the heap is used.                *)
AddWithoutLock(due) ==
  /\ web.pc = "idle" /\ main = "serving" /\ accepted < MaxCommands
  /\ due > now
  /\ web' = [pc |-> "adding", due |-> due]
  /\ UNCHANGED <<now, schedule, monitor, run, main, stop, output, accepted, sent>>

(* Mutant: the past is not refused.                                         *)
AddAtAnyTime(due) ==
  /\ web.pc = "idle" /\ main = "serving" /\ accepted < MaxCommands
  /\ monitor = "free"
  /\ monitor' = "web"
  /\ web' = [pc |-> "adding", due |-> due]
  /\ UNCHANGED <<now, schedule, run, main, stop, output, accepted, sent>>

Add(due) ==
  /\ web.pc = "idle" /\ main = "serving" /\ accepted < MaxCommands
  /\ monitor = "free"
  /\ due > now
  /\ monitor' = "web"
  /\ web' = [pc |-> "adding", due |-> due]
  /\ UNCHANGED <<now, schedule, run, main, stop, output, accepted, sent>>

AddPushes ==
  /\ web.pc = "adding"
  /\ accepted' = accepted + 1
  /\ schedule' = schedule \cup {[id |-> accepted + 1, due |-> web.due]}
  /\ monitor' = IF monitor = "web" THEN "free" ELSE monitor
  /\ web' = [web EXCEPT !.pc = "idle"]
  /\ UNCHANGED <<now, run, main, stop, output, sent>>

(***************************************************************************)
(* Close: the requests that are being handled have ended, _stop is set     *)
(* without the monitor, and the thread is notified if it sleeps.           *)
(***************************************************************************)
CloseSetsStop ==
  /\ main = "serving" /\ web.pc = "idle"
  /\ stop' = TRUE
  /\ main' = "notify"
  /\ UNCHANGED <<now, schedule, monitor, run, web, output, accepted, sent>>

(* Mutant: the monitor is kept for the join.                                *)
CloseKeepsMonitor ==
  /\ main = "notify"
  /\ monitor = "free"
  /\ monitor' = "web"
  /\ run' = IF run.pc = "wait" THEN [run EXCEPT !.wake = now] ELSE run
  /\ main' = "join"
  /\ UNCHANGED <<now, schedule, web, stop, output, accepted, sent>>

CloseNotifies ==
  /\ main = "notify"
  /\ monitor = "free"
  /\ run' = IF run.pc = "wait" THEN [run EXCEPT !.wake = now] ELSE run
  /\ main' = "join"
  /\ UNCHANGED <<now, schedule, monitor, web, stop, output, accepted, sent>>

CloseJoins ==
  /\ main = "join" /\ run.pc = "dead"
  /\ main' = "closed"
  /\ UNCHANGED <<now, schedule, monitor, run, web, stop, output, accepted, sent>>

(***************************************************************************)
(* The clock, and the lock of the output handler.                          *)
(***************************************************************************)
Asleep == run.pc = "dead" \/ (run.pc = "wait" /\ now < run.wake)

Tick ==
  /\ now < MaxTime
  /\ Prompt => Asleep
  /\ now' = now + 1
  /\ UNCHANGED <<schedule, monitor, run, web, main, stop, output, accepted, sent>>

OutputTaken ==
  /\ OutputBlocks /\ output
  /\ output' = FALSE
  /\ UNCHANGED <<now, schedule, monitor, run, web, main, stop, accepted, sent>>

OutputFreed ==
  /\ ~output
  /\ output' = TRUE
  /\ UNCHANGED <<now, schedule, monitor, run, web, main, stop, accepted, sent>>

Next ==
  \/ Scheduler
  \/ \E due \in 1 .. MaxDue : Add(due)
  \/ AddPushes
  \/ CloseSetsStop \/ CloseNotifies \/ CloseJoins
  \/ Tick \/ OutputTaken \/ OutputFreed

Spec == Init /\ [][Next]_vars

(***************************************************************************)
(* Fairness: the threads are scheduled and the clock goes on; a lock that  *)
(* is free again and again is acquired (SF), and the output handler gives  *)
(* its own up in the end (EIBHandler, CallsAndWritesReturn).               *)
(***************************************************************************)
Fairness ==
  /\ WF_vars(Scheduler) /\ SF_vars(CheckSends)
  /\ WF_vars(AddPushes)
  /\ SF_vars(CloseNotifies) /\ WF_vars(CloseJoins)
  /\ WF_vars(Tick) /\ WF_vars(OutputFreed)

FairSpec == Spec /\ Fairness

-----------------------------------------------------------------------------
TypeOK ==
  /\ now \in Nat
  /\ schedule \subseteq Commands
  /\ monitor \in {"free", "run", "web"}
  /\ run \in [pc : {"top", "check", "loop", "send", "reset", "nap", "wait", "dead"},
              next : Nat, wake : Nat, t : Nat, cmd : Commands]
  /\ web \in [pc : {"idle", "adding"}, due : Nat]
  /\ main \in {"serving", "notify", "join", "closed"}
  /\ stop \in BOOLEAN
  /\ output \in BOOLEAN
  /\ accepted \in Nat
  /\ sent \in Seq(Commands)

(* The commands go out in the order of their times, whatever is added       *)
(* between two checks or while one waits for the output handler.            *)
SentInTimeOrder ==
  \A i, j \in 1 .. Len(sent) : i < j => sent[i].due <= sent[j].due

(* Every accepted command is in the heap, in the hands of the thread or     *)
(* sent, and it is sent once and not before its time.                       *)
InHand == IF run.pc = "send" THEN {run.cmd} ELSE {}
ExactlyOnce ==
  /\ {c.id : c \in schedule \cup InHand} \cup {sent[i].id : i \in 1 .. Len(sent)}
       = 1 .. accepted
  /\ \A i, j \in 1 .. Len(sent) : sent[i].id = sent[j].id => i = j
  /\ \A i \in 1 .. Len(sent) : sent[i].due <= now

(* No command waits longer than the period of the checks and the sleep that *)
(* the check comes after, provided that time passes only while the thread   *)
(* sleeps: a thread blocked in Write delays every later command, too.       *)
NeverVeryLate ==
  \A c \in schedule : main = "serving" => now < c.due + Period + Nap - 1

(* Close returns, although its notification is lost when the thread is not  *)
(* asleep, and although the thread may be blocked in the output handler.    *)
CloseReturns == main = "notify" ~> main = "closed"
=============================================================================
