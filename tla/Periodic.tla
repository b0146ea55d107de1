------------------------------ MODULE Periodic ------------------------------
(***************************************************************************)
(* poet/common/task/periodic.go, and the life of the two tasks that a      *)
(* Controller runs on it ("node monitor", "user monitor").                 *)
(*                                                                         *)
(* A thread is a goroutine of a task inside checkedExecute: the one that   *)
(* Controller.Start launched on Start, or one that a timer started.  A     *)
(* timer that has not fired yet is its future thread, waiting at "armed".  *)
(* The mutex `access' makes each critical section one step; Execute runs   *)
(* outside it, so everything else can happen between a thread's steps.     *)
(***************************************************************************)
EXTENDS Naturals

CONSTANTS
  Task,        \* the tasks of one controller
  Thread,      \* goroutines that a task can have at one time
  NoThread,    \* a nil timer
  ExecuteFails \* the tasks whose Execute may return an error

ASSUME PeriodicAssumption ==
  /\ NoThread \notin Thread
  /\ ExecuteFails \subseteq Task

VARIABLES
  running,  \* t.running
  timer,    \* t.timer: the thread that the current timer starts, or nil
  pc,       \* where every thread of every task is
  launched, \* tasks whose Start has taken the lock
  closed    \* tasks on which Close was called after that

vars == <<running, timer, pc, launched, closed>>

PC == {"idle", "armed", "check", "execute", "rearm", "fail"}

TypeOK ==
  /\ running \in [Task -> BOOLEAN]
  /\ timer \in [Task -> Thread \cup {NoThread}]
  /\ pc \in [Task -> [Thread -> PC]]
  /\ launched \subseteq Task
  /\ closed \subseteq Task

Init ==
  /\ running = [k \in Task |-> FALSE]
  /\ timer = [k \in Task |-> NoThread]
  /\ pc = [k \in Task |-> [t \in Thread |-> "idle"]]
  /\ launched = {}
  /\ closed = {}

\* Start, launched once per task by Controller.Start: claim the task, unless
\* it is running, and go on to checkedExecute.
Start(k, t) ==
  /\ k \notin launched
  /\ launched' = launched \cup {k}
  /\ running' = [running EXCEPT ![k] = TRUE]
  /\ pc' = IF running[k] THEN pc ELSE [pc EXCEPT ![k][t] = "check"]
  /\ UNCHANGED <<timer, closed>>

\* A bug: the thread goes on without asking hasClosed.
HasClosedIgnored(k, t) ==
  /\ pc[k][t] = "check"
  /\ pc' = [pc EXCEPT ![k][t] = "execute"]
  /\ UNCHANGED <<running, timer, launched, closed>>

\* checkedExecute, first critical section: hasClosed ends the thread.
HasClosed(k, t) ==
  /\ pc[k][t] = "check"
  /\ pc' = [pc EXCEPT ![k][t] = IF running[k] THEN "execute" ELSE "idle"]
  /\ UNCHANGED <<running, timer, launched, closed>>

\* A bug: the next timer is set before Execute has returned.
ExecuteAfterRearm(k, t) ==
  /\ pc[k][t] = "execute"
  /\ \E n \in Thread :
       /\ pc[k][n] = "idle"
       /\ timer' = [timer EXCEPT ![k] = n]
       /\ pc' = [pc EXCEPT ![k][t] = "rearm", ![k][n] = "armed"]
  /\ UNCHANGED <<running, launched, closed>>

\* t.Execute() returns, with an error or without.
Execute(k, t) ==
  /\ pc[k][t] = "execute"
  /\ \/ pc' = [pc EXCEPT ![k][t] = "rearm"]
     \/ k \in ExecuteFails /\ pc' = [pc EXCEPT ![k][t] = "fail"]
  /\ UNCHANGED <<running, timer, launched, closed>>

\* An error ends the task: running is cleared and no timer is set.
Fail(k, t) ==
  /\ pc[k][t] = "fail"
  /\ running' = [running EXCEPT ![k] = FALSE]
  /\ pc' = [pc EXCEPT ![k][t] = "idle"]
  /\ UNCHANGED <<timer, launched, closed>>

\* A bug: a task that is still running sets no timer.
RearmForgotten(k, t) ==
  /\ pc[k][t] = "rearm"
  /\ pc' = [pc EXCEPT ![k][t] = "idle"]
  /\ UNCHANGED <<running, timer, launched, closed>>

\* Second critical section: set the next timer, unless the task was closed.
Rearm(k, t) ==
  /\ pc[k][t] = "rearm"
  /\ \/ /\ running[k]
        /\ \E n \in Thread :
             /\ n = t \/ pc[k][n] = "idle"
             /\ timer' = [timer EXCEPT ![k] = n]
             /\ pc' = [pc EXCEPT ![k] = [@ EXCEPT ![t] = "idle", ![n] = "armed"]]
     \/ /\ ~running[k]
        /\ pc' = [pc EXCEPT ![k][t] = "idle"]
        /\ UNCHANGED timer
  /\ UNCHANGED <<running, launched, closed>>

\* The timer fires.  t.timer keeps pointing to it.
Fire(k, t) ==
  /\ pc[k][t] = "armed"
  /\ pc' = [pc EXCEPT ![k][t] = "check"]
  /\ UNCHANGED <<running, timer, launched, closed>>

\* Close: a timer that already fired can no longer be stopped.
Close(k) ==
  /\ running' = [running EXCEPT ![k] = FALSE]
  /\ timer' = [timer EXCEPT ![k] = NoThread]
  /\ pc' = IF timer[k] \in Thread /\ pc[k][timer[k]] = "armed"
             THEN [pc EXCEPT ![k][timer[k]] = "idle"]
             ELSE pc
  /\ closed' = closed \cup (launched \cap {k})
  /\ UNCHANGED launched

Step(k, t) ==
  HasClosed(k, t) \/ Execute(k, t) \/ Fail(k, t) \/ Rearm(k, t) \/ Fire(k, t)

Next == \E k \in Task : Close(k) \/ \E t \in Thread : Start(k, t) \/ Step(k, t)

\* Goroutines and timers make progress; nobody has to call Close.
Fairness ==
  \A k \in Task : /\ WF_vars(\E t \in Thread : Start(k, t))
                  /\ WF_vars(\E t \in Thread : Step(k, t))

Spec == Init /\ [][Next]_vars

FairSpec == Spec /\ Fairness

-----------------------------------------------------------------------------
\* A task never has two goroutines alive, so Execute never overlaps itself.
\* Controller's reloadPending, userSyncPending and lastUserList rely on it:
\* they are "only touched from the nodeInfoMonitor goroutine; no lock needed".
NoOverlap ==
  \A k \in Task : \A t, u \in Thread :
    pc[k][t] # "idle" /\ pc[k][u] # "idle" => t = u

\* Once Close was called on a task that had started, no further Execute
\* begins: not even by a timer that had fired before Close could stop it.
NoExecuteAfterClose ==
  [][\A k \in closed, t \in Thread :
       pc'[k][t] = "execute" => pc[k][t] = "execute"]_vars

\* A running task executes again and again: whenever it is running, it runs
\* Execute later, unless Close or an error of Execute stops it.
KeepsTicking ==
  \A k \in Task :
    running[k] ~> (~running[k] \/ \E t \in Thread : pc[k][t] = "execute")

=============================================================================
